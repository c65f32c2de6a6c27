---------------------------- MODULE VotingProofs ----------------------------
(***************************************************************************)
(* What voting and producer pay preserve, for all voters, producers,       *)
(* stakes, amounts and times.                                              *)
(*                                                                         *)
(* A tally is a sum over the voters.  The proofs keep, next to the         *)
(* tables, who has cast how much for whom: cast[p][u] is what voter u has  *)
(* cast for producer p, and via[x][u] what it gave proxy x to cast.        *)
(* Between two actions both are what the rows say; within update_votes     *)
(* and propagate_weight_change the voter at hand is ahead of its row.  A   *)
(* change of votes moves one entry and its sum together.                   *)
(*                                                                         *)
(* The chain of calls of propagate_weight_change ends because no chain of  *)
(* proxies comes back to where it began (Acyclic).  It leaves nothing out  *)
(* although it stops at changes of one or less, because weights are even.  *)
(* Shares of vote pay grow at the rate of the tallies, so their total is   *)
(* right at one time if it is at another and the rates add up (Paid).      *)
(***************************************************************************)
EXTENDS ProducerPay, SumProofs

(***************************************************************************)
(* Sums                                                                    *)
(***************************************************************************)
\* The sum of two tables added entry by entry is the sum of their sums.
LEMMA SumAdd ==
  ASSUME NEW S, IsFiniteSet(S), NEW f \in [S -> Int], NEW d \in [S -> Int],
         NEW h \in [S -> Int], \A x \in S : h[x] = f[x] + d[x]
  PROVE  Sum(h, S) = Sum(f, S) + Sum(d, S)
<1>1. PICK g : IsTally(g, f, S)
  BY TallyExists
<1>2. PICK e : IsTally(e, d, S)
  BY TallyExists
<1> DEFINE k == [T \in SUBSET S |-> g[T] + e[T]]
<1>3. k \in [SUBSET S -> Int] /\ k[{}] = 0
  <2>1. \A T \in SUBSET S : g[T] \in Int /\ e[T] \in Int
    BY <1>1, <1>2 DEF IsTally
  <2>2. k[{}] = g[{}] + e[{}]
    OBVIOUS
  <2>3. k \in [SUBSET S -> Int]
    BY <2>1
  <2> HIDE DEF k
  <2> QED BY <1>1, <1>2, <2>2, <2>3 DEF IsTally
<1>4. ASSUME NEW T \in SUBSET S, NEW x \in S \ T
      PROVE  k[T \cup {x}] = k[T] + h[x]
  <2>1. g[T \cup {x}] = g[T] + f[x] /\ g[T] \in Int /\ f[x] \in Int
    BY <1>1, <1>4 DEF IsTally
  <2>2. e[T \cup {x}] = e[T] + d[x] /\ e[T] \in Int /\ d[x] \in Int
    BY <1>2, <1>4 DEF IsTally
  <2>3. k[T \cup {x}] = g[T \cup {x}] + e[T \cup {x}] /\ k[T] = g[T] + e[T]
    BY <1>4
  <2>4. h[x] = f[x] + d[x]
    BY <1>4
  <2> HIDE DEF k
  <2> QED BY <2>1, <2>2, <2>3, <2>4
<1>5. IsTally(k, h, S)
  BY <1>3, <1>4 DEF IsTally
<1>6. SumFunctionOnSet(f, S) = g[S] /\ SumFunctionOnSet(d, S) = e[S]
  BY <1>1, <1>2, SumIsTally
<1>7. SumFunctionOnSet(h, S) = k[S]
  BY <1>5, SumIsTally
<1>8. k[S] = g[S] + e[S]
  OBVIOUS
<1> QED BY <1>6, <1>7, <1>8 DEF Sum

\* The sum over a part of the index set is the sum over all of it of a table
\* that is zero elsewhere.
LEMMA SumOverPart ==
  ASSUME NEW S, IsFiniteSet(S), NEW T \in SUBSET S, NEW f \in [T -> Int],
         NEW h \in [S -> Int], \A x \in S : h[x] = IF x \in T THEN f[x] ELSE 0
  PROVE  Sum(f, T) = Sum(h, S)
<1> DEFINE rest == [x \in S |-> 0]
           e == [x \in T |-> x]
<1>1. IsFiniteSet(T)
  BY FS_Subset
<1>2. Splits(h, S, f, T, rest, e)
  <2>1. e \in [T -> S] /\ rest \in [S -> Int] /\ (\A x \in T : e[x] = x)
    OBVIOUS
  <2>2. \A x \in S : rest[x] = 0
    OBVIOUS
  <2> HIDE DEF rest, e
  <2>3. \A x \in T : f[x] = h[e[x]] /\ rest[e[x]] = 0
    BY <2>1, <2>2
  <2>4. ASSUME NEW t \in S, \A x \in T : e[x] # t
        PROVE  rest[t] = h[t]
    <3>1. t \notin T
      BY <2>1, <2>4
    <3> QED BY <2>2, <3>1
  <2> QED BY <1>1, <2>1, <2>3, <2>4 DEF Splits
<1>3. SumFunctionOnSet(h, S) = SumFunctionOnSet(f, T) + SumFunctionOnSet(rest, S)
  BY <1>2, SumSplit
<1>4. SumFunctionOnSet(rest, S) = 0
  <2>1. rest \in [S -> Int] /\ \A x \in S : rest[x] = 0
    OBVIOUS
  <2> HIDE DEF rest
  <2> QED BY <2>1, SumZero
<1>5. SumFunctionOnSet(f, T) \in Int
  BY <1>1, SumIsInt
<1> QED BY <1>3, <1>4, <1>5 DEF Sum

\* Tables that agree have the same sum.
LEMMA SumEqual ==
  ASSUME NEW S, NEW f \in [S -> Int], NEW h \in [S -> Int], \A x \in S : h[x] = f[x]
  PROVE  Sum(h, S) = Sum(f, S)
<1>1. h = f
  OBVIOUS
<1> QED BY <1>1

\* A sum of amounts is an amount, and no smaller than any of them.
LEMMA SumNat ==
  ASSUME NEW S, IsFiniteSet(S), NEW f \in [S -> Nat]
  PROVE  Sum(f, S) \in Nat /\ \A a \in S : f[a] <= Sum(f, S)
<1>1. f \in [S -> Int]
  OBVIOUS
<1>2. SumFunctionOnSet(f, S) \in Int
  BY <1>1, SumIsInt
<1>3. SumFunctionOnSet(f, S) >= 0 /\ \A a \in S : f[a] <= SumFunctionOnSet(f, S)
  BY SumBound
<1> QED BY <1>2, <1>3 DEF Sum

(***************************************************************************)
(* The tables and what they have to agree on                               *)
(***************************************************************************)
TablesType ==
  [voters : [Voters -> VoterRow \cup {NoRow}],
   producers : [Producers -> ProducerRow \cup {NoRow}],
   producers2 : [Producers -> ProducerRow2 \cup {NoRow}],
   global : GlobalState(Int)]

\* What the voter of a row has cast for p, and what it has given x to cast.
CastBy(row, p) == IF row # NoRow /\ p \in row.producers THEN row.last_vote_weight ELSE 0
PassedBy(row, x) == IF row # NoRow /\ row.proxy = x THEN row.last_vote_weight ELSE 0

\* The tally of a row, and the tallies of all producers.
VotesOf(row) == IF row # NoRow THEN row.total_votes ELSE 0
Tally(s) == [p \in Producers |-> VotesOf(s.producers[p])]

\* The rate at which the shares of a producer grow, and its shares at time t.
EarnsIn(s, p) == s.producers2[p] # NoRow /\ ~ Updated(s.producers[p], s.producers2[p])
RateOf(s, p) == IF EarnsIn(s, p) THEN VotesOf(s.producers[p]) ELSE 0
Rates(s) == [p \in Producers |-> RateOf(s, p)]
SharesOf(s, p, t) ==
  IF s.producers2[p] = NoRow THEN 0
  ELSE s.producers2[p].votepay_share
         + RateOf(s, p) * (t - s.producers2[p].last_votepay_share_update)
Shares(s, t) == [p \in Producers |-> SharesOf(s, p, t)]

\* Times are not in the future, and shares and rates are not negative.
Dated(s, t) ==
  /\ \A p \in Producers : s.producers2[p] # NoRow =>
       /\ s.producers[p] # NoRow
       /\ s.producers2[p].votepay_share >= 0
       /\ s.producers2[p].last_votepay_share_update >= 0
       /\ s.producers2[p].last_votepay_share_update <= t
  /\ s.global.last_vpay_state_update >= 0
  /\ s.global.last_vpay_state_update <= t
  /\ s.global.total_vpay_share_change_rate >= 0
  /\ s.global.total_producer_votepay_share >= 0

\* The total of the shares at time t, as the globals have it.
TotalShare(g, t) ==
  g.total_producer_votepay_share
    + g.total_vpay_share_change_rate * (t - g.last_vpay_state_update)

\* The total of the shares is their sum, at time t and later.
Paid(s, t) ==
  /\ s.global.total_vpay_share_change_rate = Sum(Rates(s), Producers)
  /\ TotalShare(s.global, t) = Sum(Shares(s, t), Producers)

\* The tallies are the sums of cast, voter by voter, and those of proxies the
\* sums of via.
Matrices(cast, via) ==
  /\ cast \in [Producers -> [Voters -> Nat]]
  /\ via \in [Voters -> [Voters -> Nat]]

\* The tallies in the rows and in the globals are the sums of cast and via.
Tallied(s, cast, via) ==
  /\ \A p \in Producers : VotesOf(s.producers[p]) = Sum(cast[p], Voters)
  /\ \A x \in Voters : s.voters[x] # NoRow =>
       s.voters[x].proxied_vote_weight = Sum(via[x], Voters)
  /\ s.global.total_producer_vote_weight = Sum(Tally(s), Producers)

\* cast and via are what the rows say, but for the voters in G.
Agree(s, cast, via, G) ==
  \A u \in Voters \ G :
    /\ \A p \in Producers : cast[p][u] = CastBy(s.voters[u], p)
    /\ \A x \in Voters : via[x][u] = PassedBy(s.voters[u], x)

\* t differs from s in weights, tallies and shares only.
Kept(s, t) ==
  /\ \A u \in Voters :
       /\ t.voters[u] = NoRow <=> s.voters[u] = NoRow
       /\ s.voters[u] # NoRow =>
            /\ t.voters[u].staked = s.voters[u].staked
            /\ t.voters[u].is_proxy = s.voters[u].is_proxy
            /\ t.voters[u].proxy = s.voters[u].proxy
            /\ t.voters[u].producers = s.voters[u].producers
  /\ \A p \in Producers :
       /\ t.producers[p] = NoRow <=> s.producers[p] = NoRow
       /\ t.producers2[p] = NoRow <=> s.producers2[p] = NoRow
       /\ s.producers[p] # NoRow =>
            /\ t.producers[p].is_active = s.producers[p].is_active
            /\ t.producers[p].last_claim_time = s.producers[p].last_claim_time
  /\ t.global.total_activated_stake = s.global.total_activated_stake
  /\ t.global.thresh_activated_stake_time = s.global.thresh_activated_stake_time
  /\ t.global.last_producer_schedule_size = s.global.last_producer_schedule_size

\* No row is the mark for a row that is missing.
LEMMA NoRows ==
  /\ NoRow \notin VoterRow
  /\ NoRow \notin ProducerRow
  /\ NoRow \notin ProducerRow2
BY VotingAssumption

\* The voters are finitely many, the producers among them too.
LEMMA TablesFinite == IsFiniteSet(Voters) /\ IsFiniteSet(Producers)
BY VotingAssumption

\* What two changes leave alone, both together leave alone.
LEMMA KeptTrans ==
  ASSUME NEW s, NEW t, NEW u, Kept(s, t), Kept(t, u)
  PROVE  Kept(s, u)
BY DEF Kept

\* update_total_votepay_share, field by field.
LEMMA UpdateTotal ==
  ASSUME NEW g \in GlobalState(Int), NEW ct \in Int, NEW shares \in Int, NEW rate \in Int,
         g.last_vpay_state_update <= ct,
         NEW u, u = UpdateTotalShare(g, ct, shares, rate)
  PROVE  /\ u \in GlobalState(Int)
         /\ u.total_producer_vote_weight = g.total_producer_vote_weight
         /\ u.total_activated_stake = g.total_activated_stake
         /\ u.thresh_activated_stake_time = g.thresh_activated_stake_time
         /\ u.last_producer_schedule_size = g.last_producer_schedule_size
         /\ u.last_vpay_state_update = ct
         /\ u.total_vpay_share_change_rate = larger(0, g.total_vpay_share_change_rate + rate)
         /\ u.total_producer_votepay_share = larger(0, TotalShare(g, ct) + shares)
<1> DEFINE grown == IF ct > g.last_vpay_state_update
                    THEN g.total_vpay_share_change_rate * (ct - g.last_vpay_state_update)
                    ELSE 0
           a == larger(0, g.total_producer_votepay_share + shares + grown)
           b == larger(0, g.total_vpay_share_change_rate + rate)
<1>1. /\ g.total_producer_votepay_share \in Int /\ g.total_vpay_share_change_rate \in Int
      /\ g.last_vpay_state_update \in Int
  BY DEF GlobalState
<1>2. grown = g.total_vpay_share_change_rate * (ct - g.last_vpay_state_update)
  <2>1. CASE ct > g.last_vpay_state_update
    BY <2>1
  <2>2. CASE ct = g.last_vpay_state_update
    BY <2>2, <1>1
  <2> QED BY <1>1, <2>1, <2>2
<1>3. grown \in Int
  BY <1>1, <1>2
<1>4. u = [g EXCEPT !.total_producer_votepay_share = a,
                    !.total_vpay_share_change_rate = b, !.last_vpay_state_update = ct]
  BY DEF UpdateTotalShare
<1>5. a = larger(0, TotalShare(g, ct) + shares)
  <2>1. g.total_producer_votepay_share + shares + grown
          = (g.total_producer_votepay_share + grown) + shares
    <3> HIDE DEF grown
    <3> QED BY <1>1, <1>3
  <2> QED BY <2>1, <1>2 DEF TotalShare
<1>6. a \in Int /\ b \in Int
  <2> HIDE DEF grown
  <2> QED BY <1>1, <1>3 DEF larger
<1> HIDE DEF a, b
<1>7. u \in GlobalState(Int)
  BY <1>4, <1>6 DEF GlobalState
<1>8. u.total_producer_votepay_share = a /\ u.total_vpay_share_change_rate = b
      /\ u.last_vpay_state_update = ct
  BY <1>4 DEF GlobalState
<1>9. /\ u.total_producer_vote_weight = g.total_producer_vote_weight
      /\ u.total_activated_stake = g.total_activated_stake
      /\ u.thresh_activated_stake_time = g.thresh_activated_stake_time
      /\ u.last_producer_schedule_size = g.last_producer_schedule_size
  BY <1>4 DEF GlobalState
<1>10. b = larger(0, g.total_vpay_share_change_rate + rate)
  BY DEF b
<1> QED BY <1>5, <1>7, <1>8, <1>9, <1>10

(***************************************************************************)
(* ChangeVotes                                                             *)
(***************************************************************************)
CountedIn(s, P) == {p \in P : s.producers2[p] # NoRow}
\* The producers in P that go on earning shares, and those whose shares expire now.
EarningIn(s, P, ct) == {p \in CountedIn(s, P) : ~ Crossed(s.producers[p], ct)}
ExpiresIn(s, P, ct) ==
  {p \in CountedIn(s, P) \ EarningIn(s, P, ct) : ~ Updated(s.producers[p], s.producers2[p])}
\* The share of p brought to the present, and what the totals lose and gain.
ShareIn(s, P, ct, p) ==
  NewShare(s.producers2[p], ct,
    IF p \in EarningIn(s, P, ct) \cup ExpiresIn(s, P, ct) THEN s.producers[p].total_votes ELSE 0)
LostIn(s, P, ct) == Sum([p \in ExpiresIn(s, P, ct) |-> Expired(s, p, ct)], ExpiresIn(s, P, ct))
GainedIn(s, P, ct, delta) ==
  Sum([p \in EarningIn(s, P, ct) |-> delta[p]], EarningIn(s, P, ct))
  - Sum([p \in ExpiresIn(s, P, ct) |-> s.producers[p].total_votes], ExpiresIn(s, P, ct))

\* What ChangeVotes may be called with.
MayChange(s, P, delta, ct) ==
  /\ s \in TablesType /\ Dated(s, ct)
  /\ ct \in Nat
  /\ P \subseteq Producers
  /\ delta \in [P -> Int]
  /\ \A p \in P : s.producers[p] # NoRow
  /\ \A p \in Producers : VotesOf(s.producers[p]) \in Nat

\* What it makes of the rows and of the globals.
RowsAfter(s, P, delta) ==
  [p \in Producers |->
     IF p \in P
     THEN [s.producers[p] EXCEPT !.total_votes = s.producers[p].total_votes + delta[p]]
     ELSE s.producers[p]]

SharesAfter(s, P, ct) ==
  [p \in Producers |->
     IF p \in CountedIn(s, P)
     THEN [votepay_share |-> IF p \in ExpiresIn(s, P, ct) THEN 0 ELSE ShareIn(s, P, ct, p),
           last_votepay_share_update |-> ct]
     ELSE s.producers2[p]]

TotalAfter(s, P, delta) ==
  [s.global EXCEPT !.total_producer_vote_weight =
     s.global.total_producer_vote_weight + Sum(delta, P)]

GlobalAfter(s, P, delta, ct) ==
  UpdateTotalShare(TotalAfter(s, P, delta), ct, - LostIn(s, P, ct), GainedIn(s, P, ct, delta))

\* The tables that ChangeVotes leaves, table by table.
LEMMA ChangeVotesFields ==
  ASSUME NEW s, NEW P, NEW delta, NEW ct, MayChange(s, P, delta, ct),
         NEW t, t = ChangeVotes(s, delta, ct)
  PROVE  /\ t = [voters |-> s.voters, producers |-> RowsAfter(s, P, delta),
                 producers2 |-> SharesAfter(s, P, ct), global |-> GlobalAfter(s, P, delta, ct)]
         /\ t.voters = s.voters
         /\ t.producers = RowsAfter(s, P, delta)
         /\ t.producers2 = SharesAfter(s, P, ct)
         /\ t.global = GlobalAfter(s, P, delta, ct)
<1>1. DOMAIN delta = P
  BY DEF MayChange
<1>2. s = [voters |-> s.voters, producers |-> s.producers, producers2 |-> s.producers2,
           global |-> s.global]
  BY DEF MayChange, TablesType
<1>3. t = [s EXCEPT !.producers = RowsAfter(s, P, delta), !.producers2 = SharesAfter(s, P, ct),
                    !.global = GlobalAfter(s, P, delta, ct)]
  BY <1>1, Zenon DEF ChangeVotes, RowsAfter, SharesAfter, GlobalAfter, TotalAfter, CountedIn,
                     EarningIn, ExpiresIn, ShareIn, LostIn, GainedIn
<1> QED BY <1>2, <1>3

\* What the rows of a producer hold before a change of votes.
LEMMA MayChangeRows ==
  ASSUME NEW s, NEW P, NEW delta, NEW ct, MayChange(s, P, delta, ct), NEW p \in Producers
  PROVE  /\ s.producers[p] # NoRow => /\ s.producers[p] \in ProducerRow
                                      /\ s.producers[p].total_votes \in Nat
                                      /\ s.producers[p].last_claim_time \in Int
         /\ s.producers2[p] # NoRow => /\ s.producers2[p] \in ProducerRow2
                                       /\ s.producers[p] # NoRow
                                       /\ s.producers2[p].votepay_share \in Nat
                                       /\ s.producers2[p].last_votepay_share_update \in Nat
                                       /\ s.producers2[p].last_votepay_share_update <= ct
         /\ p \in P => delta[p] \in Int
<1>1. s.producers[p] # NoRow => s.producers[p] \in ProducerRow
  BY DEF MayChange, TablesType
<1>2. s.producers[p] # NoRow => s.producers[p].total_votes \in Nat
  BY DEF MayChange, VotesOf
<1>3. s.producers2[p] # NoRow => s.producers2[p] \in ProducerRow2
  BY DEF MayChange, TablesType
<1>4. s.producers2[p] # NoRow => /\ s.producers[p] # NoRow
                                 /\ s.producers2[p].votepay_share >= 0
                                 /\ s.producers2[p].last_votepay_share_update >= 0
                                 /\ s.producers2[p].last_votepay_share_update <= ct
  BY DEF MayChange, Dated
<1> QED BY <1>1, <1>2, <1>3, <1>4 DEF MayChange, ProducerRow, ProducerRow2

\* A producer is in at most one of the sets, and which it is in says at what
\* rate it earned before and earns after.
LEMMA EarnsBefore ==
  ASSUME NEW s, NEW P, NEW delta, NEW ct, MayChange(s, P, delta, ct), NEW p \in P
  PROVE  /\ p \in EarningIn(s, P, ct) => p \notin ExpiresIn(s, P, ct)
         /\ RateOf(s, p) = IF p \in EarningIn(s, P, ct) \cup ExpiresIn(s, P, ct)
                           THEN s.producers[p].total_votes ELSE 0
<1>0. p \in Producers /\ s.producers[p] # NoRow
  BY DEF MayChange
<1>1. /\ s.producers[p].last_claim_time \in Int
      /\ s.producers2[p] # NoRow => /\ s.producers2[p].last_votepay_share_update \in Nat
                                    /\ s.producers2[p].last_votepay_share_update <= ct
  BY <1>0, MayChangeRows
<1>2. p \in EarningIn(s, P, ct) <=>
        s.producers2[p] # NoRow /\ ~ (s.producers[p].last_claim_time + ThreeDays <= ct)
  BY DEF EarningIn, CountedIn, Crossed
<1>3. p \in ExpiresIn(s, P, ct) <=>
        /\ s.producers2[p] # NoRow /\ s.producers[p].last_claim_time + ThreeDays <= ct
        /\ ~ (s.producers[p].last_claim_time + ThreeDays
                <= s.producers2[p].last_votepay_share_update)
  BY <1>2 DEF ExpiresIn, CountedIn, Updated
<1>4. ThreeDays \in Nat /\ ct \in Nat
  BY VotingAssumption DEF MayChange
<1>5. EarnsIn(s, p) <=> p \in EarningIn(s, P, ct) \cup ExpiresIn(s, P, ct)
  BY <1>1, <1>2, <1>3, <1>4 DEF EarnsIn, Updated
<1>6. VotesOf(s.producers[p]) = s.producers[p].total_votes
  BY <1>0 DEF VotesOf
<1> QED BY <1>2, <1>3, <1>5, <1>6 DEF RateOf

\* Brought to the present, the shares of a producer are what it has at that rate.
LEMMA ShareIsNow ==
  ASSUME NEW s, NEW P, NEW delta, NEW ct, MayChange(s, P, delta, ct),
         NEW p \in CountedIn(s, P)
  PROVE  /\ ShareIn(s, P, ct, p) = SharesOf(s, p, ct)
         /\ ShareIn(s, P, ct, p) \in Nat
<1>0. p \in P /\ p \in Producers /\ s.producers2[p] # NoRow
  BY DEF CountedIn, MayChange
<1> DEFINE r == RateOf(s, p)
           l == s.producers2[p].last_votepay_share_update
<1>1. s.producers[p].total_votes \in Nat /\ l \in Nat /\ l <= ct /\ ct \in Nat
      /\ s.producers2[p].votepay_share \in Nat
  BY <1>0, MayChangeRows DEF MayChange
<1>2. r = IF p \in EarningIn(s, P, ct) \cup ExpiresIn(s, P, ct)
          THEN s.producers[p].total_votes ELSE 0
  BY <1>0, EarnsBefore
<1>3. r \in Nat
  BY <1>1, <1>2
<1>4. ShareIn(s, P, ct, p) = NewShare(s.producers2[p], ct, r)
  BY <1>2 DEF ShareIn
<1> HIDE DEF r
<1>5. (IF r > 0 /\ ct > l THEN r * (ct - l) ELSE 0) = r * (ct - l)
  <2>1. CASE r = 0
    BY <2>1, <1>1
  <2>2. CASE ct = l
    BY <2>2, <1>1, <1>3
  <2>3. CASE r > 0 /\ ct > l
    BY <2>3
  <2> QED BY <1>1, <1>3, <2>1, <2>2, <2>3
<1>6. r * (ct - l) \in Nat
  <2>1. ct - l \in Nat
    BY <1>1
  <2> QED BY <1>3, <2>1
<1>7. ShareIn(s, P, ct, p) = s.producers2[p].votepay_share + r * (ct - l)
  BY <1>4, <1>5 DEF NewShare
<1>8. SharesOf(s, p, ct) = s.producers2[p].votepay_share + r * (ct - l)
  BY <1>0 DEF SharesOf, r
<1> HIDE DEF l
<1> QED BY <1>1, <1>6, <1>7, <1>8

\* What is lost and gained are numbers.
LEMMA LostAndGained ==
  ASSUME NEW s, NEW P, NEW delta, NEW ct, MayChange(s, P, delta, ct)
  PROVE  /\ LostIn(s, P, ct) \in Int
         /\ GainedIn(s, P, ct, delta) \in Int
         /\ Sum(delta, P) \in Int
         /\ IsFiniteSet(P) /\ IsFiniteSet(EarningIn(s, P, ct)) /\ IsFiniteSet(ExpiresIn(s, P, ct))
         /\ \A p \in ExpiresIn(s, P, ct) : Expired(s, p, ct) = SharesOf(s, p, ct)
                                           /\ Expired(s, p, ct) \in Nat
<1>1. IsFiniteSet(P) /\ P \subseteq Producers
  BY TablesFinite, FS_Subset DEF MayChange
<1>2. /\ EarningIn(s, P, ct) \subseteq P /\ ExpiresIn(s, P, ct) \subseteq P
      /\ ExpiresIn(s, P, ct) \subseteq CountedIn(s, P)
  BY DEF EarningIn, ExpiresIn, CountedIn
<1>3. IsFiniteSet(EarningIn(s, P, ct)) /\ IsFiniteSet(ExpiresIn(s, P, ct))
  BY <1>1, <1>2, FS_Subset
<1>4. ASSUME NEW p \in ExpiresIn(s, P, ct)
      PROVE  Expired(s, p, ct) = SharesOf(s, p, ct) /\ Expired(s, p, ct) \in Nat
  <2>1. p \in CountedIn(s, P)
    BY <1>2
  <2>2. ShareIn(s, P, ct, p) = SharesOf(s, p, ct) /\ ShareIn(s, P, ct, p) \in Nat
    BY <2>1, ShareIsNow
  <2>3. ShareIn(s, P, ct, p) = Expired(s, p, ct)
    BY DEF ShareIn, Expired
  <2> QED BY <2>2, <2>3
<1>5. LostIn(s, P, ct) \in Int
  <2> DEFINE X == ExpiresIn(s, P, ct)
             f == [p \in X |-> Expired(s, p, ct)]
  <2>1. f \in [X -> Int]
    BY <1>4
  <2> HIDE DEF f
  <2>2. SumFunctionOnSet(f, X) \in Int
    BY <1>3, <2>1, SumIsInt
  <2> QED BY <2>2 DEF LostIn, Sum, f
<1>6. GainedIn(s, P, ct, delta) \in Int
  <2> DEFINE X == ExpiresIn(s, P, ct)
             E == EarningIn(s, P, ct)
             f == [p \in X |-> s.producers[p].total_votes]
             h == [p \in E |-> delta[p]]
  <2>1. f \in [X -> Int] /\ h \in [E -> Int]
    <3>1. \A p \in P : s.producers[p].total_votes \in Nat /\ delta[p] \in Int
      BY <1>1, MayChangeRows DEF MayChange
    <3> QED BY <1>2, <3>1
  <2>2. GainedIn(s, P, ct, delta) = Sum(h, E) - Sum(f, X)
    BY DEF GainedIn
  <2> HIDE DEF f, h, X, E
  <2>3. SumFunctionOnSet(f, X) \in Int /\ SumFunctionOnSet(h, E) \in Int
    BY <1>3, <2>1, SumIsInt DEF X, E
  <2> QED BY <2>2, <2>3 DEF Sum
<1>7. Sum(delta, P) \in Int
  BY <1>1, SumIsInt DEF Sum, MayChange
<1> QED BY <1>1, <1>3, <1>4, <1>5, <1>6, <1>7

\* The globals after a change of votes.
LEMMA ChangeVotesGlobal ==
  ASSUME NEW s, NEW P, NEW delta, NEW ct, MayChange(s, P, delta, ct),
         NEW t, t = ChangeVotes(s, delta, ct)
  PROVE  /\ t.global \in GlobalState(Int)
         /\ t.global.total_producer_vote_weight
              = s.global.total_producer_vote_weight + Sum(delta, P)
         /\ t.global.total_activated_stake = s.global.total_activated_stake
         /\ t.global.thresh_activated_stake_time = s.global.thresh_activated_stake_time
         /\ t.global.last_producer_schedule_size = s.global.last_producer_schedule_size
         /\ t.global.last_vpay_state_update = ct
         /\ t.global.total_vpay_share_change_rate
              = larger(0, s.global.total_vpay_share_change_rate + GainedIn(s, P, ct, delta))
         /\ t.global.total_producer_votepay_share
              = larger(0, TotalShare(s.global, ct) + - LostIn(s, P, ct))
<1> DEFINE g == TotalAfter(s, P, delta)
<1>1. t.global = UpdateTotalShare(g, ct, - LostIn(s, P, ct), GainedIn(s, P, ct, delta))
  BY ChangeVotesFields DEF GlobalAfter
<1>2. s.global \in GlobalState(Int) /\ ct \in Int /\ s.global.last_vpay_state_update <= ct
  BY DEF MayChange, TablesType, Dated
<1>3. LostIn(s, P, ct) \in Int /\ GainedIn(s, P, ct, delta) \in Int /\ Sum(delta, P) \in Int
  BY LostAndGained
<1> DEFINE n == s.global.total_producer_vote_weight + Sum(delta, P)
<1>4. n \in Int
  BY <1>2, <1>3 DEF GlobalState
<1>5. g = [s.global EXCEPT !.total_producer_vote_weight = n]
  BY DEF TotalAfter
<1> HIDE DEF n
<1>6. /\ g \in GlobalState(Int)
      /\ g.total_producer_vote_weight = n
      /\ g.total_activated_stake = s.global.total_activated_stake
      /\ g.thresh_activated_stake_time = s.global.thresh_activated_stake_time
      /\ g.last_producer_schedule_size = s.global.last_producer_schedule_size
      /\ g.last_vpay_state_update = s.global.last_vpay_state_update
      /\ g.total_vpay_share_change_rate = s.global.total_vpay_share_change_rate
      /\ g.total_producer_votepay_share = s.global.total_producer_votepay_share
  BY <1>2, <1>4, <1>5 DEF GlobalState
<1>7. TotalShare(g, ct) = TotalShare(s.global, ct)
  BY <1>6 DEF TotalShare
<1> HIDE DEF g
<1>8. g.last_vpay_state_update <= ct /\ - LostIn(s, P, ct) \in Int
  BY <1>2, <1>3, <1>6
<1> DEFINE a == - LostIn(s, P, ct)
           b == GainedIn(s, P, ct, delta)
<1>9. a \in Int /\ b \in Int /\ t.global = UpdateTotalShare(g, ct, a, b)
  BY <1>1, <1>3, <1>8
<1>10. a = - LostIn(s, P, ct) /\ b = GainedIn(s, P, ct, delta)
  OBVIOUS
<1> HIDE DEF a, b
<1>11. /\ t.global \in GlobalState(Int)
       /\ t.global.total_producer_vote_weight = g.total_producer_vote_weight
       /\ t.global.total_activated_stake = g.total_activated_stake
       /\ t.global.thresh_activated_stake_time = g.thresh_activated_stake_time
       /\ t.global.last_producer_schedule_size = g.last_producer_schedule_size
       /\ t.global.last_vpay_state_update = ct
       /\ t.global.total_vpay_share_change_rate = larger(0, g.total_vpay_share_change_rate + b)
       /\ t.global.total_producer_votepay_share = larger(0, TotalShare(g, ct) + a)
  BY <1>2, <1>6, <1>8, <1>9, UpdateTotal
<1>12. n = s.global.total_producer_vote_weight + Sum(delta, P)
  BY DEF n
<1> QED BY <1>6, <1>7, <1>10, <1>11, <1>12

\* The rows after a change of votes.
RowChanged(s, t, P, delta, p) ==
  /\ t.producers[p] = NoRow <=> s.producers[p] = NoRow
  /\ t.producers[p] # NoRow =>
       /\ t.producers[p] \in ProducerRow
       /\ t.producers[p].total_votes
            = s.producers[p].total_votes + (IF p \in P THEN delta[p] ELSE 0)
       /\ t.producers[p].is_active = s.producers[p].is_active
       /\ t.producers[p].last_claim_time = s.producers[p].last_claim_time

SharesChanged(s, t, P, ct, p) ==
  /\ t.producers2[p] = NoRow <=> s.producers2[p] = NoRow
  /\ p \in CountedIn(s, P) =>
       t.producers2[p] = [votepay_share |-> IF p \in ExpiresIn(s, P, ct) THEN 0
                                            ELSE SharesOf(s, p, ct),
                          last_votepay_share_update |-> ct]
  /\ p \notin CountedIn(s, P) => t.producers2[p] = s.producers2[p]
  /\ t.producers2[p] # NoRow => t.producers2[p] \in ProducerRow2

\* Each row after a change of votes.
LEMMA ChangeVotesRows ==
  ASSUME NEW s, NEW P, NEW delta, NEW ct, MayChange(s, P, delta, ct),
         NEW t, t = ChangeVotes(s, delta, ct), NEW p \in Producers
  PROVE  RowChanged(s, t, P, delta, p) /\ SharesChanged(s, t, P, ct, p)
<1>1. t.producers[p] = IF p \in P
                       THEN [s.producers[p] EXCEPT !.total_votes =
                               s.producers[p].total_votes + delta[p]]
                       ELSE s.producers[p]
  <2>1. t.producers = RowsAfter(s, P, delta)
    BY ChangeVotesFields
  <2> QED BY <2>1 DEF RowsAfter
<1>2. t.producers2[p] = IF p \in CountedIn(s, P)
              THEN [votepay_share |-> IF p \in ExpiresIn(s, P, ct) THEN 0
                                      ELSE ShareIn(s, P, ct, p),
                    last_votepay_share_update |-> ct]
              ELSE s.producers2[p]
  <2>1. t.producers2 = SharesAfter(s, P, ct)
    BY ChangeVotesFields
  <2> QED BY <2>1 DEF SharesAfter
<1>3. /\ s.producers[p] # NoRow => s.producers[p] \in ProducerRow
      /\ s.producers2[p] # NoRow => s.producers2[p] \in ProducerRow2
      /\ p \in P => delta[p] \in Int /\ s.producers[p] # NoRow
      /\ ct \in Int
  BY MayChangeRows DEF MayChange
<1>4. p \in CountedIn(s, P) => /\ ShareIn(s, P, ct, p) = SharesOf(s, p, ct)
                               /\ SharesOf(s, p, ct) \in Nat
                               /\ s.producers2[p] # NoRow
  <2>1. ASSUME p \in CountedIn(s, P)
        PROVE  ShareIn(s, P, ct, p) = SharesOf(s, p, ct) /\ ShareIn(s, P, ct, p) \in Nat
    BY <2>1, ShareIsNow
  <2>2. p \in CountedIn(s, P) => s.producers2[p] # NoRow
    BY DEF CountedIn
  <2> QED BY <2>1, <2>2
<1>5. CASE p \in P
  <2> DEFINE n == s.producers[p].total_votes + delta[p]
  <2>1. t.producers[p] = [s.producers[p] EXCEPT !.total_votes = n]
    BY <1>1, <1>5
  <2>2. n \in Int
    BY <1>3, <1>5 DEF ProducerRow
  <2>3. n = s.producers[p].total_votes + (IF p \in P THEN delta[p] ELSE 0)
    BY <1>5
  <2> HIDE DEF n
  <2>4. /\ t.producers[p] \in ProducerRow
        /\ t.producers[p].total_votes = n
        /\ t.producers[p].is_active = s.producers[p].is_active
        /\ t.producers[p].last_claim_time = s.producers[p].last_claim_time
    BY <1>3, <1>5, <2>1, <2>2 DEF ProducerRow
  <2>5. t.producers[p] # NoRow /\ s.producers[p] # NoRow
    BY <1>3, <1>5, <2>4, NoRows
  <2>6. /\ t.producers2[p] = NoRow <=> s.producers2[p] = NoRow
        /\ p \in CountedIn(s, P) =>
              t.producers2[p] = [votepay_share |-> IF p \in ExpiresIn(s, P, ct) THEN 0
                                                   ELSE SharesOf(s, p, ct),
                                 last_votepay_share_update |-> ct]
        /\ p \notin CountedIn(s, P) => t.producers2[p] = s.producers2[p]
        /\ t.producers2[p] # NoRow => t.producers2[p] \in ProducerRow2
    <3>1. CASE p \in CountedIn(s, P)
      <4>1. t.producers2[p] = [votepay_share |-> IF p \in ExpiresIn(s, P, ct) THEN 0
                                                   ELSE SharesOf(s, p, ct),
                                 last_votepay_share_update |-> ct]
        BY <1>2, <1>4, <3>1
      <4>2. t.producers2[p] \in ProducerRow2
        BY <1>3, <1>4, <3>1, <4>1 DEF ProducerRow2
      <4> QED BY <1>4, <3>1, <4>1, <4>2, NoRows
    <3>2. CASE p \notin CountedIn(s, P)
      BY <1>2, <1>3, <3>2
    <3> QED BY <3>1, <3>2
  <2> QED BY <2>3, <2>4, <2>5, <2>6 DEF RowChanged, SharesChanged
<1>6. CASE p \notin P
  <2>1. p \notin CountedIn(s, P)
    BY <1>6 DEF CountedIn
  <2>2. t.producers[p] = s.producers[p] /\ t.producers2[p] = s.producers2[p]
    BY <1>1, <1>2, <1>6, <2>1
  <2>3. s.producers[p] # NoRow => s.producers[p].total_votes \in Int
    BY <1>3 DEF ProducerRow
  <2> QED BY <1>3, <1>6, <2>1, <2>2, <2>3 DEF RowChanged, SharesChanged
<1> QED BY <1>5, <1>6

\* A change of votes leaves tables, and touches tallies and shares only.
LEMMA ChangeVotesTyped ==
  ASSUME NEW s, NEW P, NEW delta, NEW ct, MayChange(s, P, delta, ct),
         NEW t, t = ChangeVotes(s, delta, ct)
  PROVE  /\ t \in TablesType /\ Dated(t, ct)
         /\ t.voters = s.voters
         /\ Kept(s, t)
<1>1. /\ t = [voters |-> s.voters, producers |-> RowsAfter(s, P, delta),
              producers2 |-> SharesAfter(s, P, ct), global |-> GlobalAfter(s, P, delta, ct)]
      /\ t.voters = s.voters
      /\ t.producers = RowsAfter(s, P, delta)
      /\ t.producers2 = SharesAfter(s, P, ct)
  BY ChangeVotesFields
<1>2. t.global = GlobalAfter(s, P, delta, ct)
  BY ChangeVotesFields
<1>3. \A p \in Producers : RowChanged(s, t, P, delta, p) /\ SharesChanged(s, t, P, ct, p)
  BY ChangeVotesRows
<1>4. /\ t.global \in GlobalState(Int)
      /\ t.global.total_activated_stake = s.global.total_activated_stake
      /\ t.global.thresh_activated_stake_time = s.global.thresh_activated_stake_time
      /\ t.global.last_producer_schedule_size = s.global.last_producer_schedule_size
      /\ t.global.last_vpay_state_update = ct
  BY ChangeVotesGlobal
<1>5. /\ t.global.total_vpay_share_change_rate
           = larger(0, s.global.total_vpay_share_change_rate + GainedIn(s, P, ct, delta))
      /\ t.global.total_producer_votepay_share
           = larger(0, TotalShare(s.global, ct) + - LostIn(s, P, ct))
  BY ChangeVotesGlobal
<1>6. t \in TablesType
  <2>1. s.voters \in [Voters -> VoterRow \cup {NoRow}]
    BY DEF MayChange, TablesType
  <2>2. t.producers \in [Producers -> ProducerRow \cup {NoRow}]
    <3>1. \A p \in Producers : t.producers[p] \in ProducerRow \cup {NoRow}
      BY <1>3 DEF RowChanged
    <3>2. t.producers = [p \in Producers |-> t.producers[p]]
      BY <1>1 DEF RowsAfter
    <3> QED BY <3>1, <3>2
  <2>3. t.producers2 \in [Producers -> ProducerRow2 \cup {NoRow}]
    <3>1. \A p \in Producers : t.producers2[p] \in ProducerRow2 \cup {NoRow}
      BY <1>3 DEF SharesChanged
    <3>2. t.producers2 = [p \in Producers |-> t.producers2[p]]
      BY <1>1 DEF SharesAfter
    <3> QED BY <3>1, <3>2
  <2>4. t = [voters |-> t.voters, producers |-> t.producers, producers2 |-> t.producers2,
             global |-> t.global]
    BY <1>1, <1>2
  <2> QED BY <1>1, <1>4, <2>1, <2>2, <2>3, <2>4 DEF TablesType
<1>7. Kept(s, t)
  BY <1>1, <1>3, <1>4 DEF Kept, RowChanged, SharesChanged
<1>8. Dated(t, ct)
  <2>1. ct \in Nat
    BY DEF MayChange
  <2>2. ASSUME NEW p \in Producers, t.producers2[p] # NoRow
        PROVE  /\ t.producers[p] # NoRow
               /\ t.producers2[p].votepay_share >= 0
               /\ t.producers2[p].last_votepay_share_update >= 0
               /\ t.producers2[p].last_votepay_share_update <= ct
    <3>1. s.producers2[p] # NoRow /\ s.producers[p] # NoRow /\ t.producers[p] # NoRow
      BY <1>3, <2>2, MayChangeRows DEF RowChanged, SharesChanged
    <3>2. CASE p \in CountedIn(s, P)
      <4>1. t.producers2[p] = [votepay_share |-> IF p \in ExpiresIn(s, P, ct) THEN 0
                                                   ELSE SharesOf(s, p, ct),
                                 last_votepay_share_update |-> ct]
        BY <1>3, <3>2 DEF SharesChanged
      <4>2. SharesOf(s, p, ct) \in Nat
        BY <3>2, ShareIsNow
      <4> QED BY <2>1, <3>1, <4>1, <4>2
    <3>3. CASE p \notin CountedIn(s, P)
      <4>1. t.producers2[p] = s.producers2[p]
        BY <1>3, <3>3 DEF SharesChanged
      <4> QED BY <3>1, <4>1 DEF MayChange, Dated
    <3> QED BY <3>2, <3>3
  <2>3. \A n \in Int : larger(0, n) >= 0
    BY DEF larger
  <2>4. LostIn(s, P, ct) \in Int /\ GainedIn(s, P, ct, delta) \in Int
    BY LostAndGained
  <2>5. TotalShare(s.global, ct) \in Int /\ s.global.total_vpay_share_change_rate \in Int
    BY <2>1 DEF MayChange, TablesType, GlobalState, TotalShare
  <2>6. t.global.total_vpay_share_change_rate >= 0 /\ t.global.total_producer_votepay_share >= 0
    <3> DEFINE a == s.global.total_vpay_share_change_rate + GainedIn(s, P, ct, delta)
               b == TotalShare(s.global, ct) + - LostIn(s, P, ct)
    <3>1. a \in Int /\ b \in Int
      BY <2>4, <2>5
    <3> QED BY <1>5, <2>3, <3>1
  <2> QED BY <1>4, <2>1, <2>2, <2>6 DEF Dated
<1> QED BY <1>1, <1>6, <1>7, <1>8

\* The tally of each producer changes by what delta has for it, and the tally of all
\* stays their sum.
LEMMA ChangeVotesTally ==
  ASSUME NEW s, NEW P, NEW delta, NEW ct, MayChange(s, P, delta, ct),
         NEW t, t = ChangeVotes(s, delta, ct)
  PROVE  /\ \A p \in Producers : VotesOf(t.producers[p])
                                   = VotesOf(s.producers[p]) + (IF p \in P THEN delta[p] ELSE 0)
         /\ s.global.total_producer_vote_weight = Sum(Tally(s), Producers)
              => t.global.total_producer_vote_weight = Sum(Tally(t), Producers)
<1> DEFINE d == [p \in Producers |-> IF p \in P THEN delta[p] ELSE 0]
<1>1. delta \in [P -> Int] /\ P \in SUBSET Producers
  BY DEF MayChange
<1>2. ASSUME NEW p \in Producers
      PROVE  VotesOf(t.producers[p]) = VotesOf(s.producers[p]) + (IF p \in P THEN delta[p] ELSE 0)
  <2>1. RowChanged(s, t, P, delta, p)
    BY ChangeVotesRows
  <2>2. s.producers[p] = NoRow => p \notin P
    BY DEF MayChange
  <2> QED BY <2>1, <2>2 DEF VotesOf, RowChanged
<1>3. d \in [Producers -> Int] /\ Tally(s) \in [Producers -> Int] /\ Tally(t) \in [Producers -> Int]
  <2>1. \A p \in Producers : d[p] \in Int /\ VotesOf(s.producers[p]) \in Int
    BY <1>1 DEF MayChange
  <2>2. \A p \in Producers : VotesOf(t.producers[p]) \in Int
    BY <1>2, <2>1
  <2> QED BY <2>1, <2>2 DEF Tally
<1>4. Sum(delta, P) = Sum(d, Producers)
  <2>1. \A p \in Producers : d[p] = IF p \in P THEN delta[p] ELSE 0
    OBVIOUS
  <2> HIDE DEF d
  <2> QED BY <1>1, <1>3, <2>1, TablesFinite, SumOverPart
<1>5. Sum(Tally(t), Producers) = Sum(Tally(s), Producers) + Sum(d, Producers)
  <2>1. \A p \in Producers : Tally(t)[p] = Tally(s)[p] + d[p]
    BY <1>2 DEF Tally
  <2> HIDE DEF d
  <2> QED BY <1>3, <2>1, TablesFinite, SumAdd
<1>6. t.global.total_producer_vote_weight = s.global.total_producer_vote_weight + Sum(delta, P)
  BY ChangeVotesGlobal
<1> QED BY <1>2, <1>4, <1>5, <1>6

\* At what rate a producer earns after a change of votes, and what shares it has.
LEMMA EarnsAfter ==
  ASSUME NEW s, NEW P, NEW delta, NEW ct, MayChange(s, P, delta, ct),
         NEW t, t = ChangeVotes(s, delta, ct), NEW p \in Producers,
         VotesOf(t.producers[p]) \in Nat
  PROVE  /\ RateOf(t, p) + (IF p \in ExpiresIn(s, P, ct) THEN s.producers[p].total_votes ELSE 0)
              = RateOf(s, p) + (IF p \in EarningIn(s, P, ct) THEN delta[p] ELSE 0)
         /\ SharesOf(t, p, ct) + (IF p \in ExpiresIn(s, P, ct) THEN SharesOf(s, p, ct) ELSE 0)
              = SharesOf(s, p, ct)
         /\ RateOf(t, p) \in Nat /\ RateOf(s, p) \in Nat
         /\ SharesOf(t, p, ct) \in Nat /\ SharesOf(s, p, ct) \in Nat
<1> DEFINE claim == s.producers[p].last_claim_time
           last == s.producers2[p].last_votepay_share_update
<1>0. RowChanged(s, t, P, delta, p) /\ SharesChanged(s, t, P, ct, p)
  BY ChangeVotesRows
<1>1. /\ ct \in Nat /\ ThreeDays \in Nat
      /\ s.producers[p] # NoRow => /\ s.producers[p].total_votes \in Nat
                                   /\ claim \in Int
      /\ s.producers2[p] # NoRow => /\ s.producers[p] # NoRow
                                    /\ s.producers2[p].votepay_share \in Nat
                                    /\ last \in Nat /\ last <= ct
      /\ p \in P => delta[p] \in Int
  BY MayChangeRows, VotingAssumption DEF MayChange
<1>2. RateOf(s, p) \in Nat
  BY <1>1 DEF RateOf, EarnsIn, VotesOf
<1>3. SharesOf(s, p, ct) \in Nat
  <2>1. CASE s.producers2[p] = NoRow
    BY <2>1 DEF SharesOf
  <2>2. CASE s.producers2[p] # NoRow
    <3>1. ct - last \in Nat
      BY <1>1, <2>2
    <3> DEFINE r == RateOf(s, p)
               d == ct - last
    <3>2. r \in Nat /\ d \in Nat
      BY <1>2, <3>1
    <3>3. SharesOf(s, p, ct) = s.producers2[p].votepay_share + r * d
      BY <2>2 DEF SharesOf
    <3> HIDE DEF r, d
    <3>4. r * d \in Nat
      BY <3>2
    <3> QED BY <1>1, <2>2, <3>3, <3>4
  <2> QED BY <2>1, <2>2
<1>4. RateOf(t, p) \in Nat
  <2>1. t.producers2[p] # NoRow => t.producers[p] # NoRow
    BY <1>0, <1>1 DEF RowChanged, SharesChanged
  <2> QED BY <2>1 DEF RateOf, EarnsIn
<1>5. CASE p \in CountedIn(s, P)
  <2>1. p \in P /\ s.producers2[p] # NoRow /\ s.producers[p] # NoRow /\ delta[p] \in Int
    BY <1>1, <1>5 DEF CountedIn
  <2>2. /\ t.producers[p] # NoRow /\ t.producers2[p] # NoRow
        /\ t.producers[p].total_votes = s.producers[p].total_votes + delta[p]
        /\ t.producers[p].last_claim_time = claim
        /\ t.producers2[p].last_votepay_share_update = ct
        /\ t.producers2[p].votepay_share = IF p \in ExpiresIn(s, P, ct) THEN 0
                                           ELSE SharesOf(s, p, ct)
    <3>1. t.producers2[p] = [votepay_share |-> IF p \in ExpiresIn(s, P, ct) THEN 0
                                            ELSE SharesOf(s, p, ct),
                             last_votepay_share_update |-> ct]
      BY <1>0, <1>5 DEF SharesChanged
    <3> QED BY <1>0, <2>1, <3>1 DEF RowChanged, SharesChanged
  <2>3. p \in EarningIn(s, P, ct) <=> ~ (claim + ThreeDays <= ct)
    BY <1>5 DEF EarningIn, Crossed
  <2>4. RateOf(t, p) = IF p \in EarningIn(s, P, ct)
                       THEN s.producers[p].total_votes + delta[p] ELSE 0
    BY <2>2, <2>3 DEF RateOf, EarnsIn, VotesOf, Updated
  <2>5. /\ p \in EarningIn(s, P, ct) => p \notin ExpiresIn(s, P, ct)
        /\ RateOf(s, p) = IF p \in EarningIn(s, P, ct) \cup ExpiresIn(s, P, ct)
                           THEN s.producers[p].total_votes ELSE 0
    BY <2>1, EarnsBefore
  <2>6. RateOf(t, p) + (IF p \in ExpiresIn(s, P, ct) THEN s.producers[p].total_votes ELSE 0)
              = RateOf(s, p) + (IF p \in EarningIn(s, P, ct) THEN delta[p] ELSE 0)
    BY <1>1, <2>1, <2>4, <2>5
  <2>7. SharesOf(t, p, ct) = t.producers2[p].votepay_share
    <3>1. SharesOf(t, p, ct) = t.producers2[p].votepay_share + RateOf(t, p) * (ct - ct)
      BY <2>2 DEF SharesOf
    <3>2. RateOf(t, p) * (ct - ct) = 0
      BY <1>1, <1>4
    <3>3. t.producers2[p].votepay_share \in Int
      BY <1>3, <2>2
    <3> QED BY <3>1, <3>2, <3>3
  <2> QED BY <1>2, <1>3, <1>4, <2>2, <2>6, <2>7
<1>6. CASE p \notin CountedIn(s, P)
  <2>1. p \notin EarningIn(s, P, ct) /\ p \notin ExpiresIn(s, P, ct)
    BY <1>6 DEF EarningIn, ExpiresIn
  <2>2. t.producers2[p] = s.producers2[p]
    BY <1>0, <1>6 DEF SharesChanged
  <2>3. s.producers2[p] # NoRow => p \notin P
    BY <1>6 DEF CountedIn
  <2>4. s.producers2[p] # NoRow =>
          /\ t.producers[p] # NoRow
          /\ t.producers[p].total_votes = s.producers[p].total_votes
          /\ t.producers[p].last_claim_time = claim
    BY <1>0, <1>1, <2>3 DEF RowChanged
  <2>5. RateOf(t, p) = RateOf(s, p)
    BY <1>1, <2>2, <2>4 DEF RateOf, EarnsIn, VotesOf, Updated
  <2>6. SharesOf(t, p, ct) = SharesOf(s, p, ct)
    BY <2>2, <2>5 DEF SharesOf
  <2> QED BY <1>2, <1>3, <2>1, <2>5, <2>6
<1> QED BY <1>5, <1>6

\* The total of the shares stays their sum when votes change.
LEMMA ChangeVotesPaid ==
  ASSUME NEW s, NEW P, NEW delta, NEW ct, MayChange(s, P, delta, ct),
         NEW t, t = ChangeVotes(s, delta, ct),
         \A p \in Producers : VotesOf(t.producers[p]) \in Nat,
         Paid(s, ct)
  PROVE  Paid(t, ct)
<1> DEFINE E == EarningIn(s, P, ct)
           X == ExpiresIn(s, P, ct)
           gain == [p \in Producers |-> IF p \in E THEN delta[p] ELSE 0]
           drop == [p \in Producers |-> IF p \in X THEN s.producers[p].total_votes ELSE 0]
           lost == [p \in Producers |-> IF p \in X THEN SharesOf(s, p, ct) ELSE 0]
           gainE == [p \in E |-> delta[p]]
           dropX == [p \in X |-> s.producers[p].total_votes]
           lostX == [p \in X |-> Expired(s, p, ct)]
           both == [p \in Producers |-> RateOf(s, p) + gain[p]]
<1>0. E \in SUBSET Producers /\ X \in SUBSET Producers /\ E \subseteq P /\ X \subseteq P
  BY DEF EarningIn, ExpiresIn, CountedIn, MayChange
<1>1. ASSUME NEW p \in Producers
      PROVE  /\ RateOf(t, p) + drop[p] = RateOf(s, p) + gain[p]
             /\ SharesOf(t, p, ct) + lost[p] = SharesOf(s, p, ct)
             /\ RateOf(t, p) \in Nat /\ RateOf(s, p) \in Nat
             /\ SharesOf(t, p, ct) \in Nat /\ SharesOf(s, p, ct) \in Nat
  BY EarnsAfter
<1>2. ASSUME NEW p \in Producers
      PROVE  gain[p] \in Int /\ drop[p] \in Int /\ lost[p] \in Int
  <2>1. /\ s.producers[p] # NoRow => s.producers[p].total_votes \in Nat
        /\ p \in P => delta[p] \in Int /\ s.producers[p] # NoRow
    BY MayChangeRows DEF MayChange
  <2> QED BY <1>0, <1>1, <2>1
<1>3. /\ Rates(s) \in [Producers -> Nat] /\ Rates(t) \in [Producers -> Nat]
      /\ Shares(s, ct) \in [Producers -> Nat] /\ Shares(t, ct) \in [Producers -> Nat]
  BY <1>1 DEF Rates, Shares
<1>4. /\ Rates(s) \in [Producers -> Int] /\ Rates(t) \in [Producers -> Int]
      /\ Shares(s, ct) \in [Producers -> Int] /\ Shares(t, ct) \in [Producers -> Int]
      /\ gain \in [Producers -> Int] /\ drop \in [Producers -> Int]
      /\ lost \in [Producers -> Int] /\ both \in [Producers -> Int]
  BY <1>1, <1>2, <1>3
<1>5. gainE \in [E -> Int] /\ dropX \in [X -> Int] /\ lostX \in [X -> Int]
      /\ \A p \in X : lostX[p] = SharesOf(s, p, ct)
  <2>1. \A p \in X : Expired(s, p, ct) = SharesOf(s, p, ct) /\ Expired(s, p, ct) \in Nat
    BY LostAndGained
  <2>2. \A p \in E : gain[p] = delta[p] /\ p \in Producers
    BY <1>0
  <2>3. \A p \in X : drop[p] = s.producers[p].total_votes /\ p \in Producers
    BY <1>0
  <2> QED BY <1>2, <2>1, <2>2, <2>3
<1>6. Sum(gainE, E) = Sum(gain, Producers)
  <2>1. \A p \in Producers : gain[p] = IF p \in E THEN gainE[p] ELSE 0
    OBVIOUS
  <2> HIDE DEF gain, gainE, E
  <2> QED BY <1>0, <1>4, <1>5, <2>1, TablesFinite, SumOverPart
<1>7. Sum(dropX, X) = Sum(drop, Producers)
  <2>1. \A p \in Producers : drop[p] = IF p \in X THEN dropX[p] ELSE 0
    OBVIOUS
  <2> HIDE DEF drop, dropX, X
  <2> QED BY <1>0, <1>4, <1>5, <2>1, TablesFinite, SumOverPart
<1>8. Sum(lostX, X) = Sum(lost, Producers)
  <2>1. \A p \in Producers : lost[p] = IF p \in X THEN lostX[p] ELSE 0
    BY <1>5
  <2> HIDE DEF lost, lostX, X
  <2> QED BY <1>0, <1>4, <1>5, <2>1, TablesFinite, SumOverPart
<1>9. GainedIn(s, P, ct, delta) = Sum(gainE, E) - Sum(dropX, X)
  BY DEF GainedIn
<1>10. LostIn(s, P, ct) = Sum(lostX, X)
  BY DEF LostIn
<1>11. Sum(both, Producers) = Sum(Rates(s), Producers) + Sum(gain, Producers)
  <2>1. \A p \in Producers : both[p] = Rates(s)[p] + gain[p]
    BY DEF Rates
  <2> HIDE DEF both, gain
  <2> QED BY <1>4, <2>1, TablesFinite, SumAdd
<1>12. Sum(both, Producers) = Sum(Rates(t), Producers) + Sum(drop, Producers)
  <2>1. \A p \in Producers : both[p] = Rates(t)[p] + drop[p]
    BY <1>1 DEF Rates
  <2> HIDE DEF both, drop
  <2> QED BY <1>4, <2>1, TablesFinite, SumAdd
<1>13. Sum(Shares(s, ct), Producers) = Sum(Shares(t, ct), Producers) + Sum(lost, Producers)
  <2>1. \A p \in Producers : Shares(s, ct)[p] = Shares(t, ct)[p] + lost[p]
    BY <1>1 DEF Shares
  <2> HIDE DEF lost
  <2> QED BY <1>4, <2>1, TablesFinite, SumAdd
<1>14. /\ Sum(gain, Producers) \in Int /\ Sum(drop, Producers) \in Int
       /\ Sum(lost, Producers) \in Int
       /\ Sum(Rates(s), Producers) \in Int /\ Sum(Shares(s, ct), Producers) \in Int
  <2> HIDE DEF gain, drop, lost
  <2> QED BY <1>4, TablesFinite, SumIsInt DEF Sum
<1>15. Sum(Rates(t), Producers) \in Nat /\ Sum(Shares(t, ct), Producers) \in Nat
  BY <1>3, TablesFinite, SumNat
<1> HIDE DEF E, X, gain, drop, lost, gainE, dropX, lostX, both
<1>16. /\ s.global.total_vpay_share_change_rate = Sum(Rates(s), Producers)
       /\ TotalShare(s.global, ct) = Sum(Shares(s, ct), Producers)
  BY DEF Paid
<1>17. /\ t.global.total_vpay_share_change_rate
            = larger(0, s.global.total_vpay_share_change_rate + GainedIn(s, P, ct, delta))
       /\ t.global.total_producer_votepay_share
            = larger(0, TotalShare(s.global, ct) + - LostIn(s, P, ct))
       /\ t.global.last_vpay_state_update = ct
  BY ChangeVotesGlobal
<1>18. t.global.total_vpay_share_change_rate = Sum(Rates(t), Producers)
  <2>1. s.global.total_vpay_share_change_rate + GainedIn(s, P, ct, delta)
          = Sum(Rates(t), Producers)
    BY <1>6, <1>7, <1>9, <1>11, <1>12, <1>14, <1>15, <1>16
  <2> QED BY <1>15, <1>17, <2>1 DEF larger
<1>19. t.global.total_producer_votepay_share = Sum(Shares(t, ct), Producers)
  <2>1. TotalShare(s.global, ct) + - LostIn(s, P, ct) = Sum(Shares(t, ct), Producers)
    BY <1>8, <1>10, <1>13, <1>14, <1>15, <1>16
  <2> QED BY <1>15, <1>17, <2>1 DEF larger
<1>20. TotalShare(t.global, ct) = t.global.total_producer_votepay_share
  <2>1. ct \in Nat
    BY DEF MayChange
  <2>2. TotalShare(t.global, ct) = Sum(Shares(t, ct), Producers)
                                     + Sum(Rates(t), Producers) * (ct - ct)
    BY <1>17, <1>18, <1>19 DEF TotalShare
  <2>3. Sum(Rates(t), Producers) * (ct - ct) = 0
    BY <1>15, <2>1
  <2> QED BY <1>15, <1>19, <2>2, <2>3
<1> QED BY <1>18, <1>19, <1>20 DEF Paid

(***************************************************************************)
(* Tallies, voter by voter                                                 *)
(***************************************************************************)
\* The tallies do not depend on what else the rows of voters hold.
LEMMA TalliedRows ==
  ASSUME NEW s, NEW t, NEW cast, NEW via, Tallied(s, cast, via),
         t.producers = s.producers,
         t.global.total_producer_vote_weight = s.global.total_producer_vote_weight,
         \A x \in Voters : t.voters[x] # NoRow =>
           /\ s.voters[x] # NoRow
           /\ t.voters[x].proxied_vote_weight = s.voters[x].proxied_vote_weight
  PROVE  Tallied(t, cast, via)
<1>1. Tally(t) = Tally(s)
  BY DEF Tally
<1> QED BY <1>1 DEF Tallied

\* Tallies of producers are not negative.
LEMMA TalliesAreNat ==
  ASSUME NEW s, NEW cast, NEW via, Matrices(cast, via), Tallied(s, cast, via)
  PROVE  /\ \A p \in Producers : VotesOf(s.producers[p]) \in Nat
         /\ \A x \in Voters : s.voters[x] # NoRow => s.voters[x].proxied_vote_weight \in Nat
         /\ s.global.total_producer_vote_weight \in Nat
<1>1. ASSUME NEW p \in Producers
      PROVE  VotesOf(s.producers[p]) \in Nat
  <2>1. cast[p] \in [Voters -> Nat]
    BY DEF Matrices
  <2>2. Sum(cast[p], Voters) \in Nat
    BY <2>1, TablesFinite, SumNat
  <2> QED BY <2>2 DEF Tallied
<1>2. ASSUME NEW x \in Voters, s.voters[x] # NoRow
      PROVE  s.voters[x].proxied_vote_weight \in Nat
  <2>1. via[x] \in [Voters -> Nat]
    BY DEF Matrices
  <2>2. Sum(via[x], Voters) \in Nat
    BY <2>1, TablesFinite, SumNat
  <2> QED BY <1>2, <2>2 DEF Tallied
<1>3. s.global.total_producer_vote_weight \in Nat
  <2>1. Tally(s) \in [Producers -> Nat]
    BY <1>1 DEF Tally
  <2>2. Sum(Tally(s), Producers) \in Nat
    BY <2>1, TablesFinite, SumNat
  <2> QED BY <2>2 DEF Tallied
<1> QED BY <1>1, <1>2, <1>3

\* Voter u gives d more to x to cast.
PassMore(via, x, u, d) == [via EXCEPT ![x] = [via[x] EXCEPT ![u] = via[x][u] + d]]

\* t is s with d more for x to cast.
ProxiedShifts(s, t, x, d) ==
  /\ t.producers = s.producers
  /\ t.global.total_producer_vote_weight = s.global.total_producer_vote_weight
  /\ \A y \in Voters : t.voters[y] # NoRow =>
       /\ s.voters[y] # NoRow
       /\ t.voters[y].proxied_vote_weight
            = s.voters[y].proxied_vote_weight + (IF y = x THEN d ELSE 0)

\* A voter gives a proxy more or less to cast: the sums follow.
LEMMA ProxiedMoved ==
  ASSUME NEW s, NEW t, NEW cast, NEW via, Matrices(cast, via), Tallied(s, cast, via),
         NEW x \in Voters, NEW u \in Voters, NEW d \in Int, via[x][u] + d \in Nat,
         ProxiedShifts(s, t, x, d)
  PROVE  /\ Matrices(cast, PassMore(via, x, u, d))
         /\ Tallied(t, cast, PassMore(via, x, u, d))
<1> DEFINE via2 == PassMore(via, x, u, d)
           new == [via[x] EXCEPT ![u] = via[x][u] + d]
<1>1. via \in [Voters -> [Voters -> Nat]] /\ via[x] \in [Voters -> Nat]
  BY DEF Matrices
<1>2. /\ new \in [Voters -> Nat] /\ new[u] = via[x][u] + d
      /\ \A y \in Voters \ {u} : new[y] = via[x][y]
  BY <1>1
<1>3. via2[x] = new /\ via2 \in [Voters -> [Voters -> Nat]]
      /\ \A y \in Voters \ {x} : via2[y] = via[y]
  BY <1>1, <1>2 DEF PassMore
<1>4. Matrices(cast, via2)
  BY <1>3 DEF Matrices
<1> HIDE DEF new
<1>5. Sum(new, Voters) = Sum(via[x], Voters) + d
  <2>1. new \in [Voters -> Int] /\ via[x] \in [Voters -> Int]
    BY <1>1, <1>2
  <2> QED BY <1>2, <2>1, TablesFinite, SumUpdate DEF Sum
<1>6. ASSUME NEW y \in Voters, t.voters[y] # NoRow
      PROVE  t.voters[y].proxied_vote_weight = Sum(via2[y], Voters)
  <2>1. s.voters[y] # NoRow /\ s.voters[y].proxied_vote_weight = Sum(via[y], Voters)
    BY <1>6 DEF Tallied, ProxiedShifts
  <2>2. t.voters[y].proxied_vote_weight
                = s.voters[y].proxied_vote_weight + (IF y = x THEN d ELSE 0)
    BY <1>6 DEF ProxiedShifts
  <2>3. s.voters[y].proxied_vote_weight \in Int
    BY <2>1, TalliesAreNat
  <2>4. CASE y = x
    BY <1>3, <1>5, <2>1, <2>2, <2>4
  <2>5. CASE y # x
    BY <1>3, <2>1, <2>2, <2>3, <2>5
  <2> QED BY <2>4, <2>5
<1>7. Tallied(t, cast, via2)
  <2>1. Tally(t) = Tally(s)
    BY DEF Tally, ProxiedShifts
  <2>2. \A p \in Producers : VotesOf(t.producers[p]) = Sum(cast[p], Voters)
    BY DEF Tallied, ProxiedShifts
  <2>3. t.global.total_producer_vote_weight = Sum(Tally(t), Producers)
    BY <2>1 DEF Tallied, ProxiedShifts
  <2> QED BY <1>6, <2>2, <2>3 DEF Tallied
<1> QED BY <1>4, <1>7

\* Voter u casts delta more for the producers in P.
CastMore(cast, P, u, delta) ==
  [p \in Producers |-> IF p \in P THEN [cast[p] EXCEPT ![u] = cast[p][u] + delta[p]] ELSE cast[p]]

\* A voter casts more or less for producers: the tallies follow.
LEMMA VotesMoved ==
  ASSUME NEW s, NEW P, NEW delta, NEW ct, MayChange(s, P, delta, ct),
         NEW t, t = ChangeVotes(s, delta, ct),
         NEW cast, NEW via, Matrices(cast, via), Tallied(s, cast, via),
         NEW u \in Voters, \A p \in P : cast[p][u] + delta[p] \in Nat
  PROVE  /\ Matrices(CastMore(cast, P, u, delta), via)
         /\ Tallied(t, CastMore(cast, P, u, delta), via)
<1> DEFINE cast2 == CastMore(cast, P, u, delta)
<1>1. cast \in [Producers -> [Voters -> Nat]] /\ P \subseteq Producers /\ delta \in [P -> Int]
  BY DEF Matrices, MayChange
<1>2. ASSUME NEW p \in Producers
      PROVE  /\ cast2[p] \in [Voters -> Nat]
             /\ p \in P => /\ cast2[p][u] = cast[p][u] + delta[p]
                           /\ \A y \in Voters \ {u} : cast2[p][y] = cast[p][y]
             /\ p \notin P => cast2[p] = cast[p]
  <2>1. cast2[p] = IF p \in P THEN [cast[p] EXCEPT ![u] = cast[p][u] + delta[p]] ELSE cast[p]
    BY DEF CastMore
  <2>2. cast[p] \in [Voters -> Nat]
    BY <1>1
  <2>3. CASE p \in P
    <3> DEFINE n == cast[p][u] + delta[p]
    <3>1. n \in Nat /\ cast2[p] = [cast[p] EXCEPT ![u] = n]
      BY <2>1, <2>3
    <3> HIDE DEF cast2, n
    <3>2. cast2[p] \in [Voters -> Nat] /\ cast2[p][u] = n
          /\ \A y \in Voters \ {u} : cast2[p][y] = cast[p][y]
      BY <2>2, <3>1
    <3> QED BY <2>3, <3>2 DEF n
  <2>4. CASE p \notin P
    BY <2>1, <2>2, <2>4
  <2> QED BY <2>3, <2>4
<1>3. Matrices(cast2, via)
  <2>1. cast2 \in [Producers -> [Voters -> Nat]]
    <3>1. cast2 = [p \in Producers |-> cast2[p]]
      BY DEF CastMore
    <3> HIDE DEF cast2
    <3> QED BY <1>2, <3>1
  <2> QED BY <2>1 DEF Matrices
<1>4. /\ \A p \in Producers : VotesOf(t.producers[p])
                                   = VotesOf(s.producers[p]) + (IF p \in P THEN delta[p] ELSE 0)
      /\ s.global.total_producer_vote_weight = Sum(Tally(s), Producers)
              => t.global.total_producer_vote_weight = Sum(Tally(t), Producers)
  BY ChangeVotesTally
<1> HIDE DEF cast2
<1>5. ASSUME NEW p \in Producers
      PROVE  VotesOf(t.producers[p]) = Sum(cast2[p], Voters)
  <2>1. VotesOf(s.producers[p]) = Sum(cast[p], Voters) /\ VotesOf(s.producers[p]) \in Nat
    BY TalliesAreNat DEF Tallied
  <2>2. CASE p \in P
    <3>1. cast[p] \in [Voters -> Int] /\ cast2[p] \in [Voters -> Int] /\ delta[p] \in Int
      BY <1>1, <1>2, <2>2
    <3>2. Sum(cast2[p], Voters) = Sum(cast[p], Voters) + delta[p]
      BY <1>2, <2>2, <3>1, TablesFinite, SumUpdate DEF Sum
    <3> QED BY <1>4, <2>1, <2>2, <3>2
  <2>3. CASE p \notin P
    BY <1>2, <1>4, <2>1, <2>3
  <2> QED BY <2>2, <2>3
<1>6. t.voters = s.voters
  BY ChangeVotesTyped
<1>7. Tallied(t, cast2, via)
  BY <1>4, <1>5, <1>6 DEF Tallied
<1> QED BY <1>3, <1>7 DEF cast2

(***************************************************************************)
(* propagate_weight_change, one call                                       *)
(***************************************************************************)
\* What the rows of voters say that no change of weights touches.
RowsFit(s) ==
  \A u \in Voters : s.voters[u] # NoRow =>
    /\ s.voters[u].staked \in Nat
    /\ s.voters[u].proxy # None =>
         /\ s.voters[u].proxy \in Voters
         /\ s.voters[s.voters[u].proxy] # NoRow
         /\ s.voters[u].producers = {}
    /\ \A p \in s.voters[u].producers : s.producers[p] # NoRow

\* Among any voters there is one whose proxy is none of them: no chain of proxies
\* leads back to where it began.
Acyclic(s) ==
  \A S \in SUBSET Voters :
    S # {} /\ (\A u \in S : s.voters[u] # NoRow) => \E u \in S : s.voters[u].proxy \notin S

\* Weights are amounts, and even as the weights of stake are.
WeightsEven(s) ==
  \A u \in Voters : s.voters[u] # NoRow =>
    /\ s.voters[u].last_vote_weight \in Nat
    /\ Even(s.voters[u].last_vote_weight)
    /\ Even(s.voters[u].proxied_vote_weight)

\* Tables that are as they should be: the tallies are sums over the voters of what
\* cast and via say, which for the voters outside G is what their rows say.
Sound(s, cast, via, G) ==
  /\ s \in TablesType /\ Dated(s, now) /\ now \in 0 .. MaxTime
  /\ RowsFit(s) /\ Acyclic(s) /\ WeightsEven(s)
  /\ Matrices(cast, via) /\ Tallied(s, cast, via) /\ Agree(s, cast, via, G)

\* A change of weights leaves the rows fitting each other,
LEMMA RowsFitKept ==
  ASSUME NEW s, NEW t, Kept(s, t), RowsFit(s), s \in TablesType
  PROVE  RowsFit(t)
<1>1. ASSUME NEW u \in Voters, t.voters[u] # NoRow
      PROVE  /\ t.voters[u].staked \in Nat
             /\ t.voters[u].proxy # None =>
                  /\ t.voters[u].proxy \in Voters
                  /\ t.voters[t.voters[u].proxy] # NoRow
                  /\ t.voters[u].producers = {}
             /\ \A p \in t.voters[u].producers : t.producers[p] # NoRow
  <2>1. /\ s.voters[u] # NoRow
        /\ t.voters[u].staked = s.voters[u].staked
        /\ t.voters[u].proxy = s.voters[u].proxy
        /\ t.voters[u].producers = s.voters[u].producers
    BY <1>1 DEF Kept
  <2>2. s.voters[u] \in VoterRow
    BY <2>1 DEF TablesType
  <2>3. s.voters[u].producers \subseteq Producers
    BY <2>2 DEF VoterRow
  <2> QED BY <2>1, <2>3 DEF RowsFit, Kept
<1> QED BY <1>1 DEF RowsFit

\* and it makes no circle of proxies.
LEMMA AcyclicKept ==
  ASSUME NEW s, NEW t, Kept(s, t), Acyclic(s)
  PROVE  Acyclic(t)
<1>1. ASSUME NEW S \in SUBSET Voters, S # {}, \A u \in S : t.voters[u] # NoRow
      PROVE  \E u \in S : t.voters[u].proxy \notin S
  <2>1. \A u \in S : s.voters[u] # NoRow
    BY <1>1 DEF Kept
  <2>2. PICK u \in S : s.voters[u].proxy \notin S
    BY <1>1, <2>1 DEF Acyclic
  <2>3. t.voters[u].proxy = s.voters[u].proxy
    BY <2>1 DEF Kept
  <2> QED BY <2>2, <2>3
<1> QED BY <1>1 DEF Acyclic

\* No voter is its own proxy.
LEMMA NotOwnProxy ==
  ASSUME NEW s, Acyclic(s), NEW u \in Voters, s.voters[u] # NoRow
  PROVE  s.voters[u].proxy # u
<1>1. {u} \in SUBSET Voters /\ {u} # {}
  OBVIOUS
<1>2. \E w \in {u} : s.voters[w].proxy \notin {u}
  BY <1>1 DEF Acyclic
<1> QED BY <1>2

\* The weight of a row is an even amount, no less than what was proxied to a proxy.
LEMMA WeightIsEven ==
  ASSUME NEW row \in VoterRow, row.staked \in Nat, row.proxied_vote_weight \in Nat,
         Even(row.proxied_vote_weight), now \in 0 .. MaxTime
  PROVE  /\ Weight(row) \in Nat /\ Even(Weight(row))
         /\ row.is_proxy => Weight(row) >= row.proxied_vote_weight
<1>1. Growth[now] \in Nat /\ Growth[now] % 2 = 0
  BY VotingAssumption
<1>2. PICK k \in Nat : Growth[now] = 2 * k
  <2>1. Growth[now] = 2 * (Growth[now] \div 2) /\ Growth[now] \div 2 \in Nat
    BY <1>1
  <2> QED BY <2>1
<1> DEFINE m == stake2vote(row.staked)
<1>3. PICK n \in Nat : m = 2 * n
  <2>1. PICK a \in Nat : a = row.staked
    OBVIOUS
  <2>2. m = a * (2 * k)
    BY <1>2, <2>1 DEF stake2vote
  <2> HIDE DEF m
  <2>3. a * k \in Nat /\ a * (2 * k) = 2 * (a * k)
    OBVIOUS
  <2> QED BY <2>2, <2>3
<1>4. m \in Nat /\ Even(m)
  BY <1>3 DEF Even
<1>5. row.is_proxy \in BOOLEAN
  BY DEF VoterRow
<1>6. Weight(row) = m + (IF row.is_proxy THEN row.proxied_vote_weight ELSE 0)
  BY DEF Weight
<1> HIDE DEF m
<1>7. CASE row.is_proxy
  <2>1. Weight(row) = m + row.proxied_vote_weight
    BY <1>6, <1>7
  <2>2. m \in Int /\ row.proxied_vote_weight \in Int
    BY <1>4
  <2>3. Even(m + row.proxied_vote_weight)
    BY <1>4, <2>2, EvenSum
  <2> QED BY <1>4, <1>7, <2>1, <2>3
<1>8. CASE ~ row.is_proxy
  <2>1. Weight(row) = m
    BY <1>4, <1>6, <1>8
  <2> QED BY <1>4, <1>8, <2>1
<1> QED BY <1>7, <1>8

\* The tables with another row for voter v.
RowWith(s, v, row) == [s EXCEPT !.voters[v] = row]

HasRow(s, t, v, row) ==
  /\ t \in TablesType
  /\ t.producers = s.producers /\ t.producers2 = s.producers2 /\ t.global = s.global
  /\ t.voters[v] = row
  /\ \A u \in Voters \ {v} : t.voters[u] = s.voters[u]

\* Setting a row of the table of voters changes that row only.
LEMMA RowWithFields ==
  ASSUME NEW s \in TablesType, NEW v \in Voters, NEW row \in VoterRow,
         NEW t, t = RowWith(s, v, row)
  PROVE  HasRow(s, t, v, row)
<1>1. s.voters \in [Voters -> VoterRow \cup {NoRow}]
  BY DEF TablesType
<1> DEFINE rows == [s.voters EXCEPT ![v] = row]
<1>2. rows \in [Voters -> VoterRow \cup {NoRow}] /\ rows[v] = row
      /\ \A u \in Voters \ {v} : rows[u] = s.voters[u]
  BY <1>1
<1>3. t = [s EXCEPT !.voters = rows]
  BY DEF RowWith
<1> HIDE DEF rows
<1>4. /\ t.voters = rows /\ t.producers = s.producers /\ t.producers2 = s.producers2
      /\ t.global = s.global /\ t \in TablesType
  BY <1>2, <1>3 DEF TablesType
<1> QED BY <1>2, <1>4 DEF HasRow

\* last_vote_weight of one row is set.
WeightIsSet(s, t, v, n) ==
  /\ t \in TablesType
  /\ t.producers = s.producers /\ t.producers2 = s.producers2 /\ t.global = s.global
  /\ t.voters[v] \in VoterRow /\ t.voters[v] # NoRow
  /\ t.voters[v].last_vote_weight = n
  /\ t.voters[v].proxied_vote_weight = s.voters[v].proxied_vote_weight
  /\ \A u \in Voters \ {v} : t.voters[u] = s.voters[u]
  /\ Kept(s, t)

\* Setting last_vote_weight does that.
LEMMA WeightSet ==
  ASSUME NEW s \in TablesType, NEW v \in Voters, s.voters[v] # NoRow, NEW n \in Int,
         NEW t, t = [s EXCEPT !.voters[v].last_vote_weight = n]
  PROVE  WeightIsSet(s, t, v, n)
<1> DEFINE row == [s.voters[v] EXCEPT !.last_vote_weight = n]
<1>1. s.voters[v] \in VoterRow
  BY DEF TablesType
<1>2. /\ row \in VoterRow
      /\ row.last_vote_weight = n
      /\ row.proxied_vote_weight = s.voters[v].proxied_vote_weight
      /\ row.staked = s.voters[v].staked /\ row.proxy = s.voters[v].proxy
      /\ row.producers = s.voters[v].producers
  BY <1>1 DEF VoterRow
<1>3. row.is_proxy = s.voters[v].is_proxy
  BY <1>1 DEF VoterRow
<1>4. t = RowWith(s, v, row)
  BY DEF RowWith
<1> HIDE DEF row
<1>6. /\ t \in TablesType
      /\ t.producers = s.producers /\ t.producers2 = s.producers2 /\ t.global = s.global
      /\ t.voters[v] = row
      /\ \A u \in Voters \ {v} : t.voters[u] = s.voters[u]
  <2>1. row \in VoterRow
    BY <1>2
  <2>2. HasRow(s, t, v, row)
    BY <1>4, <2>1, RowWithFields
  <2> QED BY <2>2 DEF HasRow
<1>7. row # NoRow
  BY <1>2, NoRows
<1>8. Kept(s, t)
  <2>1. ASSUME NEW u \in Voters
        PROVE  /\ t.voters[u] = NoRow <=> s.voters[u] = NoRow
               /\ t.voters[u].staked = s.voters[u].staked
               /\ t.voters[u].is_proxy = s.voters[u].is_proxy
               /\ t.voters[u].proxy = s.voters[u].proxy
               /\ t.voters[u].producers = s.voters[u].producers
    <3>1. CASE u = v
      BY <1>2, <1>3, <1>6, <1>7, <3>1, Zenon
    <3>2. CASE u # v
      <4>1. t.voters[u] = s.voters[u]
        BY <1>6, <3>2
      <4> QED BY <4>1
    <3> QED BY <3>1, <3>2
  <2> QED BY <1>6, <2>1, Zenon DEF Kept
<1> QED BY <1>2, <1>6, <1>7, <1>8 DEF WeightIsSet

\* proxied_vote_weight of one row is set.
ProxiedIsSet(s, t, x, n) ==
  /\ t \in TablesType
  /\ t.producers = s.producers /\ t.producers2 = s.producers2 /\ t.global = s.global
  /\ t.voters[x] \in VoterRow /\ t.voters[x] # NoRow
  /\ t.voters[x].last_vote_weight = s.voters[x].last_vote_weight
  /\ t.voters[x].proxied_vote_weight = n
  /\ \A u \in Voters \ {x} : t.voters[u] = s.voters[u]
  /\ Kept(s, t)

\* Setting proxied_vote_weight does that.
LEMMA ProxiedSet ==
  ASSUME NEW s \in TablesType, NEW x \in Voters, s.voters[x] # NoRow, NEW n \in Int,
         NEW t, t = [s EXCEPT !.voters[x].proxied_vote_weight = n]
  PROVE  ProxiedIsSet(s, t, x, n)
<1> DEFINE row == [s.voters[x] EXCEPT !.proxied_vote_weight = n]
<1>1. s.voters[x] \in VoterRow
  BY DEF TablesType
<1>2. /\ row \in VoterRow
      /\ row.proxied_vote_weight = n
      /\ row.last_vote_weight = s.voters[x].last_vote_weight
      /\ row.staked = s.voters[x].staked /\ row.proxy = s.voters[x].proxy
      /\ row.producers = s.voters[x].producers
  BY <1>1 DEF VoterRow
<1>3. row.is_proxy = s.voters[x].is_proxy
  BY <1>1 DEF VoterRow
<1>4. t = RowWith(s, x, row)
  BY DEF RowWith
<1> HIDE DEF row
<1>5. /\ t \in TablesType
      /\ t.producers = s.producers /\ t.producers2 = s.producers2 /\ t.global = s.global
      /\ t.voters[x] = row
      /\ \A u \in Voters \ {x} : t.voters[u] = s.voters[u]
  <2>1. row \in VoterRow
    BY <1>2
  <2>2. HasRow(s, t, x, row)
    BY <1>4, <2>1, RowWithFields
  <2> QED BY <2>2 DEF HasRow
<1>6. row # NoRow
  BY <1>2, NoRows
<1>7. Kept(s, t)
  <2>1. ASSUME NEW u \in Voters
        PROVE  /\ t.voters[u] = NoRow <=> s.voters[u] = NoRow
               /\ t.voters[u].staked = s.voters[u].staked
               /\ t.voters[u].is_proxy = s.voters[u].is_proxy
               /\ t.voters[u].proxy = s.voters[u].proxy
               /\ t.voters[u].producers = s.voters[u].producers
    <3>1. CASE u = x
      BY <1>2, <1>3, <1>5, <1>6, <3>1, Zenon
    <3>2. CASE u # x
      <4>1. t.voters[u] = s.voters[u]
        BY <1>5, <3>2
      <4> QED BY <4>1
    <3> QED BY <3>1, <3>2
  <2> QED BY <1>5, <2>1, Zenon DEF Kept
<1> QED BY <1>2, <1>5, <1>6, <1>7 DEF ProxiedIsSet

\* Nothing about the producers depends on the rows of voters.
LEMMA SameProducers ==
  ASSUME NEW s, NEW t, t.producers = s.producers, t.producers2 = s.producers2,
         t.global = s.global, NEW ct
  PROVE  /\ Dated(s, ct) => Dated(t, ct)
         /\ Paid(s, ct) => Paid(t, ct)
<1>1. Rates(t) = Rates(s) /\ Shares(t, ct) = Shares(s, ct)
  BY DEF Rates, Shares, SharesOf, RateOf, EarnsIn
<1> QED BY <1>1 DEF Dated, Paid

\* What one call of propagate_weight_change does, from tables s at voter v to tables
\* t and the next voter at.
OneCall(s, v, t, at) ==
  /\ Kept(s, t)
  /\ at # None => at = s.voters[v].proxy
  /\ t.voters[v].last_vote_weight = Weight(t.voters[v])
  /\ t.voters[v].proxied_vote_weight = s.voters[v].proxied_vote_weight
  /\ \A u \in Voters \ {v} : s.voters[u] # NoRow =>
       /\ t.voters[u].last_vote_weight = s.voters[u].last_vote_weight
       /\ u # at => t.voters[u].proxied_vote_weight = s.voters[u].proxied_vote_weight
  /\ Paid(s, now) => Paid(t, now)

\* What the voters in G count for is the same.
SameColumns(cast, via, cast2, via2, G) ==
  \A g \in G \cap Voters : /\ \A p \in Producers : cast2[p][g] = cast[p][g]
                           /\ \A x \in Voters : via2[x][g] = via[x][g]

\* The outcome of one call: sound tables, in which the voters in G count as before.
Outcome(s, v, t, at, cast, via, G) ==
  /\ OneCall(s, v, t, at)
  /\ \E cast2, via2 : Sound(t, cast2, via2, G) /\ SameColumns(cast, via, cast2, via2, G)

\* The weight of a row is that of a row that differs in what it last cast.
LEMMA WeightKept ==
  ASSUME NEW s, NEW t, NEW u \in Voters, Kept(s, t), s.voters[u] # NoRow,
         t.voters[u].proxied_vote_weight = s.voters[u].proxied_vote_weight
  PROVE  Weight(t.voters[u]) = Weight(s.voters[u])
<1>1. t.voters[u].staked = s.voters[u].staked /\ t.voters[u].is_proxy = s.voters[u].is_proxy
  BY DEF Kept
<1> QED BY <1>1 DEF Weight

\* In sound tables, what a voter's row holds.
LEMMA SoundRow ==
  ASSUME NEW s, NEW cast, NEW via, NEW G, Sound(s, cast, via, G),
         NEW v \in Voters, s.voters[v] # NoRow
  PROVE  /\ s.voters[v] \in VoterRow
         /\ s.voters[v].last_vote_weight \in Nat /\ Even(s.voters[v].last_vote_weight)
         /\ s.voters[v].proxied_vote_weight \in Nat /\ Even(s.voters[v].proxied_vote_weight)
         /\ Weight(s.voters[v]) \in Nat /\ Even(Weight(s.voters[v]))
         /\ s.voters[v].is_proxy => Weight(s.voters[v]) >= s.voters[v].proxied_vote_weight
         /\ s.voters[v].proxy # None => /\ s.voters[v].proxy \in Voters
                                        /\ s.voters[s.voters[v].proxy] # NoRow
                                        /\ s.voters[v].proxy # v
                                        /\ s.voters[v].producers = {}
         /\ s.voters[v].producers \subseteq Producers
         /\ \A p \in s.voters[v].producers : s.producers[p] # NoRow
<1>1. s.voters[v] \in VoterRow
  BY DEF Sound, TablesType
<1>2. s.voters[v].last_vote_weight \in Nat /\ Even(s.voters[v].last_vote_weight)
      /\ Even(s.voters[v].proxied_vote_weight)
  BY DEF Sound, WeightsEven
<1>3. s.voters[v].proxied_vote_weight \in Nat
  BY TalliesAreNat DEF Sound
<1>4. s.voters[v].staked \in Nat /\ now \in 0 .. MaxTime
  BY DEF Sound, RowsFit
<1>5. Weight(s.voters[v]) \in Nat /\ Even(Weight(s.voters[v]))
      /\ (s.voters[v].is_proxy => Weight(s.voters[v]) >= s.voters[v].proxied_vote_weight)
  BY <1>1, <1>2, <1>3, <1>4, WeightIsEven
<1>6. s.voters[v].proxy # None => /\ s.voters[v].proxy \in Voters
                                  /\ s.voters[s.voters[v].proxy] # NoRow
                                  /\ s.voters[v].producers = {}
  BY DEF Sound, RowsFit
<1>7. s.voters[v].proxy # v
  BY NotOwnProxy DEF Sound
<1>8. s.voters[v].producers \subseteq Producers
  BY <1>1 DEF VoterRow
<1>9. \A p \in s.voters[v].producers : s.producers[p] # NoRow
  BY DEF Sound, RowsFit
<1> QED BY <1>1, <1>2, <1>3, <1>5, <1>6, <1>7, <1>8, <1>9

\* Voters other than v count as before; voter v counts for what its row says.
OtherColumns(cast, via, cast2, via2, v) ==
  \A u \in Voters \ {v} : /\ \A p \in Producers : cast2[p][u] = cast[p][u]
                          /\ \A x \in Voters : via2[x][u] = via[x][u]

ColumnIs(s, cast, via, v) ==
  /\ \A p \in Producers : cast[p][v] = CastBy(s.voters[v], p)
  /\ \A x \in Voters : via[x][v] = PassedBy(s.voters[v], x)

\* Weights, in tables t that are those of s but for the weight of voter v.
Reweighed1(s, t, v) ==
  /\ \A u \in Voters \ {v} : s.voters[u] # NoRow =>
       t.voters[u].last_vote_weight = s.voters[u].last_vote_weight
  /\ s.voters[v] # NoRow => /\ t.voters[v].last_vote_weight \in Nat
                            /\ Even(t.voters[v].last_vote_weight)
  /\ \A u \in Voters : s.voters[u] # NoRow => Even(t.voters[u].proxied_vote_weight)

\* Tables are sound again when the tallies are, and one voter counts differently.
LEMMA SoundAgain ==
  ASSUME NEW s, NEW cast, NEW via, NEW G, Sound(s, cast, via, G),
         NEW t, t \in TablesType, Dated(t, now), Kept(s, t),
         NEW v \in Voters, Reweighed1(s, t, v),
         NEW cast2, NEW via2, Matrices(cast2, via2), Tallied(t, cast2, via2),
         OtherColumns(cast, via, cast2, via2, v),
         v \in G \/ ColumnIs(t, cast2, via2, v)
  PROVE  Sound(t, cast2, via2, G)
<1>1. RowsFit(t) /\ Acyclic(t)
  BY RowsFitKept, AcyclicKept DEF Sound
<1>2. WeightsEven(t)
  <2>1. ASSUME NEW u \in Voters, t.voters[u] # NoRow
        PROVE  /\ t.voters[u].last_vote_weight \in Nat
               /\ Even(t.voters[u].last_vote_weight)
               /\ Even(t.voters[u].proxied_vote_weight)
    <3>1. s.voters[u] # NoRow
      BY <2>1 DEF Kept
    <3>2. CASE u = v
      BY <3>1, <3>2 DEF Reweighed1
    <3>3. CASE u # v
      <4>1. t.voters[u].last_vote_weight = s.voters[u].last_vote_weight
        BY <3>1, <3>3 DEF Reweighed1
      <4>2. s.voters[u].last_vote_weight \in Nat /\ Even(s.voters[u].last_vote_weight)
        BY <3>1 DEF Sound, WeightsEven
      <4> QED BY <3>1, <4>1, <4>2 DEF Reweighed1
    <3> QED BY <3>2, <3>3
  <2> QED BY <2>1 DEF WeightsEven
<1>3. Agree(t, cast2, via2, G)
  <2>1. ASSUME NEW u \in Voters \ G
        PROVE  /\ \A p \in Producers : cast2[p][u] = CastBy(t.voters[u], p)
               /\ \A x \in Voters : via2[x][u] = PassedBy(t.voters[u], x)
    <3>1. CASE u = v
      BY <3>1 DEF ColumnIs
    <3>2. CASE u # v
      <4>1. /\ \A p \in Producers : cast2[p][u] = CastBy(s.voters[u], p)
            /\ \A x \in Voters : via2[x][u] = PassedBy(s.voters[u], x)
        BY <3>2 DEF OtherColumns, Sound, Agree
      <4>2. t.voters[u] = NoRow <=> s.voters[u] = NoRow
        BY DEF Kept
      <4>3. s.voters[u] # NoRow =>
              /\ t.voters[u].last_vote_weight = s.voters[u].last_vote_weight
              /\ t.voters[u].proxy = s.voters[u].proxy
              /\ t.voters[u].producers = s.voters[u].producers
        BY <3>2 DEF Kept, Reweighed1
      <4> QED BY <4>1, <4>2, <4>3 DEF CastBy, PassedBy
    <3> QED BY <3>1, <3>2
  <2> QED BY <2>1 DEF Agree
<1> QED BY <1>1, <1>2, <1>3 DEF Sound

\* The first thing a call does is to note the weight in the row.
NotedTables(s, v) == [s EXCEPT !.voters[v].last_vote_weight = Weight(s.voters[v])]

NotedFacts(s, v, t) ==
  /\ t \in TablesType /\ Dated(t, now)
  /\ t.producers = s.producers /\ t.producers2 = s.producers2 /\ t.global = s.global
  /\ t.voters[v] \in VoterRow /\ t.voters[v] # NoRow
  /\ t.voters[v].last_vote_weight = Weight(s.voters[v])
  /\ Weight(t.voters[v]) = Weight(s.voters[v])
  /\ t.voters[v].proxied_vote_weight = s.voters[v].proxied_vote_weight
  /\ \A u \in Voters \ {v} : t.voters[u] = s.voters[u]
  /\ Kept(s, t)
  /\ Reweighed1(s, t, v)
  /\ Paid(s, now) => Paid(t, now)

\* Noting the weight of a voter changes no tally.
LEMMA Noted ==
  ASSUME NEW s, NEW cast, NEW via, NEW G, Sound(s, cast, via, G),
         NEW v \in Voters, s.voters[v] # NoRow, NEW t, t = NotedTables(s, v)
  PROVE  NotedFacts(s, v, t) /\ Tallied(t, cast, via)
<1> DEFINE n == Weight(s.voters[v])
<1>1. n \in Nat /\ Even(n) /\ s \in TablesType
  BY SoundRow DEF Sound
<1>2. t = [s EXCEPT !.voters[v].last_vote_weight = n]
  BY DEF NotedTables
<1>3. n = Weight(s.voters[v])
  OBVIOUS
<1> HIDE DEF n
<1>4. /\ t \in TablesType
      /\ t.producers = s.producers /\ t.producers2 = s.producers2 /\ t.global = s.global
      /\ t.voters[v] \in VoterRow /\ t.voters[v] # NoRow
      /\ t.voters[v].last_vote_weight = n
      /\ t.voters[v].proxied_vote_weight = s.voters[v].proxied_vote_weight
      /\ \A u \in Voters \ {v} : t.voters[u] = s.voters[u]
      /\ Kept(s, t)
  <2>1. n \in Int
    BY <1>1
  <2>2. WeightIsSet(s, t, v, n)
    BY <1>1, <1>2, <2>1, WeightSet
  <2> QED BY <2>2 DEF WeightIsSet
<1>5. Weight(t.voters[v]) = n
  BY <1>3, <1>4, WeightKept
<1>6. Dated(t, now) /\ (Paid(s, now) => Paid(t, now))
  BY <1>4, SameProducers DEF Sound
<1>7. Reweighed1(s, t, v)
  <2>1. ASSUME NEW u \in Voters, s.voters[u] # NoRow
        PROVE  Even(t.voters[u].proxied_vote_weight)
    <3>1. Even(s.voters[u].proxied_vote_weight)
      BY <2>1 DEF Sound, WeightsEven
    <3>2. t.voters[u].proxied_vote_weight = s.voters[u].proxied_vote_weight
      <4>1. CASE u = v
        BY <1>4, <4>1
      <4>2. CASE u # v
        BY <1>4, <4>2
      <4> QED BY <4>1, <4>2
    <3> QED BY <3>1, <3>2
  <2> QED BY <1>1, <1>4, <2>1 DEF Reweighed1
<1>8. Tallied(t, cast, via)
  <2>1. ASSUME NEW x \in Voters, t.voters[x] # NoRow
        PROVE  /\ s.voters[x] # NoRow
               /\ t.voters[x].proxied_vote_weight = s.voters[x].proxied_vote_weight
    <3>1. CASE x = v
      BY <1>4, <3>1
    <3>2. CASE x # v
      BY <1>4, <2>1, <3>2
    <3> QED BY <3>1, <3>2
  <2> QED BY <1>4, <2>1, TalliedRows DEF Sound
<1> QED BY <1>3, <1>4, <1>5, <1>6, <1>7, <1>8 DEF NotedFacts

\* The weight did not change: the call only notes it.
LEMMA CallUnchanged ==
  ASSUME NEW s, NEW cast, NEW via, NEW G, Sound(s, cast, via, G),
         NEW v \in Voters \ G, s.voters[v] # NoRow,
         NEW t, t = NotedTables(s, v),
         ~ Changed(s.voters[v].last_vote_weight, Weight(s.voters[v]))
  PROVE  Outcome(s, v, t, None, cast, via, G)
<1>1. NotedFacts(s, v, t) /\ Tallied(t, cast, via)
  BY Noted
<1>2. s.voters[v].last_vote_weight = Weight(s.voters[v])
  <2>1. /\ s.voters[v].last_vote_weight \in Int /\ Even(s.voters[v].last_vote_weight)
        /\ Weight(s.voters[v]) \in Int /\ Even(Weight(s.voters[v]))
    BY SoundRow
  <2> QED BY <2>1, EvenGap DEF Changed
<1>3. ColumnIs(t, cast, via, v)
  <2>1. /\ \A p \in Producers : cast[p][v] = CastBy(s.voters[v], p)
        /\ \A x \in Voters : via[x][v] = PassedBy(s.voters[v], x)
    BY DEF Sound, Agree
  <2>2. /\ t.voters[v] # NoRow
        /\ t.voters[v].last_vote_weight = s.voters[v].last_vote_weight
        /\ t.voters[v].proxy = s.voters[v].proxy
        /\ t.voters[v].producers = s.voters[v].producers
    BY <1>1, <1>2 DEF NotedFacts, Kept
  <2> QED BY <2>1, <2>2 DEF ColumnIs, CastBy, PassedBy
<1>4. OtherColumns(cast, via, cast, via, v) /\ SameColumns(cast, via, cast, via, G)
  BY DEF OtherColumns, SameColumns
<1>5. Sound(t, cast, via, G)
  <2>1. Matrices(cast, via) /\ v \in Voters
    BY DEF Sound
  <2>2. /\ t \in TablesType /\ Dated(t, now) /\ Kept(s, t) /\ Reweighed1(s, t, v)
    BY <1>1 DEF NotedFacts
  <2> QED BY <1>1, <1>3, <1>4, <2>1, <2>2, SoundAgain
<1>6. OneCall(s, v, t, None)
  BY <1>1 DEF NotedFacts, OneCall
<1> QED BY <1>4, <1>5, <1>6 DEF Outcome

\* The change of a voter's weight added to what its proxy y passes on.
PassedTo(m, t, y, change) ==
  t = [m EXCEPT !.voters[y].proxied_vote_weight = m.voters[y].proxied_vote_weight + change]

\* The voter has a proxy: the change of its weight goes to it.
LEMMA CallWithProxy ==
  ASSUME NEW s, NEW cast, NEW via, NEW G, Sound(s, cast, via, G),
         NEW v \in Voters \ G, s.voters[v] # NoRow, s.voters[v].proxy # None,
         NEW m, m = NotedTables(s, v),
         NEW y, y = s.voters[v].proxy,
         NEW change, change = Weight(s.voters[v]) - s.voters[v].last_vote_weight,
         NEW t, PassedTo(m, t, y, change)
  PROVE  Outcome(s, v, t, y, cast, via, G)
<1>1. NotedFacts(s, v, m) /\ Tallied(m, cast, via)
  BY Noted
<1>2. /\ s.voters[v] \in VoterRow
      /\ s.voters[v].last_vote_weight \in Nat /\ Even(s.voters[v].last_vote_weight)
      /\ Weight(s.voters[v]) \in Nat /\ Even(Weight(s.voters[v]))
  BY SoundRow
<1>3. y \in Voters /\ s.voters[y] # NoRow /\ y # v /\ s.voters[v].producers = {}
  BY SoundRow
<1>4. change \in Int /\ Even(change)
  <2>1. PICK w \in Int, l \in Int : w = Weight(s.voters[v]) /\ l = s.voters[v].last_vote_weight
    BY <1>2
  <2>2. Even(w) /\ Even(l) /\ change = w - l
    BY <1>2, <2>1
  <2>3. Even(w - l)
    BY <2>2, EvenSum
  <2> QED BY <2>2, <2>3
<1>5. /\ m.voters[y] = s.voters[y] /\ m \in TablesType
      /\ s.voters[y].proxied_vote_weight \in Nat /\ Even(s.voters[y].proxied_vote_weight)
      /\ s.voters[y].last_vote_weight \in Nat
  BY <1>1, <1>3, SoundRow DEF NotedFacts
<1> DEFINE n == m.voters[y].proxied_vote_weight + change
<1>6. n \in Int /\ Even(n)
  <2>1. PICK w \in Int : w = s.voters[y].proxied_vote_weight
    BY <1>5
  <2>2. n = w + change /\ Even(w)
    BY <1>5, <2>1
  <2> HIDE DEF n
  <2>3. Even(w + change)
    BY <1>4, <2>2, EvenSum
  <2> QED BY <1>4, <2>2, <2>3
<1>7. t = [m EXCEPT !.voters[y].proxied_vote_weight = n]
  BY Zenon DEF PassedTo
<1>8. n = s.voters[y].proxied_vote_weight + change
  BY <1>5
<1> HIDE DEF n
<1>9. ProxiedIsSet(m, t, y, n)
  BY <1>3, <1>5, <1>6, <1>7, ProxiedSet
<1>10. Kept(s, t)
  <2>1. Kept(s, m) /\ Kept(m, t)
    BY <1>1, <1>9 DEF NotedFacts, ProxiedIsSet
  <2> QED BY <2>1, KeptTrans
<1>11. /\ t.voters[v] = m.voters[v]
       /\ \A u \in Voters \ {v, y} : t.voters[u] = s.voters[u]
       /\ t.voters[y].last_vote_weight = s.voters[y].last_vote_weight
       /\ t.voters[y].proxied_vote_weight = s.voters[y].proxied_vote_weight + change
       /\ t.voters[v] # NoRow
  <2>1. /\ \A u \in Voters \ {y} : t.voters[u] = m.voters[u]
        /\ t.voters[y].last_vote_weight = m.voters[y].last_vote_weight
        /\ t.voters[y].proxied_vote_weight = n
    BY <1>9 DEF ProxiedIsSet
  <2>2. \A u \in Voters \ {v} : m.voters[u] = s.voters[u]
    BY <1>1 DEF NotedFacts
  <2>3. m.voters[v] # NoRow
    BY <1>1 DEF NotedFacts
  <2> QED BY <1>3, <1>8, <2>1, <2>2, <2>3
<1>12. /\ t \in TablesType /\ Dated(t, now) /\ (Paid(s, now) => Paid(t, now))
       /\ t.producers = s.producers /\ t.global = s.global
  <2>1. /\ t \in TablesType
        /\ t.producers = m.producers /\ t.producers2 = m.producers2 /\ t.global = m.global
    BY <1>9 DEF ProxiedIsSet
  <2>2. /\ Dated(m, now) /\ (Paid(s, now) => Paid(m, now))
        /\ m.producers = s.producers /\ m.producers2 = s.producers2 /\ m.global = s.global
    BY <1>1 DEF NotedFacts
  <2>3. (Dated(m, now) => Dated(t, now)) /\ (Paid(m, now) => Paid(t, now))
    BY <2>1, SameProducers, Zenon
  <2> QED BY <2>1, <2>2, <2>3
<1>13. Reweighed1(s, t, v)
  <2>1. ASSUME NEW u \in Voters \ {v}, s.voters[u] # NoRow
        PROVE  t.voters[u].last_vote_weight = s.voters[u].last_vote_weight
    <3>1. CASE u = y
      BY <1>11, <3>1
    <3>2. CASE u # y
      BY <1>11, <3>2
    <3> QED BY <3>1, <3>2
  <2>2. t.voters[v].last_vote_weight \in Nat /\ Even(t.voters[v].last_vote_weight)
    BY <1>1, <1>2, <1>11 DEF NotedFacts
  <2>3. ASSUME NEW u \in Voters, s.voters[u] # NoRow
        PROVE  Even(t.voters[u].proxied_vote_weight)
    <3>1. Even(s.voters[u].proxied_vote_weight)
      BY <2>3 DEF Sound, WeightsEven
    <3>2. CASE u = y
      <4>1. t.voters[y].proxied_vote_weight = n
        BY <1>8, <1>11
      <4> QED BY <1>6, <3>2, <4>1, Zenon
    <3>3. CASE u = v
      BY <1>1, <1>11, <3>1, <3>3 DEF NotedFacts
    <3>4. CASE u # y /\ u # v
      BY <1>11, <3>1, <3>4
    <3> QED BY <3>2, <3>3, <3>4
  <2> QED BY <2>1, <2>2, <2>3 DEF Reweighed1
<1> DEFINE via2 == PassMore(via, y, v, change)
<1>14. /\ \A p \in Producers : cast[p][v] = CastBy(s.voters[v], p)
       /\ \A x \in Voters : via[x][v] = PassedBy(s.voters[v], x)
       /\ Matrices(cast, via)
  BY DEF Sound, Agree
<1>15. via[y][v] + change = Weight(s.voters[v]) /\ via[y][v] + change \in Nat
  <2>1. via[y][v] = s.voters[v].last_vote_weight
    BY <1>3, <1>14 DEF PassedBy
  <2> QED BY <1>2, <2>1
<1>16. Matrices(cast, via2) /\ Tallied(t, cast, via2)
  <2>1. ASSUME NEW x \in Voters, t.voters[x] # NoRow
        PROVE  /\ m.voters[x] # NoRow
               /\ t.voters[x].proxied_vote_weight
                    = m.voters[x].proxied_vote_weight + (IF x = y THEN change ELSE 0)
    <3>1. m.voters[x] # NoRow
      BY <1>9, <2>1 DEF ProxiedIsSet, Kept
    <3>2. CASE x = y
      BY <1>5, <1>11, <3>1, <3>2
    <3>3. CASE x # y
      <4>1. t.voters[x] = m.voters[x]
        BY <1>9, <3>3 DEF ProxiedIsSet
      <4>2. m.voters[x].proxied_vote_weight \in Nat
        BY <1>1, <1>14, <3>1, TalliesAreNat
      <4> QED BY <3>1, <3>3, <4>1, <4>2
    <3> QED BY <3>2, <3>3
  <2>2. t.producers = m.producers
        /\ t.global.total_producer_vote_weight = m.global.total_producer_vote_weight
    BY <1>9 DEF ProxiedIsSet
  <2>3. ProxiedShifts(m, t, y, change) /\ v \in Voters
    BY <2>1, <2>2 DEF ProxiedShifts
  <2> QED BY <1>1, <1>3, <1>4, <1>14, <1>15, <2>3, ProxiedMoved
<1>17. via2[y][v] = Weight(s.voters[v])
       /\ (\A x \in Voters \ {y} : via2[x] = via[x])
       /\ (\A u \in Voters \ {v} : via2[y][u] = via[y][u])
  <2>1. via \in [Voters -> [Voters -> Nat]] /\ via[y] \in [Voters -> Nat]
    BY <1>3, <1>14 DEF Matrices
  <2>2. via2[y] = [via[y] EXCEPT ![v] = via[y][v] + change]
    BY <1>3, <2>1 DEF PassMore
  <2>3. \A x \in Voters \ {y} : via2[x] = via[x]
    BY <2>1 DEF PassMore
  <2> HIDE DEF via2
  <2> QED BY <1>15, <2>1, <2>2, <2>3
<1> HIDE DEF via2
<1>18. OtherColumns(cast, via, cast, via2, v) /\ SameColumns(cast, via, cast, via2, G)
  <2>1. \A u \in Voters \ {v}, x \in Voters : via2[x][u] = via[x][u]
    BY <1>17
  <2>2. v \notin G
    OBVIOUS
  <2> QED BY <2>1, <2>2 DEF OtherColumns, SameColumns
<1>19. ColumnIs(t, cast, via2, v)
  <2>1. /\ t.voters[v] # NoRow
        /\ t.voters[v].last_vote_weight = Weight(s.voters[v])
        /\ t.voters[v].proxy = y
        /\ t.voters[v].producers = {}
    <3>1. t.voters[v].last_vote_weight = Weight(s.voters[v])
      BY <1>1, <1>11 DEF NotedFacts
    <3> QED BY <1>3, <1>10, <1>11, <3>1 DEF Kept
  <2>2. \A p \in Producers : cast[p][v] = 0
    BY <1>3, <1>14 DEF CastBy
  <2>3. \A x \in Voters \ {y} : via2[x][v] = 0
    BY <1>14, <1>17 DEF PassedBy
  <2> QED BY <1>17, <2>1, <2>2, <2>3 DEF ColumnIs, CastBy, PassedBy
<1>20. Sound(t, cast, via2, G)
  <2>1. v \in Voters
    OBVIOUS
  <2> QED BY <1>10, <1>12, <1>13, <1>16, <1>18, <1>19, <2>1, SoundAgain
<1>21. OneCall(s, v, t, y)
  <2>1. t.voters[v].last_vote_weight = Weight(t.voters[v])
        /\ t.voters[v].proxied_vote_weight = s.voters[v].proxied_vote_weight
    BY <1>1, <1>11 DEF NotedFacts
  <2>2. ASSUME NEW u \in Voters \ {v}, s.voters[u] # NoRow
        PROVE  /\ t.voters[u].last_vote_weight = s.voters[u].last_vote_weight
               /\ u # y => t.voters[u].proxied_vote_weight = s.voters[u].proxied_vote_weight
    BY <1>11, <1>13, <2>2 DEF Reweighed1
  <2> QED BY <1>10, <1>12, <2>1, <2>2 DEF OneCall
<1> QED BY <1>18, <1>20, <1>21 DEF Outcome

\* The voter votes for producers: the change of its weight goes to each of them.
LEMMA CallWithProducers ==
  ASSUME NEW s, NEW cast, NEW via, NEW G, Sound(s, cast, via, G),
         NEW v \in Voters \ G, s.voters[v] # NoRow, s.voters[v].proxy = None,
         NEW m, m = NotedTables(s, v),
         NEW change, change = Weight(s.voters[v]) - s.voters[v].last_vote_weight,
         NEW P, P = s.voters[v].producers,
         NEW t, t = ChangeVotes(m, [p \in P |-> change], now)
  PROVE  Outcome(s, v, t, None, cast, via, G)
<1> DEFINE delta == [p \in P |-> change]
<1>1. NotedFacts(s, v, m) /\ Tallied(m, cast, via)
  BY Noted
<1>2. /\ s.voters[v].last_vote_weight \in Nat /\ Weight(s.voters[v]) \in Nat
      /\ Even(Weight(s.voters[v]))
      /\ P \subseteq Producers /\ \A p \in P : s.producers[p] # NoRow
  BY SoundRow
<1>3. change \in Int /\ delta \in [P -> Int] /\ \A p \in P : delta[p] = change
  BY <1>2
<1>4. /\ \A p \in Producers : cast[p][v] = CastBy(s.voters[v], p)
      /\ \A x \in Voters : via[x][v] = PassedBy(s.voters[v], x)
      /\ Matrices(cast, via)
  BY DEF Sound, Agree
<1>5. t = ChangeVotes(m, delta, now)
  OBVIOUS
<1> HIDE DEF delta
<1>6. MayChange(m, P, delta, now)
  <2>1. \A p \in Producers : VotesOf(m.producers[p]) \in Nat
    BY <1>1, <1>4, TalliesAreNat
  <2>2. now \in Nat
    BY VotingAssumption DEF Sound
  <2>3. m \in TablesType /\ Dated(m, now) /\ m.producers = s.producers
    BY <1>1 DEF NotedFacts
  <2> QED BY <1>2, <1>3, <2>1, <2>2, <2>3 DEF MayChange
<1>7. t \in TablesType /\ Dated(t, now) /\ t.voters = m.voters /\ Kept(m, t)
  BY <1>5, <1>6, ChangeVotesTyped
<1>8. Kept(s, t)
  <2>1. Kept(s, m)
    BY <1>1 DEF NotedFacts
  <2> QED BY <1>7, <2>1, KeptTrans
<1>9. \A p \in P : cast[p][v] + delta[p] = Weight(s.voters[v])
  BY <1>2, <1>3, <1>4 DEF CastBy
<1> DEFINE cast2 == CastMore(cast, P, v, delta)
<1>10. Matrices(cast2, via) /\ Tallied(t, cast2, via)
  <2>1. v \in Voters /\ \A p \in P : cast[p][v] + delta[p] \in Nat
    BY <1>2, <1>9
  <2> QED BY <1>1, <1>4, <1>5, <1>6, <2>1, VotesMoved
<1>11. ASSUME NEW p \in Producers
       PROVE  /\ p \in P => cast2[p][v] = Weight(s.voters[v])
              /\ p \notin P => cast2[p][v] = 0
              /\ \A u \in Voters \ {v} : cast2[p][u] = cast[p][u]
  <2>1. cast2[p] = IF p \in P THEN [cast[p] EXCEPT ![v] = cast[p][v] + delta[p]] ELSE cast[p]
    BY DEF CastMore
  <2>2. cast[p] \in [Voters -> Nat]
    BY <1>4 DEF Matrices
  <2>3. p \notin P => cast[p][v] = 0
    BY <1>4 DEF CastBy
  <2> HIDE DEF cast2
  <2> QED BY <1>9, <2>1, <2>2, <2>3
<1> HIDE DEF cast2
<1>12. OtherColumns(cast, via, cast2, via, v) /\ SameColumns(cast, via, cast2, via, G)
  <2>1. v \notin G
    OBVIOUS
  <2> QED BY <1>11, <2>1 DEF OtherColumns, SameColumns
<1>13. ColumnIs(t, cast2, via, v)
  <2>1. /\ t.voters[v] # NoRow
        /\ t.voters[v].last_vote_weight = Weight(s.voters[v])
        /\ t.voters[v].proxy = None
        /\ t.voters[v].producers = P
    <3>1. t.voters[v].last_vote_weight = Weight(s.voters[v])
      BY <1>1, <1>7 DEF NotedFacts
    <3>2. /\ t.voters[v] # NoRow /\ t.voters[v].proxy = s.voters[v].proxy
          /\ t.voters[v].producers = s.voters[v].producers
      BY <1>8 DEF Kept
    <3> QED BY <3>1, <3>2
  <2>2. \A x \in Voters : via[x][v] = 0 /\ x # None
    BY <1>4, VotingAssumption DEF PassedBy
  <2>3. PICK row : row = t.voters[v]
    OBVIOUS
  <2>4. ASSUME NEW p \in Producers PROVE cast2[p][v] = CastBy(row, p)
    BY <1>11, <2>1, <2>3 DEF CastBy
  <2>5. ASSUME NEW x \in Voters PROVE via[x][v] = PassedBy(row, x)
    BY <2>1, <2>2, <2>3 DEF PassedBy
  <2> QED BY <2>1, <2>3, <2>4, <2>5 DEF ColumnIs
<1>14. Reweighed1(s, t, v)
  BY <1>1, <1>7 DEF NotedFacts, Reweighed1
<1>15. Sound(t, cast2, via, G)
  <2>1. v \in Voters
    OBVIOUS
  <2> QED BY <1>7, <1>8, <1>10, <1>12, <1>13, <1>14, <2>1, SoundAgain
<1>16. Paid(s, now) => Paid(t, now)
  <2>1. \A p \in Producers : VotesOf(t.producers[p]) \in Nat
    BY <1>10, TalliesAreNat
  <2>2. Paid(s, now) => Paid(m, now)
    BY <1>1 DEF NotedFacts
  <2> QED BY <1>5, <1>6, <2>1, <2>2, ChangeVotesPaid
<1>17. OneCall(s, v, t, None)
  BY <1>1, <1>7, <1>8, <1>16 DEF NotedFacts, OneCall
<1> QED BY <1>12, <1>15, <1>17 DEF Outcome

\* One call of propagate_weight_change, whichever of these cases it is.
LEMMA PropagateOnceSound ==
  ASSUME NEW s, NEW cast, NEW via, NEW G, Sound(s, cast, via, G),
         NEW v \in Voters \ G, s.voters[v] # NoRow,
         NEW r, r = PropagateOnce([tables |-> s, at |-> v])
  PROVE  Outcome(s, v, r.tables, r.at, cast, via, G)
<1> DEFINE row == s.voters[v]
           m == NotedTables(s, v)
           change == Weight(row) - row.last_vote_weight
<1>1. r = IF ~ Changed(row.last_vote_weight, Weight(row))
          THEN [tables |-> m, at |-> None]
          ELSE IF row.proxy # None
          THEN [tables |-> [m EXCEPT !.voters[row.proxy].proxied_vote_weight =
                              m.voters[row.proxy].proxied_vote_weight + change],
                at |-> row.proxy]
          ELSE [tables |-> ChangeVotes(m, [p \in row.producers |-> change], now), at |-> None]
  BY DEF PropagateOnce, NotedTables
<1>2. CASE ~ Changed(row.last_vote_weight, Weight(row))
  <2>1. r.tables = m /\ r.at = None
    BY <1>1, <1>2
  <2> QED BY <1>2, <2>1, CallUnchanged
<1>3. CASE Changed(row.last_vote_weight, Weight(row)) /\ row.proxy # None
  <2> DEFINE y == row.proxy
             t == [m EXCEPT !.voters[y].proxied_vote_weight =
                     m.voters[y].proxied_vote_weight + change]
  <2>1. r.tables = t /\ r.at = y
    BY <1>1, <1>3
  <2>2. PassedTo(m, t, y, change)
    BY Zenon DEF PassedTo
  <2>3. Outcome(s, v, t, y, cast, via, G)
    BY <1>3, <2>2, CallWithProxy
  <2> QED BY <2>1, <2>3
<1>4. CASE Changed(row.last_vote_weight, Weight(row)) /\ row.proxy = None
  <2> DEFINE t == ChangeVotes(m, [p \in row.producers |-> change], now)
  <2>1. r.tables = t /\ r.at = None
    BY <1>1, <1>4
  <2>2. Outcome(s, v, t, None, cast, via, G)
    BY <1>4, CallWithProducers
  <2> QED BY <2>1, <2>2
<1> QED BY <1>2, <1>3, <1>4

(***************************************************************************)
(* propagate_weight_change, the chain of calls                             *)
(***************************************************************************)
\* Voters whose proxies are among them.
ProxyClosed(s, D) ==
  /\ D \subseteq Voters
  /\ \A u \in D : /\ s.voters[u] # NoRow
                  /\ s.voters[u].proxy # None => s.voters[u].proxy \in D

\* From the proxy of a voter no chain of proxies leads back to that voter.
LEMMA ProxiesLeadAway ==
  ASSUME NEW s, RowsFit(s), Acyclic(s), NEW g \in Voters, s.voters[g] # NoRow,
         NEW y, y = s.voters[g].proxy, y # None
  PROVE  \E D : ProxyClosed(s, D) /\ y \in D /\ g \notin D
<1> DEFINE Avoids(u, D) == ProxyClosed(s, D) /\ u \in D /\ g \notin D
           E == {u \in Voters : s.voters[u] # NoRow /\ ~ \E D : Avoids(u, D)}
<1>1. SUFFICES ASSUME ~ \E D : Avoids(y, D) PROVE FALSE
  BY Zenon
<1>2. y \in E
  <2>1. y \in Voters /\ s.voters[y] # NoRow
    BY DEF RowsFit
  <2> HIDE DEF Avoids
  <2> QED BY <1>1, <2>1
<1>3. ASSUME NEW u \in E, s.voters[u].proxy \notin E PROVE FALSE
  <2>1. u \in Voters /\ s.voters[u] # NoRow /\ ~ \E D : Avoids(u, D)
    <3> HIDE DEF Avoids
    <3> QED BY <1>3
  <2>2. u # g
    BY <1>2, <1>3
  <2>3. s.voters[u].proxy # None
    <3>1. SUFFICES ASSUME s.voters[u].proxy = None PROVE FALSE
      OBVIOUS
    <3>2. Avoids(u, {u})
      BY <2>1, <2>2, <3>1 DEF ProxyClosed
    <3> QED BY <2>1, <3>2, Zenon
  <2>4. s.voters[u].proxy \in Voters /\ s.voters[s.voters[u].proxy] # NoRow
    BY <2>1, <2>3 DEF RowsFit
  <2>5. PICK D : Avoids(s.voters[u].proxy, D)
    <3> HIDE DEF Avoids
    <3> QED BY <1>3, <2>4
  <2>6. Avoids(u, D \cup {u})
    BY <2>1, <2>2, <2>5 DEF ProxyClosed
  <2> QED BY <2>1, <2>6, Zenon
<1>4. E \in SUBSET Voters /\ E # {} /\ \A u \in E : s.voters[u] # NoRow
  <2> HIDE DEF Avoids
  <2> QED BY <1>2
<1> HIDE DEF E
<1> QED BY <1>3, <1>4 DEF Acyclic

\* Whoever votes has cast what its row backs, and a proxy passes all of it on.
Backed(row) ==
  Votes(row) => /\ row.last_vote_weight <= Weight(row)
                /\ row.is_proxy => row.last_vote_weight >= row.proxied_vote_weight

\* The chain of calls that began in tables s at voter v has come to tables t and will
\* go on at voter at.
Passed(s, v, t, at, cast, via, G) ==
  /\ Kept(s, t)
  /\ \E cast2, via2 : Sound(t, cast2, via2, G) /\ SameColumns(cast, via, cast2, via2, G)
  /\ \A g \in G \cap Voters : s.voters[g] # NoRow =>
       /\ t.voters[g].last_vote_weight = s.voters[g].last_vote_weight
       /\ t.voters[g].proxied_vote_weight = s.voters[g].proxied_vote_weight
  /\ Paid(s, now) => Paid(t, now)
  /\ \A u \in Voters \ G : s.voters[u] # NoRow /\ u # at =>
       ((Backed(s.voters[u]) \/ u = v) => Backed(t.voters[u]))

\* A voter whose weights do not change stays backed.
LEMMA BackedKept ==
  ASSUME NEW s, NEW t, Kept(s, t), NEW u \in Voters, s.voters[u] # NoRow,
         t.voters[u].last_vote_weight = s.voters[u].last_vote_weight,
         t.voters[u].proxied_vote_weight = s.voters[u].proxied_vote_weight,
         Backed(s.voters[u])
  PROVE  Backed(t.voters[u])
<1>1. Weight(t.voters[u]) = Weight(s.voters[u])
  BY WeightKept
<1>2. Votes(t.voters[u]) <=> Votes(s.voters[u])
  BY DEF Kept, Votes
<1>3. t.voters[u].is_proxy = s.voters[u].is_proxy
  BY DEF Kept
<1> QED BY <1>1, <1>2, <1>3 DEF Backed

\* One more call.
LEMMA PassedOn ==
  ASSUME NEW s, NEW v \in Voters, NEW cast, NEW via, NEW G,
         NEW t, NEW at \in Voters \ G, s.voters[at] # NoRow, Passed(s, v, t, at, cast, via, G),
         t.voters[at].proxy \notin G,
         NEW r, r = PropagateOnce([tables |-> t, at |-> at])
  PROVE  /\ Passed(s, v, r.tables, r.at, cast, via, G)
         /\ r.at # None => r.at = t.voters[at].proxy
<1>1. PICK cast1, via1 : Sound(t, cast1, via1, G) /\ SameColumns(cast, via, cast1, via1, G)
  BY Zenon DEF Passed
<1>2. Kept(s, t) /\ t.voters[at] # NoRow
  BY DEF Passed, Kept
<1>3. Outcome(t, at, r.tables, r.at, cast1, via1, G)
  BY <1>1, <1>2, PropagateOnceSound
<1>4. PICK d : d = r.tables
  OBVIOUS
<1>5. PICK next : next = r.at
  OBVIOUS
<1>6. OneCall(t, at, d, next)
  BY <1>3, <1>4, <1>5 DEF Outcome
<1>7. PICK cast2, via2 : Sound(d, cast2, via2, G) /\ SameColumns(cast1, via1, cast2, via2, G)
  BY <1>3, <1>4, Zenon DEF Outcome
<1>8. SameColumns(cast, via, cast2, via2, G)
  BY <1>1, <1>7 DEF SameColumns
<1>9. Kept(t, d) /\ (next # None => next = t.voters[at].proxy)
  BY <1>6 DEF OneCall
<1>10. Kept(s, d)
  BY <1>2, <1>9, KeptTrans
<1>11. ASSUME NEW g \in G \cap Voters, s.voters[g] # NoRow
       PROVE  /\ d.voters[g].last_vote_weight = s.voters[g].last_vote_weight
              /\ d.voters[g].proxied_vote_weight = s.voters[g].proxied_vote_weight
  <2>1. /\ t.voters[g].last_vote_weight = s.voters[g].last_vote_weight
        /\ t.voters[g].proxied_vote_weight = s.voters[g].proxied_vote_weight
    BY <1>11 DEF Passed
  <2>2. g \in Voters \ {at} /\ t.voters[g] # NoRow
    BY <1>2, <1>11 DEF Kept
  <2>3. g # next
    <3>1. CASE next = None
      BY <3>1, <2>2, VotingAssumption
    <3>2. CASE next # None
      BY <3>2, <1>9
    <3> QED BY <3>1, <3>2
  <2> QED BY <1>6, <2>1, <2>2, <2>3 DEF OneCall
<1>12. Paid(s, now) => Paid(d, now)
  BY <1>6 DEF Passed, OneCall
<1>13. ASSUME NEW u \in Voters \ G, s.voters[u] # NoRow, u # next,
              Backed(s.voters[u]) \/ u = v
       PROVE  Backed(d.voters[u])
  <2>1. t.voters[u] # NoRow
    BY <1>2, <1>13 DEF Kept
  <2>2. CASE u = at
    <3>1. d.voters[at] # NoRow
      BY <2>1, <2>2, <1>9 DEF Kept
    <3>2. /\ d.voters[at].last_vote_weight = Weight(d.voters[at])
      BY <1>6 DEF OneCall
    <3>3. /\ Weight(d.voters[at]) \in Nat
          /\ d.voters[at].is_proxy => Weight(d.voters[at]) >= d.voters[at].proxied_vote_weight
      <4>1. at \in Voters
        OBVIOUS
      <4> QED BY <1>7, <3>1, <4>1, SoundRow
    <3> QED BY <2>2, <3>2, <3>3 DEF Backed
  <2>3. CASE u # at
    <3>1. Backed(t.voters[u])
      BY <1>13, <2>3 DEF Passed
    <3>2. u \in Voters \ {at}
      BY <2>3
    <3>3. /\ d.voters[u].last_vote_weight = t.voters[u].last_vote_weight
          /\ d.voters[u].proxied_vote_weight = t.voters[u].proxied_vote_weight
      BY <1>6, <1>13, <2>1, <3>2 DEF OneCall
    <3> QED BY <1>9, <2>1, <3>1, <3>2, <3>3, BackedKept
  <2> QED BY <2>2, <2>3
<1>14. Passed(s, v, d, next, cast, via, G)
  <2>1. \E c2, v2 : Sound(d, c2, v2, G) /\ SameColumns(cast, via, c2, v2, G)
    BY <1>7, <1>8, Zenon
  <2> QED BY <1>10, <1>11, <1>12, <1>13, <2>1 DEF Passed
<1> QED BY <1>4, <1>5, <1>9, <1>14

\* The walk of propagate_weight_change: where the calls have come after n of them.
WalkSteps(f, s, v, max) ==
  f = [n \in 0 .. max |->
         IF n = 0 THEN [tables |-> s, at |-> v]
         ELSE IF f[n - 1].at = None THEN f[n - 1]
         ELSE PropagateOnce(f[n - 1])]

\* There is such a walk, however long,
LEMMA WalkExists ==
  ASSUME NEW s, NEW v, NEW max \in Nat
  PROVE  \E f : WalkSteps(f, s, v, max)
<1> DEFINE Bad == {n \in Nat : ~ \E f : WalkSteps(f, s, v, n)}
           next(w) == IF w.at = None THEN w ELSE PropagateOnce(w)
           start == [tables |-> s, at |-> v]
<1>1. SUFFICES ASSUME Bad # {} PROVE FALSE
  OBVIOUS
<1>2. PICK m \in Bad : \A k \in Bad : m <= k
  <2>1. Bad \in SUBSET Nat
    OBVIOUS
  <2> HIDE DEF Bad
  <2> QED BY <1>1, <2>1, SmallestNumber
<1>3. m \in Nat /\ ~ \E f : WalkSteps(f, s, v, m)
  OBVIOUS
<1>4. m # 0
  <2>1. SUFFICES ASSUME m = 0 PROVE FALSE
    OBVIOUS
  <2>2. PICK f : f = [n \in 0 .. 0 |-> start]
    OBVIOUS
  <2> HIDE DEF start
  <2>3. f = [n \in 0 .. 0 |-> IF n = 0 THEN start ELSE next(f[n - 1])]
    <3> HIDE DEF next
    <3> QED BY <2>2
  <2> QED BY <1>3, <2>1, <2>3 DEF WalkSteps, start
<1>5. m - 1 \in Nat /\ m - 1 \notin Bad
  BY <1>2, <1>3, <1>4
<1>6. PICK f : WalkSteps(f, s, v, m - 1)
  BY <1>5
<1> HIDE DEF start
<1>7. PICK g : g = [n \in 0 .. m |-> IF n = m THEN next(f[m - 1]) ELSE f[n]]
  OBVIOUS
<1>8. \A n \in 0 .. m - 1 : f[n] = IF n = 0 THEN start ELSE next(f[n - 1])
  BY <1>6 DEF WalkSteps, start
<1> HIDE DEF next
<1>9. \A n \in 0 .. m - 1 : g[n] = f[n]
  BY <1>3, <1>7
<1>10. ASSUME NEW n \in 0 .. m
       PROVE  g[n] = IF n = 0 THEN start ELSE next(g[n - 1])
  <2>1. CASE n = m
    <3>1. g[n] = next(f[m - 1]) /\ n # 0 /\ n - 1 \in 0 .. m - 1
      BY <1>3, <1>4, <1>7, <2>1
    <3> QED BY <1>9, <2>1, <3>1
  <2>2. CASE n = 0
    <3>1. n \in 0 .. m - 1
      BY <1>3, <1>4, <2>2
    <3> QED BY <1>8, <1>9, <2>2, <3>1
  <2>3. CASE n # 0 /\ n # m
    <3>1. n \in 0 .. m - 1 /\ n - 1 \in 0 .. m - 1
      BY <1>3, <2>3
    <3> QED BY <1>8, <1>9, <2>3, <3>1
  <2> QED BY <2>1, <2>2, <2>3
<1>11. g = [n \in 0 .. m |-> IF n = 0 THEN start ELSE next(g[n - 1])]
  BY <1>7, <1>10
<1>12. WalkSteps(g, s, v, m)
  BY <1>11 DEF WalkSteps, start, next
<1> QED BY <1>3, <1>12

\* and Propagate is where it ends.
LEMMA PropagateIsWalk ==
  ASSUME NEW s, NEW v
  PROVE  \E f : /\ WalkSteps(f, s, v, Cardinality(Voters))
                /\ Propagate(s, v) = f[Cardinality(Voters)].tables
<1> DEFINE max == Cardinality(Voters)
           walk == CHOOSE f : f = [n \in 0 .. max |->
                     IF n = 0 THEN [tables |-> s, at |-> v]
                     ELSE IF f[n - 1].at = None THEN f[n - 1]
                     ELSE PropagateOnce(f[n - 1])]
<1>1. Propagate(s, v) = walk[max].tables
  BY DEF Propagate
<1>2. max \in Nat
  BY TablesFinite, FS_CardinalityType
<1>3. \E f : WalkSteps(f, s, v, max)
  <2> HIDE DEF max
  <2> QED BY <1>2, WalkExists
<1>4. WalkSteps(walk, s, v, max)
  BY <1>3, Zenon DEF WalkSteps
<1> HIDE DEF walk
<1> QED BY <1>1, <1>4

\* After n calls the chain is at its end, or at a voter in a set of at most
\* Cardinality(Voters) - n that none of the rest of the chain leaves.
Near(s, D, at, n) ==
  at # None =>
    \E E \in SUBSET D : ProxyClosed(s, E) /\ at \in E /\ Cardinality(E) + n <= Cardinality(Voters)

\* After n calls the walk has passed the weight on, and is near its end.
WalkedTo(s, v, w, n, D, cast, via, G) ==
  Passed(s, v, w.tables, w.at, cast, via, G) /\ Near(s, D, w.at, n)

\* A chain that is not at its end has voters left, and one fewer after the next call.
LEMMA NearOne ==
  ASSUME NEW s, RowsFit(s), Acyclic(s), NEW D, ProxyClosed(s, D), NEW n \in Nat,
         NEW at, at # None, Near(s, D, at, n)
  PROVE  /\ at \in D /\ at \in Voters /\ s.voters[at] # NoRow
         /\ s.voters[at].proxy # None => s.voters[at].proxy \in D
         /\ Near(s, D, s.voters[at].proxy, n + 1)
         /\ n < Cardinality(Voters)
<1>1. PICK E \in SUBSET D : ProxyClosed(s, E) /\ at \in E
                            /\ Cardinality(E) + n <= Cardinality(Voters)
  BY DEF Near
<1>2. at \in D /\ at \in Voters /\ s.voters[at] # NoRow
      /\ (s.voters[at].proxy # None => s.voters[at].proxy \in D)
  BY <1>1 DEF ProxyClosed
<1>3. IsFiniteSet(E) /\ Cardinality(Voters) \in Nat
  BY <1>1, TablesFinite, FS_Subset, FS_CardinalityType DEF ProxyClosed
<1>4. Cardinality(E) \in Nat /\ Cardinality(E) > 0
  BY <1>1, <1>3, FS_EmptySet, FS_CardinalityType
<1>5. ASSUME s.voters[at].proxy # None
      PROVE  Near(s, D, s.voters[at].proxy, n + 1)
  <2> DEFINE y == s.voters[at].proxy
  <2>1. PICK F : ProxyClosed(s, F) /\ y \in F /\ at \notin F
    BY <1>2, <1>5, ProxiesLeadAway
  <2> DEFINE H == E \cap F
  <2>2. ProxyClosed(s, H) /\ y \in H /\ H \in SUBSET D
    BY <1>1, <1>5, <2>1 DEF ProxyClosed
  <2>3. H \subseteq E \ {at}
    BY <2>1
  <2>4. IsFiniteSet(E \ {at}) /\ Cardinality(E \ {at}) = Cardinality(E) - 1
    BY <1>1, <1>3, FS_RemoveElement
  <2>5. Cardinality(H) <= Cardinality(E) - 1 /\ Cardinality(H) \in Nat
    BY <2>3, <2>4, FS_Subset, FS_CardinalityType
  <2> HIDE DEF H, y
  <2>6. Cardinality(H) + (n + 1) <= Cardinality(Voters)
    BY <1>1, <1>3, <1>4, <2>5
  <2> QED BY <2>2, <2>6 DEF Near, y
<1>6. Near(s, D, s.voters[at].proxy, n + 1)
  BY <1>5 DEF Near
<1> QED BY <1>1, <1>2, <1>3, <1>4, <1>6

\* The next call.
LEMMA WalkedOn ==
  ASSUME NEW s, NEW v \in Voters, NEW cast, NEW via, NEW G, Sound(s, cast, via, G),
         NEW D, ProxyClosed(s, D), D \cap G = {}, None \notin G, NEW n \in Nat,
         NEW w, WalkedTo(s, v, w, n, D, cast, via, G), w.at # None
  PROVE  WalkedTo(s, v, PropagateOnce(w), n + 1, D, cast, via, G)
<1>1. PICK t : t = w.tables
  OBVIOUS
<1>2. PICK at : at = w.at
  OBVIOUS
<1>3. PICK r : r = PropagateOnce([tables |-> t, at |-> at])
  OBVIOUS
<1>4. PropagateOnce(w) = r
  BY <1>1, <1>2, <1>3 DEF PropagateOnce
<1>5. Passed(s, v, t, at, cast, via, G) /\ Near(s, D, at, n)
  BY <1>1, <1>2 DEF WalkedTo
<1>6. /\ at \in D /\ at \in Voters /\ s.voters[at] # NoRow
      /\ s.voters[at].proxy # None => s.voters[at].proxy \in D
      /\ Near(s, D, s.voters[at].proxy, n + 1)
  BY <1>2, <1>5, NearOne DEF Sound
<1>7. t.voters[at].proxy = s.voters[at].proxy
  BY <1>5, <1>6 DEF Passed, Kept
<1>8. at \in Voters \ G /\ t.voters[at].proxy \notin G
  BY <1>6, <1>7
<1>9. /\ Passed(s, v, r.tables, r.at, cast, via, G)
      /\ r.at # None => r.at = t.voters[at].proxy
  BY <1>3, <1>5, <1>6, <1>8, PassedOn
<1>10. Near(s, D, r.at, n + 1)
  <2>1. CASE r.at = None
    BY <2>1 DEF Near
  <2>2. CASE r.at # None
    BY <2>2, <1>6, <1>7, <1>9
  <2> QED BY <2>1, <2>2
<1> QED BY <1>4, <1>9, <1>10 DEF WalkedTo

\* Before the first call.
LEMMA WalkStarts ==
  ASSUME NEW s, NEW v \in Voters, NEW cast, NEW via, NEW G, Sound(s, cast, via, G),
         NEW D, ProxyClosed(s, D), v \in D
  PROVE  WalkedTo(s, v, [tables |-> s, at |-> v], 0, D, cast, via, G)
<1>1. Kept(s, s)
  BY DEF Kept
<1>2. \E cast2, via2 : Sound(s, cast2, via2, G) /\ SameColumns(cast, via, cast2, via2, G)
  <2>1. SameColumns(cast, via, cast, via, G)
    BY DEF SameColumns
  <2> QED BY <2>1, Zenon
<1>3. Passed(s, v, s, v, cast, via, G)
  BY <1>1, <1>2 DEF Passed
<1>4. Near(s, D, v, 0)
  <2>1. IsFiniteSet(D) /\ Cardinality(D) <= Cardinality(Voters) /\ Cardinality(D) \in Nat
    BY TablesFinite, FS_Subset, FS_CardinalityType DEF ProxyClosed
  <2>2. Cardinality(D) + 0 <= Cardinality(Voters)
    BY <2>1, TablesFinite, FS_CardinalityType
  <2>3. D \in SUBSET D
    OBVIOUS
  <2> QED BY <2>2, <2>3 DEF Near
<1>5. PICK w : w = [tables |-> s, at |-> v]
  OBVIOUS
<1>6. w.tables = s /\ w.at = v
  BY <1>5
<1>7. WalkedTo(s, v, w, 0, D, cast, via, G)
  BY <1>3, <1>4, <1>6 DEF WalkedTo
<1> QED BY <1>5, <1>7

\* propagate_weight_change keeps the tallies and comes to its end: no chain of proxies
\* is longer than the voters are many, and none that begins in D gets to a voter in G.
LEMMA PropagateSound ==
  ASSUME NEW s, NEW v \in Voters, NEW cast, NEW via, NEW G, Sound(s, cast, via, G),
         NEW D, ProxyClosed(s, D), v \in D, D \cap G = {}, None \notin G
  PROVE  Passed(s, v, Propagate(s, v), None, cast, via, G)
<1>1. PICK max : max = Cardinality(Voters)
  OBVIOUS
<1>2. max \in Nat
  BY <1>1, TablesFinite, FS_CardinalityType
<1>3. PICK f : WalkSteps(f, s, v, max) /\ Propagate(s, v) = f[max].tables
  BY <1>1, PropagateIsWalk
<1>4. \A n \in 0 .. max : f[n] = IF n = 0 THEN [tables |-> s, at |-> v]
                                ELSE IF f[n - 1].at = None THEN f[n - 1]
                                ELSE PropagateOnce(f[n - 1])
  BY <1>3 DEF WalkSteps
<1> DEFINE Bad == {n \in 0 .. max : ~ WalkedTo(s, v, f[n], n, D, cast, via, G)}
<1>5. Bad = {}
  <2>1. SUFFICES ASSUME Bad # {} PROVE FALSE
    OBVIOUS
  <2>2. PICK n \in Bad : \A k \in Bad : n <= k
    <3>1. Bad \in SUBSET Nat
      OBVIOUS
    <3> HIDE DEF Bad
    <3> QED BY <2>1, <3>1, SmallestNumber
  <2>3. n \in 0 .. max /\ ~ WalkedTo(s, v, f[n], n, D, cast, via, G)
    OBVIOUS
  <2>4. n # 0
    <3>1. SUFFICES ASSUME n = 0 PROVE FALSE
      OBVIOUS
    <3>2. f[n] = [tables |-> s, at |-> v]
      BY <1>4, <2>3, <3>1
    <3> QED BY <2>3, <3>1, <3>2, WalkStarts
  <2>5. n - 1 \in 0 .. max /\ n - 1 \in Nat /\ (n - 1) + 1 = n
    BY <1>2, <2>3, <2>4
  <2>6. n - 1 \notin Bad
    <3> HIDE DEF Bad
    <3> QED BY <2>2, <2>3, <2>5
  <2>7. WalkedTo(s, v, f[n - 1], n - 1, D, cast, via, G)
    BY <2>5, <2>6
  <2>8. f[n] = IF f[n - 1].at = None THEN f[n - 1] ELSE PropagateOnce(f[n - 1])
    BY <1>4, <2>3, <2>4
  <2>9. WalkedTo(s, v, f[n], n, D, cast, via, G)
    <3>1. CASE f[n - 1].at = None
      BY <3>1, <2>7, <2>8 DEF WalkedTo, Near
    <3>2. CASE f[n - 1].at # None
      <4> HIDE DEF Bad
      <4>1. WalkedTo(s, v, PropagateOnce(f[n - 1]), (n - 1) + 1, D, cast, via, G)
        BY <2>5, <2>7, <3>2, WalkedOn
      <4> QED BY <4>1, <2>5, <2>8, <3>2
    <3> QED BY <3>1, <3>2
  <2> QED BY <2>3, <2>9
<1>6. WalkedTo(s, v, f[max], max, D, cast, via, G)
  BY <1>2, <1>5
<1>7. f[max].at = None
  <2>1. Near(s, D, f[max].at, max)
    BY <1>6 DEF WalkedTo
  <2>2. SUFFICES ASSUME f[max].at # None PROVE FALSE
    OBVIOUS
  <2>3. max < Cardinality(Voters)
    BY <1>2, <2>1, <2>2, NearOne DEF Sound
  <2> QED BY <1>1, <1>2, <2>3
<1> QED BY <1>3, <1>6, <1>7 DEF WalkedTo

(***************************************************************************)
(* update_votes                                                            *)
(***************************************************************************)
\* From s to t voter v gave d more to x to cast, and x passed it on.
ProxyGiven(s, t, v, x, d, cast, via) ==
  /\ Kept(s, t)
  /\ \E cast2, via2 :
       /\ Sound(t, cast2, via2, {v})
       /\ \A p \in Producers : cast2[p][v] = cast[p][v]
       /\ \A y \in Voters : via2[y][v] = via[y][v] + (IF y = x THEN d ELSE 0)
  /\ t.voters[v].last_vote_weight = s.voters[v].last_vote_weight
  /\ t.voters[v].proxied_vote_weight = s.voters[v].proxied_vote_weight
  /\ Paid(s, now) => Paid(t, now)
  /\ \A u \in Voters \ {v} : s.voters[u] # NoRow /\ Backed(s.voters[u]) => Backed(t.voters[u])

\* What a proxy was given changes, and it passes the change on.
LEMMA ProxyIsGiven ==
  ASSUME NEW s, NEW v \in Voters, s.voters[v] # NoRow,
         NEW cast, NEW via, Sound(s, cast, via, {v}),
         NEW D, ProxyClosed(s, D), v \notin D, NEW x \in D,
         NEW d \in Int, Even(d), via[x][v] + d \in Nat,
         NEW m, m = [s EXCEPT !.voters[x].proxied_vote_weight =
                                s.voters[x].proxied_vote_weight + d],
         NEW t, t = Propagate(m, x)
  PROVE  ProxyGiven(s, t, v, x, d, cast, via)
<1>1. x \in Voters /\ s.voters[x] # NoRow /\ x # v
  BY DEF ProxyClosed
<1>2. s \in TablesType /\ Dated(s, now) /\ WeightsEven(s) /\ Matrices(cast, via)
      /\ Tallied(s, cast, via)
  BY DEF Sound
<1>3. /\ s.voters[x].proxied_vote_weight \in Nat /\ Even(s.voters[x].proxied_vote_weight)
  BY <1>1, SoundRow
<1>4. PICK n \in Int : n = s.voters[x].proxied_vote_weight + d
  BY <1>3
<1>5. ProxiedIsSet(s, m, x, n)
  <2>1. m = [s EXCEPT !.voters[x].proxied_vote_weight = n]
    BY <1>4
  <2> QED BY <1>1, <1>2, <2>1, ProxiedSet
<1>6. Even(n)
  BY <1>3, <1>4, EvenSum
<1>7. Kept(s, m) /\ m \in TablesType /\ Dated(m, now) /\ (Paid(s, now) => Paid(m, now))
  <2>1. /\ Kept(s, m) /\ m \in TablesType
        /\ m.producers = s.producers /\ m.producers2 = s.producers2 /\ m.global = s.global
    BY <1>5 DEF ProxiedIsSet
  <2>2. /\ Dated(s, now) => Dated(m, now)
        /\ Paid(s, now) => Paid(m, now)
    BY <2>1, SameProducers
  <2> QED BY <1>2, <2>1, <2>2
<1>8. PICK via1 : via1 = PassMore(via, x, v, d)
  OBVIOUS
<1>9. Matrices(cast, via1) /\ Tallied(m, cast, via1)
  <2>1. \A y \in Voters : m.voters[y] # NoRow =>
          /\ s.voters[y] # NoRow
          /\ m.voters[y].proxied_vote_weight
               = s.voters[y].proxied_vote_weight + (IF y = x THEN d ELSE 0)
    <3>1. SUFFICES ASSUME NEW y \in Voters, m.voters[y] # NoRow
                   PROVE  /\ s.voters[y] # NoRow
                          /\ m.voters[y].proxied_vote_weight
                               = s.voters[y].proxied_vote_weight + (IF y = x THEN d ELSE 0)
      OBVIOUS
    <3>2. CASE y = x
      BY <1>1, <1>4, <1>5, <3>2 DEF ProxiedIsSet
    <3>3. CASE y # x
      <4>1. m.voters[y] = s.voters[y]
        BY <1>5, <3>3 DEF ProxiedIsSet
      <4>2. s.voters[y].proxied_vote_weight \in Int
        BY <1>2, <3>1, <4>1 DEF TablesType, VoterRow
      <4> QED BY <3>1, <3>3, <4>1, <4>2
    <3> QED BY <3>2, <3>3
  <2>2. ProxiedShifts(s, m, x, d)
    BY <1>5, <2>1 DEF ProxiedShifts, ProxiedIsSet
  <2> QED BY <1>1, <1>2, <1>8, <2>2, ProxiedMoved
<1>10. \A u \in Voters : \A y \in Voters :
         via1[y][u] = via[y][u] + (IF y = x /\ u = v THEN d ELSE 0)
  BY <1>1, <1>2, <1>8 DEF PassMore, Matrices
<1>11. Sound(m, cast, via1, {v})
  <2>1. Reweighed1(s, m, v)
    <3>1. \A u \in Voters \ {v} : s.voters[u] # NoRow =>
            m.voters[u].last_vote_weight = s.voters[u].last_vote_weight
      BY <1>5 DEF ProxiedIsSet
    <3>2. m.voters[v] = s.voters[v]
      BY <1>1, <1>5 DEF ProxiedIsSet
    <3>3. \A u \in Voters : s.voters[u] # NoRow => Even(m.voters[u].proxied_vote_weight)
      BY <1>2, <1>5, <1>6 DEF ProxiedIsSet, WeightsEven
    <3>4. m.voters[v].last_vote_weight \in Nat /\ Even(m.voters[v].last_vote_weight)
      BY <1>2, <3>2 DEF WeightsEven
    <3> QED BY <3>1, <3>3, <3>4 DEF Reweighed1
  <2>2. OtherColumns(cast, via, cast, via1, v)
    <3>1. \A u \in Voters \ {v} : \A y \in Voters : via1[y][u] = via[y][u]
      BY <1>2, <1>10 DEF Matrices
    <3> QED BY <3>1 DEF OtherColumns
  <2>3. v \in {v}
    OBVIOUS
  <2> QED BY <1>7, <1>9, <2>1, <2>2, <2>3, SoundAgain
<1>12. ProxyClosed(m, D)
  BY <1>7 DEF ProxyClosed, Kept
<1>13. Passed(m, x, t, None, cast, via1, {v})
  <2>1. D \cap {v} = {} /\ None \notin {v}
    BY VotingAssumption
  <2> QED BY <1>1, <1>11, <1>12, <2>1, PropagateSound
<1>14. Kept(s, t)
  BY <1>7, <1>13, KeptTrans DEF Passed
<1>15. PICK cast2, via2 : Sound(t, cast2, via2, {v}) /\ SameColumns(cast, via1, cast2, via2, {v})
  BY <1>13, Zenon DEF Passed
<1>16. /\ \A p \in Producers : cast2[p][v] = cast[p][v]
       /\ \A y \in Voters : via2[y][v] = via[y][v] + (IF y = x THEN d ELSE 0)
  <2>1. /\ \A p \in Producers : cast2[p][v] = cast[p][v]
        /\ \A y \in Voters : via2[y][v] = via1[y][v]
    BY <1>15 DEF SameColumns
  <2> QED BY <1>10, <2>1
<1>17. /\ t.voters[v].last_vote_weight = s.voters[v].last_vote_weight
       /\ t.voters[v].proxied_vote_weight = s.voters[v].proxied_vote_weight
  <2>1. m.voters[v] = s.voters[v]
    BY <1>1, <1>5 DEF ProxiedIsSet
  <2> QED BY <1>13, <2>1 DEF Passed
<1>18. Paid(s, now) => Paid(t, now)
  BY <1>7, <1>13 DEF Passed
<1>19. ASSUME NEW u \in Voters \ {v}, s.voters[u] # NoRow, Backed(s.voters[u])
       PROVE  Backed(t.voters[u])
  <2>1. m.voters[u] # NoRow /\ u # None
    BY <1>7, <1>19, VotingAssumption DEF Kept
  <2>2. u = x \/ Backed(m.voters[u])
    BY <1>5, <1>19 DEF ProxiedIsSet
  <2> QED BY <1>13, <2>1, <2>2 DEF Passed
<1>20. \E c2, v2 : /\ Sound(t, c2, v2, {v})
                   /\ \A p \in Producers : c2[p][v] = cast[p][v]
                   /\ \A y \in Voters : v2[y][v] = via[y][v] + (IF y = x THEN d ELSE 0)
  <2>1. Sound(t, cast2, via2, {v})
    BY <1>15, Zenon
  <2> WITNESS cast2, via2
  <2> QED BY <1>16, <2>1, Zenon
<1> QED BY <1>14, <1>17, <1>18, <1>19, <1>20 DEF ProxyGiven

\* From s to t weights moved that are not voter v's own.
Carried(s, t, v) ==
  /\ Kept(s, t)
  /\ t.voters[v].last_vote_weight = s.voters[v].last_vote_weight
  /\ t.voters[v].proxied_vote_weight = s.voters[v].proxied_vote_weight
  /\ Paid(s, now) => Paid(t, now)
  /\ \A u \in Voters \ {v} : s.voters[u] # NoRow /\ Backed(s.voters[u]) => Backed(t.voters[u])

\* In tables t voter v counts for votes[p] with producer p, and for weight with proxy x.
CountsFor(t, v, votes, x, weight) ==
  \E cast, via :
    /\ Sound(t, cast, via, {v})
    /\ \A p \in Producers : cast[p][v] = votes[p]
    /\ \A y \in Voters : via[y][v] = IF y = x THEN weight ELSE 0

\* Nothing moved,
LEMMA CarriedSame ==
  ASSUME NEW s, NEW v
  PROVE  Carried(s, s, v)
<1>1. Kept(s, s)
  BY DEF Kept
<1> QED BY <1>1 DEF Carried

\* or more moved after that.
LEMMA CarriedOn ==
  ASSUME NEW s, NEW t, NEW u, NEW v \in Voters, Carried(s, t, v), Carried(t, u, v)
  PROVE  Carried(s, u, v)
<1>1. Kept(s, u)
  BY KeptTrans DEF Carried
<1>2. \A w \in Voters : s.voters[w] # NoRow => t.voters[w] # NoRow
  BY DEF Carried, Kept
<1> QED BY <1>1, <1>2 DEF Carried

\* The voter takes away from its proxy what it gave it to cast.
LEMMA ProxyIsLeft ==
  ASSUME NEW s, NEW cast, NEW via, Sound(s, cast, via, {}),
         NEW v \in Voters, s.voters[v] # NoRow,
         NEW row, row = s.voters[v],
         NEW votes, votes = [p \in Producers |-> CastBy(row, p)],
         NEW t, t = LeaveProxy(s, row)
  PROVE  Carried(s, t, v) /\ CountsFor(t, v, votes, None, 0)
<1>1. Sound(s, cast, via, {v})
  BY DEF Sound, Agree
<1>2. /\ \A p \in Producers : cast[p][v] = votes[p]
      /\ \A y \in Voters : via[y][v] = IF row.proxy = y THEN row.last_vote_weight ELSE 0
  BY DEF Sound, Agree, PassedBy
<1>3. row.last_vote_weight \in Nat /\ Even(row.last_vote_weight)
  BY <1>1, SoundRow
<1>4. CASE row.last_vote_weight > 0 /\ row.proxy # None
  <2>1. PICK x : x = row.proxy
    OBVIOUS
  <2>2. PICK d \in Int : d = - row.last_vote_weight
    BY <1>3
  <2>3. x \in Voters /\ s.voters[x] # NoRow
    BY <1>1, <1>4, <2>1, SoundRow
  <2>4. PICK D : ProxyClosed(s, D) /\ x \in D /\ v \notin D
    BY <1>4, <2>1, ProxiesLeadAway DEF Sound
  <2>5. PICK m : m = [s EXCEPT !.voters[x].proxied_vote_weight =
                                 s.voters[x].proxied_vote_weight + d]
    OBVIOUS
  <2>6. t = Propagate(m, x)
    <3>1. s.voters[x].proxied_vote_weight \in Int
      BY <1>1, <2>3, SoundRow
    <3>2. s.voters[x].proxied_vote_weight - row.last_vote_weight
            = s.voters[x].proxied_vote_weight + d
      BY <1>3, <2>2, <3>1
    <3>3. [s EXCEPT !.voters[row.proxy].proxied_vote_weight = @ - row.last_vote_weight] = m
      BY <2>1, <2>5, <3>2
    <3> QED BY <1>4, <2>1, <3>3 DEF LeaveProxy
  <2>7. Even(d)
    <3>1. PICK k \in Int : row.last_vote_weight = 2 * k
      BY <1>3 DEF Even
    <3>2. - k \in Int /\ d = 2 * (- k)
      BY <2>2, <3>1
    <3> QED BY <3>2 DEF Even
  <2>8. via[x][v] + d = 0
    BY <1>2, <1>3, <2>1, <2>2, <2>3
  <2>9. ProxyGiven(s, t, v, x, d, cast, via)
    BY <1>1, <2>4, <2>5, <2>6, <2>7, <2>8, ProxyIsGiven
  <2>10. PICK cast2, via2 :
           /\ Sound(t, cast2, via2, {v})
           /\ \A p \in Producers : cast2[p][v] = cast[p][v]
           /\ \A y \in Voters : via2[y][v] = via[y][v] + (IF y = x THEN d ELSE 0)
    BY <2>9, Zenon DEF ProxyGiven
  <2>11. \A y \in Voters : via2[y][v] = 0
    BY <1>2, <2>1, <2>8, <2>10
  <2>12. \A p \in Producers : cast2[p][v] = votes[p]
    BY <1>2, <2>10
  <2>13. CountsFor(t, v, votes, None, 0)
    BY <2>10, <2>11, <2>12 DEF CountsFor
  <2> QED BY <2>9, <2>13 DEF ProxyGiven, Carried
<1>5. CASE ~ (row.last_vote_weight > 0 /\ row.proxy # None)
  <2>1. t = s
    BY <1>5 DEF LeaveProxy
  <2>2. \A y \in Voters : via[y][v] = 0
    BY <1>2, <1>3, <1>5, VotingAssumption
  <2>3. CountsFor(t, v, votes, None, 0)
    BY <1>1, <1>2, <2>1, <2>2 DEF CountsFor
  <2> QED BY <2>1, <2>3, CarriedSame
<1> QED BY <1>4, <1>5

\* The voter gives its weight to a proxy, the one it has or one without a proxy.
MayJoin(s, v, proxy) ==
  proxy # None => /\ proxy \in Voters /\ proxy # v /\ s.voters[proxy] # NoRow
                  /\ proxy = s.voters[v].proxy \/ s.voters[proxy].proxy = None

\* The voter gives its weight to a proxy, which casts it.
LEMMA ProxyIsJoined ==
  ASSUME NEW s, NEW v \in Voters, s.voters[v] # NoRow, NEW votes,
         CountsFor(s, v, votes, None, 0),
         NEW proxy, MayJoin(s, v, proxy), NEW weight \in Nat, Even(weight),
         NEW t, t = JoinProxy(s, proxy, weight)
  PROVE  Carried(s, t, v) /\ CountsFor(t, v, votes, proxy, weight)
<1>1. PICK cast, via : /\ Sound(s, cast, via, {v})
                       /\ \A p \in Producers : cast[p][v] = votes[p]
                       /\ \A y \in Voters : via[y][v] = 0
  <2>1. None \notin Voters
    BY VotingAssumption
  <2>2. PICK cast, via : /\ Sound(s, cast, via, {v})
                         /\ \A p \in Producers : cast[p][v] = votes[p]
                         /\ \A y \in Voters : via[y][v] = IF y = None THEN 0 ELSE 0
    BY Zenon DEF CountsFor
  <2>3. \A y \in Voters : via[y][v] = 0
    BY <2>2
  <2> QED BY <2>2, <2>3, Zenon
<1>2. CASE proxy # None
  <2>1. proxy \in Voters /\ proxy # v /\ s.voters[proxy] # NoRow
    BY <1>2 DEF MayJoin
  <2>2. PICK D : ProxyClosed(s, D) /\ proxy \in D /\ v \notin D
    <3>1. CASE proxy = s.voters[v].proxy
      BY <1>1, <1>2, <3>1, ProxiesLeadAway DEF Sound
    <3>2. CASE s.voters[proxy].proxy = None
      <4>1. ProxyClosed(s, {proxy}) /\ proxy \in {proxy} /\ v \notin {proxy}
        BY <2>1, <3>2 DEF ProxyClosed
      <4> QED BY <4>1
    <3> QED BY <1>2, <3>1, <3>2 DEF MayJoin
  <2>3. PICK m : m = [s EXCEPT !.voters[proxy].proxied_vote_weight =
                                 s.voters[proxy].proxied_vote_weight + weight]
    OBVIOUS
  <2>4. t = Propagate(m, proxy)
    BY <1>2, <2>3 DEF JoinProxy
  <2>5. weight \in Int /\ via[proxy][v] + weight \in Nat
    BY <1>1, <2>1
  <2>6. ProxyGiven(s, t, v, proxy, weight, cast, via)
    BY <1>1, <2>2, <2>3, <2>4, <2>5, ProxyIsGiven
  <2>7. PICK cast2, via2 :
          /\ Sound(t, cast2, via2, {v})
          /\ \A p \in Producers : cast2[p][v] = cast[p][v]
          /\ \A y \in Voters : via2[y][v] = via[y][v] + (IF y = proxy THEN weight ELSE 0)
    BY <2>6, Zenon DEF ProxyGiven
  <2>8. \A y \in Voters : via2[y][v] = IF y = proxy THEN weight ELSE 0
    BY <1>1, <2>7
  <2>9. \A p \in Producers : cast2[p][v] = votes[p]
    BY <1>1, <2>7
  <2>10. CountsFor(t, v, votes, proxy, weight)
    BY <2>7, <2>8, <2>9 DEF CountsFor
  <2> QED BY <2>6, <2>10 DEF ProxyGiven, Carried
<1>3. CASE proxy = None
  <2>1. t = s
    BY <1>3 DEF JoinProxy
  <2>2. \A y \in Voters : via[y][v] = IF y = proxy THEN weight ELSE 0
    BY <1>1, <1>3, VotingAssumption
  <2>3. CountsFor(t, v, votes, proxy, weight)
    BY <1>1, <2>1, <2>2 DEF CountsFor
  <2> QED BY <2>1, <2>3, CarriedSame
<1> QED BY <1>2, <1>3

\* The voter's votes for producers are replaced by others.
Replaces(s, votes, votes2, P, delta) ==
  /\ P \subseteq Producers /\ \A p \in P : s.producers[p] # NoRow
  /\ delta \in [P -> Int]
  /\ \A p \in Producers : /\ votes[p] \in Nat /\ votes2[p] \in Nat
                           /\ votes2[p] = votes[p] + (IF p \in P THEN delta[p] ELSE 0)

\* The voter takes back its old votes and casts its new ones.
LEMMA VotesReplaced ==
  ASSUME NEW s, NEW v \in Voters, s.voters[v] # NoRow, NEW votes, NEW x, NEW weight,
         CountsFor(s, v, votes, x, weight),
         NEW P, NEW delta, NEW votes2, Replaces(s, votes, votes2, P, delta),
         NEW t, t = ChangeVotes(s, delta, now)
  PROVE  Carried(s, t, v) /\ CountsFor(t, v, votes2, x, weight) /\ t.voters = s.voters
<1>0. /\ P \subseteq Producers /\ \A p \in P : s.producers[p] # NoRow
      /\ delta \in [P -> Int]
      /\ \A p \in Producers : /\ votes[p] \in Nat /\ votes2[p] \in Nat
                               /\ votes2[p] = votes[p] + (IF p \in P THEN delta[p] ELSE 0)
  BY DEF Replaces
<1>1. PICK cast, via : /\ Sound(s, cast, via, {v})
                       /\ \A p \in Producers : cast[p][v] = votes[p]
                       /\ \A y \in Voters : via[y][v] = IF y = x THEN weight ELSE 0
  BY Zenon DEF CountsFor
<1>2. /\ s \in TablesType /\ Dated(s, now) /\ now \in Nat /\ Matrices(cast, via)
      /\ Tallied(s, cast, via)
  BY <1>1, VotingAssumption DEF Sound
<1>3. MayChange(s, P, delta, now)
  BY <1>0, <1>2, TalliesAreNat DEF MayChange
<1>4. PICK cast2 : cast2 = CastMore(cast, P, v, delta)
  OBVIOUS
<1>5. Matrices(cast2, via) /\ Tallied(t, cast2, via)
  <2>1. \A p \in P : cast[p][v] + delta[p] \in Nat
    BY <1>0, <1>1
  <2> QED BY <1>2, <1>3, <1>4, <2>1, VotesMoved
<1>6. t \in TablesType /\ Dated(t, now) /\ t.voters = s.voters /\ Kept(s, t)
  BY <1>3, ChangeVotesTyped
<1>7. \A p \in Producers : /\ cast2[p][v] = votes2[p]
                           /\ \A u \in Voters \ {v} : cast2[p][u] = cast[p][u]
  <2>1. SUFFICES ASSUME NEW p \in Producers
                 PROVE  /\ cast2[p][v] = votes2[p]
                        /\ \A u \in Voters \ {v} : cast2[p][u] = cast[p][u]
    OBVIOUS
  <2>2. cast[p] \in [Voters -> Nat] /\ cast[p][v] = votes[p]
    BY <1>1, <1>2 DEF Matrices
  <2>3. CASE p \in P
    <3>1. cast2[p] = [cast[p] EXCEPT ![v] = cast[p][v] + delta[p]]
      BY <1>4, <2>3 DEF CastMore
    <3> QED BY <1>0, <2>2, <2>3, <3>1
  <2>4. CASE p \notin P
    <3>1. cast2[p] = cast[p]
      BY <1>4, <2>4 DEF CastMore
    <3> QED BY <1>0, <2>2, <2>4, <3>1
  <2> QED BY <2>3, <2>4
<1>8. Sound(t, cast2, via, {v})
  <2>1. Reweighed1(s, t, v)
    BY <1>1, <1>6 DEF Reweighed1, Sound, WeightsEven
  <2>2. OtherColumns(cast, via, cast2, via, v)
    BY <1>7 DEF OtherColumns
  <2>3. v \in {v}
    OBVIOUS
  <2> QED BY <1>1, <1>5, <1>6, <2>1, <2>2, <2>3, SoundAgain
<1>9. CountsFor(t, v, votes2, x, weight)
  <2>1. \A p \in Producers : cast2[p][v] = votes2[p]
    BY <1>7
  <2> QED BY <1>1, <1>8, <2>1 DEF CountsFor
<1>10. Paid(s, now) => Paid(t, now)
  <2>1. \A p \in Producers : VotesOf(t.producers[p]) \in Nat
    BY <1>5, TalliesAreNat
  <2> QED BY <1>3, <2>1, ChangeVotesPaid
<1>11. Carried(s, t, v)
  BY <1>6, <1>10 DEF Carried
<1> QED BY <1>6, <1>9, <1>11

\* A proxy has no proxy.
Roots(s) ==
  \A u \in Voters : s.voters[u] # NoRow /\ s.voters[u].is_proxy => s.voters[u].proxy = None

\* What update_votes has checked before it changes anything.
MayUpdate(s, v, proxy, prods) ==
  /\ prods \subseteq Producers
  /\ \A p \in prods : s.producers[p] # NoRow
  /\ proxy # None =>
       /\ prods = {}
       /\ proxy \in Voters /\ proxy # v /\ s.voters[proxy] # NoRow
       /\ \/ proxy = s.voters[v].proxy
          \/ s.voters[proxy].is_proxy /\ ~ s.voters[v].is_proxy

\* The first vote activates stake.
ActivatedTables(s, row) == [s EXCEPT !.global = Activate(s.global, row)]

\* Stake is activated without a change of votes.
LEMMA StakeActivated ==
  ASSUME NEW s, NEW cast, NEW via, Sound(s, cast, via, {}),
         NEW v \in Voters, s.voters[v] # NoRow, NEW row, row = s.voters[v],
         NEW t, t = ActivatedTables(s, row)
  PROVE  /\ Sound(t, cast, via, {})
         /\ t.voters = s.voters /\ t.producers = s.producers /\ t.producers2 = s.producers2
         /\ t.global = Activate(s.global, row)
         /\ t.global.total_activated_stake = Activated(s.global, row)
         /\ t.global.thresh_activated_stake_time \in {s.global.thresh_activated_stake_time, now}
         /\ t.global.last_producer_schedule_size = s.global.last_producer_schedule_size
         /\ Paid(s, now) => Paid(t, now)
<1>1. s \in TablesType /\ row \in VoterRow /\ now \in Int
  BY VotingAssumption DEF Sound, TablesType
<1>2. PICK total \in Int : total = Activated(s.global, row)
  <2>1. s.global.total_activated_stake \in Int /\ row.staked \in Int
    BY <1>1 DEF TablesType, GlobalState, VoterRow
  <2> QED BY <2>1 DEF Activated
<1>3. PICK time \in Int :
        /\ time = IF total >= MinActivated /\ s.global.thresh_activated_stake_time = 0
                  THEN now ELSE s.global.thresh_activated_stake_time
        /\ time \in {s.global.thresh_activated_stake_time, now}
  BY <1>1 DEF TablesType, GlobalState
<1>4. PICK g : g = Activate(s.global, row)
  OBVIOUS
<1>5. g = [s.global EXCEPT !.total_activated_stake = total,
                           !.thresh_activated_stake_time = time]
  BY <1>2, <1>3, <1>4 DEF Activate
<1>6. s.global \in GlobalState(Int)
  BY <1>1 DEF TablesType
<1>7. /\ g \in GlobalState(Int)
      /\ g.total_activated_stake = total /\ g.thresh_activated_stake_time = time
      /\ g.total_producer_vote_weight = s.global.total_producer_vote_weight
      /\ g.total_producer_votepay_share = s.global.total_producer_votepay_share
      /\ g.total_vpay_share_change_rate = s.global.total_vpay_share_change_rate
      /\ g.last_vpay_state_update = s.global.last_vpay_state_update
      /\ g.last_producer_schedule_size = s.global.last_producer_schedule_size
  BY <1>5, <1>6 DEF GlobalState
<1>8. t = [s EXCEPT !.global = g]
  BY <1>4 DEF ActivatedTables
<1>9. /\ t \in TablesType
      /\ t.voters = s.voters /\ t.producers = s.producers /\ t.producers2 = s.producers2
      /\ t.global = g
  BY <1>1, <1>7, <1>8 DEF TablesType
<1>10. Dated(t, now)
  BY <1>7, <1>9 DEF Sound, Dated
<1>11. RowsFit(t) /\ Acyclic(t) /\ WeightsEven(t)
  BY <1>9 DEF Sound, RowsFit, Acyclic, WeightsEven
<1>12. Tallied(t, cast, via)
  BY <1>7, <1>9 DEF Sound, Tallied, Tally
<1>13. Agree(t, cast, via, {})
  BY <1>9 DEF Sound, Agree
<1>14. Sound(t, cast, via, {})
  BY <1>9, <1>10, <1>11, <1>12, <1>13 DEF Sound
<1>15. Paid(s, now) => Paid(t, now)
  <2>1. Rates(t) = Rates(s) /\ Shares(t, now) = Shares(s, now)
    BY <1>9 DEF Rates, Shares, RateOf, SharesOf, EarnsIn
  <2>2. TotalShare(t.global, now) = TotalShare(s.global, now)
    BY <1>7, <1>9 DEF TotalShare
  <2> QED BY <1>7, <1>9, <2>1, <2>2 DEF Paid
<1> QED BY <1>2, <1>3, <1>4, <1>7, <1>9, <1>14, <1>15

\* Tables t are s with a row for voter v that votes anew.
VotesAnew(s, t, v, weight, proxy, prods) ==
  /\ t \in TablesType
  /\ t.producers = s.producers /\ t.producers2 = s.producers2 /\ t.global = s.global
  /\ t.voters[v] \in VoterRow /\ t.voters[v] # NoRow
  /\ t.voters[v].last_vote_weight = weight
  /\ t.voters[v].proxy = proxy /\ t.voters[v].producers = prods
  /\ t.voters[v].staked = s.voters[v].staked /\ t.voters[v].is_proxy = s.voters[v].is_proxy
  /\ t.voters[v].proxied_vote_weight = s.voters[v].proxied_vote_weight
  /\ \A u \in Voters \ {v} : t.voters[u] = s.voters[u]

\* Setting the three fields of the row of the voter does that.
LEMMA RowVotesAnew ==
  ASSUME NEW s \in TablesType, NEW v \in Voters, s.voters[v] # NoRow,
         NEW weight \in Int, NEW proxy \in Voters \cup {None}, NEW prods \in SUBSET Producers,
         NEW t, t = [s EXCEPT !.voters[v].last_vote_weight = weight,
                              !.voters[v].producers = prods,
                              !.voters[v].proxy = proxy]
  PROVE  VotesAnew(s, t, v, weight, proxy, prods)
<1>1. PICK row \in VoterRow : row = s.voters[v]
  BY DEF TablesType
<1>2. PICK row1 : row1 = [row EXCEPT !.last_vote_weight = weight]
  OBVIOUS
<1>3. row1 \in VoterRow /\ row1.last_vote_weight = weight /\ row1.staked = row.staked
      /\ row1.is_proxy = row.is_proxy /\ row1.proxied_vote_weight = row.proxied_vote_weight
  BY <1>2 DEF VoterRow
<1>4. PICK row2 : row2 = [row1 EXCEPT !.producers = prods]
  OBVIOUS
<1>5. row2 \in VoterRow /\ row2.last_vote_weight = weight /\ row2.staked = row.staked
      /\ row2.is_proxy = row.is_proxy /\ row2.proxied_vote_weight = row.proxied_vote_weight
      /\ row2.producers = prods
  BY <1>3, <1>4 DEF VoterRow
<1>6. PICK row3 : row3 = [row2 EXCEPT !.proxy = proxy]
  OBVIOUS
<1>7. row3 \in VoterRow /\ row3.last_vote_weight = weight /\ row3.staked = row.staked
      /\ row3.is_proxy = row.is_proxy /\ row3.proxied_vote_weight = row.proxied_vote_weight
      /\ row3.producers = prods /\ row3.proxy = proxy
  BY <1>5, <1>6 DEF VoterRow
<1>8. t = RowWith(s, v, row3)
  <2>1. s.voters \in [Voters -> VoterRow \cup {NoRow}]
    BY DEF TablesType
  <2>2. PICK s1 : s1 = [s EXCEPT !.voters[v].last_vote_weight = weight]
    OBVIOUS
  <2>3. s1 = [s EXCEPT !.voters[v] = row1]
    BY <1>1, <1>2, <2>2
  <2>4. PICK s2 : s2 = [s1 EXCEPT !.voters[v].producers = prods]
    OBVIOUS
  <2>5. s2 = [s EXCEPT !.voters[v] = row2]
    <3>1. s1.voters[v] = row1
      BY <2>1, <2>3 DEF TablesType
    <3>2. s2 = [s1 EXCEPT !.voters[v] = row2]
      BY <1>4, <2>4, <3>1
    <3> QED BY <2>1, <2>3, <3>2 DEF TablesType
  <2>6. PICK s3 : s3 = [s2 EXCEPT !.voters[v].proxy = proxy]
    OBVIOUS
  <2>7. s3 = [s EXCEPT !.voters[v] = row3]
    <3>1. s2.voters[v] = row2
      BY <2>1, <2>5 DEF TablesType
    <3>2. s3 = [s2 EXCEPT !.voters[v] = row3]
      BY <1>6, <2>6, <3>1
    <3> QED BY <2>1, <2>5, <3>2 DEF TablesType
  <2>8. t = s3
    BY <2>2, <2>4, <2>6
  <2> QED BY <2>7, <2>8 DEF RowWith
<1>9. HasRow(s, t, v, row3)
  BY <1>7, <1>8, RowWithFields
<1>10. row3 # NoRow
  BY <1>7, NoRows
<1> QED BY <1>1, <1>7, <1>9, <1>10 DEF HasRow, VotesAnew

\* A voter votes anew: the graph of proxies stays without circles.
LEMMA ProxiesStayAcyclic ==
  ASSUME NEW s, NEW cast, NEW via, Sound(s, cast, via, {}), Roots(s),
         NEW v \in Voters, s.voters[v] # NoRow, NEW proxy, NEW prods,
         MayUpdate(s, v, proxy, prods),
         NEW t, \A u \in Voters : t.voters[u] = NoRow <=> s.voters[u] = NoRow,
         \A u \in Voters \ {v} : s.voters[u] # NoRow => t.voters[u].proxy = s.voters[u].proxy,
         t.voters[v].proxy = proxy
  PROVE  Acyclic(t)
<1>1. SUFFICES ASSUME NEW S \in SUBSET Voters, S # {}, \A u \in S : t.voters[u] # NoRow
               PROVE  \E u \in S : t.voters[u].proxy \notin S
  BY DEF Acyclic
<1>2. \A u \in S : s.voters[u] # NoRow
  BY <1>1
<1>3. \E u \in S : s.voters[u].proxy \notin S
  BY <1>1, <1>2 DEF Sound, Acyclic
<1>4. CASE v \notin S \/ proxy = s.voters[v].proxy
  BY <1>2, <1>3, <1>4
<1>5. CASE v \in S /\ proxy = None
  BY <1>5, VotingAssumption
<1>6. CASE v \in S /\ proxy # None /\ proxy # s.voters[v].proxy
  <2>1. proxy # v /\ proxy \in Voters /\ s.voters[proxy] # NoRow /\ s.voters[proxy].is_proxy
    BY <1>6 DEF MayUpdate
  <2>2. s.voters[proxy].proxy = None
    BY <2>1 DEF Roots
  <2>3. CASE proxy \notin S
    BY <1>6, <2>3
  <2>4. CASE proxy \in S
    <3>1. t.voters[proxy].proxy = None
      BY <2>1, <2>2
    <3> QED BY <2>4, <3>1, VotingAssumption
  <2> QED BY <2>3, <2>4
<1> QED BY <1>4, <1>5, <1>6

\* What update_votes makes of tables s.
RowsUpdated(s, t, v, proxy, prods) ==
  /\ \A u \in Voters :
       /\ t.voters[u] = NoRow <=> s.voters[u] = NoRow
       /\ s.voters[u] # NoRow =>
            /\ t.voters[u].staked = s.voters[u].staked
            /\ t.voters[u].is_proxy = s.voters[u].is_proxy
            /\ t.voters[u].proxy = IF u = v THEN proxy ELSE s.voters[u].proxy
            /\ t.voters[u].producers = IF u = v THEN prods ELSE s.voters[u].producers
  /\ \A p \in Producers :
       /\ t.producers[p] = NoRow <=> s.producers[p] = NoRow
       /\ t.producers2[p] = NoRow <=> s.producers2[p] = NoRow
       /\ s.producers[p] # NoRow =>
            /\ t.producers[p].is_active = s.producers[p].is_active
            /\ t.producers[p].last_claim_time = s.producers[p].last_claim_time
  /\ t.global.total_activated_stake = Activated(s.global, s.voters[v])
  /\ t.global.thresh_activated_stake_time \in {s.global.thresh_activated_stake_time, now}
  /\ t.global.last_producer_schedule_size = s.global.last_producer_schedule_size

VotesUpdated(s, t, v, proxy, prods) ==
  /\ RowsUpdated(s, t, v, proxy, prods)
  /\ \E cast, via : Sound(t, cast, via, {})
  /\ Paid(s, now) => Paid(t, now)
  /\ \A u \in Voters : s.voters[u] # NoRow /\ (u = v \/ Backed(s.voters[u])) => Backed(t.voters[u])

\* The steps of update_votes, from the tables in which stake was activated: it leaves
\* the old proxy, joins the new one, and replaces the votes for producers.
OldVotes(row) == IF row.last_vote_weight > 0 /\ row.proxy = None THEN row.producers ELSE {}
NewVotes(proxy, prods) == IF proxy = None THEN prods ELSE {}
VotesDelta(row, weight, proxy, prods) ==
  [p \in OldVotes(row) \cup NewVotes(proxy, prods) |->
     (IF p \in NewVotes(proxy, prods) THEN weight ELSE 0)
       - (IF p \in OldVotes(row) THEN row.last_vote_weight ELSE 0)]

\* The voter leaves its proxy, joins the new one and replaces its votes.
LEMMA WeightMoves ==
  ASSUME NEW s, NEW cast, NEW via, Sound(s, cast, via, {}), Roots(s),
         NEW v \in Voters, s.voters[v] # NoRow, NEW proxy, NEW prods,
         MayUpdate(s, v, proxy, prods),
         NEW row, row = s.voters[v], NEW weight, weight = Weight(row),
         NEW m, m = JoinProxy(LeaveProxy(s, row), proxy, weight),
         NEW t, t = ChangeVotes(m, VotesDelta(row, weight, proxy, prods), now)
  PROVE  /\ Carried(s, t, v)
         /\ CountsFor(t, v, [p \in Producers |-> IF p \in prods THEN weight ELSE 0], proxy, weight)
<1>1. /\ row \in VoterRow /\ row # NoRow
      /\ row.last_vote_weight \in Nat
      /\ weight \in Nat /\ Even(weight)
      /\ row.proxy # None => row.producers = {}
      /\ row.producers \subseteq Producers
      /\ \A p \in row.producers : s.producers[p] # NoRow
  BY SoundRow
<1>2. PICK votes : votes = [p \in Producers |-> CastBy(row, p)]
  OBVIOUS
<1>3. PICK l : l = LeaveProxy(s, row)
  OBVIOUS
<1>4. Carried(s, l, v) /\ CountsFor(l, v, votes, None, 0)
  BY <1>2, <1>3, ProxyIsLeft
<1>5. Kept(s, l)
  BY <1>4 DEF Carried
<1>6. l.voters[v] # NoRow
  BY <1>5 DEF Kept
<1>7. MayJoin(l, v, proxy)
  <2>1. SUFFICES ASSUME proxy # None
                 PROVE  /\ proxy \in Voters /\ proxy # v /\ l.voters[proxy] # NoRow
                        /\ proxy = l.voters[v].proxy \/ l.voters[proxy].proxy = None
    BY DEF MayJoin
  <2>2. proxy \in Voters /\ proxy # v /\ s.voters[proxy] # NoRow
    BY <2>1 DEF MayUpdate
  <2>3. proxy = s.voters[v].proxy \/ s.voters[proxy].proxy = None
    BY <2>1, <2>2 DEF MayUpdate, Roots
  <2>4. l.voters[v].proxy = s.voters[v].proxy /\ l.voters[proxy].proxy = s.voters[proxy].proxy
        /\ l.voters[proxy] # NoRow
    BY <1>5, <2>2 DEF Kept
  <2> QED BY <2>2, <2>3, <2>4
<1>8. m = JoinProxy(l, proxy, weight)
  BY <1>3
<1>9. Carried(l, m, v) /\ CountsFor(m, v, votes, proxy, weight)
  BY <1>1, <1>4, <1>6, <1>7, <1>8, ProxyIsJoined
<1>10. Kept(s, m)
  BY <1>5, <1>9, KeptTrans DEF Carried
<1>11. m.voters[v] # NoRow
  BY <1>10 DEF Kept
<1> DEFINE old == OldVotes(row)
           new == NewVotes(proxy, prods)
<1>12. PICK P : P = old \cup new
  OBVIOUS
<1>13. PICK delta : delta = VotesDelta(row, weight, proxy, prods)
  OBVIOUS
<1>14. new = prods
  BY DEF NewVotes, MayUpdate
<1>15. P \subseteq Producers /\ \A p \in P : m.producers[p] # NoRow
  <2>1. \A p \in P : p \in Producers /\ s.producers[p] # NoRow
    BY <1>1, <1>12, <1>14 DEF MayUpdate, OldVotes
  <2> QED BY <1>10, <2>1 DEF Kept
<1>16. /\ delta \in [P -> Int]
       /\ \A p \in P : delta[p] = (IF p \in prods THEN weight ELSE 0)
                                  - (IF p \in old THEN row.last_vote_weight ELSE 0)
  <2>1. delta = [p \in P |-> (IF p \in prods THEN weight ELSE 0)
                             - (IF p \in old THEN row.last_vote_weight ELSE 0)]
    BY <1>12, <1>13, <1>14 DEF VotesDelta
  <2> HIDE DEF old
  <2> QED BY <1>1, <2>1
<1>17. \A p \in Producers : votes[p] = IF p \in old THEN row.last_vote_weight ELSE 0
  BY <1>1, <1>2 DEF CastBy, OldVotes
<1>18. PICK votes2 : votes2 = [p \in Producers |-> IF p \in prods THEN weight ELSE 0]
  OBVIOUS
<1> HIDE DEF old, new
<1>19. \A p \in Producers : /\ votes[p] \in Nat /\ votes2[p] \in Nat
                            /\ votes2[p] = votes[p] + (IF p \in P THEN delta[p] ELSE 0)
  <2>1. SUFFICES ASSUME NEW p \in Producers
                 PROVE  /\ votes[p] \in Nat /\ votes2[p] \in Nat
                        /\ votes2[p] = votes[p] + (IF p \in P THEN delta[p] ELSE 0)
    OBVIOUS
  <2>2. votes[p] = (IF p \in old THEN row.last_vote_weight ELSE 0) /\ votes[p] \in Nat
    BY <1>1, <1>17
  <2>3. votes2[p] = (IF p \in prods THEN weight ELSE 0) /\ votes2[p] \in Nat
    BY <1>1, <1>18
  <2>4. CASE p \in P
    BY <1>16, <2>2, <2>3, <2>4
  <2>5. CASE p \notin P
    BY <1>12, <1>14, <2>2, <2>3, <2>5
  <2> QED BY <2>2, <2>3, <2>4, <2>5
<1>20. t = ChangeVotes(m, delta, now)
  BY <1>13
<1>21. Carried(m, t, v) /\ CountsFor(t, v, votes2, proxy, weight)
  <2>1. Replaces(m, votes, votes2, P, delta)
    BY <1>15, <1>16, <1>19 DEF Replaces
  <2> QED BY <1>9, <1>11, <1>20, <2>1, VotesReplaced
<1>22. Carried(s, t, v)
  BY <1>4, <1>9, <1>21, CarriedOn
<1> QED BY <1>18, <1>21, <1>22

\* The row of the voter is written last, from tables m to t.
LEMMA RowWritten ==
  ASSUME NEW s, NEW cast, NEW via, Sound(s, cast, via, {}), Roots(s),
         NEW v \in Voters, s.voters[v] # NoRow, NEW proxy, NEW prods,
         MayUpdate(s, v, proxy, prods),
         NEW weight, weight = Weight(s.voters[v]),
         NEW m, Carried(s, m, v),
         CountsFor(m, v, [p \in Producers |-> IF p \in prods THEN weight ELSE 0], proxy, weight),
         NEW t, VotesAnew(m, t, v, weight, proxy, prods)
  PROVE  /\ \E cast2, via2 : Sound(t, cast2, via2, {})
         /\ Backed(t.voters[v])
<1>1. weight \in Nat /\ Even(weight)
  BY SoundRow
<1>2. PICK cast2, via2 :
        /\ Sound(m, cast2, via2, {v})
        /\ \A p \in Producers :
             cast2[p][v] = [q \in Producers |-> IF q \in prods THEN weight ELSE 0][p]
        /\ \A y \in Voters : via2[y][v] = IF y = proxy THEN weight ELSE 0
  BY Zenon DEF CountsFor
<1>3. \A p \in Producers : cast2[p][v] = IF p \in prods THEN weight ELSE 0
  BY <1>2
<1>4. Kept(s, m)
  BY DEF Carried
<1>5. /\ t \in TablesType
      /\ t.producers = m.producers /\ t.producers2 = m.producers2 /\ t.global = m.global
      /\ t.voters[v] # NoRow /\ t.voters[v].last_vote_weight = weight
      /\ t.voters[v].proxy = proxy /\ t.voters[v].producers = prods
      /\ t.voters[v].staked = m.voters[v].staked
      /\ t.voters[v].is_proxy = m.voters[v].is_proxy
      /\ t.voters[v].proxied_vote_weight = m.voters[v].proxied_vote_weight
      /\ \A u \in Voters \ {v} : t.voters[u] = m.voters[u]
  BY DEF VotesAnew
<1>6. \A u \in Voters : /\ t.voters[u] = NoRow <=> s.voters[u] = NoRow
                        /\ m.voters[u] = NoRow <=> s.voters[u] = NoRow
  BY <1>4, <1>5 DEF Kept
<1>7. \A u \in Voters \ {v} : s.voters[u] # NoRow =>
        t.voters[u].proxy = s.voters[u].proxy
  BY <1>4, <1>5 DEF Kept
<1>8. Acyclic(t)
  BY <1>5, <1>6, <1>7, ProxiesStayAcyclic
<1>9. Dated(t, now) /\ now \in 0 .. MaxTime
  BY <1>2, <1>5, SameProducers DEF Sound
<1>10. Tallied(t, cast2, via2)
  <2>1. \A x \in Voters : t.voters[x] # NoRow =>
          /\ m.voters[x] # NoRow
          /\ t.voters[x].proxied_vote_weight = m.voters[x].proxied_vote_weight
    BY <1>5, <1>6
  <2> QED BY <1>2, <1>5, <2>1, TalliedRows DEF Sound
<1>11. Agree(t, cast2, via2, {})
  <2>1. SUFFICES ASSUME NEW u \in Voters
                 PROVE  /\ \A p \in Producers : cast2[p][u] = CastBy(t.voters[u], p)
                        /\ \A x \in Voters : via2[x][u] = PassedBy(t.voters[u], x)
    BY DEF Agree
  <2>2. CASE u = v
    BY <1>2, <1>3, <1>5, <2>2 DEF CastBy, PassedBy
  <2>3. CASE u # v
    <3>1. u \in Voters \ {v} /\ t.voters[u] = m.voters[u]
      BY <1>5, <2>3
    <3> QED BY <1>2, <3>1 DEF Sound, Agree
  <2> QED BY <2>2, <2>3
<1>12. RowsFit(t)
  <2>1. SUFFICES ASSUME NEW u \in Voters, t.voters[u] # NoRow
                 PROVE  /\ t.voters[u].staked \in Nat
                        /\ t.voters[u].proxy # None =>
                             /\ t.voters[u].proxy \in Voters
                             /\ t.voters[t.voters[u].proxy] # NoRow
                             /\ t.voters[u].producers = {}
                        /\ \A p \in t.voters[u].producers : t.producers[p] # NoRow
    BY DEF RowsFit
  <2>2. m.voters[u] # NoRow /\ RowsFit(m)
    BY <1>2, <1>6, <2>1 DEF Sound
  <2>3. CASE u = v
    <3>1. t.voters[u].staked \in Nat
      BY <1>5, <2>2, <2>3 DEF RowsFit
    <3>2. proxy # None => proxy \in Voters /\ t.voters[proxy] # NoRow /\ prods = {}
      BY <1>6 DEF MayUpdate
    <3>3. \A p \in prods : t.producers[p] # NoRow
      BY <1>4, <1>5 DEF MayUpdate, Kept
    <3> QED BY <1>5, <2>3, <3>1, <3>2, <3>3
  <2>4. CASE u # v
    <3>1. t.voters[u] = m.voters[u]
      BY <1>5, <2>4
    <3>2. \A y \in Voters : m.voters[y] # NoRow => t.voters[y] # NoRow
      BY <1>6
    <3> QED BY <1>5, <2>2, <3>1, <3>2 DEF RowsFit
  <2> QED BY <2>3, <2>4
<1>13. WeightsEven(t)
  <2>1. SUFFICES ASSUME NEW u \in Voters, t.voters[u] # NoRow
                 PROVE  /\ t.voters[u].last_vote_weight \in Nat
                        /\ Even(t.voters[u].last_vote_weight)
                        /\ Even(t.voters[u].proxied_vote_weight)
    BY DEF WeightsEven
  <2>2. m.voters[u] # NoRow /\ WeightsEven(m)
    BY <1>2, <1>6, <2>1 DEF Sound
  <2>3. CASE u = v
    BY <1>1, <1>5, <2>2, <2>3 DEF WeightsEven
  <2>4. CASE u # v
    <3>1. t.voters[u] = m.voters[u]
      BY <1>5, <2>4
    <3> QED BY <2>2, <3>1 DEF WeightsEven
  <2> QED BY <2>3, <2>4
<1>14. Sound(t, cast2, via2, {})
  BY <1>2, <1>5, <1>8, <1>9, <1>10, <1>11, <1>12, <1>13 DEF Sound
<1>15. Backed(t.voters[v])
  <2>1. /\ t.voters[v].staked = s.voters[v].staked /\ t.voters[v].is_proxy = s.voters[v].is_proxy
        /\ t.voters[v].proxied_vote_weight = s.voters[v].proxied_vote_weight
    BY <1>4, <1>5 DEF Kept, Carried
  <2>2. Weight(t.voters[v]) = weight
    BY <2>1 DEF Weight
  <2>3. s.voters[v].is_proxy => weight >= s.voters[v].proxied_vote_weight
    BY SoundRow
  <2> QED BY <1>1, <1>5, <2>1, <2>2, <2>3 DEF Backed
<1> QED BY <1>14, <1>15

\* update_votes: the tallies still add up, and so do the shares.
LEMMA UpdateVotesSound ==
  ASSUME NEW s, NEW cast, NEW via, Sound(s, cast, via, {}), Roots(s),
         NEW v \in Voters, s.voters[v] # NoRow, NEW proxy, NEW prods,
         MayUpdate(s, v, proxy, prods),
         NEW t, t = UpdateVotes(s, v, proxy, prods)
  PROVE  VotesUpdated(s, t, v, proxy, prods)
<1>1. PICK row : row = s.voters[v]
  OBVIOUS
<1>2. PICK weight : weight = Weight(row)
  OBVIOUS
<1>3. PICK a : a = ActivatedTables(s, row)
  OBVIOUS
<1>4. /\ Sound(a, cast, via, {})
      /\ a.voters = s.voters /\ a.producers = s.producers /\ a.producers2 = s.producers2
      /\ a.global.total_activated_stake = Activated(s.global, row)
      /\ a.global.thresh_activated_stake_time \in {s.global.thresh_activated_stake_time, now}
      /\ a.global.last_producer_schedule_size = s.global.last_producer_schedule_size
      /\ Paid(s, now) => Paid(a, now)
  BY <1>1, <1>3, StakeActivated
<1>5. Roots(a) /\ MayUpdate(a, v, proxy, prods) /\ a.voters[v] # NoRow /\ row = a.voters[v]
  BY <1>1, <1>4 DEF Roots, MayUpdate
<1>6. PICK j : j = JoinProxy(LeaveProxy(a, row), proxy, weight)
  OBVIOUS
<1>7. PICK m : m = ChangeVotes(j, VotesDelta(row, weight, proxy, prods), now)
  OBVIOUS
<1>8. /\ Carried(a, m, v)
      /\ CountsFor(m, v, [p \in Producers |-> IF p \in prods THEN weight ELSE 0], proxy, weight)
  BY <1>2, <1>4, <1>5, <1>6, <1>7, WeightMoves
<1>9. t = [m EXCEPT !.voters[v].last_vote_weight = weight,
                    !.voters[v].producers = prods,
                    !.voters[v].proxy = proxy]
  <2>1. [s EXCEPT !.global = Activate(@, row)] = a
    BY <1>3 DEF ActivatedTables
  <2>2. JoinProxy(LeaveProxy([s EXCEPT !.global = Activate(@, row)], row), proxy, weight) = j
    BY <1>6, <2>1
  <2> DEFINE r == s.voters[v]
             w == Weight(r)
  <2>3. t = [ChangeVotes(JoinProxy(LeaveProxy([s EXCEPT !.global = Activate(@, r)], r), proxy, w),
                         VotesDelta(r, w, proxy, prods), now) EXCEPT
               !.voters[v].last_vote_weight = w,
               !.voters[v].producers = prods,
               !.voters[v].proxy = proxy]
    BY DEF UpdateVotes, VotesDelta, OldVotes, NewVotes
  <2> HIDE DEF r, w
  <2>4. r = row /\ w = weight
    BY <1>1, <1>2 DEF r, w
  <2> QED BY <1>7, <2>2, <2>3, <2>4
<1>10. m \in TablesType /\ m.voters[v] # NoRow /\ Kept(a, m)
  BY <1>5, <1>8 DEF CountsFor, Sound, Carried, Kept
<1>11. VotesAnew(m, t, v, weight, proxy, prods)
  <2>1. weight \in Int
    BY <1>2, <1>4, <1>5, SoundRow
  <2>2. proxy \in Voters \cup {None} /\ prods \in SUBSET Producers
    BY DEF MayUpdate
  <2> QED BY <1>9, <1>10, <2>1, <2>2, RowVotesAnew
<1>12. /\ \E cast2, via2 : Sound(t, cast2, via2, {})
       /\ Backed(t.voters[v])
  BY <1>2, <1>4, <1>5, <1>8, <1>11, RowWritten
<1>13. Paid(s, now) => Paid(t, now)
  <2>1. Paid(m, now) => Paid(t, now)
    BY <1>11, SameProducers DEF VotesAnew
  <2> QED BY <1>4, <1>8, <2>1 DEF Carried
<1>14. ASSUME NEW u \in Voters, s.voters[u] # NoRow, u = v \/ Backed(s.voters[u])
       PROVE  Backed(t.voters[u])
  <2>1. CASE u = v
    BY <1>12, <2>1
  <2>2. CASE u # v
    <3>1. Backed(m.voters[u])
      BY <1>4, <1>8, <1>14, <2>2 DEF Carried
    <3> QED BY <1>11, <2>2, <3>1 DEF VotesAnew
  <2> QED BY <2>1, <2>2
<1>15. RowsUpdated(s, t, v, proxy, prods)
  <2>1. ASSUME NEW u \in Voters
        PROVE  /\ t.voters[u] = NoRow <=> s.voters[u] = NoRow
               /\ s.voters[u] # NoRow =>
                    /\ t.voters[u].staked = s.voters[u].staked
                    /\ t.voters[u].is_proxy = s.voters[u].is_proxy
                    /\ t.voters[u].proxy = IF u = v THEN proxy ELSE s.voters[u].proxy
                    /\ t.voters[u].producers = IF u = v THEN prods ELSE s.voters[u].producers
    <3>1. /\ m.voters[u] = NoRow <=> s.voters[u] = NoRow
          /\ s.voters[u] # NoRow =>
               /\ m.voters[u].staked = s.voters[u].staked
               /\ m.voters[u].is_proxy = s.voters[u].is_proxy
               /\ m.voters[u].proxy = s.voters[u].proxy
               /\ m.voters[u].producers = s.voters[u].producers
      BY <1>4, <1>10 DEF Kept
    <3>2. CASE u = v
      BY <1>11, <3>1, <3>2 DEF VotesAnew
    <3>3. CASE u # v
      <4>1. t.voters[u] = m.voters[u]
        BY <1>11, <3>3 DEF VotesAnew
      <4> QED BY <3>1, <3>3, <4>1
    <3> QED BY <3>2, <3>3
  <2>2. ASSUME NEW p \in Producers
        PROVE  /\ t.producers[p] = NoRow <=> s.producers[p] = NoRow
               /\ t.producers2[p] = NoRow <=> s.producers2[p] = NoRow
               /\ s.producers[p] # NoRow =>
                    /\ t.producers[p].is_active = s.producers[p].is_active
                    /\ t.producers[p].last_claim_time = s.producers[p].last_claim_time
    <3>1. t.producers = m.producers /\ t.producers2 = m.producers2
      BY <1>11 DEF VotesAnew
    <3> QED BY <1>4, <1>10, <3>1 DEF Kept
  <2>3. /\ t.global.total_activated_stake = Activated(s.global, s.voters[v])
        /\ t.global.thresh_activated_stake_time \in {s.global.thresh_activated_stake_time, now}
        /\ t.global.last_producer_schedule_size = s.global.last_producer_schedule_size
    <3>1. t.global = m.global
      BY <1>11 DEF VotesAnew
    <3> QED BY <1>1, <1>4, <1>10, <3>1 DEF Kept
  <2> QED BY <2>1, <2>2, <2>3, Zenon DEF RowsUpdated
<1> QED BY <1>12, <1>13, <1>14, <1>15 DEF VotesUpdated

(***************************************************************************)
(* Rows of voters that change before weights do                            *)
(***************************************************************************)
\* The row of a voter changes in its stake or in whether it is a proxy.
SameVote(row, new) ==
  /\ new \in VoterRow /\ new.staked \in Nat
  /\ new.proxy = row.proxy /\ new.producers = row.producers
  /\ new.last_vote_weight = row.last_vote_weight
  /\ new.proxied_vote_weight = row.proxied_vote_weight

\* A row that votes the same leaves the tables sound.
LEMMA RowSet ==
  ASSUME NEW s, NEW cast, NEW via, Sound(s, cast, via, {}),
         NEW v \in Voters, s.voters[v] # NoRow, NEW new, SameVote(s.voters[v], new),
         NEW t, t = RowWith(s, v, new)
  PROVE  /\ Sound(t, cast, via, {}) /\ HasRow(s, t, v, new)
         /\ Paid(s, now) => Paid(t, now)
<1>1. HasRow(s, t, v, new) /\ new # NoRow
  BY RowWithFields, NoRows DEF Sound, SameVote
<1>2. /\ t \in TablesType
      /\ t.producers = s.producers /\ t.producers2 = s.producers2 /\ t.global = s.global
      /\ t.voters[v] = new
      /\ \A u \in Voters \ {v} : t.voters[u] = s.voters[u]
  BY <1>1 DEF HasRow
<1>3. \A u \in Voters : /\ t.voters[u] = NoRow <=> s.voters[u] = NoRow
                        /\ s.voters[u] # NoRow =>
                             /\ t.voters[u].proxy = s.voters[u].proxy
                             /\ t.voters[u].producers = s.voters[u].producers
                             /\ t.voters[u].last_vote_weight = s.voters[u].last_vote_weight
                             /\ t.voters[u].proxied_vote_weight = s.voters[u].proxied_vote_weight
  BY <1>1, <1>2 DEF SameVote
<1>4. Dated(t, now) /\ (Paid(s, now) => Paid(t, now))
  BY <1>2, SameProducers DEF Sound
<1>5. RowsFit(t)
  <2>1. SUFFICES ASSUME NEW u \in Voters, t.voters[u] # NoRow
                 PROVE  /\ t.voters[u].staked \in Nat
                        /\ t.voters[u].proxy # None =>
                             /\ t.voters[u].proxy \in Voters
                             /\ t.voters[t.voters[u].proxy] # NoRow
                             /\ t.voters[u].producers = {}
                        /\ \A p \in t.voters[u].producers : t.producers[p] # NoRow
    BY DEF RowsFit
  <2>2. s.voters[u] # NoRow /\ RowsFit(s)
    BY <1>3, <2>1 DEF Sound
  <2>3. t.voters[u].staked \in Nat
    <3>1. CASE u = v
      BY <1>2, <3>1 DEF SameVote
    <3>2. CASE u # v
      BY <1>2, <2>2, <3>2 DEF RowsFit
    <3> QED BY <3>1, <3>2
  <2>4. t.voters[u].proxy # None =>
          /\ t.voters[u].proxy \in Voters
          /\ t.voters[t.voters[u].proxy] # NoRow
          /\ t.voters[u].producers = {}
    BY <1>3, <2>2 DEF RowsFit
  <2>5. \A p \in t.voters[u].producers : t.producers[p] # NoRow
    BY <1>2, <1>3, <2>2 DEF RowsFit
  <2> QED BY <2>3, <2>4, <2>5
<1>6. Acyclic(t)
  BY <1>3 DEF Sound, Acyclic
<1>7. WeightsEven(t)
  BY <1>3 DEF Sound, WeightsEven
<1>8. Tallied(t, cast, via)
  BY <1>2, <1>3, TalliedRows DEF Sound
<1>9. Agree(t, cast, via, {})
  <2>1. ASSUME NEW u \in Voters
        PROVE  /\ \A p \in Producers : CastBy(t.voters[u], p) = CastBy(s.voters[u], p)
               /\ \A x \in Voters : PassedBy(t.voters[u], x) = PassedBy(s.voters[u], x)
    BY <1>3 DEF CastBy, PassedBy
  <2> QED BY <2>1 DEF Sound, Agree
<1> QED BY <1>1, <1>2, <1>4, <1>5, <1>6, <1>7, <1>8, <1>9 DEF Sound

\* A voter that was not known gets a row.
NewVote(new) ==
  /\ new \in VoterRow /\ new.staked \in Nat
  /\ new.proxy = None /\ new.producers = {}
  /\ new.last_vote_weight = 0 /\ new.proxied_vote_weight = 0

\* A row without votes leaves the tables sound.
LEMMA RowAdded ==
  ASSUME NEW s, NEW cast, NEW via, Sound(s, cast, via, {}),
         NEW v \in Voters, s.voters[v] = NoRow, NEW new, NewVote(new),
         NEW t, t = RowWith(s, v, new)
  PROVE  /\ Sound(t, cast, via, {}) /\ HasRow(s, t, v, new)
         /\ Paid(s, now) => Paid(t, now)
<1>1. HasRow(s, t, v, new) /\ new # NoRow
  BY RowWithFields, NoRows DEF Sound, NewVote
<1>2. /\ t \in TablesType
      /\ t.producers = s.producers /\ t.producers2 = s.producers2 /\ t.global = s.global
      /\ t.voters[v] = new
      /\ \A u \in Voters \ {v} : t.voters[u] = s.voters[u]
  BY <1>1 DEF HasRow
<1>3. Dated(t, now) /\ (Paid(s, now) => Paid(t, now))
  BY <1>2, SameProducers DEF Sound
<1>4. \A u \in Voters \ {v} : s.voters[u] # NoRow => s.voters[u].proxy # v
  BY VotingAssumption DEF Sound, RowsFit
<1>5. RowsFit(t)
  <2>1. SUFFICES ASSUME NEW u \in Voters, t.voters[u] # NoRow
                 PROVE  /\ t.voters[u].staked \in Nat
                        /\ t.voters[u].proxy # None =>
                             /\ t.voters[u].proxy \in Voters
                             /\ t.voters[t.voters[u].proxy] # NoRow
                             /\ t.voters[u].producers = {}
                        /\ \A p \in t.voters[u].producers : t.producers[p] # NoRow
    BY DEF RowsFit
  <2>2. CASE u = v
    BY <1>2, <2>2 DEF NewVote
  <2>3. CASE u # v
    <3>1. t.voters[u] = s.voters[u] /\ RowsFit(s)
      BY <1>2, <2>3 DEF Sound
    <3>2. \A y \in Voters : s.voters[y] # NoRow => t.voters[y] # NoRow
      BY <1>1, <1>2
    <3> QED BY <1>2, <2>1, <3>1, <3>2 DEF RowsFit
  <2> QED BY <2>2, <2>3
<1>6. Acyclic(t)
  <2>1. SUFFICES ASSUME NEW S \in SUBSET Voters, S # {}, \A u \in S : t.voters[u] # NoRow
                 PROVE  \E u \in S : t.voters[u].proxy \notin S
    BY DEF Acyclic
  <2>2. CASE v \in S
    BY <1>2, <2>2, VotingAssumption DEF NewVote
  <2>3. CASE v \notin S
    <3>1. \A u \in S : t.voters[u] = s.voters[u]
      BY <1>2, <2>3
    <3> QED BY <2>1, <3>1 DEF Sound, Acyclic
  <2> QED BY <2>2, <2>3
<1>7. WeightsEven(t)
  <2>1. SUFFICES ASSUME NEW u \in Voters, t.voters[u] # NoRow
                 PROVE  /\ t.voters[u].last_vote_weight \in Nat
                        /\ Even(t.voters[u].last_vote_weight)
                        /\ Even(t.voters[u].proxied_vote_weight)
    BY DEF WeightsEven
  <2>2. Even(0)
    <3>1. 0 = 2 * 0 /\ 0 \in Int
      OBVIOUS
    <3> QED BY <3>1 DEF Even
  <2>3. CASE u = v
    BY <1>2, <2>2, <2>3 DEF NewVote
  <2>4. CASE u # v
    BY <1>2, <2>1, <2>4 DEF Sound, WeightsEven
  <2> QED BY <2>3, <2>4
<1>8. Tallied(t, cast, via)
  <2>1. \A p \in Producers : VotesOf(t.producers[p]) = Sum(cast[p], Voters)
    BY <1>2 DEF Sound, Tallied
  <2>2. t.global.total_producer_vote_weight = Sum(Tally(t), Producers)
    BY <1>2 DEF Sound, Tallied, Tally
  <2>3. ASSUME NEW x \in Voters, t.voters[x] # NoRow
        PROVE  t.voters[x].proxied_vote_weight = Sum(via[x], Voters)
    <3>1. CASE x = v
      <4>1. via[v] \in [Voters -> Int]
        BY DEF Sound, Matrices
      <4>2. \A u \in Voters : via[v][u] = 0
        BY <1>4 DEF Sound, Agree, PassedBy
      <4>3. SumFunctionOnSet(via[v], Voters) = 0
        BY <4>1, <4>2, TablesFinite, SumZero
      <4> QED BY <1>2, <3>1, <4>3 DEF Sum, NewVote
    <3>2. CASE x # v
      BY <1>2, <2>3, <3>2 DEF Sound, Tallied
    <3> QED BY <3>1, <3>2
  <2> QED BY <2>1, <2>2, <2>3 DEF Tallied
<1>9. Agree(t, cast, via, {})
  <2>1. ASSUME NEW u \in Voters
        PROVE  /\ \A p \in Producers : CastBy(t.voters[u], p) = CastBy(s.voters[u], p)
               /\ \A x \in Voters : PassedBy(t.voters[u], x) = PassedBy(s.voters[u], x)
    <3>1. CASE u = v
      BY <1>2, <3>1 DEF CastBy, PassedBy, NewVote
    <3>2. CASE u # v
      BY <1>2, <3>2 DEF CastBy, PassedBy
    <3> QED BY <3>1, <3>2
  <2> QED BY <2>1 DEF Sound, Agree
<1> QED BY <1>1, <1>2, <1>3, <1>5, <1>6, <1>7, <1>8, <1>9 DEF Sound

(***************************************************************************)
(* The inductive invariant                                                 *)
(***************************************************************************)
\* Stake, times and counts are in their bounds.
InRange(s, t) ==
  /\ \A u \in Voters : s.voters[u] # NoRow => s.voters[u].staked <= MaxStake
  /\ \A p \in Producers : s.producers[p] # NoRow => s.producers[p].last_claim_time \in 0 .. t
  /\ s.global.total_activated_stake >= 0
  /\ s.global.thresh_activated_stake_time >= 0
  /\ Cardinality(schedule) <= s.global.last_producer_schedule_size

\* Producers without a row in producers2 have never claimed.
ClaimsMade(s) ==
  \A p \in Producers : s.producers[p] # NoRow =>
    (s.producers2[p] = NoRow <=> s.producers[p].last_claim_time = 0)

\* The tables are sound, and weights are backed by stake.
TablesGood(s) ==
  /\ now \in 1 .. MaxTime
  /\ \E cast, via : Sound(s, cast, via, {})
  /\ Roots(s) /\ InRange(s, now)
  /\ \A u \in Voters : s.voters[u] # NoRow => Backed(s.voters[u])

\* Where no producer claimed before the shares were counted, they add up.
PayGood(s) == LegacyClaims \subseteq {0} => Paid(s, now) /\ ClaimsMade(s)

\* The inductive invariant of voting.
VoteInv ==
  /\ TablesGood(Tables) /\ PayGood(Tables)
  /\ rex_stake \in [Voters -> Nat]
  /\ schedule \subseteq Producers

\* What holds of tables t holds of the tables after a step that sets them to t.
NewTables(t) ==
  /\ voters' = t.voters /\ producers' = t.producers
  /\ producers2' = t.producers2 /\ global' = t.global

\* A step to good tables keeps the invariant, one that elects a schedule
LEMMA InvAfterElection ==
  ASSUME NEW t, t \in TablesType, NewTables(t), now' = now, TablesGood(t), PayGood(t),
         rex_stake' \in [Voters -> Nat], schedule' \subseteq Producers,
         Cardinality(schedule') <= t.global.last_producer_schedule_size
  PROVE  VoteInv'
<1>1. Tables' = t
  BY DEF NewTables, TablesType, Tables
<1>2. PICK cast, via : Sound(t, cast, via, {})
  BY DEF TablesGood
<1>3. Sound(Tables, cast, via, {})'
  BY <1>1, <1>2 DEF Sound
<1>4. TablesGood(Tables)'
  <2>1. (\A u \in Voters : Tables.voters[u] # NoRow => Backed(Tables.voters[u]))'
    BY <1>1 DEF TablesGood, Backed, Weight, stake2vote
  <2>2. InRange(Tables, now)'
    BY <1>1 DEF TablesGood, InRange
  <2> QED BY <1>1, <1>3, <2>1, <2>2 DEF TablesGood
<1>5. PayGood(Tables)'
  BY <1>1 DEF PayGood
<1> QED BY <1>4, <1>5 DEF VoteInv

\* as one that does not.
LEMMA InvAfter ==
  ASSUME NEW t, t \in TablesType, NewTables(t), now' = now, TablesGood(t), PayGood(t),
         rex_stake' \in [Voters -> Nat], schedule \subseteq Producers, schedule' = schedule
  PROVE  VoteInv'
<1>1. Cardinality(schedule') <= t.global.last_producer_schedule_size
  BY DEF TablesGood, InRange
<1> QED BY <1>1, InvAfterElection

\* The tables are as they should be, but for the weight that voter v has cast.
AlmostGood(s, v) ==
  /\ now \in 1 .. MaxTime
  /\ \E cast, via : Sound(s, cast, via, {})
  /\ Roots(s) /\ InRange(s, now)
  /\ \A u \in Voters \ {v} : s.voters[u] # NoRow => Backed(s.voters[u])

\* Tables t are good when tables s were.
Result(s, t) == t \in TablesType /\ TablesGood(t) /\ (PayGood(s) => PayGood(t))

\* A row within the bounds: its stake is one, and a proxy has no proxy.
RowFits(row) == row.staked <= MaxStake /\ (row.is_proxy => row.proxy = None)

\* The stake of a voter is set, or whether it is a proxy.
LEMMA RowSetGood ==
  ASSUME NEW s, TablesGood(s), NEW v \in Voters, s.voters[v] # NoRow,
         NEW new, SameVote(s.voters[v], new), RowFits(new),
         NEW t, t = RowWith(s, v, new)
  PROVE  /\ AlmostGood(t, v) /\ HasRow(s, t, v, new) /\ t.voters[v] # NoRow
         /\ t \in TablesType
         /\ PayGood(s) => PayGood(t)
<1>1. PICK cast, via : Sound(s, cast, via, {})
  BY DEF TablesGood
<1>2. /\ Sound(t, cast, via, {}) /\ HasRow(s, t, v, new)
      /\ Paid(s, now) => Paid(t, now)
  BY <1>1, RowSet
<1>3. /\ t.producers = s.producers /\ t.producers2 = s.producers2 /\ t.global = s.global
      /\ t.voters[v] = new /\ t \in TablesType
      /\ \A u \in Voters \ {v} : t.voters[u] = s.voters[u]
  BY <1>2 DEF HasRow
<1>4. new # NoRow
  BY NoRows DEF SameVote
<1>5. Roots(t)
  BY <1>3 DEF TablesGood, Roots, RowFits
<1>6. InRange(t, now)
  <2>1. ASSUME NEW u \in Voters, t.voters[u] # NoRow PROVE t.voters[u].staked <= MaxStake
    <3>1. CASE u = v
      BY <1>3, <3>1 DEF RowFits
    <3>2. CASE u # v
      BY <1>3, <2>1, <3>2 DEF TablesGood, InRange
    <3> QED BY <3>1, <3>2
  <2> QED BY <1>3, <2>1 DEF TablesGood, InRange
<1>7. \A u \in Voters \ {v} : t.voters[u] # NoRow => Backed(t.voters[u])
  BY <1>3 DEF TablesGood
<1>8. AlmostGood(t, v)
  BY <1>2, <1>5, <1>6, <1>7 DEF AlmostGood, TablesGood
<1>9. PayGood(s) => PayGood(t)
  BY <1>2, <1>3 DEF PayGood, ClaimsMade
<1> QED BY <1>2, <1>3, <1>4, <1>8, <1>9

\* Where the voter does not vote, or its weight is what it was, that is all.
LEMMA GoodAgain ==
  ASSUME NEW s, NEW v, AlmostGood(s, v), v \in Voters => Backed(s.voters[v])
  PROVE  TablesGood(s)
BY DEF AlmostGood, TablesGood

\* A voter that was not known gets a row.
LEMMA RowAddedGood ==
  ASSUME NEW s, TablesGood(s), NEW v \in Voters, s.voters[v] = NoRow,
         NEW new, NewVote(new), new.staked <= MaxStake,
         NEW t, t = RowWith(s, v, new)
  PROVE  Result(s, t)
<1>1. PICK cast, via : Sound(s, cast, via, {})
  BY DEF TablesGood
<1>2. /\ Sound(t, cast, via, {}) /\ HasRow(s, t, v, new)
      /\ Paid(s, now) => Paid(t, now)
  BY <1>1, RowAdded
<1>3. /\ t.producers = s.producers /\ t.producers2 = s.producers2 /\ t.global = s.global
      /\ t.voters[v] = new /\ t \in TablesType
      /\ \A u \in Voters \ {v} : t.voters[u] = s.voters[u]
  BY <1>2 DEF HasRow
<1>4. Roots(t)
  BY <1>3 DEF TablesGood, Roots, NewVote
<1>5. InRange(t, now)
  <2>1. ASSUME NEW u \in Voters, t.voters[u] # NoRow PROVE t.voters[u].staked <= MaxStake
    <3>1. CASE u = v
      BY <1>3, <3>1
    <3>2. CASE u # v
      BY <1>3, <2>1, <3>2 DEF TablesGood, InRange
    <3> QED BY <3>1, <3>2
  <2> QED BY <1>3, <2>1 DEF TablesGood, InRange
<1>6. ASSUME NEW u \in Voters, t.voters[u] # NoRow PROVE Backed(t.voters[u])
  <2>1. CASE u = v
    BY <1>3, <2>1 DEF NewVote, Backed, Votes
  <2>2. CASE u # v
    BY <1>3, <1>6, <2>2 DEF TablesGood
  <2> QED BY <2>1, <2>2
<1>7. TablesGood(t)
  BY <1>2, <1>4, <1>5, <1>6 DEF TablesGood
<1>8. PayGood(s) => PayGood(t)
  BY <1>2, <1>3 DEF PayGood, ClaimsMade
<1> QED BY <1>3, <1>7, <1>8 DEF Result

\* update_votes leaves the tables as they should be.
LEMMA UpdateVotesGood ==
  ASSUME NEW s, NEW v \in Voters, AlmostGood(s, v), s.voters[v] # NoRow,
         NEW proxy, NEW prods, MayUpdate(s, v, proxy, prods),
         NEW t, t = UpdateVotes(s, v, proxy, prods)
  PROVE  Result(s, t)
<1>1. PICK cast, via : Sound(s, cast, via, {})
  BY DEF AlmostGood
<1>2. VotesUpdated(s, t, v, proxy, prods)
  BY <1>1, UpdateVotesSound DEF AlmostGood
<1>3. RowsUpdated(s, t, v, proxy, prods)
  BY <1>2 DEF VotesUpdated
<1>4. PICK cast2, via2 : Sound(t, cast2, via2, {})
  BY <1>2 DEF VotesUpdated
<1>5. t \in TablesType
  BY <1>4 DEF Sound
<1>6. Roots(t)
  <2>1. SUFFICES ASSUME NEW u \in Voters, t.voters[u] # NoRow, t.voters[u].is_proxy
                 PROVE  t.voters[u].proxy = None
    BY DEF Roots
  <2>2. s.voters[u] # NoRow /\ s.voters[u].is_proxy
    BY <1>3, <2>1 DEF RowsUpdated
  <2>3. s.voters[u].proxy = None
    BY <2>2 DEF AlmostGood, Roots
  <2>4. CASE u = v
    <3>1. t.voters[u].proxy = proxy
      BY <1>3, <2>2, <2>4 DEF RowsUpdated
    <3> QED BY <2>2, <2>3, <2>4, <3>1 DEF MayUpdate
  <2>5. CASE u # v
    BY <1>3, <2>2, <2>3, <2>5 DEF RowsUpdated
  <2> QED BY <2>4, <2>5
<1>7. InRange(t, now)
  <2>1. \A u \in Voters : t.voters[u] # NoRow => t.voters[u].staked <= MaxStake
    BY <1>3 DEF RowsUpdated, AlmostGood, InRange
  <2>2. \A p \in Producers : t.producers[p] # NoRow => t.producers[p].last_claim_time \in 0 .. now
    BY <1>3 DEF RowsUpdated, AlmostGood, InRange
  <2>3. t.global.total_activated_stake >= 0
    <3>1. s.voters[v].staked \in Nat /\ s.global.total_activated_stake \in Int
      BY <1>1 DEF Sound, RowsFit, TablesType, GlobalState
    <3>2. s.global.total_activated_stake >= 0
      BY DEF AlmostGood, InRange
    <3>3. t.global.total_activated_stake = Activated(s.global, s.voters[v])
      BY <1>3 DEF RowsUpdated
    <3> QED BY <3>1, <3>2, <3>3 DEF Activated
  <2>4. /\ t.global.thresh_activated_stake_time >= 0
        /\ Cardinality(schedule) <= t.global.last_producer_schedule_size
    BY <1>3 DEF RowsUpdated, AlmostGood, InRange
  <2> QED BY <2>1, <2>2, <2>3, <2>4 DEF InRange
<1>8. ASSUME NEW u \in Voters, t.voters[u] # NoRow PROVE Backed(t.voters[u])
  <2>1. s.voters[u] # NoRow
    BY <1>3, <1>8 DEF RowsUpdated
  <2>2. u = v \/ Backed(s.voters[u])
    BY <2>1 DEF AlmostGood
  <2> QED BY <1>2, <2>1, <2>2 DEF VotesUpdated
<1>9. TablesGood(t)
  BY <1>4, <1>6, <1>7, <1>8 DEF TablesGood, AlmostGood
<1>10. PayGood(s) => PayGood(t)
  <2>1. ClaimsMade(s) => ClaimsMade(t)
    BY <1>3 DEF RowsUpdated, ClaimsMade
  <2> QED BY <1>2, <2>1 DEF PayGood, VotesUpdated
<1> QED BY <1>5, <1>9, <1>10 DEF Result

\* So does propagate_weight_change.
LEMMA PropagateGood ==
  ASSUME NEW s, NEW v \in Voters, AlmostGood(s, v), s.voters[v] # NoRow,
         NEW t, t = Propagate(s, v)
  PROVE  Result(s, t)
<1>1. PICK cast, via : Sound(s, cast, via, {})
  BY DEF AlmostGood
<1>2. PICK D : D = {u \in Voters : s.voters[u] # NoRow}
  OBVIOUS
<1>3. ProxyClosed(s, D) /\ v \in D
  BY <1>1, <1>2 DEF ProxyClosed, Sound, RowsFit
<1>4. Passed(s, v, t, None, cast, via, {})
  BY <1>1, <1>3, PropagateSound
<1>5. Kept(s, t)
  BY <1>4 DEF Passed
<1>6. PICK cast2, via2 : Sound(t, cast2, via2, {})
  BY <1>4 DEF Passed
<1>7. Roots(t)
  BY <1>5 DEF AlmostGood, Roots, Kept
<1>8. InRange(t, now)
  BY <1>5 DEF AlmostGood, InRange, Kept
<1>9. ASSUME NEW u \in Voters, t.voters[u] # NoRow PROVE Backed(t.voters[u])
  <2>1. s.voters[u] # NoRow /\ u # None
    BY <1>5, <1>9, VotingAssumption DEF Kept
  <2>2. u = v \/ Backed(s.voters[u])
    BY <2>1 DEF AlmostGood
  <2> QED BY <1>4, <2>1, <2>2 DEF Passed
<1>10. TablesGood(t) /\ t \in TablesType
  BY <1>6, <1>7, <1>8, <1>9 DEF TablesGood, AlmostGood, Sound
<1>11. PayGood(s) => PayGood(t)
  <2>1. ClaimsMade(s) => ClaimsMade(t)
    BY <1>5 DEF ClaimsMade, Kept
  <2> QED BY <1>4, <2>1 DEF PayGood, Passed
<1> QED BY <1>10, <1>11 DEF Result

(***************************************************************************)
(* The actions of voters                                                   *)
(***************************************************************************)
\* The tables of the present state.
LEMMA TablesFields ==
  /\ Tables.voters = voters /\ Tables.producers = producers
  /\ Tables.producers2 = producers2 /\ Tables.global = global
BY DEF Tables

\* What the invariant says of a row.
LEMMA RowGood ==
  ASSUME TablesGood(Tables), NEW v \in Voters, voters[v] # NoRow
  PROVE  /\ voters[v] \in VoterRow /\ voters[v].staked \in 0 .. MaxStake
         /\ voters[v].is_proxy => voters[v].proxy = None
         /\ voters[v].producers \subseteq Producers
         /\ \A p \in voters[v].producers : producers[p] # NoRow
         /\ voters[v].proxy # None =>
              /\ voters[v].proxy \in Voters /\ voters[v].proxy # v
              /\ voters[voters[v].proxy] # NoRow
              /\ voters[v].producers = {}
<1>1. PICK cast, via : Sound(Tables, cast, via, {})
  BY DEF TablesGood
<1>2. Tables.voters[v] # NoRow
  BY TablesFields
<1>3. Tables.voters[v].staked \in Nat /\ Tables.voters[v].staked <= MaxStake
  BY <1>1, <1>2 DEF Sound, RowsFit, TablesGood, InRange
<1>4. Tables.voters[v].is_proxy => Tables.voters[v].proxy = None
  BY <1>2 DEF TablesGood, Roots
<1> QED BY <1>1, <1>2, <1>3, <1>4, SoundRow, TablesFields, VotingAssumption

\* The tables with another stake for a voter.
LEMMA StakeChanged ==
  ASSUME TablesGood(Tables), NEW v \in Voters, voters[v] # NoRow,
         NEW n \in 0 .. MaxStake,
         NEW new, new = [voters[v] EXCEPT !.staked = n],
         NEW t, t = RowWith(Tables, v, new)
  PROVE  /\ SameVote(Tables.voters[v], new)
         /\ AlmostGood(t, v) /\ t.voters[v] = new /\ t.voters[v] # NoRow
         /\ t \in TablesType
         /\ t.producers = producers
         /\ \A u \in Voters \ {v} : t.voters[u] = voters[u]
         /\ PayGood(Tables) => PayGood(t)
<1>1. voters[v] \in VoterRow
  BY RowGood
<1>2. /\ new \in VoterRow /\ new.staked = n
      /\ new.proxy = voters[v].proxy /\ new.producers = voters[v].producers
      /\ new.last_vote_weight = voters[v].last_vote_weight
      /\ new.proxied_vote_weight = voters[v].proxied_vote_weight
      /\ new.is_proxy = voters[v].is_proxy
  <2>1. n \in Int
    OBVIOUS
  <2> QED BY <1>1, <2>1 DEF VoterRow
<1>3. SameVote(Tables.voters[v], new) /\ Tables.voters[v] # NoRow
  BY <1>2, TablesFields DEF SameVote
<1>4. new.is_proxy => new.proxy = None
  BY <1>2, RowGood
<1>5. RowFits(new)
  BY <1>2, <1>4 DEF RowFits
<1>6. /\ AlmostGood(t, v) /\ HasRow(Tables, t, v, new) /\ t.voters[v] # NoRow
      /\ t \in TablesType
      /\ PayGood(Tables) => PayGood(t)
  <2>1. PICK s : s = Tables
    OBVIOUS
  <2>2. TablesGood(s) /\ SameVote(s.voters[v], new) /\ s.voters[v] # NoRow /\ t = RowWith(s, v, new)
    BY <1>3, <2>1
  <2>3. /\ AlmostGood(t, v) /\ HasRow(s, t, v, new) /\ t.voters[v] # NoRow
        /\ t \in TablesType /\ (PayGood(s) => PayGood(t))
    BY <1>5, <2>2, RowSetGood
  <2> QED BY <2>1, <2>3
<1> QED BY <1>3, <1>6, TablesFields DEF HasRow

\* voteproducer.
LEMMA VoteproducerKeeps ==
  ASSUME VoteInv, NEW v \in Voters, NEW gain \in RexAmounts \cup {0},
         NEW proxy \in Voters \cup {None}, NEW prods \in SUBSET Producers,
         voteproducer(v, gain, proxy, prods)
  PROVE  VoteInv'
<1>1. TablesGood(Tables) /\ PayGood(Tables) /\ voters[v] # NoRow /\ gain \in Nat
  BY VotingAssumption DEF VoteInv, voteproducer
<1>2. PICK n : n = voters[v].staked + gain
  OBVIOUS
<1>3. n \in 0 .. MaxStake
  <2>1. voters[v].staked \in 0 .. MaxStake
    BY <1>1, RowGood
  <2>2. MaxStake \in Nat
    BY VotingAssumption
  <2>3. CASE gain > 0
    BY <1>1, <1>2, <2>1, <2>2, <2>3 DEF voteproducer
  <2>4. CASE gain = 0
    BY <1>2, <2>1, <2>2, <2>4
  <2> QED BY <1>1, <2>3, <2>4
<1>4. PICK new : new = [voters[v] EXCEPT !.staked = n]
  OBVIOUS
<1>5. PICK s : s = RowWith(Tables, v, new)
  OBVIOUS
<1>6. /\ AlmostGood(s, v) /\ s.voters[v] = new /\ s.voters[v] # NoRow
      /\ SameVote(Tables.voters[v], new)
      /\ s.producers = producers
      /\ \A u \in Voters \ {v} : s.voters[u] = voters[u]
      /\ PayGood(s)
  BY <1>1, <1>3, <1>4, <1>5, StakeChanged
<1>7. [Tables EXCEPT !.voters[v].staked = @ + gain] = s
  BY <1>2, <1>4, <1>5, TablesFields DEF RowWith
<1>8. MayUpdate(s, v, proxy, prods)
  <2>1. \A p \in prods : s.producers[p] # NoRow
    BY <1>6 DEF voteproducer, Active, Registered
  <2>2. ASSUME proxy # None
        PROVE  /\ prods = {}
               /\ proxy \in Voters /\ proxy # v /\ s.voters[proxy] # NoRow
               /\ s.voters[proxy].is_proxy /\ ~ s.voters[v].is_proxy
    <3>1. prods = {} /\ MayProxy(v, proxy)
      BY <2>2 DEF voteproducer
    <3>2. /\ v # proxy /\ ~ voters[v].is_proxy
          /\ voters[proxy] # NoRow /\ voters[proxy].is_proxy
      BY <3>1 DEF MayProxy
    <3>3. new.is_proxy = voters[v].is_proxy
      <4>1. voters[v] \in VoterRow
        BY <1>1, RowGood
      <4> QED BY <1>4, <4>1 DEF VoterRow
    <3> QED BY <1>6, <2>2, <3>1, <3>2, <3>3
  <2> QED BY <2>1, <2>2 DEF MayUpdate
<1>9. PICK t : t = UpdateVotes(s, v, proxy, prods)
  OBVIOUS
<1>10. Result(s, t)
  BY <1>6, <1>8, <1>9, UpdateVotesGood
<1>11. NewTables(t)
  BY <1>7, <1>9 DEF voteproducer, SetTables, NewTables
<1>12. rex_stake' \in [Voters -> Nat]
  BY <1>1 DEF voteproducer, VoteInv
<1>13. now' = now /\ schedule \subseteq Producers /\ schedule' = schedule
  BY DEF voteproducer, VoteInv
<1> QED BY <1>6, <1>10, <1>11, <1>12, <1>13, InvAfter DEF Result

\* update_voting_power.
LEMMA ChangeStakeGood ==
  ASSUME TablesGood(Tables), NEW v \in Voters, NEW change \in Int, ChangeStake(v, change)
  PROVE  \E t : Result(Tables, t) /\ NewTables(t) /\ now' = now /\ schedule' = schedule
<1> DEFINE row == IF voters[v] = NoRow THEN NoVoter ELSE voters[v]
<1>1. PICK new : new = [row EXCEPT !.staked = row.staked + change]
  OBVIOUS
<1>2. PICK s : s = RowWith(Tables, v, new)
  OBVIOUS
<1>3. /\ row.staked + change \in 0 .. MaxStake
      /\ SetTables(IF Votes(row) THEN UpdateVotes(s, v, row.proxy, row.producers) ELSE s)
      /\ now' = now /\ schedule' = schedule
  BY <1>1, <1>2 DEF ChangeStake, RowWith
<1>4. CASE voters[v] = NoRow
  <2>1. row = NoVoter
    BY <1>4
  <2>2. NewVote(new) /\ new.staked <= MaxStake
    <3>1. PICK n \in 0 .. MaxStake : n = row.staked + change
      BY <1>3
    <3>2. new = [NoVoter EXCEPT !.staked = n] /\ n \in Nat
      BY <1>1, <2>1, <3>1
    <3>3. new.is_proxy = FALSE
      BY <3>2 DEF NoVoter
    <3>4. /\ new.staked = n /\ new.proxy = None /\ new.producers = {}
          /\ new.last_vote_weight = 0 /\ new.proxied_vote_weight = 0
      BY <3>2 DEF NoVoter
    <3>5. new \in VoterRow
      <4>1. new = [staked |-> n, is_proxy |-> FALSE, proxy |-> None, producers |-> {},
                   last_vote_weight |-> 0, proxied_vote_weight |-> 0]
        BY <3>2 DEF NoVoter
      <4>2. n \in Int /\ 0 \in Int
        OBVIOUS
      <4> QED BY <4>1, <4>2 DEF VoterRow
    <3> QED BY <3>1, <3>2, <3>4, <3>5 DEF NewVote
  <2>3. ~ Votes(row)
    BY <2>1 DEF Votes, NoVoter
  <2>4. NewTables(s)
    BY <1>3, <2>3 DEF SetTables, NewTables
  <2>5. Tables.voters[v] = NoRow
    BY <1>4, TablesFields
  <2>6. Result(Tables, s)
    BY <1>2, <2>2, <2>5, RowAddedGood
  <2> QED BY <1>3, <2>4, <2>6
<1>5. CASE voters[v] # NoRow
  <2>1. row = voters[v]
    BY <1>5
  <2>2. PICK n \in 0 .. MaxStake : n = row.staked + change
    BY <1>3
  <2>3. new = [voters[v] EXCEPT !.staked = n]
    BY <1>1, <2>1, <2>2
  <2>4. /\ AlmostGood(s, v) /\ s.voters[v] = new /\ s.voters[v] # NoRow
        /\ SameVote(Tables.voters[v], new)
        /\ s \in TablesType /\ s.producers = producers
        /\ \A u \in Voters \ {v} : s.voters[u] = voters[u]
        /\ PayGood(Tables) => PayGood(s)
    BY <1>2, <1>5, <2>3, StakeChanged
  <2>5. CASE Votes(row)
    <3>1. MayUpdate(s, v, row.proxy, row.producers)
      <4>1. /\ row.producers \subseteq Producers
            /\ \A p \in row.producers : s.producers[p] # NoRow
            /\ row.proxy # None => /\ row.producers = {} /\ row.proxy \in Voters /\ row.proxy # v
                                   /\ voters[row.proxy] # NoRow
        BY <1>5, <2>1, <2>4, RowGood
      <4>2. row.proxy = s.voters[v].proxy
        BY <2>1, <2>4, TablesFields DEF SameVote
      <4> HIDE DEF row
      <4> QED BY <2>4, <4>1, <4>2 DEF MayUpdate
    <3>2. PICK t : t = UpdateVotes(s, v, row.proxy, row.producers)
      OBVIOUS
    <3>3. Result(s, t)
      <4> HIDE DEF row
      <4> QED BY <2>4, <3>1, <3>2, UpdateVotesGood
    <3>4. NewTables(t)
      BY <1>3, <2>5, <3>2 DEF SetTables, NewTables
    <3> QED BY <1>3, <2>4, <3>3, <3>4 DEF Result
  <2>6. CASE ~ Votes(row)
    <3>1. NewTables(s)
      BY <1>3, <2>6 DEF SetTables, NewTables
    <3>2. ~ Votes(new)
      BY <2>1, <2>4, <2>6, TablesFields DEF Votes, SameVote
    <3>3. Backed(s.voters[v])
      BY <2>4, <3>2 DEF Backed
    <3>4. Result(Tables, s)
      BY <2>4, <3>3, GoodAgain DEF Result
    <3> QED BY <1>3, <3>1, <3>4
  <2> QED BY <2>5, <2>6
<1> QED BY <1>4, <1>5

\* With that, the actions that change stake.
LEMMA StakeKeeps ==
  ASSUME VoteInv, NEW v \in Voters, NEW change \in Int, ChangeStake(v, change),
         rex_stake' \in [Voters -> Nat]
  PROVE  VoteInv'
<1>1. PICK t : Result(Tables, t) /\ NewTables(t) /\ now' = now /\ schedule' = schedule
  BY ChangeStakeGood DEF VoteInv
<1> QED BY <1>1, InvAfter DEF VoteInv, Result

\* delegatebw and undelegatebw.
LEMMA DelegatebwKeeps ==
  ASSUME VoteInv, NEW v \in Voters, NEW amount \in StakeAmounts,
         delegatebw(v, amount) \/ undelegatebw(v, amount)
  PROVE  VoteInv'
<1>1. amount \in Int /\ - amount \in Int
  BY VotingAssumption
<1>2. rex_stake' \in [Voters -> Nat]
  BY DEF VoteInv, delegatebw, undelegatebw
<1>3. ChangeStake(v, amount) \/ ChangeStake(v, - amount)
  BY DEF delegatebw, undelegatebw
<1> QED BY <1>1, <1>2, <1>3, StakeKeeps

\* Buying and selling REX.
LEMMA RexKeeps ==
  ASSUME VoteInv, NEW v \in Voters, NEW amount \in RexAmounts,
         BuyRex(v, amount) \/ SellRex(v, amount)
  PROVE  VoteInv'
<1>1. amount \in Nat /\ amount \in Int /\ - amount \in Int
  BY VotingAssumption
<1>2. rex_stake' \in [Voters -> Nat]
  <2>1. rex_stake \in [Voters -> Nat]
    BY DEF VoteInv
  <2>2. CASE BuyRex(v, amount)
    BY <1>1, <2>1, <2>2 DEF BuyRex
  <2>3. CASE SellRex(v, amount)
    <3>1. rex_stake[v] - amount \in Nat
      BY <1>1, <2>1, <2>3 DEF SellRex
    <3> QED BY <2>1, <2>3, <3>1 DEF SellRex
  <2> QED BY <2>2, <2>3
<1>3. ChangeStake(v, amount) \/ ChangeStake(v, - amount)
  BY DEF BuyRex, SellRex
<1> QED BY <1>1, <1>2, <1>3, StakeKeeps

\* regproxy.
LEMMA RegproxyKeeps ==
  ASSUME VoteInv, NEW v \in Voters, NEW isproxy \in BOOLEAN, regproxy(v, isproxy)
  PROVE  VoteInv'
<1>1. TablesGood(Tables) /\ PayGood(Tables)
  BY DEF VoteInv
<1>2. /\ now' = now /\ rex_stake' \in [Voters -> Nat]
      /\ schedule \subseteq Producers /\ schedule' = schedule
  BY DEF VoteInv, regproxy
<1>3. \E t : Result(Tables, t) /\ NewTables(t)
  <2>1. CASE voters[v] = NoRow
    <3>1. PICK new : new = [NoVoter EXCEPT !.is_proxy = isproxy]
      OBVIOUS
    <3>2. PICK t : t = RowWith(Tables, v, new)
      OBVIOUS
    <3>3. NewVote(new) /\ new.staked <= MaxStake
      <4>1. /\ new.staked = 0 /\ new.proxy = None /\ new.producers = {}
            /\ new.last_vote_weight = 0 /\ new.proxied_vote_weight = 0
        BY <3>1 DEF NoVoter
      <4>2. new \in VoterRow
        <5>1. new = [staked |-> 0, is_proxy |-> isproxy, proxy |-> None, producers |-> {},
                     last_vote_weight |-> 0, proxied_vote_weight |-> 0]
          BY <3>1 DEF NoVoter
        <5> QED BY <5>1 DEF VoterRow
      <4>3. MaxStake \in Nat
        BY VotingAssumption
      <4> QED BY <4>1, <4>2, <4>3 DEF NewVote
    <3>4. Tables.voters[v] = NoRow
      BY <2>1, TablesFields
    <3>5. Result(Tables, t)
      BY <1>1, <3>2, <3>3, <3>4, RowAddedGood
    <3>6. NewTables(t)
      BY <2>1, <3>1, <3>2 DEF regproxy, SetTables, NewTables, RowWith
    <3> QED BY <3>5, <3>6
  <2>2. CASE voters[v] # NoRow
    <3>1. PICK new : new = [voters[v] EXCEPT !.is_proxy = isproxy]
      OBVIOUS
    <3>2. PICK s : s = RowWith(Tables, v, new)
      OBVIOUS
    <3>3. voters[v] \in VoterRow /\ voters[v].staked \in 0 .. MaxStake
      BY <1>1, <2>2, RowGood
    <3>4. /\ new \in VoterRow /\ new.staked = voters[v].staked
          /\ new.proxy = voters[v].proxy /\ new.producers = voters[v].producers
          /\ new.last_vote_weight = voters[v].last_vote_weight
          /\ new.proxied_vote_weight = voters[v].proxied_vote_weight
      BY <3>1, <3>3 DEF VoterRow
    <3>5. new.is_proxy => new.proxy = None
      <4>1. isproxy => voters[v].proxy = None
        BY <2>2 DEF regproxy
      <4>2. new.is_proxy = isproxy
        BY <3>1, <3>3, Zenon DEF VoterRow
      <4> QED BY <3>4, <4>1, <4>2
    <3>6. SameVote(Tables.voters[v], new) /\ Tables.voters[v] # NoRow /\ new.staked <= MaxStake
      BY <2>2, <3>3, <3>4, TablesFields DEF SameVote
    <3>7. AlmostGood(s, v) /\ s.voters[v] # NoRow /\ PayGood(s)
      <4>1. RowFits(new)
        BY <3>5, <3>6 DEF RowFits
      <4> QED BY <1>1, <3>2, <3>6, <4>1, RowSetGood
    <3>8. PICK t : t = Propagate(s, v)
      OBVIOUS
    <3>9. Result(s, t)
      BY <3>7, <3>8, PropagateGood
    <3>10. [Tables EXCEPT !.voters[v].is_proxy = isproxy] = s
      BY <3>1, <3>2, TablesFields DEF RowWith
    <3>11. NewTables(t)
      BY <2>2, <3>8, <3>10 DEF regproxy, SetTables, NewTables, Reweighed
    <3> QED BY <3>7, <3>9, <3>11 DEF Result
  <2> QED BY <2>1, <2>2
<1> QED BY <1>1, <1>2, <1>3, InvAfter DEF Result

(***************************************************************************)
(* The actions of producers                                                *)
(***************************************************************************)
\* Rates and shares are not negative, and neither is the total.
LEMMA RatesAreNat ==
  ASSUME NEW s, NEW cast, NEW via, NEW G, Sound(s, cast, via, G)
  PROVE  /\ \A p \in Producers : RateOf(s, p) \in Nat /\ SharesOf(s, p, now) \in Nat
         /\ s.global.total_vpay_share_change_rate \in Nat
         /\ TotalShare(s.global, now) \in Nat
<1>1. \A p \in Producers : VotesOf(s.producers[p]) \in Nat
  BY TalliesAreNat DEF Sound
<1>2. s \in TablesType /\ Dated(s, now) /\ now \in Nat
  BY VotingAssumption DEF Sound
<1>3. ASSUME NEW p \in Producers
      PROVE  RateOf(s, p) \in Nat /\ SharesOf(s, p, now) \in Nat
  <2>1. PICK r \in Nat : r = RateOf(s, p)
    BY <1>1 DEF RateOf
  <2>2. CASE s.producers2[p] = NoRow
    BY <2>1, <2>2 DEF SharesOf
  <2>3. CASE s.producers2[p] # NoRow
    <3>1. s.producers2[p] \in ProducerRow2
      BY <1>2, <2>3 DEF TablesType
    <3>2. PICK l \in Nat : l = s.producers2[p].last_votepay_share_update /\ l <= now
      BY <1>2, <2>3, <3>1 DEF Dated, ProducerRow2
    <3>3. PICK a \in Nat : a = s.producers2[p].votepay_share
      BY <1>2, <2>3, <3>1 DEF Dated, ProducerRow2
    <3>4. SharesOf(s, p, now) = a + r * (now - l)
      BY <2>1, <2>3, <3>2, <3>3 DEF SharesOf
    <3>5. PICK d \in Nat : d = now - l
      BY <1>2, <3>2
    <3>6. r * d \in Nat
      OBVIOUS
    <3> QED BY <2>1, <3>4, <3>5, <3>6
  <2> QED BY <2>1, <2>2, <2>3
<1>4. s.global.total_vpay_share_change_rate \in Nat /\ TotalShare(s.global, now) \in Nat
  <2>1. s.global \in GlobalState(Int)
    BY <1>2 DEF TablesType
  <2>2. PICK r \in Nat : r = s.global.total_vpay_share_change_rate
    BY <1>2, <2>1 DEF Dated, GlobalState
  <2>3. PICK a \in Nat : a = s.global.total_producer_votepay_share
    BY <1>2, <2>1 DEF Dated, GlobalState
  <2>4. PICK d \in Nat : d = now - s.global.last_vpay_state_update
    BY <1>2, <2>1 DEF Dated, GlobalState
  <2>5. r * d \in Nat
    OBVIOUS
  <2> QED BY <2>2, <2>3, <2>4, <2>5 DEF TotalShare
<1> QED BY <1>3, <1>4

\* The rows of one producer are set, and the totals of shares.
ProducerSet(s, t, p) ==
  /\ t \in TablesType /\ t.voters = s.voters
  /\ \A q \in Producers \ {p} : /\ t.producers[q] = s.producers[q]
                                /\ t.producers2[q] = s.producers2[q]
  /\ t.producers[p] # NoRow
  /\ VotesOf(t.producers[p]) = VotesOf(s.producers[p])
  /\ t.producers[p].last_claim_time \in 0 .. now
  /\ t.producers2[p] # NoRow => /\ t.producers2[p].votepay_share >= 0
                                /\ t.producers2[p].last_votepay_share_update \in 0 .. now
  /\ t.global.total_producer_vote_weight = s.global.total_producer_vote_weight
  /\ t.global.total_activated_stake = s.global.total_activated_stake
  /\ t.global.thresh_activated_stake_time = s.global.thresh_activated_stake_time
  /\ t.global.last_producer_schedule_size = s.global.last_producer_schedule_size
  /\ t.global.last_vpay_state_update \in 0 .. now
  /\ t.global.total_vpay_share_change_rate >= 0
  /\ t.global.total_producer_votepay_share >= 0

\* Setting the rows of one producer changes no tally,
LEMMA ProducerSetGood ==
  ASSUME NEW s, TablesGood(s), NEW p \in Producers, NEW t, ProducerSet(s, t, p),
         NEW cast, NEW via, Sound(s, cast, via, {})
  PROVE  Sound(t, cast, via, {}) /\ TablesGood(t) /\ t \in TablesType
<1>1. /\ t \in TablesType /\ t.voters = s.voters
      /\ t.producers[p] # NoRow
      /\ \A q \in Producers \ {p} : /\ t.producers[q] = s.producers[q]
                                    /\ t.producers2[q] = s.producers2[q]
  BY DEF ProducerSet
<1>2. \A q \in Producers : /\ VotesOf(t.producers[q]) = VotesOf(s.producers[q])
                           /\ s.producers[q] # NoRow => t.producers[q] # NoRow
  BY DEF ProducerSet
<1>3. Dated(t, now)
  <2>1. Dated(s, now) /\ now \in Nat
    BY VotingAssumption DEF Sound
  <2>2. ASSUME NEW q \in Producers, t.producers2[q] # NoRow
        PROVE  /\ t.producers[q] # NoRow
               /\ t.producers2[q].votepay_share >= 0
               /\ t.producers2[q].last_votepay_share_update >= 0
               /\ t.producers2[q].last_votepay_share_update <= now
    <3>1. CASE q = p
      BY <2>1, <2>2, <3>1 DEF ProducerSet
    <3>2. CASE q # p
      BY <1>1, <2>1, <2>2, <3>2 DEF Dated
    <3> QED BY <3>1, <3>2
  <2>3. /\ t.global.last_vpay_state_update >= 0
        /\ t.global.last_vpay_state_update <= now
        /\ t.global.total_vpay_share_change_rate >= 0
        /\ t.global.total_producer_votepay_share >= 0
    BY <2>1 DEF ProducerSet
  <2> QED BY <2>2, <2>3 DEF Dated
<1>4. RowsFit(t)
  BY <1>1, <1>2 DEF Sound, RowsFit, TablesType, VoterRow
<1>5. Acyclic(t) /\ WeightsEven(t) /\ Agree(t, cast, via, {})
  BY <1>1 DEF Sound, Acyclic, WeightsEven, Agree
<1>6. Tallied(t, cast, via)
  <2>1. Tally(t) = Tally(s)
    BY <1>2 DEF Tally
  <2>2. \A q \in Producers : VotesOf(t.producers[q]) = Sum(cast[q], Voters)
    BY <1>2 DEF Sound, Tallied
  <2>3. t.global.total_producer_vote_weight = Sum(Tally(t), Producers)
    BY <2>1 DEF Sound, Tallied, ProducerSet
  <2> QED BY <1>1, <2>2, <2>3 DEF Sound, Tallied
<1>7. Sound(t, cast, via, {})
  BY <1>1, <1>3, <1>4, <1>5, <1>6 DEF Sound
<1>8. InRange(t, now)
  <2>1. \A u \in Voters : t.voters[u] # NoRow => t.voters[u].staked <= MaxStake
    BY <1>1 DEF TablesGood, InRange
  <2>2. ASSUME NEW q \in Producers, t.producers[q] # NoRow
        PROVE  t.producers[q].last_claim_time \in 0 .. now
    <3>1. CASE q = p
      BY <3>1 DEF ProducerSet
    <3>2. CASE q # p
      BY <1>1, <2>2, <3>2 DEF TablesGood, InRange
    <3> QED BY <3>1, <3>2
  <2>3. /\ t.global.total_activated_stake >= 0
        /\ t.global.thresh_activated_stake_time >= 0
        /\ Cardinality(schedule) <= t.global.last_producer_schedule_size
    BY DEF TablesGood, InRange, ProducerSet
  <2> QED BY <2>1, <2>2, <2>3 DEF InRange
<1>9. Roots(t) /\ \A u \in Voters : t.voters[u] # NoRow => Backed(t.voters[u])
  BY <1>1 DEF TablesGood, Roots
<1> QED BY <1>1, <1>7, <1>8, <1>9 DEF TablesGood

\* The totals follow what the producer earns and what share it has.
TotalsFollow(s, t, p) ==
  /\ t.global.total_vpay_share_change_rate
       = larger(0, s.global.total_vpay_share_change_rate + (RateOf(t, p) - RateOf(s, p)))
  /\ TotalShare(t.global, now)
       = larger(0, TotalShare(s.global, now) + (SharesOf(t, p, now) - SharesOf(s, p, now)))

\* and the total of the shares stays their sum when it follows the producer.
LEMMA ProducerSetPaid ==
  ASSUME NEW s, TablesGood(s), NEW p \in Producers, NEW t, ProducerSet(s, t, p),
         Paid(s, now), TotalsFollow(s, t, p)
  PROVE  Paid(t, now)
<1>1. PICK cast, via : Sound(s, cast, via, {})
  BY DEF TablesGood
<1>2. Sound(t, cast, via, {})
  BY <1>1, ProducerSetGood
<1>3. \A q \in Producers : /\ RateOf(s, q) \in Nat /\ SharesOf(s, q, now) \in Nat
                           /\ RateOf(t, q) \in Nat /\ SharesOf(t, q, now) \in Nat
  BY <1>1, <1>2, RatesAreNat
<1>4. /\ Rates(s) \in [Producers -> Nat] /\ Rates(t) \in [Producers -> Nat]
      /\ Shares(s, now) \in [Producers -> Nat] /\ Shares(t, now) \in [Producers -> Nat]
  BY <1>3 DEF Rates, Shares
<1>5. \A q \in Producers \ {p} : /\ RateOf(t, q) = RateOf(s, q)
                                 /\ SharesOf(t, q, now) = SharesOf(s, q, now)
  BY DEF ProducerSet, RateOf, SharesOf, EarnsIn
<1>6. PICK r \in Int : r = RateOf(t, p) - RateOf(s, p)
  BY <1>3
<1>7. PICK d \in Int : d = SharesOf(t, p, now) - SharesOf(s, p, now)
  BY <1>3
<1>8. Sum(Rates(t), Producers) = Sum(Rates(s), Producers) + r
  <2>1. /\ Rates(t)[p] = Rates(s)[p] + r
        /\ \A q \in Producers \ {p} : Rates(t)[q] = Rates(s)[q]
    BY <1>3, <1>5, <1>6 DEF Rates
  <2>2. Rates(s) \in [Producers -> Int] /\ Rates(t) \in [Producers -> Int]
    BY <1>4
  <2> QED BY <2>1, <2>2, TablesFinite, SumUpdate DEF Sum
<1>9. Sum(Shares(t, now), Producers) = Sum(Shares(s, now), Producers) + d
  <2>1. /\ Shares(t, now)[p] = Shares(s, now)[p] + d
        /\ \A q \in Producers \ {p} : Shares(t, now)[q] = Shares(s, now)[q]
    BY <1>3, <1>5, <1>7 DEF Shares
  <2>2. Shares(s, now) \in [Producers -> Int] /\ Shares(t, now) \in [Producers -> Int]
    BY <1>4
  <2> QED BY <2>1, <2>2, TablesFinite, SumUpdate DEF Sum
<1>10. Sum(Rates(t), Producers) \in Nat /\ Sum(Shares(t, now), Producers) \in Nat
  BY <1>4, TablesFinite, SumNat
<1>11. t.global.total_vpay_share_change_rate = Sum(Rates(t), Producers)
  BY <1>6, <1>8, <1>10 DEF Paid, TotalsFollow, larger
<1>12. TotalShare(t.global, now) = Sum(Shares(t, now), Producers)
  BY <1>7, <1>9, <1>10 DEF Paid, TotalsFollow, larger
<1> QED BY <1>11, <1>12 DEF Paid

\* The tables after a step that leaves the rows of voters alone.
After == [voters |-> voters, producers |-> producers', producers2 |-> producers2',
          global |-> global']

\* One producer's rows are set, and with them the invariant holds again.
LEMMA ProducerStep ==
  ASSUME VoteInv, NEW p \in Producers, ProducerSet(Tables, After, p),
         PayGood(Tables) => PayGood(After),
         UNCHANGED <<now, voters, rex_stake, schedule>>
  PROVE  VoteInv'
<1>1. PICK t : t = After
  OBVIOUS
<1>2. PICK cast, via : Sound(Tables, cast, via, {})
  BY DEF VoteInv, TablesGood
<1>3. TablesGood(t) /\ t \in TablesType
  BY <1>1, <1>2, ProducerSetGood DEF VoteInv
<1>4. PayGood(t)
  BY <1>1 DEF VoteInv
<1>5. NewTables(t)
  BY <1>1 DEF After, NewTables
<1> QED BY <1>3, <1>4, <1>5, InvAfter DEF VoteInv

\* What the invariant says of the tables of producers.
LEMMA ProducersGood ==
  ASSUME TablesGood(Tables)
  PROVE  /\ producers \in [Producers -> ProducerRow \cup {NoRow}]
         /\ producers2 \in [Producers -> ProducerRow2 \cup {NoRow}]
         /\ global \in GlobalState(Int)
         /\ voters \in [Voters -> VoterRow \cup {NoRow}]
         /\ now \in Nat /\ now >= 1 /\ Dated(Tables, now)
         /\ global.last_vpay_state_update \in 0 .. now
         /\ \A p \in Producers : producers[p] # NoRow =>
              /\ producers[p].last_claim_time \in 0 .. now
              /\ producers[p].total_votes \in Nat
         /\ \A p \in Producers : producers2[p] # NoRow =>
              /\ producers[p] # NoRow
              /\ producers2[p].votepay_share \in Nat
              /\ producers2[p].last_votepay_share_update \in 0 .. now
<1>1. PICK cast, via : Sound(Tables, cast, via, {})
  BY DEF TablesGood
<1>2. /\ producers \in [Producers -> ProducerRow \cup {NoRow}]
      /\ producers2 \in [Producers -> ProducerRow2 \cup {NoRow}]
      /\ global \in GlobalState(Int)
      /\ voters \in [Voters -> VoterRow \cup {NoRow}]
  BY <1>1 DEF Sound, TablesType, Tables
<1>3. now \in Nat /\ now >= 1 /\ Dated(Tables, now)
  BY <1>1, VotingAssumption DEF Sound, TablesGood
<1>4. global.last_vpay_state_update \in 0 .. now
  BY <1>2, <1>3 DEF Dated, GlobalState, Tables
<1>5. ASSUME NEW p \in Producers, producers[p] # NoRow
      PROVE  producers[p].last_claim_time \in 0 .. now /\ producers[p].total_votes \in Nat
  <2>1. VotesOf(Tables.producers[p]) \in Nat
    BY <1>1, TalliesAreNat DEF Sound
  <2> QED BY <1>5, <2>1, TablesFields DEF TablesGood, InRange, VotesOf
<1>6. ASSUME NEW p \in Producers, producers2[p] # NoRow
      PROVE  /\ producers[p] # NoRow
             /\ producers2[p].votepay_share \in Nat
             /\ producers2[p].last_votepay_share_update \in 0 .. now
  <2>1. producers2[p] \in ProducerRow2
    BY <1>2, <1>6
  <2> QED BY <1>3, <1>6, <2>1 DEF Dated, ProducerRow2, Tables
<1> QED BY <1>2, <1>3, <1>4, <1>5, <1>6

\* The totals at the present do not go below zero, so update_total_votepay_share
\* without a change leaves them.
LEMMA NoChangeFollows ==
  ASSUME TablesGood(Tables), NEW t, NEW p \in Producers, t.global = global,
         RateOf(t, p) = RateOf(Tables, p), SharesOf(t, p, now) = SharesOf(Tables, p, now)
  PROVE  TotalsFollow(Tables, t, p)
<1>1. PICK cast, via : Sound(Tables, cast, via, {})
  BY DEF TablesGood
<1>2. /\ RateOf(Tables, p) \in Nat /\ SharesOf(Tables, p, now) \in Nat
      /\ Tables.global.total_vpay_share_change_rate \in Nat
      /\ TotalShare(Tables.global, now) \in Nat
  BY <1>1, RatesAreNat
<1> QED BY <1>2, TablesFields DEF TotalsFollow, larger

\* regproducer: a new producer begins with no shares, an old one may begin to earn.
LEMMA RegproducerKeeps ==
  ASSUME VoteInv, NEW p \in Producers, regproducer(p)
  PROVE  VoteInv'
<1>1. TablesGood(Tables)
  BY DEF VoteInv
<1>2. /\ producers \in [Producers -> ProducerRow \cup {NoRow}]
      /\ producers2 \in [Producers -> ProducerRow2 \cup {NoRow}]
      /\ global \in GlobalState(Int)
      /\ voters \in [Voters -> VoterRow \cup {NoRow}]
      /\ now \in Nat /\ now >= 1 /\ Dated(Tables, now)
      /\ global.last_vpay_state_update \in 0 .. now
      /\ producers[p] # NoRow => /\ producers[p].last_claim_time \in 0 .. now
                                 /\ producers[p].total_votes \in Nat
      /\ producers2[p] # NoRow => /\ producers[p] # NoRow
                                  /\ producers2[p].votepay_share \in Nat
                                  /\ producers2[p].last_votepay_share_update \in 0 .. now
  BY <1>1, ProducersGood
<1>3. UNCHANGED <<now, voters, rex_stake, schedule>>
  BY DEF regproducer
<1>4. PICK row : row = producers'[p]
  OBVIOUS
<1>5. /\ producers' = [producers EXCEPT ![p] = row]
      /\ row = IF Registered(p)
               THEN [producers[p] EXCEPT !.is_active = TRUE, !.last_claim_time = FirstClaim(p)]
               ELSE NewProducer
  BY <1>2, <1>4 DEF regproducer
<1>6. FirstClaim(p) \in 0 .. now \/ ~ Registered(p)
  BY <1>2 DEF FirstClaim, Registered
<1>7. /\ row \in ProducerRow /\ row # NoRow
      /\ Registered(p) => /\ row.total_votes = producers[p].total_votes
                          /\ row.last_claim_time = FirstClaim(p)
      /\ ~ Registered(p) => row.total_votes = 0 /\ row.last_claim_time = now
      /\ row.last_claim_time \in 0 .. now
  <2>1. CASE Registered(p)
    <3>1. producers[p] \in ProducerRow
      BY <1>2, <2>1 DEF Registered
    <3>2. PICK row1 : row1 = [producers[p] EXCEPT !.is_active = TRUE]
      OBVIOUS
    <3>3. row1 \in ProducerRow
      BY <3>1, <3>2 DEF ProducerRow
    <3>4. row1.total_votes = producers[p].total_votes
      BY <3>1, <3>2 DEF ProducerRow
    <3>5. row = [row1 EXCEPT !.last_claim_time = FirstClaim(p)]
      BY <1>5, <2>1, <3>2
    <3>6. FirstClaim(p) \in Int /\ FirstClaim(p) \in 0 .. now
      BY <1>2, <1>6, <2>1
    <3>7. row \in ProducerRow /\ row.total_votes = row1.total_votes
          /\ row.last_claim_time = FirstClaim(p)
      BY <3>3, <3>5, <3>6 DEF ProducerRow
    <3> QED BY <2>1, <3>4, <3>6, <3>7, NoRows
  <2>2. CASE ~ Registered(p)
    <3>1. row = [total_votes |-> 0, is_active |-> TRUE, last_claim_time |-> now]
      BY <1>5, <2>2 DEF NewProducer
    <3>2. row \in ProducerRow
      BY <1>2, <3>1 DEF ProducerRow
    <3>3. row.total_votes = 0 /\ row.last_claim_time = now
      BY <3>1
    <3> QED BY <1>2, <2>2, <3>2, <3>3, NoRows
  <2> QED BY <2>1, <2>2
<1>8. PICK row2 : row2 = producers2'[p]
  OBVIOUS
<1>9. /\ producers2' = [producers2 EXCEPT ![p] = row2]
      /\ row2 = IF producers2[p] = NoRow THEN NewProducer2 ELSE producers2[p]
  BY <1>2, <1>8 DEF regproducer
<1>10. /\ row2 \in ProducerRow2 /\ row2 # NoRow
       /\ row2.votepay_share \in Nat /\ row2.last_votepay_share_update \in 0 .. now
       /\ producers2[p] = NoRow => row2.votepay_share = 0 /\ row2.last_votepay_share_update = now
  <2>1. CASE producers2[p] = NoRow
    <3>1. row2 = [votepay_share |-> 0, last_votepay_share_update |-> now]
      BY <1>9, <2>1 DEF NewProducer2
    <3>2. row2 \in ProducerRow2 /\ row2.votepay_share = 0
          /\ row2.last_votepay_share_update = now
      BY <1>2, <3>1 DEF ProducerRow2
    <3> QED BY <1>2, <3>2, NoRows
  <2>2. CASE producers2[p] # NoRow
    BY <1>2, <1>9, <2>2
  <2> QED BY <2>1, <2>2
<1>11. PICK t : t = After
  OBVIOUS
<1>12. /\ t.voters = voters /\ t.producers = producers' /\ t.producers2 = producers2'
       /\ t.global = global'
       /\ t = [voters |-> t.voters, producers |-> t.producers, producers2 |-> t.producers2,
               global |-> t.global]
  BY <1>11 DEF After
<1>13. /\ t.producers[p] = row /\ t.producers2[p] = row2
       /\ \A q \in Producers \ {p} : /\ t.producers[q] = producers[q]
                                     /\ t.producers2[q] = producers2[q]
  BY <1>2, <1>5, <1>9, <1>12
\* The rate that the total gains.
<1>14. PICK votes \in Nat : votes = Introduced(p)
  BY <1>2 DEF Introduced, Registered
<1>15. /\ global' \in GlobalState(Int)
       /\ global'.total_producer_vote_weight = global.total_producer_vote_weight
       /\ global'.total_activated_stake = global.total_activated_stake
       /\ global'.thresh_activated_stake_time = global.thresh_activated_stake_time
       /\ global'.last_producer_schedule_size = global.last_producer_schedule_size
       /\ global'.last_vpay_state_update \in 0 .. now
       /\ \/ global' = global
          \/ /\ Registered(p) /\ producers2[p] = NoRow
             /\ global'.last_vpay_state_update = now
             /\ global'.total_vpay_share_change_rate
                  = larger(0, global.total_vpay_share_change_rate + votes)
             /\ global'.total_producer_votepay_share = larger(0, TotalShare(global, now) + 0)
       /\ Registered(p) /\ producers2[p] = NoRow
            => global' = UpdateTotalShare(global, now, 0, votes)
  <2>1. CASE Registered(p) /\ producers2[p] = NoRow
    <3>1. PICK g : g = UpdateTotalShare(global, now, 0, votes)
      OBVIOUS
    <3>2. global' = g
      BY <1>14, <2>1, <3>1 DEF regproducer
    <3>3. 0 \in Int /\ votes \in Int /\ now \in Int /\ global.last_vpay_state_update <= now
      BY <1>2
    <3>4. /\ g \in GlobalState(Int)
          /\ g.total_producer_vote_weight = global.total_producer_vote_weight
          /\ g.total_activated_stake = global.total_activated_stake
          /\ g.thresh_activated_stake_time = global.thresh_activated_stake_time
          /\ g.last_producer_schedule_size = global.last_producer_schedule_size
          /\ g.last_vpay_state_update = now
          /\ g.total_vpay_share_change_rate
               = larger(0, global.total_vpay_share_change_rate + votes)
          /\ g.total_producer_votepay_share = larger(0, TotalShare(global, now) + 0)
      BY <1>2, <3>1, <3>3, UpdateTotal
    <3> QED BY <1>2, <2>1, <3>1, <3>2, <3>4
  <2>2. CASE ~ (Registered(p) /\ producers2[p] = NoRow)
    <3>1. global' = global
      BY <2>2 DEF regproducer
    <3> QED BY <1>2, <2>2, <3>1
  <2> QED BY <2>1, <2>2
<1>16. /\ global'.total_vpay_share_change_rate >= 0
       /\ global'.total_producer_votepay_share >= 0
  <2>1. global.total_vpay_share_change_rate >= 0 /\ global.total_producer_votepay_share >= 0
    BY <1>2 DEF Dated, Tables
  <2>2. larger(0, global.total_vpay_share_change_rate + votes) >= 0
        /\ larger(0, TotalShare(global, now) + 0) >= 0
    <3>1. global.total_vpay_share_change_rate \in Int /\ TotalShare(global, now) \in Int
      <4>1. PICK cast, via : Sound(Tables, cast, via, {})
        BY <1>1 DEF TablesGood
      <4> QED BY <4>1, RatesAreNat, TablesFields
    <3> QED BY <3>1 DEF larger
  <2> QED BY <1>15, <2>1, <2>2
<1>17. t \in TablesType
  <2>1. t.producers \in [Producers -> ProducerRow \cup {NoRow}]
    BY <1>2, <1>5, <1>7, <1>12
  <2>2. t.producers2 \in [Producers -> ProducerRow2 \cup {NoRow}]
    BY <1>2, <1>9, <1>10, <1>12
  <2> QED BY <1>2, <1>12, <1>15, <2>1, <2>2 DEF TablesType
<1>18. VotesOf(t.producers[p]) = VotesOf(producers[p])
  BY <1>7, <1>13 DEF VotesOf, Registered
<1>19. ProducerSet(Tables, t, p)
  BY <1>7, <1>10, <1>12, <1>13, <1>15, <1>16, <1>17, <1>18, TablesFields DEF ProducerSet
<1>20. ASSUME PayGood(Tables), LegacyClaims \subseteq {0}
       PROVE  Paid(t, now) /\ ClaimsMade(t)
  <2>1. Paid(Tables, now)
    BY <1>20 DEF PayGood
  <2>2. \A q \in Producers : producers[q] # NoRow =>
          (producers2[q] = NoRow <=> producers[q].last_claim_time = 0)
    BY <1>20, TablesFields DEF PayGood, ClaimsMade
  <2>3. row.last_claim_time # 0
    BY <1>2, <1>7, <2>2 DEF FirstClaim, Registered
  <2>4. ClaimsMade(t)
    <3>1. ASSUME NEW q \in Producers, t.producers[q] # NoRow
          PROVE  t.producers2[q] = NoRow <=> t.producers[q].last_claim_time = 0
      <4>1. CASE q = p
        BY <1>10, <1>13, <2>3, <4>1
      <4>2. CASE q # p
        BY <1>13, <2>2, <3>1, <4>2
      <4> QED BY <4>1, <4>2
    <3> QED BY <3>1 DEF ClaimsMade
  <2>5. TotalsFollow(Tables, t, p)
    <3>1. CASE ~ Registered(p)
      <4>1. producers2[p] = NoRow /\ global' = global
        BY <1>2, <1>15, <3>1 DEF Registered
      <4>2. VotesOf(t.producers[p]) = 0
        BY <1>18, <3>1 DEF VotesOf, Registered
      <4>3. RateOf(t, p) = 0 /\ RateOf(Tables, p) = 0
        BY <4>1, <4>2, TablesFields DEF RateOf, EarnsIn
      <4>4. SharesOf(Tables, p, now) = 0
        BY <4>1, TablesFields DEF SharesOf
      <4>5. SharesOf(t, p, now) = 0 + 0 * (now - now)
        BY <1>10, <1>13, <4>1, <4>3 DEF SharesOf
      <4>6. SharesOf(t, p, now) = 0
        BY <1>2, <4>5
      <4> QED BY <1>1, <1>12, <4>1, <4>3, <4>4, <4>6, NoChangeFollows
    <3>2. CASE Registered(p) /\ producers2[p] # NoRow
      <4>1. global' = global /\ row2 = producers2[p]
        BY <1>9, <1>15, <3>2
      <4>2. row.last_claim_time = producers[p].last_claim_time
        BY <1>7, <2>2, <3>2 DEF FirstClaim, Registered
      <4>3. EarnsIn(t, p) <=> EarnsIn(Tables, p)
        BY <1>13, <4>1, <4>2, TablesFields DEF EarnsIn, Updated
      <4>4. RateOf(t, p) = RateOf(Tables, p)
        BY <1>18, <4>3, TablesFields DEF RateOf
      <4>5. SharesOf(t, p, now) = SharesOf(Tables, p, now)
        BY <1>13, <4>1, <4>4, TablesFields DEF SharesOf
      <4> QED BY <1>1, <1>12, <4>1, <4>4, <4>5, NoChangeFollows
    <3>3. CASE Registered(p) /\ producers2[p] = NoRow
      <4>1. PICK g : g = UpdateTotalShare(global, now, 0, votes)
        OBVIOUS
      <4>2. /\ t.global = g /\ g.last_vpay_state_update = now
            /\ g.total_vpay_share_change_rate
                 = larger(0, global.total_vpay_share_change_rate + votes)
            /\ g.total_producer_votepay_share = larger(0, TotalShare(global, now) + 0)
        <5>1. 0 \in Int /\ votes \in Int /\ now \in Int /\ global.last_vpay_state_update <= now
          BY <1>2
        <5>2. /\ g.last_vpay_state_update = now
              /\ g.total_vpay_share_change_rate
                   = larger(0, global.total_vpay_share_change_rate + votes)
              /\ g.total_producer_votepay_share = larger(0, TotalShare(global, now) + 0)
          BY <1>2, <4>1, <5>1, UpdateTotal
        <5>3. t.global = g
          BY <1>12, <1>15, <3>3, <4>1
        <5> QED BY <5>2, <5>3
      <4>3. RateOf(Tables, p) = 0 /\ SharesOf(Tables, p, now) = 0
        BY <3>3, TablesFields DEF RateOf, EarnsIn, SharesOf
      <4>4. votes = VotesOf(t.producers[p])
        BY <1>14, <1>18, <3>3 DEF Introduced, VotesOf, Registered
      <4>5. EarnsIn(t, p)
        <5>1. row.last_claim_time = now /\ row2.last_votepay_share_update = now
          BY <1>7, <1>10, <2>2, <3>3 DEF FirstClaim, Registered
        <5>2. ThreeDays \in Nat /\ ThreeDays # 0
          BY VotingAssumption
        <5>3. ~ (now + ThreeDays <= now)
          BY <1>2, <5>2
        <5> QED BY <1>10, <1>13, <5>1, <5>3 DEF EarnsIn, Updated
      <4>6. RateOf(t, p) = votes
        BY <4>4, <4>5 DEF RateOf
      <4>7. SharesOf(t, p, now) = 0 + votes * (now - now)
        BY <1>10, <1>13, <3>3, <4>6 DEF SharesOf
      <4>8. SharesOf(t, p, now) = 0
        <5>1. now - now = 0 /\ votes * 0 = 0
          BY <1>2
        <5> QED BY <4>7, <5>1
      <4>9. TotalShare(t.global, now) = larger(0, TotalShare(global, now) + 0)
        <5>1. PICK r : r = g.total_vpay_share_change_rate
          OBVIOUS
        <5>2. PICK x : x = larger(0, TotalShare(global, now) + 0)
          OBVIOUS
        <5>3. r \in Int /\ x \in Int
          <6>1. PICK cast, via : Sound(Tables, cast, via, {})
            BY <1>1 DEF TablesGood
          <6>2. global.total_vpay_share_change_rate \in Int /\ TotalShare(global, now) \in Int
            BY <6>1, RatesAreNat, TablesFields
          <6> QED BY <4>2, <5>1, <5>2, <6>2 DEF larger
        <5>4. TotalShare(t.global, now) = x + r * (now - now)
          BY <4>2, <5>1, <5>2 DEF TotalShare
        <5>5. now - now = 0 /\ r * 0 = 0
          BY <1>2, <5>3
        <5> QED BY <5>2, <5>3, <5>4, <5>5
      <4>10. t.global.total_vpay_share_change_rate
               = larger(0, global.total_vpay_share_change_rate + (votes - 0))
        BY <4>2
      <4> QED BY <4>3, <4>6, <4>8, <4>9, <4>10, TablesFields DEF TotalsFollow
    <3> QED BY <3>1, <3>2, <3>3
  <2>6. Paid(t, now)
    BY <1>1, <1>19, <2>1, <2>5, ProducerSetPaid
  <2> QED BY <2>4, <2>6
<1>21. PayGood(Tables) => PayGood(t)
  BY <1>20 DEF PayGood
<1> QED BY <1>3, <1>11, <1>19, <1>21, ProducerStep

\* unregprod: nothing that the votes are counted with.
LEMMA UnregprodKeeps ==
  ASSUME VoteInv, NEW p \in Producers, unregprod(p)
  PROVE  VoteInv'
<1>1. TablesGood(Tables)
  BY DEF VoteInv
<1>2. /\ producers \in [Producers -> ProducerRow \cup {NoRow}]
      /\ producers2 \in [Producers -> ProducerRow2 \cup {NoRow}]
      /\ global \in GlobalState(Int)
      /\ voters \in [Voters -> VoterRow \cup {NoRow}]
      /\ now \in Nat /\ now >= 1 /\ Dated(Tables, now)
      /\ global.last_vpay_state_update \in 0 .. now
      /\ producers[p] # NoRow => producers[p].last_claim_time \in 0 .. now
      /\ producers2[p] # NoRow => /\ producers2[p].votepay_share \in Nat
                                  /\ producers2[p].last_votepay_share_update \in 0 .. now
  BY <1>1, ProducersGood
<1>3. /\ UNCHANGED <<now, voters, rex_stake, producers2, global, schedule>>
      /\ producers[p] # NoRow
  BY DEF unregprod, Registered
<1>4. PICK row : row = [producers[p] EXCEPT !.is_active = FALSE]
  OBVIOUS
<1>5. producers' = [producers EXCEPT ![p] = row]
  BY <1>4 DEF unregprod
<1>6. /\ row \in ProducerRow /\ row # NoRow
      /\ row.total_votes = producers[p].total_votes
      /\ row.last_claim_time = producers[p].last_claim_time
  <2>1. producers[p] \in ProducerRow
    BY <1>2, <1>3
  <2>2. row \in ProducerRow
    BY <1>4, <2>1 DEF ProducerRow
  <2>3. /\ row.total_votes = producers[p].total_votes
        /\ row.last_claim_time = producers[p].last_claim_time
    BY <1>4, <2>1 DEF ProducerRow
  <2> QED BY <2>2, <2>3, NoRows
<1>7. PICK t : t = After
  OBVIOUS
<1>8. /\ t.voters = voters /\ t.producers = producers' /\ t.producers2 = producers2
      /\ t.global = global
      /\ t = [voters |-> t.voters, producers |-> t.producers, producers2 |-> t.producers2,
              global |-> t.global]
  BY <1>3, <1>7 DEF After
<1>9. /\ t.producers[p] = row
      /\ \A q \in Producers \ {p} : t.producers[q] = producers[q]
  BY <1>2, <1>5, <1>8
<1>10. t \in TablesType
  <2>1. t.producers \in [Producers -> ProducerRow \cup {NoRow}]
    BY <1>2, <1>5, <1>6, <1>8
  <2> QED BY <1>2, <1>8, <2>1 DEF TablesType
<1>11. VotesOf(t.producers[p]) = VotesOf(producers[p])
  BY <1>3, <1>6, <1>9 DEF VotesOf
<1>12. ProducerSet(Tables, t, p)
  <2>1. /\ global.total_vpay_share_change_rate >= 0
        /\ global.total_producer_votepay_share >= 0
    BY <1>2, TablesFields DEF Dated
  <2> QED BY <1>2, <1>3, <1>6, <1>8, <1>9, <1>10, <1>11, <2>1, TablesFields DEF ProducerSet
<1>13. ASSUME PayGood(Tables), LegacyClaims \subseteq {0}
       PROVE  Paid(t, now) /\ ClaimsMade(t)
  <2>1. Paid(Tables, now)
    BY <1>13 DEF PayGood
  <2>2. \A q \in Producers : producers[q] # NoRow =>
          (producers2[q] = NoRow <=> producers[q].last_claim_time = 0)
    BY <1>13, TablesFields DEF PayGood, ClaimsMade
  <2>3. ClaimsMade(t)
    BY <1>3, <1>6, <1>8, <1>9, <2>2 DEF ClaimsMade
  <2>4. EarnsIn(t, p) <=> EarnsIn(Tables, p)
    BY <1>6, <1>8, <1>9, TablesFields DEF EarnsIn, Updated
  <2>5. RateOf(t, p) = RateOf(Tables, p)
    BY <1>11, <2>4, TablesFields DEF RateOf
  <2>6. SharesOf(t, p, now) = SharesOf(Tables, p, now)
    BY <1>8, <2>5, TablesFields DEF SharesOf
  <2>7. TotalsFollow(Tables, t, p)
    BY <1>1, <1>8, <2>5, <2>6, NoChangeFollows
  <2>8. Paid(t, now)
    BY <1>1, <1>12, <2>1, <2>7, ProducerSetPaid
  <2> QED BY <2>3, <2>8
<1>14. PayGood(Tables) => PayGood(t)
  BY <1>13 DEF PayGood
<1> QED BY <1>3, <1>7, <1>12, <1>14, ProducerStep

\* update_elected_producers: of the globals, only the size of the schedule.
LEMMA ElectionKeeps ==
  ASSUME VoteInv, update_elected_producers,
         UNCHANGED <<now, voters, rex_stake, producers, producers2>>
  PROVE  VoteInv'
<1>1. TablesGood(Tables) /\ PayGood(Tables)
  BY DEF VoteInv
<1>2. /\ producers \in [Producers -> ProducerRow \cup {NoRow}]
      /\ producers2 \in [Producers -> ProducerRow2 \cup {NoRow}]
      /\ global \in GlobalState(Int)
      /\ voters \in [Voters -> VoterRow \cup {NoRow}]
  BY <1>1, ProducersGood
<1>3. /\ global' \in GlobalState(Int)
      /\ global'.total_producer_vote_weight = global.total_producer_vote_weight
      /\ global'.total_activated_stake = global.total_activated_stake
      /\ global'.thresh_activated_stake_time = global.thresh_activated_stake_time
      /\ global'.total_producer_votepay_share = global.total_producer_votepay_share
      /\ global'.total_vpay_share_change_rate = global.total_vpay_share_change_rate
      /\ global'.last_vpay_state_update = global.last_vpay_state_update
      /\ Cardinality(schedule) <= global'.last_producer_schedule_size
      /\ Cardinality(schedule') <= global'.last_producer_schedule_size
      /\ schedule' \subseteq Producers
  <2>0. Cardinality(schedule) <= global.last_producer_schedule_size
    BY <1>1, TablesFields DEF TablesGood, InRange
  <2>1. CASE /\ LargeEnough(TopProducers) /\ schedule' = TopProducers
             /\ global' = [global EXCEPT !.last_producer_schedule_size = Cardinality(TopProducers)]
    <3>1. TopProducers \subseteq Producers
      BY DEF TopProducers, Electable
    <3>2. PICK n \in Nat : n = Cardinality(TopProducers)
      BY <3>1, TablesFinite, FS_Subset, FS_CardinalityType
    <3>3. global' = [global EXCEPT !.last_producer_schedule_size = n]
      BY <2>1, <3>2
    <3>4. n >= global.last_producer_schedule_size
      BY <2>1, <3>2 DEF LargeEnough
    <3>5. Cardinality(schedule) \in Nat
      BY TablesFinite, FS_Subset, FS_CardinalityType DEF VoteInv
    <3>6. /\ global' \in GlobalState(Int) /\ global'.last_producer_schedule_size = n
          /\ global.last_producer_schedule_size \in Int
      BY <1>2, <3>3 DEF GlobalState
    <3>7. Cardinality(schedule) <= n
      BY <2>0, <3>4, <3>5, <3>6
    <3>8. Cardinality(schedule') = n
      BY <2>1, <3>2
    <3> QED BY <1>2, <2>1, <3>1, <3>3, <3>6, <3>7, <3>8 DEF GlobalState
  <2>2. CASE UNCHANGED <<schedule, global>>
    BY <1>2, <2>0, <2>2 DEF VoteInv
  <2> QED BY <2>1, <2>2 DEF update_elected_producers
<1>4. PICK t : t = After
  OBVIOUS
<1>5. /\ t.voters = voters /\ t.producers = producers /\ t.producers2 = producers2
      /\ t.global = global'
      /\ t = [voters |-> t.voters, producers |-> t.producers, producers2 |-> t.producers2,
              global |-> t.global]
  BY <1>4 DEF After
<1>6. t \in TablesType
  BY <1>2, <1>3, <1>5 DEF TablesType
<1>7. PICK cast, via : Sound(Tables, cast, via, {})
  BY <1>1 DEF TablesGood
<1>8. Sound(t, cast, via, {})
  <2>1. Dated(t, now)
    BY <1>3, <1>5, <1>7, TablesFields DEF Sound, Dated
  <2>2. RowsFit(t) /\ Acyclic(t) /\ WeightsEven(t) /\ Agree(t, cast, via, {})
    BY <1>5, <1>7, TablesFields DEF Sound, RowsFit, Acyclic, WeightsEven, Agree
  <2>3. Tally(t) = Tally(Tables)
    BY <1>5, TablesFields DEF Tally
  <2>4. Tallied(t, cast, via)
    BY <1>3, <1>5, <1>7, <2>3, TablesFields DEF Sound, Tallied
  <2> QED BY <1>6, <1>7, <2>1, <2>2, <2>4 DEF Sound
<1>9. InRange(t, now) /\ Roots(t) /\ \A u \in Voters : t.voters[u] # NoRow => Backed(t.voters[u])
  BY <1>1, <1>3, <1>5, TablesFields DEF TablesGood, InRange, Roots
<1>10. TablesGood(t)
  BY <1>1, <1>8, <1>9 DEF TablesGood
<1>11. Rates(t) = Rates(Tables) /\ Shares(t, now) = Shares(Tables, now)
  BY <1>5, TablesFields DEF Rates, Shares, RateOf, SharesOf, EarnsIn
<1>12. TotalShare(t.global, now) = TotalShare(Tables.global, now)
  BY <1>3, <1>5, TablesFields DEF TotalShare
<1>13. PayGood(t)
  BY <1>1, <1>3, <1>5, <1>11, <1>12, TablesFields DEF PayGood, Paid, ClaimsMade
<1>14. NewTables(t)
  BY <1>5 DEF NewTables
<1> QED BY <1>3, <1>5, <1>6, <1>10, <1>13, <1>14, InvAfterElection DEF VoteInv

\* Stake weighs no less as time passes.
LEMMA BackedLater ==
  ASSUME TablesGood(Tables), AdvanceTime, NEW u \in Voters, voters[u] # NoRow
  PROVE  Backed(voters[u])'
<1>1. PICK cast, via : Sound(Tables, cast, via, {})
  BY DEF TablesGood
<1>2. PICK row : row = voters[u]
  OBVIOUS
<1>3. row' = row /\ now' = now + 1 /\ now \in Nat /\ now < MaxTime /\ voters' = voters
  BY <1>1, <1>2, VotingAssumption DEF AdvanceTime, Sound
<1>4. row \in VoterRow /\ row.staked \in Nat /\ row.proxied_vote_weight \in Int
  <2>1. row \in VoterRow
    BY <1>1, <1>2, TablesFields DEF Sound, TablesType
  <2>2. row.staked \in Nat
    BY <1>1, <1>2, TablesFields DEF Sound, RowsFit
  <2> QED BY <2>1, <2>2 DEF VoterRow
<1>5. PICK a \in Nat, b \in Nat : a = Growth[now] /\ b = Growth[now + 1] /\ a <= b
  <2>1. now \in 0 .. MaxTime /\ now + 1 \in 0 .. MaxTime /\ now <= now + 1
    BY <1>3, VotingAssumption
  <2> QED BY <2>1, VotingAssumption
<1>6. PICK st \in Nat : st = row.staked
  BY <1>4
<1>7. st * a <= st * b /\ st * a \in Nat /\ st * b \in Nat
  BY <1>5, Grows
<1>8. PICK x \in Int, y \in Int : x = st * a /\ y = st * b /\ x <= y
  BY <1>7
<1>9. PICK w \in Int : w = IF row.is_proxy THEN row.proxied_vote_weight ELSE 0
  BY <1>4
<1>10. Weight(row) = x + w
  BY <1>5, <1>6, <1>8, <1>9 DEF Weight, stake2vote
<1>11. (Weight(voters[u]))' = y + w
  <2>1. (voters[u])' = row
    BY <1>2, <1>3
  <2>2. (Weight(voters[u]))'
          = row.staked * Growth[now + 1] + (IF row.is_proxy THEN row.proxied_vote_weight ELSE 0)
    BY <1>3, <2>1 DEF Weight, stake2vote
  <2> QED BY <1>5, <1>6, <1>8, <1>9, <2>2
<1>12. Backed(row)
  BY <1>2, TablesFields DEF TablesGood
<1>13. ASSUME Votes(row)
       PROVE  /\ row.last_vote_weight <= y + w
              /\ row.is_proxy => row.last_vote_weight >= row.proxied_vote_weight
  <2>1. row.last_vote_weight \in Int
    BY <1>4 DEF VoterRow
  <2> QED BY <1>8, <1>10, <1>12, <1>13, <2>1 DEF Backed
<1>14. Votes(voters[u])' <=> Votes(row)
  BY <1>2, <1>3 DEF Votes
<1>15. (voters[u])' = row
  BY <1>2, <1>3
<1> QED BY <1>11, <1>13, <1>14, <1>15 DEF Backed

\* The shares grow by their rates, and their total by the total of the rates.
LEMMA PaidLater ==
  ASSUME TablesGood(Tables), Paid(Tables, now)
  PROVE  Paid(Tables, now + 1)
<1>1. PICK cast, via : Sound(Tables, cast, via, {})
  BY DEF TablesGood
<1>2. /\ \A p \in Producers : RateOf(Tables, p) \in Nat /\ SharesOf(Tables, p, now) \in Nat
      /\ Tables.global.total_vpay_share_change_rate \in Nat
      /\ TotalShare(Tables.global, now) \in Nat
  BY <1>1, RatesAreNat
<1>3. now \in Nat
  BY <1>1, VotingAssumption DEF Sound
<1>4. ASSUME NEW p \in Producers
      PROVE  SharesOf(Tables, p, now + 1) = SharesOf(Tables, p, now) + RateOf(Tables, p)
  <2>1. PICK r \in Int : r = RateOf(Tables, p)
    BY <1>2
  <2>2. CASE producers2[p] = NoRow
    BY <2>2, TablesFields DEF SharesOf, RateOf, EarnsIn
  <2>3. CASE producers2[p] # NoRow
    <3>1. producers2[p] \in ProducerRow2
      BY <2>3, ProducersGood
    <3>2. PICK a \in Int, l \in Int : /\ a = producers2[p].votepay_share
                                      /\ l = producers2[p].last_votepay_share_update
      BY <3>1 DEF ProducerRow2
    <3>3. /\ SharesOf(Tables, p, now) = a + r * (now - l)
          /\ SharesOf(Tables, p, now + 1) = a + r * ((now + 1) - l)
      BY <2>1, <2>3, <3>2, TablesFields DEF SharesOf
    <3>4. PICK d \in Int : d = now - l
      BY <1>3
    <3>5. (now + 1) - l = d + 1
      BY <1>3, <3>4
    <3>6. r * (d + 1) = r * d + r
      OBVIOUS
    <3>7. PICK m \in Int : m = r * d
      OBVIOUS
    <3> QED BY <2>1, <3>2, <3>3, <3>4, <3>5, <3>6, <3>7
  <2> QED BY <2>2, <2>3
<1>5. TotalShare(global, now + 1)
        = TotalShare(global, now) + global.total_vpay_share_change_rate
  <2>1. global \in GlobalState(Int)
    BY ProducersGood
  <2>2. PICK a \in Int, r \in Int, l \in Int : /\ a = global.total_producer_votepay_share
                                               /\ r = global.total_vpay_share_change_rate
                                               /\ l = global.last_vpay_state_update
    BY <2>1 DEF GlobalState
  <2>3. PICK d \in Int : d = now - l
    BY <1>3
  <2>4. (now + 1) - l = d + 1
    BY <1>3, <2>3
  <2>5. r * (d + 1) = r * d + r
    OBVIOUS
  <2>6. PICK m \in Int : m = r * d
    OBVIOUS
  <2> QED BY <2>2, <2>3, <2>4, <2>5, <2>6 DEF TotalShare
<1>6. /\ Rates(Tables) \in [Producers -> Int] /\ Shares(Tables, now) \in [Producers -> Int]
      /\ Shares(Tables, now + 1) \in [Producers -> Int]
      /\ \A p \in Producers :
           Shares(Tables, now + 1)[p] = Shares(Tables, now)[p] + Rates(Tables)[p]
  BY <1>2, <1>4 DEF Rates, Shares
<1>7. Sum(Shares(Tables, now + 1), Producers)
        = Sum(Shares(Tables, now), Producers) + Sum(Rates(Tables), Producers)
  BY <1>6, TablesFinite, SumAdd
<1> QED BY <1>5, <1>7, TablesFields DEF Paid

\* Time passes.
LEMMA AdvanceTimeKeeps ==
  ASSUME VoteInv, AdvanceTime
  PROVE  VoteInv'
<1>1. TablesGood(Tables) /\ PayGood(Tables)
  BY DEF VoteInv
<1>2. PICK t : t = Tables
  OBVIOUS
<1>3. /\ UNCHANGED <<voters, rex_stake, producers, producers2, global, schedule>>
      /\ now' = now + 1
  BY DEF AdvanceTime
<1>4. Tables' = t
  BY <1>2, <1>3 DEF Tables
<1>5. now \in 1 .. MaxTime /\ now + 1 \in 1 .. MaxTime
  BY <1>1, VotingAssumption DEF AdvanceTime, TablesGood
<1>6. PICK cast, via : Sound(t, cast, via, {})
  BY <1>1, <1>2 DEF TablesGood
<1>7. Sound(Tables, cast, via, {})'
  <2>1. Dated(t, now + 1)
    <3>1. now \in Nat
      BY <1>5
    <3>2. \A p \in Producers : t.producers2[p] # NoRow =>
            t.producers2[p].last_votepay_share_update \in Int
      BY <1>6 DEF Sound, TablesType, ProducerRow2
    <3>3. t.global.last_vpay_state_update \in Int
      BY <1>6 DEF Sound, TablesType, GlobalState
    <3> QED BY <1>6, <3>1, <3>2, <3>3 DEF Sound, Dated
  <2>2. now' \in 0 .. MaxTime
    BY <1>3, <1>5
  <2> QED BY <1>3, <1>4, <1>6, <2>1, <2>2 DEF Sound
<1>8. InRange(t, now + 1)
  <2>1. now \in Nat
    BY <1>5
  <2> QED BY <1>1, <1>2, <2>1 DEF TablesGood, InRange
<1>9. (\A u \in Voters : Tables.voters[u] # NoRow => Backed(Tables.voters[u]))'
  <2>1. ASSUME NEW u \in Voters, voters'[u] # NoRow
        PROVE  Backed(voters[u])'
    BY <1>1, <1>3, <2>1, BackedLater
  <2> QED BY <2>1 DEF Tables
<1>10. TablesGood(Tables)'
  <2>1. Roots(t)
    BY <1>1, <1>2 DEF TablesGood
  <2>2. InRange(Tables, now)'
    BY <1>3, <1>4, <1>8 DEF InRange
  <2> QED BY <1>3, <1>4, <1>5, <1>7, <1>9, <2>1, <2>2 DEF TablesGood
<1>11. PayGood(Tables)'
  <2>1. LegacyClaims \subseteq {0} => Paid(t, now + 1) /\ ClaimsMade(t)
    BY <1>1, <1>2, PaidLater DEF PayGood
  <2> QED BY <1>3, <1>4, <2>1 DEF PayGood
<1> QED BY <1>3, <1>10, <1>11 DEF VoteInv

\* In the beginning nobody has cast a vote.
LEMMA VoteInvHolds ==
  ASSUME VotingInit
  PROVE  VoteInv
<1>1. PICK t : t = Tables
  OBVIOUS
<1>2. now = 1 /\ 1 \in 0 .. MaxTime /\ 1 \in 1 .. MaxTime
  BY VotingAssumption DEF VotingInit
<1>3. PICK claimed \in [Legacy -> LegacyClaims] :
        producers = [p \in Producers |->
          IF p \in Legacy
          THEN [total_votes |-> 0, is_active |-> TRUE, last_claim_time |-> claimed[p]]
          ELSE NoRow]
  BY DEF VotingInit
<1>4. /\ t.voters = [v \in Voters |-> NoRow] /\ t.producers = producers
      /\ t.producers2 = [p \in Producers |-> NoRow] /\ t.global = NoGlobal
      /\ t = [voters |-> t.voters, producers |-> t.producers, producers2 |-> t.producers2,
              global |-> t.global]
  BY <1>1 DEF VotingInit, Tables
<1>5. ASSUME NEW p \in Producers, t.producers[p] # NoRow
      PROVE  /\ t.producers[p] \in ProducerRow /\ t.producers[p].total_votes = 0
             /\ t.producers[p].last_claim_time \in LegacyClaims
             /\ t.producers[p].last_claim_time \in 0 .. 1
  <2>1. p \in Legacy
    BY <1>3, <1>4, <1>5
  <2>2. t.producers[p] = [total_votes |-> 0, is_active |-> TRUE, last_claim_time |-> claimed[p]]
    BY <1>3, <1>4, <2>1
  <2>3. claimed[p] \in LegacyClaims /\ claimed[p] \in 0 .. 1
    <3>1. claimed[p] \in LegacyClaims
      BY <2>1
    <3>2. LegacyClaims \subseteq {0, 1}
      BY VotingAssumption
    <3>3. claimed[p] = 0 \/ claimed[p] = 1
      BY <3>1, <3>2
    <3> QED BY <3>1, <3>3
  <2>4. t.producers[p] \in ProducerRow
    BY <2>2, <2>3 DEF ProducerRow
  <2> QED BY <2>2, <2>3, <2>4
<1>6. t.global = [total_producer_vote_weight |-> 0, total_activated_stake |-> 0,
                  thresh_activated_stake_time |-> 0, total_producer_votepay_share |-> 0,
                  total_vpay_share_change_rate |-> 0, last_vpay_state_update |-> 0,
                  last_producer_schedule_size |-> 0]
  BY <1>4 DEF NoGlobal
<1>7. t \in TablesType
  <2>1. t.producers \in [Producers -> ProducerRow \cup {NoRow}]
    <3>1. t.producers = [p \in Producers |-> t.producers[p]]
      BY <1>3, <1>4
    <3> QED BY <1>5, <3>1
  <2>2. t.global \in GlobalState(Int)
    BY <1>6 DEF GlobalState
  <2>3. t.voters \in [Voters -> VoterRow \cup {NoRow}]
        /\ t.producers2 \in [Producers -> ProducerRow2 \cup {NoRow}]
    BY <1>4
  <2> QED BY <1>4, <2>1, <2>2, <2>3 DEF TablesType
<1>8. PICK zeros : zeros = [u \in Voters |-> 0]
  OBVIOUS
<1>9. PICK cast : cast = [p \in Producers |-> zeros]
  OBVIOUS
<1>10. PICK via : via = [x \in Voters |-> zeros]
  OBVIOUS
<1>11. Sum(zeros, Voters) = 0
  BY <1>8, TablesFinite, SumZero DEF Sum
<1>12. PICK none : none = [p \in Producers |-> 0]
  OBVIOUS
<1>13. Sum(none, Producers) = 0
  BY <1>12, TablesFinite, SumZero DEF Sum
<1>14. \A p \in Producers : VotesOf(t.producers[p]) = 0
  BY <1>5 DEF VotesOf
<1>15. Sound(t, cast, via, {})
  <2>1. Dated(t, now)
    BY <1>2, <1>4, <1>6 DEF Dated
  <2>2. RowsFit(t) /\ Acyclic(t) /\ WeightsEven(t)
    BY <1>4 DEF RowsFit, Acyclic, WeightsEven
  <2>3. Matrices(cast, via)
    BY <1>8, <1>9, <1>10 DEF Matrices
  <2>4. Tallied(t, cast, via)
    <3>1. Tally(t) = none
      BY <1>12, <1>14 DEF Tally
    <3>2. \A p \in Producers : cast[p] = zeros
      BY <1>9
    <3>3. \A x \in Voters : t.voters[x] = NoRow
      BY <1>4
    <3> QED BY <1>6, <1>11, <1>13, <1>14, <3>1, <3>2, <3>3 DEF Tallied
  <2>5. Agree(t, cast, via, {})
    BY <1>4, <1>8, <1>9, <1>10 DEF Agree, CastBy, PassedBy
  <2> QED BY <1>2, <1>7, <2>1, <2>2, <2>3, <2>4, <2>5 DEF Sound
<1>16. TablesGood(t)
  <2>1. InRange(t, now)
    <3>1. Cardinality(schedule) = 0
      BY FS_EmptySet DEF VotingInit
    <3> QED BY <1>2, <1>4, <1>5, <1>6, <3>1 DEF InRange
  <2>2. Roots(t) /\ \A u \in Voters : t.voters[u] # NoRow => Backed(t.voters[u])
    BY <1>4 DEF Roots
  <2> QED BY <1>2, <1>15, <2>1, <2>2 DEF TablesGood
<1>17. PayGood(t)
  <2>1. Rates(t) = none /\ Shares(t, now) = none
    BY <1>4, <1>12 DEF Rates, Shares, RateOf, SharesOf, EarnsIn
  <2>2. TotalShare(t.global, now) = 0
    BY <1>2, <1>6 DEF TotalShare
  <2>3. LegacyClaims \subseteq {0} => ClaimsMade(t)
    <3>1. \A p \in Producers : t.producers2[p] = NoRow
      BY <1>4
    <3> QED BY <1>5, <3>1 DEF ClaimsMade
  <2> QED BY <1>6, <1>13, <2>1, <2>2, <2>3 DEF PayGood, Paid
<1> QED BY <1>1, <1>16, <1>17 DEF VoteInv, VotingInit

\* Brought to the present, the globals say the same of it.
LEMMA SharesBrought ==
  ASSUME TablesGood(Tables)
  PROVE  /\ SharesNow \in GlobalState(Int)
         /\ SharesNow.total_producer_vote_weight = global.total_producer_vote_weight
         /\ SharesNow.total_activated_stake = global.total_activated_stake
         /\ SharesNow.thresh_activated_stake_time = global.thresh_activated_stake_time
         /\ SharesNow.last_producer_schedule_size = global.last_producer_schedule_size
         /\ SharesNow.last_vpay_state_update <= now
         /\ SharesNow.total_vpay_share_change_rate = global.total_vpay_share_change_rate
         /\ TotalShare(SharesNow, now) = TotalShare(global, now)
<1>1. PICK cast, via : Sound(Tables, cast, via, {})
  BY DEF TablesGood
<1>2. /\ global.total_vpay_share_change_rate \in Nat /\ TotalShare(global, now) \in Nat
  BY <1>1, RatesAreNat, TablesFields
<1>3. /\ global \in GlobalState(Int) /\ now \in Int
      /\ global.last_vpay_state_update <= now
  BY ProducersGood
<1>4. CASE revision > 0
  <2>1. PICK g : g = UpdateTotalShare(global, now, 0, 0)
    OBVIOUS
  <2>2. /\ g \in GlobalState(Int)
        /\ g.total_producer_vote_weight = global.total_producer_vote_weight
        /\ g.total_activated_stake = global.total_activated_stake
        /\ g.thresh_activated_stake_time = global.thresh_activated_stake_time
        /\ g.last_producer_schedule_size = global.last_producer_schedule_size
        /\ g.last_vpay_state_update = now
        /\ g.total_vpay_share_change_rate = larger(0, global.total_vpay_share_change_rate + 0)
        /\ g.total_producer_votepay_share = larger(0, TotalShare(global, now) + 0)
    BY <1>3, <2>1, UpdateTotal
  <2>3. /\ g.total_vpay_share_change_rate = global.total_vpay_share_change_rate
        /\ g.total_producer_votepay_share = TotalShare(global, now)
    BY <1>2, <2>2 DEF larger
  <2>4. TotalShare(g, now) = TotalShare(global, now)
    <3>1. PICK r \in Nat : r = g.total_vpay_share_change_rate
      BY <1>2, <2>3
    <3>2. TotalShare(g, now) = g.total_producer_votepay_share + r * (now - now)
      BY <2>2, <3>1 DEF TotalShare
    <3>3. now - now = 0 /\ r * 0 = 0
      BY <1>3
    <3> QED BY <1>2, <2>3, <3>2, <3>3
  <2>5. SharesNow = g
    BY <1>4, <2>1 DEF SharesNow
  <2>6. g.last_vpay_state_update <= now
    BY <1>3, <2>2
  <2> QED BY <2>2, <2>3, <2>4, <2>5, <2>6
<1>5. CASE ~ (revision > 0)
  BY <1>3, <1>5 DEF SharesNow
<1> QED BY <1>4, <1>5

\* The share that is claimed is the one the producer has at the time.
LEMMA ClaimIsShare ==
  ASSUME TablesGood(Tables), NEW p \in Producers, producers[p] # NoRow
  PROVE  /\ ClaimedShare(p) = SharesOf(Tables, p, now)
         /\ ClaimedShare(p) \in Nat
         /\ ClaimUpdated(p) <=> ~ EarnsIn(Tables, p)
<1>1. PICK cast, via : Sound(Tables, cast, via, {})
  BY DEF TablesGood
<1>2. SharesOf(Tables, p, now) \in Nat /\ RateOf(Tables, p) \in Nat
  BY <1>1, RatesAreNat
<1>3. ClaimUpdated(p) <=> ~ EarnsIn(Tables, p)
  BY TablesFields DEF ClaimUpdated, EarnsIn
<1>4. ClaimedShare(p) = SharesOf(Tables, p, now)
  <2>1. CASE producers2[p] = NoRow
    BY <2>1, TablesFields DEF ClaimedShare, SharesOf
  <2>2. CASE producers2[p] # NoRow
    <3>1. producers2[p] \in ProducerRow2 /\ now \in Nat
      BY <2>2, ProducersGood
    <3>2. PICK a \in Int, l \in Int : /\ a = producers2[p].votepay_share
                                      /\ l = producers2[p].last_votepay_share_update
      BY <3>1 DEF ProducerRow2
    <3>3. l <= now
      BY <2>2, <3>2, ProducersGood
    <3>4. PICK r \in Nat : r = RateOf(Tables, p)
      BY <1>2
    <3>5. r = IF ClaimUpdated(p) THEN 0 ELSE producers[p].total_votes
      BY <1>3, <3>4, TablesFields DEF RateOf, VotesOf
    <3>6. (IF r > 0 /\ now > l THEN r * (now - l) ELSE 0) = r * (now - l)
      <4>1. CASE r = 0
        BY <3>1, <3>2, <4>1
      <4>2. CASE now = l
        BY <3>1, <3>4, <4>2
      <4>3. CASE r > 0 /\ now > l
        BY <4>3
      <4> QED BY <3>1, <3>2, <3>3, <3>4, <4>1, <4>2, <4>3
    <3>7. ClaimedShare(p) = NewShare(producers2[p], now, r)
      BY <2>2, <3>5 DEF ClaimedShare
    <3>8. ClaimedShare(p) = a + r * (now - l)
      BY <3>2, <3>6, <3>7 DEF NewShare
    <3>9. SharesOf(Tables, p, now) = a + r * (now - l)
      BY <2>2, <3>2, <3>4, TablesFields DEF SharesOf
    <3> QED BY <3>8, <3>9
  <2> QED BY <2>1, <2>2
<1> QED BY <1>2, <1>3, <1>4

\* claimrewards: the shares of the producer leave the total, and it earns again.
LEMMA ClaimrewardsKeeps ==
  ASSUME VoteInv, NEW p \in Producers, claimrewards(p)
  PROVE  VoteInv'
<1>1. TablesGood(Tables)
  BY DEF VoteInv
<1>2. /\ producers \in [Producers -> ProducerRow \cup {NoRow}]
      /\ producers2 \in [Producers -> ProducerRow2 \cup {NoRow}]
      /\ global \in GlobalState(Int)
      /\ voters \in [Voters -> VoterRow \cup {NoRow}]
      /\ now \in Nat /\ now >= 1 /\ Dated(Tables, now)
      /\ producers[p] # NoRow => /\ producers[p].last_claim_time \in 0 .. now
                                 /\ producers[p].total_votes \in Nat
  BY <1>1, ProducersGood
<1>3. UNCHANGED <<now, voters, rex_stake, schedule>> /\ producers[p] # NoRow
  BY DEF claimrewards, Active, Registered
<1>4. PICK row : row = [producers[p] EXCEPT !.last_claim_time = now]
  OBVIOUS
<1>5. producers' = [producers EXCEPT ![p] = row]
  BY <1>4 DEF claimrewards
<1>6. /\ row \in ProducerRow /\ row # NoRow
      /\ row.total_votes = producers[p].total_votes /\ row.last_claim_time = now
  <2>1. producers[p] \in ProducerRow
    BY <1>2, <1>3
  <2>2. row \in ProducerRow /\ row.last_claim_time = now
    BY <1>2, <1>4, <2>1 DEF ProducerRow
  <2>3. row.total_votes = producers[p].total_votes
    BY <1>4, <2>1 DEF ProducerRow
  <2> QED BY <2>2, <2>3, NoRows
<1>7. PICK row2 : row2 = ClaimedRow(p)
  OBVIOUS
<1>8. producers2' = [producers2 EXCEPT ![p] = row2]
  BY <1>7 DEF claimrewards
<1>9. /\ row2 \in ProducerRow2 /\ row2 # NoRow
      /\ row2.votepay_share = 0 /\ row2.last_votepay_share_update = now
  <2>1. row2 = [votepay_share |-> 0, last_votepay_share_update |-> now]
    BY <1>7 DEF ClaimedRow
  <2>2. row2 \in ProducerRow2 /\ row2.votepay_share = 0 /\ row2.last_votepay_share_update = now
    BY <1>2, <2>1 DEF ProducerRow2
  <2> QED BY <2>2, NoRows
<1>10. PICK t : t = After
  OBVIOUS
<1>11. /\ t.voters = voters /\ t.producers = producers' /\ t.producers2 = producers2'
       /\ t.global = global'
       /\ t = [voters |-> t.voters, producers |-> t.producers, producers2 |-> t.producers2,
               global |-> t.global]
  BY <1>3, <1>10 DEF After
<1>12. /\ t.producers[p] = row /\ t.producers2[p] = row2
       /\ \A q \in Producers \ {p} : /\ t.producers[q] = producers[q]
                                     /\ t.producers2[q] = producers2[q]
  BY <1>2, <1>5, <1>8, <1>11
<1>13. /\ ClaimedShare(p) = SharesOf(Tables, p, now) /\ ClaimedShare(p) \in Nat
       /\ ClaimUpdated(p) <=> ~ EarnsIn(Tables, p)
  BY <1>1, <1>3, ClaimIsShare
<1>14. PICK share \in Nat : share = ClaimedShare(p)
  BY <1>13
<1>15. PICK rate \in Nat : rate = IF ClaimUpdated(p) THEN producers[p].total_votes ELSE 0
  BY <1>2, <1>3
<1>16. PICK before : before = SharesNow
  OBVIOUS
<1>17. /\ before \in GlobalState(Int)
       /\ before.total_producer_vote_weight = global.total_producer_vote_weight
       /\ before.total_activated_stake = global.total_activated_stake
       /\ before.thresh_activated_stake_time = global.thresh_activated_stake_time
       /\ before.last_producer_schedule_size = global.last_producer_schedule_size
       /\ before.last_vpay_state_update <= now
       /\ before.total_vpay_share_change_rate = global.total_vpay_share_change_rate
       /\ TotalShare(before, now) = TotalShare(global, now)
  BY <1>1, <1>16, SharesBrought
<1>18. global' = UpdateTotalShare(before, now, - share, rate)
  BY <1>14, <1>15, <1>16 DEF claimrewards, Settled
<1>19. /\ global' \in GlobalState(Int)
       /\ global'.total_producer_vote_weight = global.total_producer_vote_weight
       /\ global'.total_activated_stake = global.total_activated_stake
       /\ global'.thresh_activated_stake_time = global.thresh_activated_stake_time
       /\ global'.last_producer_schedule_size = global.last_producer_schedule_size
       /\ global'.last_vpay_state_update = now
       /\ global'.total_vpay_share_change_rate
            = larger(0, global.total_vpay_share_change_rate + rate)
       /\ global'.total_producer_votepay_share
            = larger(0, TotalShare(global, now) + (- share))
  <2>1. PICK g : g = global'
    OBVIOUS
  <2>2. PICK m \in Int : m = - share
    OBVIOUS
  <2>3. g = UpdateTotalShare(before, now, m, rate)
    BY <1>18, <2>1, <2>2
  <2>4. now \in Int /\ rate \in Int
    BY <1>2
  <2>5. /\ g \in GlobalState(Int)
        /\ g.total_producer_vote_weight = before.total_producer_vote_weight
        /\ g.total_activated_stake = before.total_activated_stake
        /\ g.thresh_activated_stake_time = before.thresh_activated_stake_time
        /\ g.last_producer_schedule_size = before.last_producer_schedule_size
        /\ g.last_vpay_state_update = now
        /\ g.total_vpay_share_change_rate
             = larger(0, before.total_vpay_share_change_rate + rate)
        /\ g.total_producer_votepay_share = larger(0, TotalShare(before, now) + m)
    BY <1>17, <2>3, <2>4, UpdateTotal
  <2> QED BY <1>17, <2>1, <2>2, <2>5
<1>20. t \in TablesType
  <2>1. t.producers \in [Producers -> ProducerRow \cup {NoRow}]
    BY <1>2, <1>5, <1>6, <1>11
  <2>2. t.producers2 \in [Producers -> ProducerRow2 \cup {NoRow}]
    BY <1>2, <1>8, <1>9, <1>11
  <2> QED BY <1>2, <1>11, <1>19, <2>1, <2>2 DEF TablesType
<1>21. VotesOf(t.producers[p]) = VotesOf(producers[p])
  BY <1>3, <1>6, <1>12 DEF VotesOf
<1>22. PICK cast, via : Sound(Tables, cast, via, {})
  BY <1>1 DEF TablesGood
<1>23. /\ global.total_vpay_share_change_rate \in Nat /\ TotalShare(global, now) \in Nat
       /\ RateOf(Tables, p) \in Nat
  BY <1>22, RatesAreNat, TablesFields
<1>24. ProducerSet(Tables, t, p)
  <2>1. /\ global'.total_vpay_share_change_rate >= 0
        /\ global'.total_producer_votepay_share >= 0
    BY <1>19, <1>23 DEF larger
  <2>2. now \in 0 .. now
    BY <1>2
  <2> QED BY <1>6, <1>9, <1>11, <1>12, <1>19, <1>20, <1>21, <2>1, <2>2, TablesFields
          DEF ProducerSet
<1>25. ASSUME PayGood(Tables), LegacyClaims \subseteq {0}
       PROVE  Paid(t, now) /\ ClaimsMade(t)
  <2>1. Paid(Tables, now)
    BY <1>25 DEF PayGood
  <2>2. \A q \in Producers : producers[q] # NoRow =>
          (producers2[q] = NoRow <=> producers[q].last_claim_time = 0)
    BY <1>25, TablesFields DEF PayGood, ClaimsMade
  <2>3. ClaimsMade(t)
    <3>1. ASSUME NEW q \in Producers, t.producers[q] # NoRow
          PROVE  t.producers2[q] = NoRow <=> t.producers[q].last_claim_time = 0
      <4>1. CASE q = p
        <5>1. now # 0
          BY <1>2
        <5> QED BY <1>6, <1>9, <1>12, <4>1, <5>1
      <4>2. CASE q # p
        BY <1>12, <2>2, <3>1, <4>2
      <4> QED BY <4>1, <4>2
    <3> QED BY <3>1 DEF ClaimsMade
  <2>4. EarnsIn(t, p)
    <3>1. ThreeDays \in Nat /\ ThreeDays # 0
      BY VotingAssumption
    <3>2. ~ (now + ThreeDays <= now)
      BY <1>2, <3>1
    <3> QED BY <1>6, <1>9, <1>12, <3>2 DEF EarnsIn, Updated
  <2>5. RateOf(t, p) = producers[p].total_votes
    BY <1>3, <1>21, <2>4 DEF RateOf, VotesOf
  <2>6. rate = RateOf(t, p) - RateOf(Tables, p)
    BY <1>2, <1>3, <1>13, <1>15, <2>5, TablesFields DEF RateOf, VotesOf
  <2>7. SharesOf(t, p, now) = 0
    <3>1. PICK r \in Nat : r = RateOf(t, p)
      BY <1>2, <1>3, <2>5
    <3>2. SharesOf(t, p, now) = 0 + r * (now - now)
      BY <1>9, <1>12, <3>1 DEF SharesOf
    <3>3. now - now = 0 /\ r * 0 = 0
      BY <1>2
    <3> QED BY <3>2, <3>3
  <2>8. - share = SharesOf(t, p, now) - SharesOf(Tables, p, now)
    BY <1>13, <1>14, <2>7
  <2>9. TotalShare(t.global, now) = larger(0, TotalShare(global, now) + (- share))
    <3>1. PICK r \in Int : r = global'.total_vpay_share_change_rate
      BY <1>19, <1>23 DEF larger
    <3>2. PICK x \in Int : x = larger(0, TotalShare(global, now) + (- share))
      BY <1>23 DEF larger
    <3>3. TotalShare(t.global, now) = x + r * (now - now)
      BY <1>11, <1>19, <3>1, <3>2 DEF TotalShare
    <3>4. now - now = 0 /\ r * 0 = 0
      BY <1>2
    <3> QED BY <3>2, <3>3, <3>4
  <2>10. TotalsFollow(Tables, t, p)
    BY <1>11, <1>19, <2>6, <2>8, <2>9, TablesFields DEF TotalsFollow
  <2>11. Paid(t, now)
    BY <1>1, <1>24, <2>1, <2>10, ProducerSetPaid
  <2> QED BY <2>3, <2>11
<1>26. PayGood(Tables) => PayGood(t)
  BY <1>25 DEF PayGood
<1> QED BY <1>3, <1>10, <1>24, <1>26, ProducerStep

(***************************************************************************)
(* The invariant holds always                                              *)
(***************************************************************************)
\* A step that changes nothing of module Voting.
LEMMA VotesKept ==
  ASSUME VoteInv, UNCHANGED votingVars
  PROVE  VoteInv'
<1>1. PICK t : t = Tables
  OBVIOUS
<1>2. PICK cast, via : Sound(t, cast, via, {})
  BY <1>1 DEF VoteInv, TablesGood
<1>3. t \in TablesType
  BY <1>2 DEF Sound
<1>4. NewTables(t) /\ now' = now /\ rex_stake' = rex_stake /\ schedule' = schedule
  BY <1>1, TablesFields DEF votingVars, NewTables
<1> QED BY <1>1, <1>3, <1>4, InvAfter DEF VoteInv

\* Every step of voting keeps the invariant,
LEMMA VotingNextKeeps ==
  ASSUME VoteInv, VotingNext
  PROVE  VoteInv'
<1>1. CASE \E v \in Voters, gain \in RexAmounts \cup {0}, proxy \in Voters \cup {None},
             prods \in SUBSET Producers : voteproducer(v, gain, proxy, prods)
  BY <1>1, VoteproducerKeeps
<1>2. CASE \E v \in Voters, amount \in StakeAmounts :
             delegatebw(v, amount) \/ undelegatebw(v, amount)
  BY <1>2, DelegatebwKeeps
<1>3. CASE \E v \in Voters, amount \in RexAmounts : BuyRex(v, amount) \/ SellRex(v, amount)
  BY <1>3, RexKeeps
<1>4. CASE \E v \in ProxyVoters, isproxy \in BOOLEAN : regproxy(v, isproxy)
  BY <1>4, RegproxyKeeps, VotingAssumption
<1>5. CASE \E p \in Producers : regproducer(p) \/ unregprod(p)
  BY <1>5, RegproducerKeeps, UnregprodKeeps
<1>6. CASE AdvanceTime
  BY <1>6, AdvanceTimeKeeps
<1> QED BY <1>1, <1>2, <1>3, <1>4, <1>5, <1>6 DEF VotingNext

\* and so does every step of voting with pay.
LEMMA PayNextKeeps ==
  ASSUME VoteInv, Next
  PROVE  VoteInv'
<1>1. CASE VotingNext /\ UNCHANGED payVars
  BY <1>1, VotingNextKeeps
<1>2. CASE \E p \in Producers \cup {None} : onblock(p)
  BY <1>2, ElectionKeeps DEF onblock
<1>3. CASE \E p \in Producers : claimrewards(p)
  BY <1>3, ClaimrewardsKeeps
<1>4. CASE updtrevision
  BY <1>4, VotesKept DEF updtrevision
<1> QED BY <1>1, <1>2, <1>3, <1>4 DEF Next

\* The invariant holds of voting alone,
LEMMA VotingIsSound == VotingSpec => []VoteInv
<1>1. VotingInit => VoteInv
  BY VoteInvHolds
<1>2. VoteInv /\ [VotingNext]_votingVars => VoteInv'
  BY VotingNextKeeps, VotesKept
<1> QED BY <1>1, <1>2, PTL DEF VotingSpec

\* and of voting with pay.
LEMMA PayKeepsVotes == Spec => []VoteInv
<1>1. Init => VoteInv
  BY VoteInvHolds DEF Init
<1>2. VoteInv /\ [Next]_vars => VoteInv'
  BY PayNextKeeps, VotesKept DEF vars
<1> QED BY <1>1, <1>2, PTL DEF Spec

(***************************************************************************)
(* What it says                                                            *)
(***************************************************************************)
\* The variables have their types.
LEMMA TypesOfVotes ==
  ASSUME VoteInv
  PROVE  VotingTypeOK
<1>1. PICK cast, via : Sound(Tables, cast, via, {})
  BY DEF VoteInv, TablesGood
<1>2. TablesGood(Tables) /\ now \in 0 .. MaxTime /\ now \in Nat
  BY <1>1, VotingAssumption DEF VoteInv, Sound
<1>4. ASSUME NEW u \in Voters, voters[u] # NoRow
      PROVE  voters[u] \in Voter
  <2>1. voters[u] \in VoterRow /\ voters[u].staked \in 0 .. MaxStake
    BY <1>2, <1>4, RowGood
  <2>2. voters[u].last_vote_weight \in Nat
    BY <1>1, <1>4, TablesFields DEF Sound, WeightsEven
  <2>3. voters[u].proxied_vote_weight \in Nat
    <3>1. via[u] \in [Voters -> Nat]
      BY <1>1 DEF Sound, Matrices
    <3>2. voters[u].proxied_vote_weight = Sum(via[u], Voters)
      BY <1>1, <1>4, TablesFields DEF Sound, Tallied
    <3> QED BY <3>1, <3>2, TablesFinite, SumNat
  <2> QED BY <2>1, <2>2, <2>3 DEF VoterRow, Voter
<1>5. voters \in [Voters -> Voter \cup {NoRow}]
  BY <1>2, <1>4, ProducersGood
<1>6. ASSUME NEW p \in Producers, producers[p] # NoRow
      PROVE  producers[p] \in [total_votes : Nat, is_active : BOOLEAN,
                               last_claim_time : 0 .. now]
  <2>1. producers[p] \in ProducerRow
    BY <1>2, <1>6, ProducersGood
  <2>2. producers[p].total_votes \in Nat /\ producers[p].last_claim_time \in 0 .. now
    BY <1>2, <1>6, ProducersGood
  <2> QED BY <2>1, <2>2 DEF ProducerRow
<1>7. ASSUME NEW p \in Producers, producers2[p] # NoRow
      PROVE  producers2[p] \in [votepay_share : Nat, last_votepay_share_update : 0 .. now]
  <2>1. producers2[p] \in ProducerRow2
    BY <1>2, <1>7, ProducersGood
  <2>2. /\ producers2[p].votepay_share \in Nat
        /\ producers2[p].last_votepay_share_update \in 0 .. now
    BY <1>2, <1>7, ProducersGood
  <2> QED BY <2>1, <2>2 DEF ProducerRow2
<1>8. /\ producers \in [Producers -> [total_votes : Nat, is_active : BOOLEAN,
                                      last_claim_time : 0 .. now] \cup {NoRow}]
      /\ producers2 \in [Producers -> [votepay_share : Nat,
                                       last_votepay_share_update : 0 .. now] \cup {NoRow}]
  BY <1>2, <1>6, <1>7, ProducersGood
<1>9. global \in GlobalState(Nat)
  <2>1. global \in GlobalState(Int)
    BY <1>2, ProducersGood
  <2>2. global.total_producer_vote_weight \in Nat
    <3>1. \A p \in Producers : VotesOf(producers[p]) \in Nat
      BY <1>2, ProducersGood DEF VotesOf
    <3>2. Tally(Tables) \in [Producers -> Nat]
      BY <3>1, TablesFields DEF Tally
    <3>3. global.total_producer_vote_weight = Sum(Tally(Tables), Producers)
      BY <1>1, TablesFields DEF Sound, Tallied
    <3> QED BY <3>2, <3>3, TablesFinite, SumNat
  <2>3. /\ global.last_vpay_state_update >= 0
        /\ global.total_vpay_share_change_rate >= 0
        /\ global.total_producer_votepay_share >= 0
    BY <1>1, TablesFields DEF Sound, Dated
  <2>4. /\ global.total_activated_stake >= 0
        /\ global.thresh_activated_stake_time >= 0
        /\ global.last_producer_schedule_size >= 0
    <3>1. Cardinality(schedule) \in Nat
      BY TablesFinite, FS_Subset, FS_CardinalityType DEF VoteInv
    <3> QED BY <1>2, <2>1, <3>1, TablesFields DEF TablesGood, InRange, GlobalState
  <2> QED BY <2>1, <2>2, <2>3, <2>4 DEF GlobalState
<1> QED BY <1>2, <1>5, <1>8, <1>9 DEF VoteInv, VotingTypeOK

\* The sum of what some voters have cast.
LEMMA CastIsSum ==
  ASSUME VotingTypeOK, NEW S \in SUBSET Known, NEW h \in [Voters -> Int],
         \A u \in Voters : h[u] = IF u \in S THEN voters[u].last_vote_weight ELSE 0
  PROVE  Cast(S) = Sum(h, Voters)
<1>1. S \subseteq Voters /\ \A u \in S : voters[u] # NoRow
  BY DEF Known
<1>2. \A u \in S : voters[u].last_vote_weight \in Int
  BY <1>1 DEF VotingTypeOK, Voter
<1>3. PICK f : f = [v \in S |-> voters[v].last_vote_weight]
  OBVIOUS
<1>4. f \in [S -> Int] /\ \A u \in S : f[u] = voters[u].last_vote_weight
  BY <1>2, <1>3
<1>5. \A u \in Voters : h[u] = IF u \in S THEN f[u] ELSE 0
  BY <1>4
<1>6. Sum(f, S) = Sum(h, Voters)
  BY <1>1, <1>4, <1>5, TablesFinite, SumOverPart
<1> QED BY <1>3, <1>6 DEF Cast

\* What the rows say of every voter is what the tallies count.
LEMMA TalliesFollow ==
  ASSUME VoteInv
  PROVE  TalliesAddUp
<1>1. VotingTypeOK
  BY TypesOfVotes
<1>2. PICK cast, via : Sound(Tables, cast, via, {})
  BY DEF VoteInv, TablesGood
<1>3. /\ cast \in [Producers -> [Voters -> Nat]] /\ via \in [Voters -> [Voters -> Nat]]
      /\ \A u \in Voters : /\ \A p \in Producers : cast[p][u] = CastBy(voters[u], p)
                           /\ \A x \in Voters : via[x][u] = PassedBy(voters[u], x)
  BY <1>2, TablesFields DEF Sound, Matrices, Agree
<1>4. VotesAddUp
  <2>1. ASSUME NEW p \in Producers
        PROVE  TotalVotes[p] = Cast({v \in Known : p \in voters[v].producers})
    <3>1. PICK S : S = {v \in Known : p \in voters[v].producers}
      OBVIOUS
    <3>2. cast[p] \in [Voters -> Int]
      BY <1>3
    <3>3. \A u \in Voters : cast[p][u] = IF u \in S THEN voters[u].last_vote_weight ELSE 0
      BY <1>3, <3>1 DEF CastBy, Known
    <3>4. S \in SUBSET Known
      BY <3>1
    <3>5. Cast(S) = Sum(cast[p], Voters)
      BY <1>1, <3>2, <3>3, <3>4, CastIsSum
    <3>6. VotesOf(producers[p]) = Sum(cast[p], Voters)
      BY <1>2, TablesFields DEF Sound, Tallied
    <3> QED BY <3>1, <3>5, <3>6 DEF TotalVotes, VotesOf, Registered
  <2>2. TotalVotes = Tally(Tables)
    BY TablesFields DEF TotalVotes, Tally, VotesOf, Registered
  <2>3. global.total_producer_vote_weight = Sum(Tally(Tables), Producers)
    BY <1>2, TablesFields DEF Sound, Tallied
  <2> QED BY <2>1, <2>2, <2>3 DEF VotesAddUp
<1>5. ProxiedAddUp
  <2>1. ASSUME NEW x \in Known
        PROVE  voters[x].proxied_vote_weight = Cast({v \in Known : voters[v].proxy = x})
    <3>1. PICK S : S = {v \in Known : voters[v].proxy = x}
      OBVIOUS
    <3>2. x \in Voters /\ voters[x] # NoRow
      BY DEF Known
    <3>3. via[x] \in [Voters -> Int]
      BY <1>3, <3>2
    <3>4. \A u \in Voters : via[x][u] = IF u \in S THEN voters[u].last_vote_weight ELSE 0
      BY <1>3, <3>1, <3>2 DEF PassedBy, Known
    <3>5. S \in SUBSET Known
      BY <3>1
    <3>6. Cast(S) = Sum(via[x], Voters)
      BY <1>1, <3>3, <3>4, <3>5, CastIsSum
    <3>7. voters[x].proxied_vote_weight = Sum(via[x], Voters)
      BY <1>2, <3>2, TablesFields DEF Sound, Tallied
    <3> QED BY <3>1, <3>6, <3>7
  <2> QED BY <2>1 DEF ProxiedAddUp
<1> QED BY <1>1, <1>4, <1>5 DEF TalliesAddUp

\* Proxies vote for themselves.
LEMMA RootsFollow ==
  ASSUME VoteInv
  PROVE  ProxiesAreRoots
<1>1. PICK cast, via : Sound(Tables, cast, via, {})
  BY DEF VoteInv, TablesGood
<1>2. \A v \in Known : voters[v].is_proxy => voters[v].proxy = None
  BY TablesFields DEF VoteInv, TablesGood, Roots, Known
<1>3. \A v \in Known : voters[v].proxy \in Known \cup {None}
  BY <1>1, TablesFields DEF Sound, RowsFit, Known
<1>4. ASSUME NEW S \in SUBSET Known, S # {}
      PROVE  \E v \in S : voters[v].proxy \notin S
  <2>1. S \in SUBSET Voters /\ \A u \in S : voters[u] # NoRow
    BY DEF Known
  <2> QED BY <1>1, <1>4, <2>1, TablesFields DEF Sound, Acyclic
<1> QED BY <1>2, <1>3, <1>4 DEF ProxiesAreRoots

\* Nobody casts more than its stake and what it was given weigh.
LEMMA BackedFollows ==
  ASSUME VoteInv
  PROVE  WeightsAreBacked
BY TablesFields DEF VoteInv, TablesGood, Backed, WeightsAreBacked, Known

\* The present share of a producer, as the property says it and as the proof does.
LEMMA ShareNowIs ==
  ASSUME TablesGood(Tables), NEW p \in Producers
  PROVE  ShareNow(p) = SharesOf(Tables, p, now)
<1>1. CASE producers2[p] = NoRow
  BY <1>1, TablesFields DEF ShareNow, SharesOf
<1>2. CASE producers2[p] # NoRow
  <2>1. producers[p] # NoRow
    BY <1>2, ProducersGood
  <2>2. (IF Earning(p) THEN TotalVotes[p] ELSE 0)
          = (IF ClaimUpdated(p) THEN 0 ELSE producers[p].total_votes)
    BY <1>2, <2>1 DEF Earning, ClaimUpdated, TotalVotes, Registered
  <2>3. ShareNow(p) = ClaimedShare(p)
    BY <1>2, <2>2 DEF ShareNow, ClaimedShare
  <2> QED BY <2>1, <2>3, ClaimIsShare
<1> QED BY <1>1, <1>2

\* The totals of the shares are their sums.
LEMMA PayFollows ==
  ASSUME VoteInv, LegacyClaims \subseteq {0}
  PROVE  VotePayAddsUp
<1>1. TablesGood(Tables) /\ Paid(Tables, now)
  BY DEF VoteInv, PayGood
<1>2. PICK cast, via : Sound(Tables, cast, via, {})
  BY <1>1 DEF TablesGood
<1>3. /\ \A p \in Producers : RateOf(Tables, p) \in Nat /\ SharesOf(Tables, p, now) \in Nat
      /\ global.total_vpay_share_change_rate \in Nat /\ TotalShare(global, now) \in Nat
  BY <1>2, RatesAreNat, TablesFields
<1>4. \A p \in Producers : Earning(p) <=> EarnsIn(Tables, p)
  BY TablesFields DEF Earning, EarnsIn
<1>5. \A p \in Producers : TotalVotes[p] = VotesOf(producers[p]) /\ TotalVotes[p] \in Nat
  BY <1>1, ProducersGood DEF TotalVotes, VotesOf, Registered
<1>6. RateAddsUp
  <2>1. PICK P : P = {p \in Producers : Earning(p)}
    OBVIOUS
  <2>2. PICK f : f = [p \in P |-> TotalVotes[p]]
    OBVIOUS
  <2>3. P \in SUBSET Producers /\ f \in [P -> Int] /\ \A p \in P : f[p] = TotalVotes[p]
    BY <1>5, <2>1, <2>2
  <2>4. Rates(Tables) \in [Producers -> Int]
    BY <1>3 DEF Rates
  <2>5. \A p \in Producers : Rates(Tables)[p] = IF p \in P THEN f[p] ELSE 0
    BY <1>4, <1>5, <2>1, <2>3, TablesFields DEF Rates, RateOf
  <2>6. Sum(f, P) = Sum(Rates(Tables), Producers)
    BY <2>3, <2>4, <2>5, TablesFinite, SumOverPart
  <2> QED BY <1>1, <2>1, <2>2, <2>6, TablesFields DEF RateAddsUp, Paid
<1>7. \A p \in Producers : ShareNow(p) = SharesOf(Tables, p, now)
  BY <1>1, ShareNowIs
<1>8. SharesAddUp
  <2>1. [p \in Producers |-> ShareNow(p)] = Shares(Tables, now)
    BY <1>7 DEF Shares
  <2>2. global \in GlobalState(Int) /\ now \in Int /\ global.last_vpay_state_update <= now
    BY <1>1, ProducersGood
  <2>3. PICK g : g = UpdateTotalShare(global, now, 0, 0)
    OBVIOUS
  <2>4. g.total_producer_votepay_share = larger(0, TotalShare(global, now) + 0)
    BY <2>2, <2>3, UpdateTotal
  <2>5. g.total_producer_votepay_share = TotalShare(global, now)
    BY <1>3, <2>4 DEF larger
  <2> QED BY <1>1, <2>1, <2>3, <2>5, TablesFields DEF SharesAddUp, Paid
<1> QED BY <1>6, <1>8 DEF VotePayAddsUp

(***************************************************************************)
(* Theorems                                                                *)
(***************************************************************************)
\* The votes of every producer, the weight every proxy was given to cast and the total
\* of all votes are the sums of what the voters have cast, and none of them is
\* negative, in whatever order stake, votes and proxies change (update_votes,
\* propagate_weight_change).
THEOREM TalliesAlwaysAddUp == VotingSpec => []TalliesAddUp
<1> QED BY VotingIsSound, TalliesFollow, PTL

\* A proxy never has a proxy itself, in whatever order voters register as proxies and
\* vote (the checks of regproxy and update_votes).
THEOREM ProxiesAreAlwaysRoots == VotingSpec => []ProxiesAreRoots
<1> QED BY VotingIsSound, RootsFollow, PTL

\* Nobody has cast more than its stake and what it was given to cast weigh at the time,
\* and a proxy casts all it was given: propagate_weight_change and update_votes leave
\* no voter out.
THEOREM WeightsAreAlwaysBacked == VotingSpec => []WeightsAreBacked
<1> QED BY VotingIsSound, BackedFollows, PTL

\* The total of the shares that producers are paid by is the sum of the shares of the
\* producers, and it grows at the sum of their rates, through every vote, registration
\* and claim, where no producer had claimed before the shares were introduced
\* (update_producer_votepay_share, update_total_votepay_share).
THEOREM VotePayAlwaysAddsUp ==
  ASSUME LegacyClaims \subseteq {0}
  PROVE  Spec => []VotePayAddsUp
<1>1. VoteInv => VotePayAddsUp
  BY PayFollows
<1> QED BY <1>1, PayKeepsVotes, PTL

(***************************************************************************)
(* Pay: blocks, buckets and tokens                                         *)
(***************************************************************************)
\* The holders of tokens are finitely many.
LEMMA HoldersFinite == IsFiniteSet(Holders)
<1>1. IsFiniteSet({Savings, Bpay, Vpay})
  <2>1. IsFiniteSet({}) /\ IsFiniteSet({} \cup {Savings})
    BY FS_EmptySet, FS_AddElement
  <2>2. IsFiniteSet(({} \cup {Savings}) \cup {Bpay})
    BY <2>1, FS_AddElement
  <2>3. IsFiniteSet((({} \cup {Savings}) \cup {Bpay}) \cup {Vpay})
    BY <2>2, FS_AddElement
  <2>4. (({} \cup {Savings}) \cup {Bpay}) \cup {Vpay} = {Savings, Bpay, Vpay}
    OBVIOUS
  <2> QED BY <2>3, <2>4
<1> QED BY <1>1, TablesFinite, FS_Union DEF Holders

\* The holders are four accounts at least, all different.
LEMMA HoldersDiffer ==
  ASSUME NEW p \in Producers
  PROVE  /\ Savings \in Holders /\ Bpay \in Holders /\ Vpay \in Holders /\ p \in Holders
         /\ Savings # Bpay /\ Savings # Vpay /\ Bpay # Vpay
         /\ p # Savings /\ p # Bpay /\ p # Vpay
BY PayAssumption DEF Holders

\* h is f with d more at a; with more at four entries.
AddedAt(f, h, S, a, d) == h[a] = f[a] + d /\ \A x \in S \ {a} : h[x] = f[x]

\* An amount added to an entry is added to the sum.
LEMMA SumOfOne ==
  ASSUME NEW S, IsFiniteSet(S), NEW f \in [S -> Int], NEW h \in [S -> Int], NEW a \in S,
         NEW d \in Int, AddedAt(f, h, S, a, d)
  PROVE  Sum(h, S) = Sum(f, S) + d
BY SumUpdate DEF Sum, AddedAt

FourAdded(f, h, S, a, b, c, d, i, j, k, l) ==
  /\ h[a] = f[a] + i /\ h[b] = f[b] + j /\ h[c] = f[c] + k /\ h[d] = f[d] + l
  /\ \A x \in S \ {a, b, c, d} : h[x] = f[x]

\* Amounts added to four entries are added to the sum.
LEMMA SumOfFour ==
  ASSUME NEW S, IsFiniteSet(S), NEW f \in [S -> Int], NEW h \in [S -> Int],
         NEW a \in S, NEW b \in S, NEW c \in S, NEW d \in S,
         a # b, a # c, a # d, b # c, b # d, c # d,
         NEW i \in Int, NEW j \in Int, NEW k \in Int, NEW l \in Int,
         FourAdded(f, h, S, a, b, c, d, i, j, k, l)
  PROVE  Sum(h, S) = Sum(f, S) + (((i + j) + k) + l)
<1>1. f[a] \in Int /\ f[b] \in Int /\ f[c] \in Int /\ f[d] \in Int
  OBVIOUS
<1>2. PICK x1 \in Int, x2 \in Int, x3 \in Int :
        x1 = f[a] + i /\ x2 = f[b] + j /\ x3 = f[c] + k
  BY <1>1
<1>3. PICK f1 : f1 = [f EXCEPT ![a] = x1]
  OBVIOUS
<1>4. PICK f2 : f2 = [f1 EXCEPT ![b] = x2]
  OBVIOUS
<1>5. PICK f3 : f3 = [f2 EXCEPT ![c] = x3]
  OBVIOUS
<1>6. /\ f1 \in [S -> Int] /\ f2 \in [S -> Int] /\ f3 \in [S -> Int]
      /\ f1[a] = f[a] + i /\ \A x \in S \ {a} : f1[x] = f[x]
      /\ f2[b] = f1[b] + j /\ \A x \in S \ {b} : f2[x] = f1[x]
      /\ f3[c] = f2[c] + k /\ \A x \in S \ {c} : f3[x] = f2[x]
  <2>1. f1 \in [S -> Int] /\ f1[a] = x1 /\ \A x \in S \ {a} : f1[x] = f[x]
    BY <1>3
  <2>2. f2 \in [S -> Int] /\ f2[b] = x2 /\ \A x \in S \ {b} : f2[x] = f1[x]
    BY <1>4, <2>1
  <2>3. f3 \in [S -> Int] /\ f3[c] = x3 /\ \A x \in S \ {c} : f3[x] = f2[x]
    BY <1>5, <2>2
  <2> QED BY <1>2, <2>1, <2>2, <2>3
<1>7. h[d] = f3[d] + l /\ \A x \in S \ {d} : h[x] = f3[x]
  <2>1. f3[d] = f[d]
    BY <1>6
  <2>2. \A x \in S \ {d} : h[x] = f3[x]
    BY <1>6 DEF FourAdded
  <2> QED BY <2>1, <2>2 DEF FourAdded
<1>8. /\ AddedAt(f, f1, S, a, i) /\ AddedAt(f1, f2, S, b, j)
      /\ AddedAt(f2, f3, S, c, k) /\ AddedAt(f3, h, S, d, l)
  BY <1>6, <1>7 DEF AddedAt
<1>9. Sum(f1, S) = Sum(f, S) + i
  BY <1>6, <1>8, SumOfOne
<1>10. Sum(f2, S) = Sum(f1, S) + j
  BY <1>6, <1>8, SumOfOne
<1>11. Sum(f3, S) = Sum(f2, S) + k /\ Sum(h, S) = Sum(f3, S) + l
  BY <1>6, <1>8, SumOfOne
<1>12. Sum(f, S) \in Int
  BY SumIsInt DEF Sum
<1> QED BY <1>9, <1>10, <1>11, <1>12

\* The inflation is divided without a rest, and producers get a fifth of it.
LEMMA InflationSplits ==
  ASSUME PayTypeOK, NEW i, i = Inflation
  PROVE  /\ i.issued \in Nat /\ i.savings \in Nat /\ i.perblock \in Nat /\ i.pervote \in Nat
         /\ i.issued = (i.savings + i.perblock) + i.pervote
         /\ 5 * i.savings >= 4 * i.issued
         /\ ~ i.fills => i.issued = 0
         /\ CanIssue(i) => supply + i.issued <= MaxSupply
<1>1. /\ now \in Nat /\ last_pervote_bucket_fill \in Nat /\ last_pervote_bucket_fill <= now
      /\ supply \in Nat /\ supply <= MaxSupply
  BY VotingAssumption, PayAssumption DEF PayTypeOK, VotingTypeOK
<1>2. PICK e \in Nat : e = now - last_pervote_bucket_fill
  BY <1>1
<1>3. PICK m \in Nat : m = supply * e
  BY <1>1
<1>4. Year \in Nat \ {0}
  BY PayAssumption
<1>5. PICK issued \in Nat : issued = IF last_pervote_bucket_fill > 0 /\ e > 0
                                     THEN m \div Year ELSE 0
  BY <1>3, <1>4, DivBounds
<1>6. PICK to \in Nat : to = issued \div 5 /\ 5 * to <= issued
  BY <1>5, DivBounds
<1>7. PICK part \in Nat : part = to \div 4 /\ 4 * part <= to
  BY <1>6, DivBounds
<1>8. (IF last_pervote_bucket_fill > 0 /\ now - last_pervote_bucket_fill > 0
       THEN (supply * (now - last_pervote_bucket_fill)) \div Year ELSE 0) = issued
  BY <1>2, <1>3, <1>5
<1>9. /\ i.issued = issued /\ i.savings = issued - to /\ i.perblock = part
      /\ i.pervote = to - part
  <2>1. /\ i.issued = issued
        /\ i.savings = issued - issued \div 5
        /\ i.perblock = (issued \div 5) \div 4
        /\ i.pervote = issued \div 5 - (issued \div 5) \div 4
    BY <1>8, Zenon DEF Inflation
  <2> QED BY <1>6, <1>7, <2>1
<1>10. i.fills <=> last_pervote_bucket_fill > 0 /\ now - last_pervote_bucket_fill > 0
  BY Zenon DEF Inflation
<1>11. ~ i.fills => issued = 0
  BY <1>2, <1>5, <1>10
<1>12. CanIssue(i) => supply + issued <= MaxSupply
  BY <1>1, <1>9, <1>11 DEF CanIssue
<1> QED BY <1>6, <1>7, <1>9, <1>11, <1>12

\* What is paid out of a bucket is in it.
LEMMA BlockPayFits ==
  ASSUME PayTypeOK, BlocksCounted, NEW p \in Producers, NEW b \in Nat
  PROVE  BlockPay(p, b) \in 0 .. b /\ BlockPay(p, b) \in Nat
<1>1. /\ unpaid_blocks \in [Producers -> Nat] /\ total_unpaid_blocks \in Nat
      /\ total_unpaid_blocks = Sum(unpaid_blocks, Producers)
  BY DEF PayTypeOK, BlocksCounted
<1>2. PICK n \in Nat, m \in Nat : n = unpaid_blocks[p] /\ m = total_unpaid_blocks
  BY <1>1
<1>3. n <= m
  BY <1>1, <1>2, TablesFinite, SumNat
<1>4. CASE m > 0
  BY <1>2, <1>3, <1>4, PartOfAmount DEF BlockPay
<1>5. CASE ~ (m > 0)
  BY <1>2, <1>5 DEF BlockPay
<1> QED BY <1>4, <1>5

\* The part of the vote bucket that a producer may claim is an amount,
LEMMA VotePartIsNat ==
  ASSUME VoteInv, NEW p \in Producers, producers[p] # NoRow, NEW b \in Nat
  PROVE  VotePart(p, b) \in Nat
<1>1. TablesGood(Tables)
  BY DEF VoteInv
<1>2. /\ ClaimedShare(p) \in Nat /\ producers[p].total_votes \in Nat
      /\ global \in GlobalState(Int) /\ SharesNow \in GlobalState(Int)
  BY <1>1, ClaimIsShare, ProducersGood, SharesBrought
<1>3. PICK share \in Nat, votes \in Nat, total \in Int, weight \in Int :
        /\ share = ClaimedShare(p) /\ votes = producers[p].total_votes
        /\ total = SharesNow.total_producer_votepay_share
        /\ weight = global.total_producer_vote_weight
  BY <1>2 DEF GlobalState
<1>4. VotePart(p, b) = IF revision > 0
                       THEN IF total > 0 /\ ~ ClaimCrossed(p) THEN (share * b) \div total ELSE 0
                       ELSE IF weight > 0 THEN (b * votes) \div weight ELSE 0
  BY <1>3 DEF VotePart
<1>5. total > 0 => (share * b) \div total \in Nat
  BY PartOfAmount
<1>6. weight > 0 => (b * votes) \div weight \in Nat
  BY PartOfAmount
<1> QED BY <1>4, <1>5, <1>6

\* and so is what it is paid.
LEMMA VotePayIsNat ==
  ASSUME VoteInv, NEW p \in Producers, producers[p] # NoRow, NEW b \in Nat
  PROVE  VotePay(p, b) \in Nat
BY VotePartIsNat, PayAssumption DEF VotePay, lesser

\* claimrewards: what is issued is shared out, and what is paid leaves the buckets.
LEMMA ClaimrewardsPays ==
  ASSUME VoteInv, PayBacked, NEW p \in Producers, claimrewards(p), VotingTypeOK'
  PROVE  PayBacked'
<1>1. PayTypeOK /\ BlocksCounted /\ InflationBacked
  BY DEF PayBacked
<1>2. /\ unpaid_blocks \in [Producers -> Nat] /\ total_unpaid_blocks \in Nat
      /\ perblock_bucket \in Nat /\ pervote_bucket \in Nat
      /\ last_pervote_bucket_fill \in 0 .. now /\ now \in Nat
      /\ revision \in {0, 1} /\ supply \in InitSupply .. MaxSupply
      /\ InitSupply \in Nat /\ MaxSupply \in Nat
      /\ tokens \in [Holders -> Nat]
  BY <1>1, PayAssumption, VotingAssumption DEF PayTypeOK, VotingTypeOK
<1>3. producers[p] # NoRow
  BY DEF claimrewards, Active, Registered
<1>4. PICK i : i = Inflation
  OBVIOUS
<1>5. /\ i.issued \in Nat /\ i.savings \in Nat /\ i.perblock \in Nat /\ i.pervote \in Nat
      /\ i.issued = (i.savings + i.perblock) + i.pervote
      /\ 5 * i.savings >= 4 * i.issued
      /\ supply + i.issued <= MaxSupply
  <2>1. CanIssue(i)
    BY <1>4 DEF claimrewards
  <2> QED BY <1>1, <1>4, <2>1, InflationSplits
<1>6. PICK issued \in Nat, sav \in Nat, blk \in Nat, vot \in Nat :
        /\ issued = i.issued /\ sav = i.savings /\ blk = i.perblock /\ vot = i.pervote
        /\ issued = (sav + blk) + vot /\ 5 * sav >= 4 * issued
  BY <1>5
<1>7. PICK bucket \in Nat, votebucket \in Nat :
        bucket = perblock_bucket + blk /\ votebucket = pervote_bucket + vot
  BY <1>2
<1>8. PICK blockpay \in Nat, votepay \in Nat :
        /\ blockpay = BlockPay(p, bucket) /\ votepay = VotePay(p, votebucket)
        /\ blockpay <= bucket /\ votepay <= votebucket
  <2>1. BlockPay(p, bucket) \in 0 .. bucket /\ VotePay(p, votebucket) \in Nat
    BY <1>1, <1>3, BlockPayFits, VotePayIsNat
  <2>2. tokens[Vpay] + vot >= VotePay(p, votebucket) /\ tokens[Vpay] = pervote_bucket
    BY <1>1, <1>4, <1>6, <1>7 DEF claimrewards, InflationBacked
  <2> QED BY <1>7, <2>1, <2>2
<1>9. /\ supply' = supply + issued
      /\ last_pervote_bucket_fill' = IF i.fills THEN now ELSE last_pervote_bucket_fill
      /\ perblock_bucket' = bucket - blockpay
      /\ pervote_bucket' = votebucket - votepay
      /\ total_unpaid_blocks' = total_unpaid_blocks - unpaid_blocks[p]
      /\ unpaid_blocks' = [unpaid_blocks EXCEPT ![p] = 0]
      /\ now' = now /\ revision' = revision
  BY <1>4, <1>6, <1>7, <1>8 DEF claimrewards, PaidOut, UnpaidAfter
<1>10. tokens' = [tokens EXCEPT ![Savings] = @ + sav,
                                ![Bpay] = (@ + blk) - blockpay,
                                ![Vpay] = (@ + vot) - votepay,
                                ![p] = (@ + blockpay) + votepay]
  BY <1>4, <1>6, <1>7, <1>8 DEF claimrewards
<1>11. /\ Savings \in Holders /\ Bpay \in Holders /\ Vpay \in Holders /\ p \in Holders
       /\ Savings # Bpay /\ Savings # Vpay /\ Bpay # Vpay
       /\ p # Savings /\ p # Bpay /\ p # Vpay
  BY HoldersDiffer
<1>12. /\ tokens'[Savings] = tokens[Savings] + sav
       /\ tokens'[Bpay] = (tokens[Bpay] + blk) - blockpay
       /\ tokens'[Vpay] = (tokens[Vpay] + vot) - votepay
       /\ tokens'[p] = (tokens[p] + blockpay) + votepay
       /\ \A h \in Holders \ {Savings, Bpay, Vpay, p} : tokens'[h] = tokens[h]
  BY <1>2, <1>10, <1>11
<1>13. tokens[Bpay] = perblock_bucket /\ tokens[Vpay] = pervote_bucket
       /\ supply = InitSupply + Sum(tokens, Holders)
       /\ 5 * tokens[Savings] >= 4 * (supply - InitSupply)
  BY <1>1 DEF InflationBacked
<1>14. tokens' \in [Holders -> Nat]
  <2>1. tokens' = [h \in Holders |-> tokens'[h]]
    BY <1>2, <1>10
  <2>2. ASSUME NEW h \in Holders
        PROVE  tokens'[h] \in Nat
    <3>1. tokens[h] \in Nat
      BY <1>2
    <3>2. CASE h = Savings
      BY <1>12, <3>1, <3>2
    <3>3. CASE h = Bpay
      BY <1>7, <1>8, <1>12, <1>13, <3>3
    <3>4. CASE h = Vpay
      BY <1>7, <1>8, <1>12, <1>13, <3>4
    <3>5. CASE h = p
      BY <1>12, <3>1, <3>5
    <3>6. CASE h \notin {Savings, Bpay, Vpay, p}
      BY <1>12, <3>1, <3>6
    <3> QED BY <3>2, <3>3, <3>4, <3>5, <3>6
  <2> QED BY <2>1, <2>2
<1>15. unpaid_blocks' \in [Producers -> Nat]
  BY <1>2, <1>9
<1>16. total_unpaid_blocks' = Sum(unpaid_blocks', Producers)
  <2>1. PICK n \in Int : n = 0 - unpaid_blocks[p]
    BY <1>2
  <2>2. unpaid_blocks'[p] = unpaid_blocks[p] + n
        /\ \A q \in Producers \ {p} : unpaid_blocks'[q] = unpaid_blocks[q]
    BY <1>2, <1>9, <2>1
  <2>3. unpaid_blocks \in [Producers -> Int] /\ unpaid_blocks' \in [Producers -> Int]
    BY <1>2, <1>15
  <2>4. Sum(unpaid_blocks', Producers) = Sum(unpaid_blocks, Producers) + n
    BY <2>2, <2>3, TablesFinite, SumUpdate DEF Sum
  <2> QED BY <1>1, <1>2, <1>9, <2>1, <2>4 DEF BlocksCounted
<1>17. total_unpaid_blocks' \in Nat
  BY <1>15, <1>16, TablesFinite, SumNat
<1>18. Sum(tokens', Holders) = Sum(tokens, Holders) + issued
  <2>1. PICK j \in Int, k \in Int, l \in Int :
          j = blk - blockpay /\ k = vot - votepay /\ l = blockpay + votepay
    OBVIOUS
  <2>2. /\ tokens'[Savings] = tokens[Savings] + sav /\ tokens'[Bpay] = tokens[Bpay] + j
        /\ tokens'[Vpay] = tokens[Vpay] + k /\ tokens'[p] = tokens[p] + l
    <3>1. tokens[Bpay] \in Int /\ tokens[Vpay] \in Int /\ tokens[p] \in Int
      BY <1>2, <1>11
    <3> QED BY <1>12, <2>1, <3>1
  <2>3. PICK f \in [Holders -> Int], h \in [Holders -> Int] : f = tokens /\ h = tokens'
    BY <1>2, <1>14
  <2>4. PICK a \in Holders, b \in Holders, c \in Holders, d \in Holders :
          a = Savings /\ b = Bpay /\ c = Vpay /\ d = p
    BY <1>11
  <2>5. a # b /\ a # c /\ a # d /\ b # c /\ b # d /\ c # d
    BY <1>11, <2>4
  <2>6. /\ h[a] = f[a] + sav /\ h[b] = f[b] + j /\ h[c] = f[c] + k /\ h[d] = f[d] + l
        /\ \A x \in Holders \ {a, b, c, d} : h[x] = f[x]
    BY <1>12, <2>2, <2>3, <2>4
  <2>7. sav \in Int
    OBVIOUS
  <2>8. Sum(h, Holders) = Sum(f, Holders) + (((sav + j) + k) + l)
    <3>1. FourAdded(f, h, Holders, a, b, c, d, sav, j, k, l)
      BY <2>6 DEF FourAdded
    <3> QED BY <2>5, <2>7, <3>1, HoldersFinite, SumOfFour
  <2>9. ((sav + j) + k) + l = issued
    <3>1. issued = (sav + blk) + vot
      BY <1>6
    <3> QED BY <2>1, <3>1
  <2> QED BY <2>3, <2>8, <2>9
<1>19. PayTypeOK'
  <2>1. perblock_bucket' \in Nat /\ pervote_bucket' \in Nat
    BY <1>8, <1>9
  <2>2. last_pervote_bucket_fill' \in 0 .. now'
    BY <1>2, <1>9
  <2>3. supply' \in InitSupply .. MaxSupply
    BY <1>2, <1>5, <1>6, <1>9
  <2> QED BY <1>2, <1>9, <1>14, <1>15, <1>17, <2>1, <2>2, <2>3 DEF PayTypeOK
<1>20. InflationBacked'
  <2>1. tokens'[Bpay] = perblock_bucket' /\ tokens'[Vpay] = pervote_bucket'
    BY <1>7, <1>9, <1>12, <1>13
  <2>2. supply' = InitSupply + Sum(tokens', Holders)
    <3>1. Sum(tokens, Holders) \in Nat
      BY <1>2, HoldersFinite, SumNat
    <3> QED BY <1>2, <1>9, <1>13, <1>18, <3>1
  <2>3. 5 * tokens'[Savings] >= 4 * (supply' - InitSupply)
    <3>1. tokens[Savings] \in Nat
      BY <1>2, <1>11
    <3> QED BY <1>2, <1>6, <1>9, <1>12, <1>13, <3>1
  <2> QED BY <2>1, <2>2, <2>3 DEF InflationBacked
<1> QED BY <1>16, <1>19, <1>20 DEF PayBacked, BlocksCounted

\* onblock moves no tokens, and counts the block for its producer and for all.
LEMMA OnblockPays ==
  ASSUME PayBacked, NEW p \in Producers \cup {None}, onblock(p), VotingTypeOK'
  PROVE  PayBacked'
<1>1. PayTypeOK /\ BlocksCounted /\ InflationBacked
  BY DEF PayBacked
<1>2. /\ unpaid_blocks \in [Producers -> Nat] /\ total_unpaid_blocks \in Nat
      /\ last_pervote_bucket_fill \in 0 .. now /\ now \in Nat
  BY <1>1, VotingAssumption DEF PayTypeOK, VotingTypeOK
<1>3. /\ UNCHANGED <<now, perblock_bucket, pervote_bucket, revision, supply, tokens>>
      /\ last_pervote_bucket_fill' =
           IF last_pervote_bucket_fill = 0 THEN now ELSE last_pervote_bucket_fill
  BY DEF onblock
<1>4. /\ unpaid_blocks' \in [Producers -> Nat] /\ total_unpaid_blocks' \in Nat
      /\ total_unpaid_blocks' = Sum(unpaid_blocks', Producers)
  <2>1. CASE p # None /\ Registered(p)
    <3>1. /\ total_unpaid_blocks' = total_unpaid_blocks + 1
          /\ unpaid_blocks' = [unpaid_blocks EXCEPT ![p] = @ + 1]
      BY <2>1 DEF onblock, Counted
    <3>2. p \in Producers
      BY <2>1
    <3>3. /\ unpaid_blocks' \in [Producers -> Nat]
          /\ unpaid_blocks'[p] = unpaid_blocks[p] + 1
          /\ \A q \in Producers \ {p} : unpaid_blocks'[q] = unpaid_blocks[q]
      BY <1>2, <3>1, <3>2
    <3>4. unpaid_blocks \in [Producers -> Int] /\ unpaid_blocks' \in [Producers -> Int]
      BY <1>2, <3>3
    <3>5. Sum(unpaid_blocks', Producers) = Sum(unpaid_blocks, Producers) + 1
      BY <3>2, <3>3, <3>4, TablesFinite, SumUpdate DEF Sum
    <3> QED BY <1>1, <1>2, <3>1, <3>3, <3>5 DEF BlocksCounted
  <2>2. CASE ~ (p # None /\ Registered(p))
    <3>1. UNCHANGED <<total_unpaid_blocks, unpaid_blocks>>
      BY <2>2 DEF onblock
    <3> QED BY <1>1, <1>2, <3>1 DEF BlocksCounted
  <2> QED BY <2>1, <2>2
<1>5. last_pervote_bucket_fill' \in 0 .. now'
  BY <1>2, <1>3
<1> QED BY <1>1, <1>3, <1>4, <1>5 DEF PayBacked, PayTypeOK, BlocksCounted, InflationBacked

\* Votes leave the pay alone, and the clock does not go back.
LEMMA VotesPayNothing ==
  ASSUME PayBacked, UNCHANGED payVars, now' = now \/ now' = now + 1, VotingTypeOK'
  PROVE  PayBacked'
<1>1. last_pervote_bucket_fill' \in 0 .. now'
  BY VotingAssumption DEF PayBacked, PayTypeOK, VotingTypeOK, payVars
<1> QED BY <1>1 DEF PayBacked, PayTypeOK, BlocksCounted, InflationBacked, payVars

\* The steps of voting let one tick pass or none.
LEMMA ClockOfVotes ==
  ASSUME VotingNext
  PROVE  now' = now \/ now' = now + 1
BY DEF VotingNext, voteproducer, delegatebw, undelegatebw, BuyRex, SellRex, ChangeStake,
       regproxy, regproducer, unregprod, AdvanceTime

\* Every step keeps the buckets backed.
LEMMA PayNextPays ==
  ASSUME VoteInv, PayBacked, [Next]_vars, VotingTypeOK'
  PROVE  PayBacked'
<1>1. CASE VotingNext /\ UNCHANGED payVars
  BY <1>1, ClockOfVotes, VotesPayNothing
<1>2. CASE \E p \in Producers \cup {None} : onblock(p)
  BY <1>2, OnblockPays
<1>3. CASE \E p \in Producers : claimrewards(p)
  BY <1>3, ClaimrewardsPays
<1>4. CASE updtrevision
  BY <1>4 DEF updtrevision, PayBacked, PayTypeOK, BlocksCounted, InflationBacked, votingVars
<1>5. CASE UNCHANGED vars
  BY <1>5, VotesPayNothing DEF vars, votingVars
<1> QED BY <1>1, <1>2, <1>3, <1>4, <1>5 DEF Next

\* In the beginning they are.
LEMMA PayBackedHolds ==
  ASSUME Init, VotingTypeOK
  PROVE  PayBacked
<1>1. PayTypeOK
  BY PayAssumption DEF Init, VotingInit, PayTypeOK
<1>2. BlocksCounted
  BY TablesFinite, SumZero DEF Init, BlocksCounted, Sum
<1>3. Sum(tokens, Holders) = 0
  BY HoldersFinite, SumZero DEF Init, Sum
<1>4. InflationBacked
  BY <1>3, PayAssumption DEF Init, InflationBacked, Holders
<1> QED BY <1>1, <1>2, <1>4 DEF PayBacked

\* Where the totals add up, the part of no producer is more than the bucket.
LEMMA CoverFollows ==
  ASSUME VoteInv, VotePayAddsUp, PayBacked
  PROVE  PayCovered
<1>1. PayTypeOK /\ BlocksCounted /\ InflationBacked /\ TablesGood(Tables)
  BY DEF PayBacked, VoteInv
<1>2. /\ perblock_bucket \in Nat /\ pervote_bucket \in Nat /\ revision \in {0, 1}
      /\ tokens[Bpay] = perblock_bucket /\ tokens[Vpay] = pervote_bucket
  BY <1>1 DEF PayTypeOK, InflationBacked
<1>3. PICK cast, via : Sound(Tables, cast, via, {})
  BY <1>1 DEF TablesGood
<1>4. /\ \A q \in Producers : SharesOf(Tables, q, now) \in Nat
      /\ TotalShare(global, now) \in Nat
      /\ global \in GlobalState(Int) /\ SharesNow \in GlobalState(Int)
  BY <1>1, <1>3, RatesAreNat, TablesFields, ProducersGood, SharesBrought
<1>5. ASSUME NEW p \in Producers, Active(p)
      PROVE  /\ BlockPay(p, perblock_bucket) <= tokens[Bpay]
             /\ VotePart(p, pervote_bucket) <= tokens[Vpay]
  <2>1. producers[p] # NoRow
    BY <1>5 DEF Active, Registered
  <2>2. BlockPay(p, perblock_bucket) <= tokens[Bpay]
    BY <1>1, <1>2, BlockPayFits
  <2>3. PICK b \in Nat : b = pervote_bucket
    BY <1>2
  <2>4. PICK share \in Nat, votes \in Nat, total \in Int, weight \in Int :
          /\ share = ClaimedShare(p) /\ votes = producers[p].total_votes
          /\ total = SharesNow.total_producer_votepay_share
          /\ weight = global.total_producer_vote_weight
    BY <1>1, <1>4, <2>1, ClaimIsShare, ProducersGood DEF GlobalState
  <2>5. VotePart(p, b) = IF revision > 0
                         THEN IF total > 0 /\ ~ ClaimCrossed(p) THEN (share * b) \div total ELSE 0
                         ELSE IF weight > 0 THEN (b * votes) \div weight ELSE 0
    BY <2>4 DEF VotePart
  <2>6. CASE revision > 0 /\ total > 0 /\ ~ ClaimCrossed(p)
    <3>1. share <= total
      <4>1. PICK f \in [Producers -> Nat] : f = Shares(Tables, now)
        BY <1>4 DEF Shares
      <4>2. f[p] <= Sum(f, Producers)
        BY TablesFinite, SumNat
      <4>3. f[p] = share
        BY <1>1, <2>1, <2>4, <4>1, ClaimIsShare DEF Shares
      <4>4. \A q \in Producers : ShareNow(q) = SharesOf(Tables, q, now)
        BY <1>1, ShareNowIs
      <4>5. [q \in Producers |-> ShareNow(q)] = f
        BY <4>1, <4>4 DEF Shares
      <4>6. total = Sum(f, Producers)
        BY <2>4, <2>6, <4>5 DEF VotePayAddsUp, SharesAddUp, SharesNow
      <4> QED BY <4>2, <4>3, <4>6
    <3>2. (share * b) \div total <= b
      BY <2>6, <3>1, PartOfAmount
    <3> QED BY <1>2, <2>2, <2>3, <2>5, <2>6, <3>2
  <2>7. CASE ~ (revision > 0) /\ weight > 0
    <3>1. votes <= weight
      <4>1. PICK f \in [Producers -> Nat] : f = Tally(Tables)
        BY <1>1, TablesFields, ProducersGood DEF Tally, VotesOf
      <4>2. f[p] <= Sum(f, Producers)
        BY TablesFinite, SumNat
      <4>3. f[p] = votes
        BY <2>1, <2>4, <4>1, TablesFields DEF Tally, VotesOf
      <4>4. weight = Sum(f, Producers)
        BY <1>3, <2>4, <4>1, TablesFields DEF Sound, Tallied
      <4> QED BY <4>2, <4>3, <4>4
    <3>2. (b * votes) \div weight <= b
      BY <2>7, <3>1, PartOfAmount
    <3> QED BY <1>2, <2>2, <2>3, <2>5, <2>7, <3>2
  <2>8. CASE /\ ~ (revision > 0 /\ total > 0 /\ ~ ClaimCrossed(p))
             /\ ~ (~ (revision > 0) /\ weight > 0)
    BY <1>2, <2>2, <2>3, <2>5, <2>8
  <2> QED BY <2>6, <2>7, <2>8
<1> QED BY <1>5 DEF PayCovered

\* The buckets are backed by the tokens of the accounts they are paid from, all tokens
\* add up to the supply, and the blocks of the producers to the blocks produced, after
\* every claim, whatever its roundings (claimrewards, onblock).
THEOREM PayIsAlwaysBacked == Spec => []PayBacked
<1>1. VoteInv => VotingTypeOK
  BY TypesOfVotes
<1>2. Init => PayBacked
  BY VoteInvHolds, TypesOfVotes, PayBackedHolds DEF Init
<1>3. VoteInv /\ PayBacked /\ [Next]_vars /\ VotingTypeOK' => PayBacked'
  BY PayNextPays
<1> QED BY <1>1, <1>2, <1>3, PayKeepsVotes, PTL DEF Spec

\* What a producer may claim is never more than the accounts hold that it is paid from,
\* where no producer had claimed before the shares were introduced: no claim fails for
\* want of tokens (claimrewards).
THEOREM PayIsAlwaysCovered ==
  ASSUME LegacyClaims \subseteq {0}
  PROVE  Spec => []PayCovered
<1>1. VoteInv => VotePayAddsUp
  BY PayFollows
<1>2. VoteInv /\ VotePayAddsUp /\ PayBacked => PayCovered
  BY CoverFollows
<1> QED BY <1>1, <1>2, PayKeepsVotes, PayIsAlwaysBacked, PTL

\* Whoever is among the first has no fewer votes than one that is not.
LEMMA TopHaveMost ==
  ASSUME VoteInv, NEW p \in TopProducers, NEW q \in Producers \ TopProducers, Active(q)
  PROVE  Active(p) /\ TotalVotes[q] <= TotalVotes[p]
<1>1. TablesGood(Tables)
  BY DEF VoteInv
<1>2. p \in Electable /\ p \in Producers /\ Active(p) /\ Electable \subseteq Producers
  BY DEF TopProducers, Electable
<1>3. \A r \in Electable : producers[r] # NoRow /\ producers[r].total_votes \in Nat
  BY <1>1, ProducersGood DEF Electable, Active, Registered
<1>4. PICK m \in Nat, n \in Nat : m = producers[p].total_votes /\ n = producers[q].total_votes
  BY <1>1, <1>2, ProducersGood DEF Active, Registered
<1>5. TotalVotes[p] = m /\ TotalVotes[q] = n
  BY <1>2, <1>4 DEF TotalVotes, Active, Registered
<1>6. ASSUME n > m
      PROVE  FALSE
  <2>1. q \in Electable
    BY <1>4, <1>6 DEF Electable
  <2>2. PICK A : A = {r \in Electable : Ahead(r, p)}
    OBVIOUS
  <2>3. PICK B : B = {r \in Electable : Ahead(r, q)}
    OBVIOUS
  <2>4. Cardinality(A) < MaxElected
    BY <2>2 DEF TopProducers
  <2>5. ~ (Cardinality(B) < MaxElected)
    BY <2>1, <2>3 DEF TopProducers
  <2>6. B \subseteq A
    <3>1. ASSUME NEW r \in Electable, Ahead(r, q)
          PROVE  Ahead(r, p)
      <4>1. producers[r].total_votes \in Nat
        BY <1>3
      <4>2. producers[r].total_votes >= n
        BY <1>4, <3>1, <4>1 DEF Ahead
      <4>3. producers[r].total_votes > m
        BY <1>6, <4>1, <4>2
      <4> QED BY <1>4, <4>3 DEF Ahead
    <3> QED BY <2>2, <2>3, <3>1
  <2>7. IsFiniteSet(A)
    <3>1. A \subseteq Producers
      BY <1>2, <2>2
    <3> QED BY <3>1, TablesFinite, FS_Subset
  <2>8. /\ Cardinality(B) <= Cardinality(A)
        /\ Cardinality(A) \in Nat /\ Cardinality(B) \in Nat
    BY <2>6, <2>7, FS_Subset, FS_CardinalityType
  <2> QED BY <2>4, <2>5, <2>8, VotingAssumption
<1> QED BY <1>2, <1>4, <1>5, <1>6

\* A step that changes the schedule elects the first by votes, as many as before or more.
LEMMA ElectionStep ==
  ASSUME VoteInv, Next, schedule' # schedule
  PROVE  /\ Cardinality(schedule') >= Cardinality(schedule)
         /\ \A p \in schedule' : Active(p)
         /\ \A p \in schedule' : \A q \in {x \in Producers \ schedule' : Active(x)} :
              TotalVotes[q] <= TotalVotes[p]
<1>1. LargeEnough(TopProducers) /\ schedule' = TopProducers
  <2>1. CASE VotingNext
    BY <2>1 DEF VotingNext, voteproducer, delegatebw, undelegatebw, BuyRex, SellRex, ChangeStake,
                regproxy, regproducer, unregprod, AdvanceTime
  <2>2. CASE \E p \in Producers \cup {None} : onblock(p)
    BY <2>2 DEF onblock, update_elected_producers
  <2>3. CASE \E p \in Producers : claimrewards(p)
    BY <2>3 DEF claimrewards
  <2>4. CASE updtrevision
    BY <2>4 DEF updtrevision, votingVars
  <2> QED BY <2>1, <2>2, <2>3, <2>4 DEF Next
<1>2. Cardinality(schedule') >= Cardinality(schedule)
  <2>1. /\ Cardinality(schedule) <= global.last_producer_schedule_size
        /\ global.last_producer_schedule_size \in Int
    BY TablesFields, ProducersGood DEF VoteInv, TablesGood, InRange, GlobalState
  <2>2. TopProducers \subseteq Producers
    BY DEF TopProducers, Electable
  <2>3. Cardinality(schedule) \in Nat /\ Cardinality(TopProducers) \in Nat
    BY <2>2, TablesFinite, FS_Subset, FS_CardinalityType DEF VoteInv
  <2> QED BY <1>1, <2>1, <2>3 DEF LargeEnough
<1>3. \A p \in TopProducers : Active(p)
  BY DEF TopProducers, Electable
<1> QED BY <1>1, <1>2, <1>3, TopHaveMost

\* A schedule is replaced only by one that is no smaller, of active producers, and no
\* active producer that is left out has more votes than one that is taken
\* (update_elected_producers).
THEOREM ElectionsFollowVotes == Spec => ElectedByVotes
<1>1. VoteInv /\ [Next]_vars => [schedule' # schedule =>
       /\ Cardinality(schedule') >= Cardinality(schedule)
       /\ \A p \in schedule' : Active(p)
       /\ \A p \in schedule' : \A q \in {x \in Producers \ schedule' : Active(x)} :
            TotalVotes[q] <= TotalVotes[p]]_vars
  BY ElectionStep DEF vars, votingVars
<1> QED BY <1>1, PayKeepsVotes, PTL DEF Spec, ElectedByVotes
=============================================================================
