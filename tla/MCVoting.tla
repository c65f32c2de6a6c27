------------------------------ MODULE MCVoting ------------------------------
(***************************************************************************)
(* A few voters and two producers.  A unit of stake weighs 2 and, from the *)
(* second tick on, 4.                                                      *)
(***************************************************************************)
EXTENDS Voting, TLC
CONSTANTS prod1, prod2
MCProducers == {prod1, prod2}
MCRank == [p \in MCProducers |-> IF p = prod1 THEN 1 ELSE 2]
MCSymmetry == Permutations(Voters)
MCGrowth == [t \in 0 .. MaxTime |-> IF t <= 1 THEN 2 ELSE 4]

\* Two cases are followed, in both of which the second producer stays active:
\* two voters, one of them with little stake, and all they can do but REX; and three
\* voters with little stake, which may be REX in the first tick, on the first
\* producer only.
TwoVoters ==
  /\ Cardinality(Known) <= 2
  /\ \A v \in Known : rex_stake[v] = 0
  /\ Cardinality({v \in Known : voters[v].staked > 1}) <= 1
OneProducer ==
  /\ \A v \in Known : voters[v].staked <= 1
  /\ \A v \in Known : rex_stake[v] > 0 => now = 1
  /\ producers2[prod2] = NoRow /\ TotalVotes[prod2] = 0
  /\ Registered(prod1) => Active(prod1)
MCCases == Active(prod2) /\ (TwoVoters \/ OneProducer)
=============================================================================
