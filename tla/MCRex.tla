------------------------------- MODULE MCRex -------------------------------
(***************************************************************************)
(* Instances of Rex.  The amounts each run lets the actions carry are in   *)
(* its configuration; an empty set takes the action out of the run.        *)
(***************************************************************************)
EXTENDS Rex
CONSTANTS alice, bob, aliceTokens, bobTokens, bidTokens
MCAccounts == {alice, bob}
MCOthers == {RexAccount, NamesAccount}
MCNameValue == [a \in {alice, bob} |-> IF a = alice THEN 1 ELSE 2]
MCTokens == [h \in MCAccounts \cup {StakeAccount} \cup MCOthers |->
               CASE h = alice -> aliceTokens
                 [] h = bob -> bobTokens
                 [] h = NamesAccount -> bidTokens
                 [] OTHER -> 0]
MCVoting == [a \in MCAccounts |-> [staked |-> 0, votes |-> TRUE]]
MCNoVoters == [a \in MCAccounts |-> NoRow]
MCOneVoting == [a \in MCAccounts |-> IF a = alice THEN [staked |-> 0, votes |-> TRUE] ELSE NoRow]

\* Staking in the same run as savings: only states in which nothing is delegated
\* or being refunded are followed further, after the first instant and, as long
\* as nobody has bought REX, the second.
NothingDelegated ==
  /\ \A p \in Accounts \X Accounts : delband[p] = Zero
  /\ \A a \in Accounts : refunds[a] = NoRow /\ deferred[a] = NoRow
StakingIsEarly == now = 0 \/ (now = 1 /\ pool = NoRow) \/ NothingDelegated

\* Loans of one kind, to the borrower itself: nothing in the run with sales tells
\* them apart, and no step that fairness asks for makes a loan.
OwnCpuLoans == \A i \in Loans : loan[i].kind = "cpu" /\ loan[i].receiver = loan[i].from
=============================================================================
