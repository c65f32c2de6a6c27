--------------------------- MODULE MCProducerPay ---------------------------
(***************************************************************************)
(* One voter, two producers, one of them from before producers2; a claim a *)
(* tick, two ticks until votes stop to earn.  The supply grows by half in  *)
(* a tick, the weight of stake doubles in the third.                       *)
(***************************************************************************)
EXTENDS ProducerPay
CONSTANTS prod1, prod2
MCProducers == {prod1, prod2}
MCRank == [p \in MCProducers |-> IF p = prod1 THEN 1 ELSE 2]
MCGrowth == [t \in 0 .. MaxTime |-> IF t <= 2 THEN 2 ELSE 4]

\* Two blocks wait for pay in the second tick only, at most one in the others,
\* the revision is not updated in the first tick, and nothing is followed in the
\* third tick after a producer has unregistered.
MCCases ==
  /\ total_unpaid_blocks <= (IF now = 2 /\ producers[prod1] # NoRow THEN 2 ELSE 1)
  /\ revision = InitRevision \/ now >= 2
  /\ \A p \in MCProducers : Active(p) \/ now <= 2 \/ ~ Registered(p)
=============================================================================
