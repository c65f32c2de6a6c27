------------------------------- MODULE Consent -------------------------------
(***************************************************************************)
(* What a multisignature contract promises: a proposal is carried out at   *)
(* most once, and only while enough of those who have to agree do agree.   *)
(* Agreement is given to one proposal, can be taken back, and is void      *)
(* everywhere once the actor invalidates it.                               *)
(***************************************************************************)
CONSTANTS Keys,          \* what a proposal is known by
          Levels,        \* who can agree: permission levels <<actor, permission>>
          Transactions   \* [sufficient : sets of levels, any of which authorizes it, ...]

VARIABLES open,     \* key -> transaction, for proposals
          consent,  \* key -> levels that agree at present, for proposals
          pending   \* key -> transaction, for transactions about to run

vars == <<open, consent, pending>>

Authorized(trx, levels) == \E enough \in trx.sufficient : enough \subseteq levels

Init ==
  /\ DOMAIN open \subseteq Keys
  /\ open \in [DOMAIN open -> Transactions]
  /\ consent \in [DOMAIN open -> SUBSET Levels]
  /\ DOMAIN pending = {}

\* A proposal starts without anybody's consent, whatever its key stood for before.
Propose(key, trx) ==
  /\ key \notin DOMAIN open
  /\ open' = [k \in DOMAIN open \cup {key} |-> IF k = key THEN trx ELSE open[k]]
  /\ consent' = [k \in DOMAIN open \cup {key} |-> IF k = key THEN {} ELSE consent[k]]
  /\ UNCHANGED pending

Agree(key, level) ==
  /\ key \in DOMAIN open
  /\ consent' = [consent EXCEPT ![key] = @ \cup {level}]
  /\ UNCHANGED <<open, pending>>

Withdraw(key, level) ==
  /\ key \in DOMAIN open
  /\ consent' = [consent EXCEPT ![key] = @ \ {level}]
  /\ UNCHANGED <<open, pending>>

\* Whatever the actor agreed to, it agrees no longer.
Invalidate(actor) ==
  /\ consent' = [k \in DOMAIN consent |-> {l \in consent[k] : l[1] # actor}]
  /\ UNCHANGED <<open, pending>>

Closed(key) ==
  /\ open' = [k \in DOMAIN open \ {key} |-> open[k]]
  /\ consent' = [k \in DOMAIN open \ {key} |-> consent[k]]

Cancel(key) == key \in DOMAIN open /\ Closed(key) /\ UNCHANGED pending

Execute(key) ==
  /\ key \in DOMAIN open
  /\ key \notin DOMAIN pending
  /\ Authorized(open[key], consent[key])
  /\ pending' = [k \in DOMAIN pending \cup {key} |-> IF k = key THEN open[key] ELSE pending[k]]
  /\ Closed(key)

Run(key) ==
  /\ key \in DOMAIN pending
  /\ pending' = [k \in DOMAIN pending \ {key} |-> pending[k]]
  /\ UNCHANGED <<open, consent>>

Next ==
  \/ \E key \in Keys :
       \/ \E trx \in Transactions : Propose(key, trx)
       \/ \E level \in Levels : Agree(key, level) \/ Withdraw(key, level)
       \/ Cancel(key) \/ Execute(key) \/ Run(key)
  \/ \E level \in Levels : Invalidate(level[1])

Spec == Init /\ [][Next]_vars
=============================================================================
