-------------------------------- MODULE Msig --------------------------------
(***************************************************************************)
(* The eosio.msig contract.  A proposal is known by its proposer and its   *)
(* name.  Its transaction is in one table and its approvals in another.    *)
(* Proposals made before approvals carried a time have theirs in the old   *)
(* table, which the code reads, changes and empties but adds no row to.    *)
(*                                                                         *)
(* A transaction is what the contract knows of it: when it expires, in     *)
(* seconds, and which sets of permission levels authorize it, which the    *)
(* host decides.  The hash of a transaction is the transaction.  Time is   *)
(* in blocks; the contract sees the same time in a whole block.            *)
(***************************************************************************)
EXTENDS Integers, SequencesExt

CONSTANTS Accounts,
          Levels,           \* permission levels, <<actor, permission>>
          Proposers,        \* accounts that propose
          ProposalNames,
          Transactions,     \* transactions that are proposed
          Requests,         \* sequences of levels that proposals request
          OldRows,          \* proposals with old approvals that may exist at first
          NoHash,           \* approve without a proposal_hash
          BlocksPerSecond,
          MaxTime           \* bound on time, in blocks

\* check_transaction_authorization with provided permissions only.
Authorized(trx, levels) == \E enough \in trx.sufficient : enough \subseteq levels

\* The time of an approval in the old table, which has none: exec counts it only
\* when there was no invalidation ever, so it is earlier than any.
NoTime == -1

OldRowType == [key : Proposers \X ProposalNames, trx : Transactions, requested : Seq(Levels),
               provided : Seq([level : Levels, time : {NoTime}])]

ASSUME MsigAssumption ==
  /\ \A level \in Levels : level[1] \in Accounts
  /\ Proposers \subseteq Accounts
  /\ BlocksPerSecond \in Nat \ {0}
  /\ NoHash \notin Transactions
  /\ Requests \subseteq Seq(Levels)
  /\ OldRows \subseteq OldRowType
  /\ \A r \in OldRows :
       Authorized(r.trx, Range(r.requested) \cup {p.level : p \in Range(r.provided)})
  /\ MaxTime \in Nat

VARIABLES proposals,      \* <<proposer, name>> -> packed transaction
          approvals,      \* <<proposer, name>> -> [requested, provided]
          old_approvals,  \* the same, for proposals of an earlier version
          invalidations,  \* account -> last_invalidation_time
          deferred,       \* the chain's deferred transactions, by sender id
          now             \* current_time_point()

vars == <<proposals, approvals, old_approvals, invalidations, deferred, now>>

Keys == Proposers \X ProposalNames

\* time_point_sec drops the fraction of a second.
Seconds(time) == time \div BlocksPerSecond

With(table, key, row) == [k \in DOMAIN table \cup {key} |-> IF k = key THEN row ELSE table[k]]

Without(table, key) == [k \in DOMAIN table \ {key} |-> table[k]]

Init ==
  /\ \E rows \in SUBSET OldRows :
       /\ \A r, s \in rows : r.key = s.key => r = s
       /\ LET RowOf(key) == CHOOSE r \in rows : r.key = key
              keys == {r.key : r \in rows}
          IN  /\ proposals = [k \in keys |-> RowOf(k).trx]
              /\ old_approvals = [k \in keys |-> [requested |-> RowOf(k).requested,
                                                  provided  |-> RowOf(k).provided]]
  /\ approvals = [k \in {} |-> 0]
  /\ invalidations = [a \in {} |-> 0]
  /\ deferred = [k \in {} |-> 0]
  /\ now = 0

-----------------------------------------------------------------------------
(***************************************************************************)
(* The row of approvals of a proposal, in the new table or else the old.   *)
(* requested is a sequence of levels, provided one of levels with times;   *)
(* the code keeps a time with what is requested too, and never reads it.   *)
(***************************************************************************)
HasRow(key) == key \in DOMAIN approvals \cup DOMAIN old_approvals

RowOf(key) == IF key \in DOMAIN approvals THEN approvals[key] ELSE old_approvals[key]

Modify(key, row) ==
  IF key \in DOMAIN approvals
  THEN approvals' = [approvals EXCEPT ![key] = row] /\ UNCHANGED old_approvals
  ELSE old_approvals' = [old_approvals EXCEPT ![key] = row] /\ UNCHANGED approvals

\* MUTANT: the row in the old table is left behind.
EraseNew(key) == approvals' = Without(approvals, key) /\ UNCHANGED old_approvals

Erase(key) ==
  IF key \in DOMAIN approvals
  THEN approvals' = Without(approvals, key) /\ UNCHANGED old_approvals
  ELSE old_approvals' = Without(old_approvals, key) /\ UNCHANGED approvals

TimeOfApproval(key) == IF key \in DOMAIN approvals THEN now ELSE NoTime

\* The first entry of a level, or 0; a level may be requested twice.
FirstRequested(row, level) == SelectInSeq(row.requested, LAMBDA l : l = level)

FirstProvided(row, level) == SelectInSeq(row.provided, LAMBDA p : p.level = level)

Approved(row, level, time) ==
  [requested |-> RemoveAt(row.requested, FirstRequested(row, level)),
   provided  |-> Append(row.provided, [level |-> level, time |-> time])]

\* MUTANT: an approval that is taken back is not requested again.
Forgotten(row, level) ==
  [row EXCEPT !.provided = RemoveAt(@, FirstProvided(row, level))]

Unapproved(row, level) ==
  [requested |-> Append(row.requested, level),
   provided  |-> RemoveAt(row.provided, FirstProvided(row, level))]

\* MUTANT: an approval counts that was given in the block of the invalidation.
ValidInBlock(approval) ==
  LET actor == approval.level[1]
  IN  actor \notin DOMAIN invalidations \/ invalidations[actor] <= approval.time

\* No invalidation by the actor is as late as the approval.
Valid(approval) ==
  LET actor == approval.level[1]
  IN  actor \notin DOMAIN invalidations \/ invalidations[actor] < approval.time

Counted(key) == {p.level : p \in {q \in Range(RowOf(key).provided) : Valid(q)}}

-----------------------------------------------------------------------------
(***************************************************************************)
(* The actions                                                             *)
(***************************************************************************)
\* propose fails, in check_transaction_authorization, unless those requested
\* would be enough.
Propose(key, requested, trx) ==
  /\ trx.expiration >= Seconds(now)
  /\ key \notin DOMAIN proposals
  /\ Authorized(trx, Range(requested))
  /\ key \notin DOMAIN approvals
  /\ proposals' = With(proposals, key, trx)
  /\ approvals' = With(approvals, key, [requested |-> requested, provided |-> <<>>])
  /\ UNCHANGED <<old_approvals, invalidations, deferred, now>>

\* With a hash, the proposal must exist and still be the one that was hashed.
Approve(key, level, hash) ==
  /\ hash # NoHash => key \in DOMAIN proposals /\ proposals[key] = hash
  /\ HasRow(key)
  /\ FirstRequested(RowOf(key), level) # 0
  /\ Modify(key, Approved(RowOf(key), level, TimeOfApproval(key)))
  /\ UNCHANGED <<proposals, invalidations, deferred, now>>

Unapprove(key, level) ==
  /\ HasRow(key)
  /\ FirstProvided(RowOf(key), level) # 0
  /\ Modify(key, Unapproved(RowOf(key), level))
  /\ UNCHANGED <<proposals, invalidations, deferred, now>>

\* The proposer can cancel at any time, others once the transaction expired.
Cancel(key, canceler) ==
  /\ key \in DOMAIN proposals
  /\ canceler # key[1] => proposals[key].expiration < Seconds(now)
  /\ HasRow(key)
  /\ proposals' = Without(proposals, key)
  /\ Erase(key)
  /\ UNCHANGED <<invalidations, deferred, now>>

\* MUTANT: the proposal stays when it is executed.
ExecAndKeep(key) ==
  /\ key \in DOMAIN proposals
  /\ proposals[key].expiration >= Seconds(now)
  /\ HasRow(key)
  /\ Authorized(proposals[key], Counted(key))
  /\ key \notin DOMAIN deferred
  /\ deferred' = With(deferred, key, proposals[key])
  /\ UNCHANGED <<proposals, approvals, old_approvals, invalidations, now>>

\* exec, by anybody.  The transaction is handed to the chain under the sender id
\* of the proposal, without replacing one that is still there.
Exec(key) ==
  /\ key \in DOMAIN proposals
  /\ proposals[key].expiration >= Seconds(now)
  /\ HasRow(key)
  /\ Authorized(proposals[key], Counted(key))
  /\ key \notin DOMAIN deferred
  /\ deferred' = With(deferred, key, proposals[key])
  /\ Erase(key)
  /\ proposals' = Without(proposals, key)
  /\ UNCHANGED <<invalidations, now>>

Invalidate(account) ==
  /\ invalidations' = With(invalidations, account, now)
  /\ UNCHANGED <<proposals, approvals, old_approvals, deferred, now>>

\* The chain runs or drops a deferred transaction, some time after it was sent.
ChainRuns(key) ==
  /\ key \in DOMAIN deferred
  /\ deferred' = Without(deferred, key)
  /\ UNCHANGED <<proposals, approvals, old_approvals, invalidations, now>>

NextBlock ==
  /\ now < MaxTime
  /\ now' = now + 1
  /\ UNCHANGED <<proposals, approvals, old_approvals, invalidations, deferred>>

Next ==
  \/ \E key \in Keys :
       \/ \E requested \in Requests, trx \in Transactions : Propose(key, requested, trx)
       \/ \E level \in Levels :
            \/ \E hash \in Transactions \cup {NoHash} : Approve(key, level, hash)
            \/ Unapprove(key, level)
       \/ \E canceler \in Accounts : Cancel(key, canceler)
       \/ Exec(key)
       \/ ChainRuns(key)
  \/ \E account \in Accounts : Invalidate(account)
  \/ NextBlock

Spec == Init /\ [][Next]_vars

-----------------------------------------------------------------------------
(***************************************************************************)
(* Properties                                                              *)
(***************************************************************************)
RowType == [requested : Seq(Levels), provided : Seq([level : Levels, time : -1 .. MaxTime])]

\* The shape of the tables; in particular no approval in the old table has a
\* time, and none in the new table was given, or invalidation made, in the future.
MsigTypeOK ==
  /\ DOMAIN proposals \subseteq Keys /\ proposals \in [DOMAIN proposals -> Transactions]
  /\ approvals \in [DOMAIN approvals -> RowType]
  /\ old_approvals \in [DOMAIN old_approvals -> RowType]
  /\ \A k \in DOMAIN approvals : \A p \in Range(approvals[k].provided) : p.time \in 0 .. now
  /\ \A k \in DOMAIN old_approvals :
       \A p \in Range(old_approvals[k].provided) : p.time = NoTime
  /\ DOMAIN invalidations \subseteq Accounts /\ invalidations \in [DOMAIN invalidations -> 0 .. now]
  /\ DOMAIN deferred \subseteq Keys /\ deferred \in [DOMAIN deferred -> Transactions]
  /\ now \in 0 .. MaxTime

\* Every proposal has its approvals in exactly one of the two tables and no row
\* of approvals is without a proposal, on which a new proposal of the same name
\* would fail, or start with the approvals of the former.
RowsPaired ==
  /\ DOMAIN approvals \cup DOMAIN old_approvals = DOMAIN proposals
  /\ DOMAIN approvals \cap DOMAIN old_approvals = {}

\* In the next block the level can approve the proposal, or take its approval
\* back and approve again, so that exec counts it and all it counted before.
CanAgree(key, level) ==
  LET row   == RowOf(key)
      asked == IF FirstProvided(row, level) = 0 THEN row ELSE Unapproved(row, level)
      again == Approved(asked, level, IF key \in DOMAIN approvals THEN now + 1 ELSE NoTime)
  IN  /\ FirstRequested(asked, level) # 0
      /\ Counted(key) \cup {level} \subseteq {p.level : p \in {q \in Range(again.provided) : Valid(q)}}

\* exec never again counts, for an old proposal, an actor that has invalidated.
Withdrawn(key, level) == key \notin DOMAIN approvals /\ level[1] \in DOMAIN invalidations

\* Whatever was approved, taken back and invalidated, in this block or before, a
\* proposal in the new table can be executed, until it expires, once those it
\* needs approve anew.  One in the old table can be lost for good, but only to
\* accounts that have themselves invalidated; the others can still approve it.
StillExecutable ==
  \A k \in DOMAIN proposals :
    Authorized(proposals[k], {level \in Levels : CanAgree(k, level) \/ Withdrawn(k, level)})

\* What exec would count towards a proposal changes only as its actors will: an
\* approval is added by nobody but its level, and an invalidation voids all the
\* account's approvals at once, of every proposal in either table, those given
\* earlier in the same block included.
ConsentStep ==
  \A k \in DOMAIN proposals \cap DOMAIN proposals' : \A level \in Counted(k)' :
    /\ level \notin Counted(k) => \E hash \in Transactions \cup {NoHash} : Approve(k, level, hash)
    /\ ~ Invalidate(level[1])

ConsentFollowsActors == [][ConsentStep]_vars

\* The levels that agree to each proposal, as exec would count them.
ConsentNow == [k \in DOMAIN proposals |-> Counted(k)]

Promise == INSTANCE Consent WITH open <- proposals, consent <- ConsentNow, pending <- deferred

\* The contract keeps the promise of Consent: a proposal starts without the
\* approvals of former ones of its name, is executed at most once, with enough
\* approvals that count at that moment, and never over one that is about to run.
KeepsPromise == Promise!Spec
=============================================================================
