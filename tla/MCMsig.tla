------------------------------- MODULE MCMsig -------------------------------
(****************************************************************************)
(* Two accounts and two proposals at a time.  A proposal needs both of them *)
(* or either, may request one of them twice, and one of the first proposals *)
(* is of the old version.                                                   *)
(****************************************************************************)
EXTENDS Msig
CONSTANTS alice, bob, active, first, second
AliceLevel == <<alice, active>>
BobLevel == <<bob, active>>
MCLevels == {AliceLevel, BobLevel}
NeedsBoth == [sufficient |-> {{AliceLevel, BobLevel}}, expiration |-> 1]
NeedsOne == [sufficient |-> {{AliceLevel}, {BobLevel}}, expiration |-> 0]
MCTransactions == {NeedsBoth, NeedsOne}
MCRequests == {<<AliceLevel, BobLevel>>, <<BobLevel, BobLevel>>}
MCOldRows == {[key |-> <<alice, first>>, trx |-> NeedsBoth, requested |-> <<AliceLevel>>,
               provided |-> <<[level |-> BobLevel, time |-> NoTime]>>]}
=============================================================================
