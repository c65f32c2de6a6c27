----------------------------- MODULE MsigProofs -----------------------------
(***************************************************************************)
(* The properties of eosio.msig, and that it implements Consent, for any   *)
(* accounts, levels, proposals, requests and transactions.                 *)
(***************************************************************************)
EXTENDS Msig, SequenceTheorems, SumProofs, TLAPS

-----------------------------------------------------------------------------
(***************************************************************************)
(* Lists                                                                   *)
(***************************************************************************)
\* A set of positive numbers has a smallest one, which Min finds.
LEMMA MinOfPositions ==
  ASSUME NEW S \in SUBSET Nat, S # {}
  PROVE  Min(S) \in S
<1> DEFINE B == {0 .. n : n \in S}
<1>1. PICK m \in S : TRUE
  OBVIOUS
<1> DEFINE C == {T \in B : T \subseteq 0 .. m}
<1>2. C \in SUBSET (SUBSET (0 .. m)) /\ C # {} /\ IsFiniteSet(0 .. m)
  <2>1. IsFiniteSet(0 .. m)
    BY FS_Interval
  <2>2. 0 .. m \in C
    OBVIOUS
  <2>3. C \subseteq SUBSET (0 .. m)
    OBVIOUS
  <2> QED
    BY <2>1, <2>2, <2>3, Zenon
<1>3. PICK T \in C : \A U \in SUBSET T : U # T => U \notin C
  <2> HIDE DEF C
  <2>1. PICK M : M = 0 .. m
    OBVIOUS
  <2>2. C \in SUBSET (SUBSET M) /\ C # {} /\ IsFiniteSet(M)
    BY <1>2, <2>1
  <2> QED
    BY <2>2, SmallestSubset
<1>4. PICK n \in S : T = 0 .. n
  BY <1>3
<1>5. ASSUME NEW y \in S PROVE n <= y
  <2>1. n \in Nat /\ y \in Nat
    OBVIOUS
  <2>2. SUFFICES ASSUME y < n PROVE FALSE
    BY <2>1
  <2>3. 0 .. y \subseteq T /\ 0 .. y # T
    <3>1. n \in 0 .. n /\ n \notin 0 .. y
      BY <2>1, <2>2
    <3> QED
      BY <2>1, <2>2, <3>1, <1>4
  <2>4. 0 .. y \in C
    BY <2>3, <1>3
  <2> QED
    BY <2>3, <2>4, <1>3
<1> QED
  BY <1>4, <1>5 DEF Min

\* The entry that unapprove finds is one of the level.
LEMMA FirstProvidedIn ==
  ASSUME NEW S, NEW row, row.provided \in Seq(S), NEW level, FirstProvided(row, level) # 0
  PROVE  /\ FirstProvided(row, level) \in 1 .. Len(row.provided)
         /\ row.provided[FirstProvided(row, level)].level = level
<1> DEFINE I == {i \in 1 .. Len(row.provided) : row.provided[i].level = level}
<1>1. FirstProvided(row, level) = IF I # {} THEN Min(I) ELSE 0
  BY DEF FirstProvided, SelectInSeq
<1>2. I \in SUBSET Nat
  BY LenProperties
<1>3. I # {}
  BY <1>1
<1>4. Min(I) \in I
  BY <1>2, <1>3, MinOfPositions
<1> QED
  BY <1>1, <1>3, <1>4

\* The entry that approve finds is the level.
LEMMA FirstRequestedIn ==
  ASSUME NEW S, NEW row, row.requested \in Seq(S), NEW level, FirstRequested(row, level) # 0
  PROVE  /\ FirstRequested(row, level) \in 1 .. Len(row.requested)
         /\ row.requested[FirstRequested(row, level)] = level
<1> DEFINE I == {i \in 1 .. Len(row.requested) : row.requested[i] = level}
<1>1. FirstRequested(row, level) = IF I # {} THEN Min(I) ELSE 0
  BY DEF FirstRequested, SelectInSeq
<1>2. I \in SUBSET Nat
  BY LenProperties
<1>3. I # {}
  BY <1>1
<1>4. Min(I) \in I
  BY <1>2, <1>3, MinOfPositions
<1> QED
  BY <1>1, <1>3, <1>4

\* A list without one entry has the other entries still.
LEMMA RemoveAtRange ==
  ASSUME NEW S, NEW s \in Seq(S), NEW i \in 1 .. Len(s)
  PROVE  /\ RemoveAt(s, i) \in Seq(S)
         /\ Range(RemoveAt(s, i)) \subseteq Range(s)
         /\ \A e \in Range(s) : e # s[i] => e \in Range(RemoveAt(s, i))
<1> DEFINE a == SubSeq(s, 1, i - 1)
           b == SubSeq(s, i + 1, Len(s))
<1>1. Len(s) \in Nat /\ \A j \in 1 .. Len(s) : s[j] \in S
  BY LenProperties
<1>2. /\ a \in Seq(S) /\ Len(a) = i - 1
      /\ \A j \in 1 .. i - 1 : a[j] = s[j]
  BY <1>1, SubSeqProperties
<1>3. /\ b \in Seq(S) /\ Len(b) = Len(s) - i
      /\ \A j \in 1 .. Len(s) - i : b[j] = s[i + j]
  BY <1>1, SubSeqProperties
<1> HIDE DEF a, b
<1>4. a \o b \in Seq(S) /\ Range(a \o b) = Range(a) \cup Range(b)
  BY <1>2, <1>3, ConcatProperties, RangeConcatenation
<1>5. /\ Range(a) = {a[j] : j \in 1 .. i - 1}
      /\ Range(b) = {b[j] : j \in 1 .. Len(s) - i}
      /\ Range(s) = {s[j] : j \in 1 .. Len(s)}
  BY <1>2, <1>3, RangeEquality
<1>6. Range(a) \cup Range(b) \subseteq Range(s)
  BY <1>1, <1>2, <1>3, <1>5
<1>7. ASSUME NEW j \in 1 .. Len(s), j # i PROVE s[j] \in Range(a) \cup Range(b)
  <2>1. CASE j < i
    <3>1. j \in 1 .. i - 1
      BY <1>1, <2>1
    <3> QED
      BY <3>1, <1>2, <1>5
  <2>2. CASE j > i
    <3>1. j - i \in 1 .. Len(s) - i /\ i + (j - i) = j
      BY <1>1, <2>2
    <3>2. b[j - i] = s[j]
      BY <3>1, <1>3
    <3> QED
      BY <3>1, <3>2, <1>5
  <2> QED
    BY <1>1, <1>7, <2>1, <2>2
<1>8. RemoveAt(s, i) = a \o b
  BY DEF RemoveAt, a, b
<1> QED
  BY <1>4, <1>5, <1>6, <1>7, <1>8

\* A list with one entry more.
LEMMA AppendRange ==
  ASSUME NEW S, NEW s \in Seq(S), NEW e \in S
  PROVE  Append(s, e) \in Seq(S) /\ Range(Append(s, e)) = Range(s) \cup {e}
<1>1. /\ Append(s, e) \in Seq(S)
      /\ Len(Append(s, e)) = Len(s) + 1
      /\ \A i \in 1 .. Len(s) : Append(s, e)[i] = s[i]
      /\ Append(s, e)[Len(s) + 1] = e
  BY AppendProperties
<1>2. /\ Range(s) = {s[i] : i \in 1 .. Len(s)}
      /\ Range(Append(s, e)) = {Append(s, e)[i] : i \in 1 .. Len(s) + 1}
  BY <1>1, RangeEquality
<1>3. Len(s) \in Nat
  BY LenProperties
<1> QED
  BY <1>1, <1>2, <1>3
-----------------------------------------------------------------------------
(***************************************************************************)
(* Types                                                                   *)
(***************************************************************************)
Entry == [level : Levels, time : -1 .. MaxTime]

\* What a row is known to be in a typed state.
LEMMA RowTyped ==
  ASSUME MsigTypeOK, NEW key, HasRow(key)
  PROVE  /\ RowOf(key) \in RowType
         /\ RowOf(key).requested \in Seq(Levels)
         /\ RowOf(key).provided \in Seq(Entry)
         /\ key \in DOMAIN approvals => \A p \in Range(RowOf(key).provided) : p.time \in 0 .. now
         /\ key \notin DOMAIN approvals => \A p \in Range(RowOf(key).provided) : p.time = NoTime
         /\ \A p \in Range(RowOf(key).provided) : p \in Entry
<1>1. RowOf(key) \in RowType
  BY DEF HasRow, RowOf, MsigTypeOK
<1>2. RowOf(key).requested \in Seq(Levels) /\ RowOf(key).provided \in Seq(Entry)
  BY <1>1 DEF RowType, Entry
<1>3. \A p \in Range(RowOf(key).provided) : p \in Entry
  BY <1>2, RangeOfSeq
<1> QED
  BY <1>1, <1>2, <1>3 DEF HasRow, RowOf, MsigTypeOK

\* The entry that approve adds.
LEMMA ApprovedEntries ==
  ASSUME MsigTypeOK, NEW key, HasRow(key), NEW level \in Levels,
         FirstRequested(RowOf(key), level) # 0
  PROVE  LET row == Approved(RowOf(key), level, TimeOfApproval(key))
         IN  /\ row \in RowType
             /\ Range(row.provided) = Range(RowOf(key).provided)
                                         \cup {[level |-> level, time |-> TimeOfApproval(key)]}
<1> DEFINE p == [level |-> level, time |-> TimeOfApproval(key)]
           old == RowOf(key)
           row == Approved(old, level, TimeOfApproval(key))
<1>1. old.requested \in Seq(Levels) /\ old.provided \in Seq(Entry)
  BY RowTyped
<1>2. p \in Entry
  <2>1. TimeOfApproval(key) \in -1 .. MaxTime
    BY MsigAssumption DEF TimeOfApproval, NoTime, MsigTypeOK
  <2> QED
    BY <2>1 DEF Entry
<1>3. FirstRequested(old, level) \in 1 .. Len(old.requested)
  BY <1>1, FirstRequestedIn
<1>4. RemoveAt(old.requested, FirstRequested(old, level)) \in Seq(Levels)
  BY <1>1, <1>3, RemoveAtRange
<1>5. /\ Append(old.provided, p) \in Seq(Entry)
      /\ Range(Append(old.provided, p)) = Range(old.provided) \cup {p}
  BY <1>1, <1>2, AppendRange
<1>6. row = [requested |-> RemoveAt(old.requested, FirstRequested(old, level)),
             provided  |-> Append(old.provided, p)]
  BY DEF Approved
<1> HIDE DEF p, old, row
<1>7. row \in RowType /\ Range(row.provided) = Range(old.provided) \cup {p}
  BY <1>4, <1>5, <1>6 DEF RowType, Entry
<1> QED
  BY <1>7 DEF p, old, row

\* unapprove removes one entry of the level and no other.
LEMMA UnapprovedEntries ==
  ASSUME MsigTypeOK, NEW key, HasRow(key), NEW level \in Levels,
         FirstProvided(RowOf(key), level) # 0
  PROVE  LET row == Unapproved(RowOf(key), level)
         IN  /\ row \in RowType
             /\ Range(row.provided) \subseteq Range(RowOf(key).provided)
             /\ \A p \in Range(RowOf(key).provided) :
                  p.level # level => p \in Range(row.provided)
<1> DEFINE old == RowOf(key)
           row == Unapproved(old, level)
           i == FirstProvided(old, level)
<1>1. old.requested \in Seq(Levels) /\ old.provided \in Seq(Entry)
  BY RowTyped
<1>2. i \in 1 .. Len(old.provided) /\ old.provided[i].level = level
  BY <1>1, FirstProvidedIn
<1>3. Append(old.requested, level) \in Seq(Levels)
  BY <1>1, AppendRange
<1>4. row = [requested |-> Append(old.requested, level), provided |-> RemoveAt(old.provided, i)]
  BY DEF Unapproved
<1> HIDE DEF old, row, i
<1>5. /\ RemoveAt(old.provided, i) \in Seq(Entry)
      /\ Range(RemoveAt(old.provided, i)) \subseteq Range(old.provided)
      /\ \A p \in Range(old.provided) :
           p # old.provided[i] => p \in Range(RemoveAt(old.provided, i))
  BY <1>1, <1>2, RemoveAtRange
<1>6. /\ row \in RowType
      /\ Range(row.provided) \subseteq Range(old.provided)
      /\ \A p \in Range(old.provided) : p.level # level => p \in Range(row.provided)
  BY <1>2, <1>3, <1>4, <1>5 DEF RowType, Entry
<1> QED
  BY <1>6 DEF old, row

\* Changing a row keeps the tables typed.
LEMMA ModifyTyped ==
  ASSUME MsigTypeOK, NEW key, HasRow(key), NEW row \in RowType, Modify(key, row),
         key \in DOMAIN approvals => \A p \in Range(row.provided) : p.time \in 0 .. now,
         key \notin DOMAIN approvals => \A p \in Range(row.provided) : p.time = NoTime,
         UNCHANGED <<proposals, invalidations, deferred, now>>
  PROVE  MsigTypeOK'
<1>1. CASE key \in DOMAIN approvals
  <2>1. /\ approvals' \in [DOMAIN approvals' -> RowType]
        /\ \A k \in DOMAIN approvals' : approvals'[k] = IF k = key THEN row ELSE approvals[k]
        /\ DOMAIN approvals' = DOMAIN approvals
        /\ old_approvals' = old_approvals
    BY <1>1 DEF Modify, MsigTypeOK
  <2> QED
    BY <1>1, <2>1 DEF MsigTypeOK
<1>2. CASE key \notin DOMAIN approvals
  <2>1. /\ old_approvals' \in [DOMAIN old_approvals' -> RowType]
        /\ \A k \in DOMAIN old_approvals' :
             old_approvals'[k] = IF k = key THEN row ELSE old_approvals[k]
        /\ DOMAIN old_approvals' = DOMAIN old_approvals
        /\ approvals' = approvals
    BY <1>2 DEF Modify, MsigTypeOK
  <2> QED
    BY <1>2, <2>1 DEF MsigTypeOK
<1> QED
  BY <1>1, <1>2

\* Erasing a row keeps the tables of approvals typed.
LEMMA EraseTyped ==
  ASSUME MsigTypeOK, NEW key, Erase(key), now' = now
  PROVE  /\ approvals' \in [DOMAIN approvals' -> RowType]
         /\ old_approvals' \in [DOMAIN old_approvals' -> RowType]
         /\ \A k \in DOMAIN approvals' : \A p \in Range(approvals'[k].provided) : p.time \in 0 .. now'
         /\ \A k \in DOMAIN old_approvals' :
              \A p \in Range(old_approvals'[k].provided) : p.time = NoTime
  BY DEF MsigTypeOK, Erase, Without

\* The tables have their shape, nothing is from the future, and old approvals
\* have no time.
THEOREM MsigTypeCorrect == Spec => []MsigTypeOK
<1>1. Init => MsigTypeOK
  <2> SUFFICES ASSUME Init PROVE MsigTypeOK
    OBVIOUS
  <2>1. PICK rows \in SUBSET OldRows :
          LET Row(key) == CHOOSE r \in rows : r.key = key
              keys == {r.key : r \in rows}
          IN  /\ proposals = [k \in keys |-> Row(k).trx]
              /\ old_approvals = [k \in keys |-> [requested |-> Row(k).requested,
                                                  provided  |-> Row(k).provided]]
    BY DEF Init
  <2> DEFINE Row(key) == CHOOSE r \in rows : r.key = key
             keys == {r.key : r \in rows}
  <2>2. \A k \in keys : Row(k) \in OldRowType /\ Row(k).key = k
    BY MsigAssumption
  <2>3. \A k \in keys : /\ k \in Keys
                        /\ Row(k).trx \in Transactions
                        /\ Row(k).requested \in Seq(Levels)
                        /\ Row(k).provided \in Seq([level : Levels, time : {NoTime}])
    <3> SUFFICES ASSUME NEW k \in keys
                 PROVE  /\ k \in Keys
                        /\ Row(k).trx \in Transactions
                        /\ Row(k).requested \in Seq(Levels)
                        /\ Row(k).provided \in Seq([level : Levels, time : {NoTime}])
      OBVIOUS
    <3>1. PICK r : r = Row(k)
      OBVIOUS
    <3>2. r \in OldRowType /\ r.key = k
      BY <2>2, <3>1
    <3> HIDE DEF Row, keys
    <3>3. k \in Keys /\ r.trx \in Transactions /\ r.requested \in Seq(Levels)
          /\ r.provided \in Seq([level : Levels, time : {NoTime}])
      BY <3>2 DEF OldRowType, Keys
    <3> QED
      BY <3>1, <3>3
  <2>4. \A s \in Seq([level : Levels, time : {NoTime}]) :
          s \in Seq(Entry) /\ \A p \in Range(s) : p.time = NoTime
    <3>1. [level : Levels, time : {NoTime}] \subseteq Entry
      BY MsigAssumption DEF Entry, NoTime
    <3>2. ASSUME NEW s \in Seq([level : Levels, time : {NoTime}])
          PROVE  s \in Seq(Entry) /\ \A p \in Range(s) : p.time = NoTime
      <4>1. s \in Seq(Entry)
        BY <3>1, SeqMonotonic
      <4>2. Range(s) \subseteq [level : Levels, time : {NoTime}]
        BY RangeOfSeq
      <4> QED
        BY <4>1, <4>2
    <3> QED
      BY <3>2
  <2>5. /\ DOMAIN proposals = keys /\ DOMAIN old_approvals = keys
        /\ \A k \in keys : proposals[k] = Row(k).trx
        /\ \A k \in keys : old_approvals[k] = [requested |-> Row(k).requested,
                                                provided  |-> Row(k).provided]
        /\ proposals = [k \in DOMAIN proposals |-> proposals[k]]
        /\ old_approvals = [k \in DOMAIN old_approvals |-> old_approvals[k]]
    BY <2>1
  <2> HIDE DEF Row, keys
  <2>6. /\ DOMAIN proposals \subseteq Keys /\ proposals \in [DOMAIN proposals -> Transactions]
        /\ old_approvals \in [DOMAIN old_approvals -> RowType]
        /\ \A k \in DOMAIN old_approvals :
             \A p \in Range(old_approvals[k].provided) : p.time = NoTime
    <3>1. ASSUME NEW k \in keys
          PROVE  /\ old_approvals[k] \in RowType
                 /\ \A p \in Range(old_approvals[k].provided) : p.time = NoTime
      <4>1. Row(k).requested \in Seq(Levels) /\ Row(k).provided \in Seq(Entry)
            /\ \A p \in Range(Row(k).provided) : p.time = NoTime
        BY <2>3, <2>4
      <4>2. old_approvals[k] = [requested |-> Row(k).requested, provided |-> Row(k).provided]
        BY <2>5
      <4>3. old_approvals[k].provided = Row(k).provided
        BY <4>2
      <4> QED
        BY <4>1, <4>2, <4>3 DEF RowType, Entry
    <3>2. \A k \in keys : k \in Keys /\ proposals[k] \in Transactions
      BY <2>3, <2>5
    <3> QED
      BY <2>5, <3>1, <3>2
  <2>7. /\ approvals = [k \in {} |-> 0] /\ invalidations = [a \in {} |-> 0]
        /\ deferred = [k \in {} |-> 0] /\ now = 0
    BY DEF Init
  <2>8. /\ DOMAIN approvals = {} /\ approvals \in [DOMAIN approvals -> RowType]
        /\ DOMAIN invalidations = {} /\ invalidations \in [DOMAIN invalidations -> 0 .. now]
        /\ DOMAIN deferred = {} /\ deferred \in [DOMAIN deferred -> Transactions]
        /\ now \in 0 .. MaxTime
    BY <2>7, MsigAssumption
  <2> QED
    BY <2>6, <2>8 DEF MsigTypeOK
<1>2. MsigTypeOK /\ [Next]_vars => MsigTypeOK'
  <2> SUFFICES ASSUME MsigTypeOK, [Next]_vars PROVE MsigTypeOK'
    OBVIOUS
  <2>1. ASSUME NEW key \in Keys, NEW requested \in Requests, NEW trx \in Transactions,
               Propose(key, requested, trx)
        PROVE  MsigTypeOK'
    <3>1. [requested |-> requested, provided |-> <<>>] \in RowType /\ Range(<<>>) = {}
      BY MsigAssumption DEF RowType, Range
    <3>2. /\ DOMAIN proposals' \subseteq Keys
          /\ proposals' \in [DOMAIN proposals' -> Transactions]
      BY <2>1 DEF Propose, With, MsigTypeOK
    <3>3. /\ approvals' \in [DOMAIN approvals' -> RowType]
          /\ \A k \in DOMAIN approvals' : \/ k \in DOMAIN approvals /\ approvals'[k] = approvals[k]
                                          \/ Range(approvals'[k].provided) = {}
      BY <2>1, <3>1 DEF Propose, With, MsigTypeOK
    <3> QED
      BY <2>1, <3>2, <3>3 DEF Propose, MsigTypeOK
  <2>2. ASSUME NEW key \in Keys, NEW level \in Levels, NEW hash, Approve(key, level, hash)
        PROVE  MsigTypeOK'
    <3> DEFINE row == Approved(RowOf(key), level, TimeOfApproval(key))
    <3>1. /\ HasRow(key) /\ FirstRequested(RowOf(key), level) # 0 /\ Modify(key, row)
          /\ UNCHANGED <<proposals, invalidations, deferred, now>>
      BY <2>2 DEF Approve
    <3>2. /\ row \in RowType
          /\ Range(row.provided) = Range(RowOf(key).provided)
                                      \cup {[level |-> level, time |-> TimeOfApproval(key)]}
      BY <3>1, ApprovedEntries
    <3> HIDE DEF row
    <3>3. /\ key \in DOMAIN approvals => \A p \in Range(row.provided) : p.time \in 0 .. now
          /\ key \notin DOMAIN approvals => \A p \in Range(row.provided) : p.time = NoTime
      <4>1. now \in 0 .. now
        BY DEF MsigTypeOK
      <4> QED
        BY <3>1, <3>2, <4>1, RowTyped DEF TimeOfApproval
    <3> QED
      BY <3>1, <3>2, <3>3, ModifyTyped
  <2>3. ASSUME NEW key \in Keys, NEW level \in Levels, Unapprove(key, level)
        PROVE  MsigTypeOK'
    <3> DEFINE row == Unapproved(RowOf(key), level)
    <3>1. /\ HasRow(key) /\ FirstProvided(RowOf(key), level) # 0 /\ Modify(key, row)
          /\ UNCHANGED <<proposals, invalidations, deferred, now>>
      BY <2>3 DEF Unapprove
    <3>2. row \in RowType /\ Range(row.provided) \subseteq Range(RowOf(key).provided)
      BY <3>1, UnapprovedEntries
    <3> HIDE DEF row
    <3>3. /\ key \in DOMAIN approvals => \A p \in Range(row.provided) : p.time \in 0 .. now
          /\ key \notin DOMAIN approvals => \A p \in Range(row.provided) : p.time = NoTime
      BY <3>1, <3>2, RowTyped
    <3> QED
      BY <3>1, <3>2, <3>3, ModifyTyped
  <2>4. ASSUME NEW key \in Keys, Erase(key), proposals' = Without(proposals, key),
               UNCHANGED <<invalidations, now>>,
               DOMAIN deferred' \subseteq Keys /\ deferred' \in [DOMAIN deferred' -> Transactions]
        PROVE  MsigTypeOK'
    <3>1. /\ DOMAIN proposals' \subseteq Keys
          /\ proposals' \in [DOMAIN proposals' -> Transactions]
      BY <2>4 DEF Without, MsigTypeOK
    <3> QED
      BY <2>4, <3>1, EraseTyped DEF MsigTypeOK
  <2>5. ASSUME NEW key \in Keys, NEW canceler, Cancel(key, canceler) PROVE MsigTypeOK'
    BY <2>4, <2>5 DEF Cancel, MsigTypeOK
  <2>6. ASSUME NEW key \in Keys, Exec(key) PROVE MsigTypeOK'
    <3>1. DOMAIN deferred' \subseteq Keys /\ deferred' \in [DOMAIN deferred' -> Transactions]
      BY <2>6 DEF Exec, With, MsigTypeOK
    <3> QED
      BY <2>4, <2>6, <3>1 DEF Exec
  <2>7. ASSUME NEW key \in Keys, ChainRuns(key) PROVE MsigTypeOK'
    BY <2>7 DEF ChainRuns, Without, MsigTypeOK
  <2>8. ASSUME NEW account \in Accounts, Invalidate(account) PROVE MsigTypeOK'
    <3>1. /\ DOMAIN invalidations' \subseteq Accounts
          /\ invalidations' \in [DOMAIN invalidations' -> 0 .. now]
      BY <2>8 DEF Invalidate, With, MsigTypeOK
    <3> QED
      BY <2>8, <3>1 DEF Invalidate, MsigTypeOK
  <2>9. CASE NextBlock
    <3>1. 0 .. now \subseteq 0 .. now' /\ now' \in 0 .. MaxTime
      BY <2>9, MsigAssumption DEF NextBlock, MsigTypeOK
    <3> QED
      BY <2>9, <3>1 DEF NextBlock, MsigTypeOK
  <2>10. CASE UNCHANGED vars
    BY <2>10 DEF vars, MsigTypeOK
  <2> QED
    BY <2>1, <2>2, <2>3, <2>5, <2>6, <2>7, <2>8, <2>9, <2>10 DEF Next
<1> QED
  BY <1>1, <1>2, PTL DEF Spec

\* Every proposal has its approvals in exactly one of the two tables, so propose
\* never meets a row that cancel or exec left behind.
THEOREM ProposalsPaired == Spec => []RowsPaired
<1>1. Init => RowsPaired
  BY DEF Init, RowsPaired
<1>2. RowsPaired /\ [Next]_vars => RowsPaired'
  <2> SUFFICES ASSUME RowsPaired, [Next]_vars PROVE RowsPaired'
    OBVIOUS
  <2>1. ASSUME NEW key, NEW row, Modify(key, row), UNCHANGED proposals PROVE RowsPaired'
    <3>1. DOMAIN approvals' = DOMAIN approvals /\ DOMAIN old_approvals' = DOMAIN old_approvals
      BY <2>1 DEF Modify
    <3> QED
      BY <2>1, <3>1 DEF RowsPaired
  <2>2. ASSUME NEW key, Erase(key), proposals' = Without(proposals, key) PROVE RowsPaired'
    BY <2>2 DEF Erase, Without, RowsPaired
  <2>3. ASSUME NEW key, NEW requested, NEW trx, Propose(key, requested, trx) PROVE RowsPaired'
    BY <2>3 DEF Propose, With, RowsPaired
  <2>4. ASSUME NEW key, NEW level, NEW hash, Approve(key, level, hash) PROVE RowsPaired'
    BY <2>1, <2>4 DEF Approve
  <2>5. ASSUME NEW key, NEW level, Unapprove(key, level) PROVE RowsPaired'
    BY <2>1, <2>5 DEF Unapprove
  <2>6. ASSUME NEW key, NEW canceler, Cancel(key, canceler) PROVE RowsPaired'
    BY <2>2, <2>6 DEF Cancel
  <2>7. ASSUME NEW key, Exec(key) PROVE RowsPaired'
    BY <2>2, <2>7 DEF Exec
  <2>8. CASE UNCHANGED <<proposals, approvals, old_approvals>>
    BY <2>8 DEF RowsPaired
  <2> QED
    BY <2>3, <2>4, <2>5, <2>6, <2>7, <2>8 DEF Next, vars, ChainRuns, Invalidate, NextBlock
<1> QED
  BY <1>1, <1>2, PTL DEF Spec
-----------------------------------------------------------------------------
(***************************************************************************)
(* What each action does to the approvals that count                       *)
(***************************************************************************)
\* Other rows stay as they are.
LEMMA OtherRows ==
  ASSUME NEW key, NEW k, k # key, HasRow(k), \/ \E row : Modify(key, row)
                                           \/ Erase(key)
                                           \/ /\ \E row : approvals' = With(approvals, key, row)
                                              /\ UNCHANGED old_approvals
  PROVE  RowOf(k)' = RowOf(k)
<1>1. CASE \E row : Modify(key, row)
  BY <1>1 DEF Modify, RowOf, HasRow
<1>2. CASE Erase(key)
  BY <1>2 DEF Erase, Without, RowOf, HasRow
<1>3. CASE (\E row : approvals' = With(approvals, key, row)) /\ UNCHANGED old_approvals
  BY <1>3 DEF With, RowOf, HasRow
<1> QED
  BY <1>1, <1>2, <1>3

\* The row that is changed.
LEMMA ModifiedRow ==
  ASSUME NEW key, HasRow(key), NEW row, Modify(key, row)
  PROVE  RowOf(key)' = row
  BY DEF Modify, RowOf, HasRow

\* The same row counts the same as long as nobody invalidates.
LEMMA SameCount ==
  ASSUME NEW k, RowOf(k)' = RowOf(k), invalidations' = invalidations
  PROVE  Counted(k)' = Counted(k)
  BY DEF Counted, Valid

\* approve adds its level at most.
LEMMA CountAfterApprove ==
  ASSUME MsigTypeOK, NEW key, NEW level \in Levels, NEW hash, Approve(key, level, hash)
  PROVE  Counted(key) \subseteq Counted(key)' /\ Counted(key)' \subseteq Counted(key) \cup {level}
<1> DEFINE row == Approved(RowOf(key), level, TimeOfApproval(key))
           p == [level |-> level, time |-> TimeOfApproval(key)]
<1>1. /\ HasRow(key) /\ FirstRequested(RowOf(key), level) # 0 /\ Modify(key, row)
      /\ invalidations' = invalidations
  BY DEF Approve
<1>2. Range(row.provided) = Range(RowOf(key).provided) \cup {p}
  BY <1>1, ApprovedEntries
<1>3. RowOf(key)' = row
  BY <1>1, ModifiedRow
<1>4. p.level = level
  OBVIOUS
<1> HIDE DEF row, p
<1> QED
  BY <1>1, <1>2, <1>3, <1>4 DEF Counted, Valid

\* unapprove takes its level away at most.
LEMMA CountAfterUnapprove ==
  ASSUME MsigTypeOK, NEW key, NEW level \in Levels, Unapprove(key, level)
  PROVE  Counted(key)' \subseteq Counted(key) /\ Counted(key) \ {level} \subseteq Counted(key)'
<1> DEFINE row == Unapproved(RowOf(key), level)
<1>1. /\ HasRow(key) /\ FirstProvided(RowOf(key), level) # 0 /\ Modify(key, row)
      /\ invalidations' = invalidations
  BY DEF Unapprove
<1>2. /\ Range(row.provided) \subseteq Range(RowOf(key).provided)
      /\ \A p \in Range(RowOf(key).provided) : p.level # level => p \in Range(row.provided)
  BY <1>1, UnapprovedEntries
<1>3. RowOf(key)' = row
  BY <1>1, ModifiedRow
<1> HIDE DEF row
<1> QED
  BY <1>1, <1>2, <1>3 DEF Counted, Valid

\* invalidate voids what the account approved, since nothing is as late as now.
LEMMA CountAfterInvalidate ==
  ASSUME MsigTypeOK, NEW account, Invalidate(account), NEW k, HasRow(k)
  PROVE  Counted(k)' = {l \in Counted(k) : l[1] # account}
<1>1. RowOf(k)' = RowOf(k)
  BY DEF Invalidate, RowOf
<1>2. \A p \in Range(RowOf(k).provided) : p.time \in Int /\ p.time <= now
  BY RowTyped DEF NoTime, MsigTypeOK
<1>3. ASSUME NEW p \in Range(RowOf(k).provided)
      PROVE  Valid(p)' <=> Valid(p) /\ p.level[1] # account
  <2>1. /\ DOMAIN invalidations' = DOMAIN invalidations \cup {account}
        /\ invalidations'[account] = now
        /\ \A a \in DOMAIN invalidations : a # account => invalidations'[a] = invalidations[a]
    BY DEF Invalidate, With
  <2>2. CASE p.level[1] = account
    <3>1. ~ (now < p.time)
      BY <1>2 DEF MsigTypeOK
    <3> QED
      BY <2>1, <2>2, <3>1 DEF Valid
  <2>3. CASE p.level[1] # account
    BY <2>1, <2>3 DEF Valid
  <2> QED
    BY <2>2, <2>3
<1> QED
  BY <1>1, <1>3 DEF Counted

\* What exec would count towards a proposal changes only as its actors will.
THEOREM ConsentIsOwn == Spec => ConsentFollowsActors
<1>1. MsigTypeOK /\ RowsPaired /\ [Next]_vars => [ConsentStep]_vars
  <2> SUFFICES ASSUME MsigTypeOK, RowsPaired, Next,
                      NEW k \in DOMAIN proposals \cap DOMAIN proposals',
                      NEW level \in Counted(k)'
               PROVE  /\ level \notin Counted(k) =>
                           \E hash \in Transactions \cup {NoHash} : Approve(k, level, hash)
                      /\ ~ Invalidate(level[1])
    BY DEF ConsentStep
  <2>1. HasRow(k)
    BY DEF RowsPaired, HasRow
  <2>2. ASSUME Invalidate(level[1]) PROVE FALSE
    BY <2>1, <2>2, CountAfterInvalidate
  <2>3. ASSUME level \notin Counted(k)
        PROVE  \E hash \in Transactions \cup {NoHash} : Approve(k, level, hash)
    <3>1. ASSUME RowOf(k)' = RowOf(k), invalidations' = invalidations PROVE FALSE
      BY <2>3, <3>1, SameCount
    <3>2. ASSUME NEW key, NEW requested, NEW trx, Propose(key, requested, trx) PROVE FALSE
      <4>1. k # key
        BY <3>2 DEF Propose
      <4> QED
        BY <2>1, <3>1, <3>2, <4>1, OtherRows DEF Propose
    <3>3. ASSUME NEW key, NEW l \in Levels, NEW hash \in Transactions \cup {NoHash},
                 Approve(key, l, hash)
          PROVE  Approve(k, level, hash)
      <4>1. k = key
        BY <2>1, <3>1, <3>3, OtherRows DEF Approve
      <4>2. level = l
        BY <2>3, <3>3, <4>1, CountAfterApprove
      <4> QED
        BY <3>3, <4>1, <4>2
    <3>4. ASSUME NEW key, NEW l \in Levels, Unapprove(key, l) PROVE FALSE
      <4>1. k = key
        BY <2>1, <3>1, <3>4, OtherRows DEF Unapprove
      <4> QED
        BY <2>3, <3>4, <4>1, CountAfterUnapprove
    <3>5. ASSUME NEW key, Erase(key), proposals' = Without(proposals, key),
                 invalidations' = invalidations
          PROVE  FALSE
      <4>1. k # key
        BY <3>5 DEF Without
      <4> QED
        BY <2>1, <3>1, <3>5, <4>1, OtherRows
    <3>6. ASSUME NEW account, Invalidate(account) PROVE FALSE
      BY <2>1, <2>3, <3>6, CountAfterInvalidate
    <3>7. ASSUME UNCHANGED <<approvals, old_approvals, invalidations>> PROVE FALSE
      BY <3>1, <3>7 DEF RowOf
    <3> QED
      BY <3>2, <3>3, <3>4, <3>5, <3>6, <3>7 DEF Next, Cancel, Exec, ChainRuns, NextBlock
  <2> QED
    BY <2>2, <2>3
<1> QED
  BY <1>1, MsigTypeCorrect, ProposalsPaired, PTL DEF Spec, ConsentFollowsActors

-----------------------------------------------------------------------------
(***************************************************************************)
(* The refinement of Consent                                               *)
(***************************************************************************)
\* Closing a proposal in both tables closes it in Consent.
LEMMA ErasedIsClosed ==
  ASSUME RowsPaired, NEW key, Erase(key), proposals' = Without(proposals, key),
         invalidations' = invalidations
  PROVE  Promise!Closed(key)
<1>1. DOMAIN proposals' = DOMAIN proposals \ {key}
  BY DEF Without
<1>2. ASSUME NEW k \in DOMAIN proposals \ {key} PROVE Counted(k)' = Counted(k)
  <2>1. RowOf(k)' = RowOf(k)
    BY OtherRows DEF RowsPaired, HasRow
  <2> QED
    BY <2>1, SameCount
<1> QED
  BY <1>1, <1>2 DEF Promise!Closed, ConsentNow, Without

\* The approvals that count towards one proposal change, and no others.
LEMMA OneConsent ==
  ASSUME RowsPaired, NEW key, HasRow(key), NEW row, Modify(key, row),
         UNCHANGED <<proposals, invalidations, deferred>>
  PROVE  /\ key \in DOMAIN proposals
         /\ ConsentNow' = [ConsentNow EXCEPT ![key] = Counted(key)']
         /\ ConsentNow[key] = Counted(key)
<1>1. key \in DOMAIN proposals
  BY DEF RowsPaired, HasRow
<1>2. ASSUME NEW k \in DOMAIN proposals, k # key PROVE Counted(k)' = Counted(k)
  <2>1. RowOf(k)' = RowOf(k)
    BY <1>2, OtherRows DEF RowsPaired, HasRow
  <2> QED
    BY <2>1, SameCount
<1> QED
  BY <1>1, <1>2 DEF ConsentNow

\* Nothing Consent sees changes when its variables do not.
LEMMA NothingSeen ==
  ASSUME UNCHANGED <<proposals, approvals, old_approvals, invalidations>>
  PROVE  ConsentNow' = ConsentNow
<1>1. \A k : RowOf(k)' = RowOf(k)
  BY DEF RowOf
<1>2. \A k : Counted(k)' = Counted(k)
  BY <1>1, SameCount
<1> QED
  BY <1>2 DEF ConsentNow

\* The contract implements Consent: every action is one of its steps, or nothing.
THEOREM PromiseKept == Spec => KeepsPromise
<1>1. Init /\ MsigTypeOK /\ RowsPaired => Promise!Init
  <2> SUFFICES ASSUME Init, MsigTypeOK, RowsPaired PROVE Promise!Init
    OBVIOUS
  <2>1. ASSUME NEW k \in DOMAIN proposals PROVE Counted(k) \in SUBSET Levels
    <3>1. HasRow(k)
      BY DEF RowsPaired, HasRow
    <3>2. \A p \in Range(RowOf(k).provided) : p.level \in Levels
      BY <3>1, RowTyped DEF Entry
    <3> QED
      BY <3>2 DEF Counted
  <2>2. ConsentNow \in [DOMAIN proposals -> SUBSET Levels]
    BY <2>1 DEF ConsentNow
  <2>3. DOMAIN deferred = {}
    BY DEF Init
  <2> QED
    BY <2>2, <2>3 DEF Promise!Init, MsigTypeOK
<1>2. MsigTypeOK /\ RowsPaired /\ [Next]_vars => [Promise!Next]_(Promise!vars)
  <2> SUFFICES ASSUME MsigTypeOK, RowsPaired, [Next]_vars
               PROVE  Promise!Next \/ UNCHANGED Promise!vars
    OBVIOUS
  <2>1. ASSUME NEW key \in Keys, NEW requested, NEW trx \in Transactions,
               Propose(key, requested, trx)
        PROVE  Promise!Propose(key, trx)
    <3>1. /\ key \notin DOMAIN proposals
          /\ DOMAIN proposals' = DOMAIN proposals \cup {key}
          /\ proposals' = With(proposals, key, trx)
          /\ UNCHANGED deferred
      BY <2>1 DEF Propose, With
    <3>2. Counted(key)' = {}
      <4>1. RowOf(key)' = [requested |-> requested, provided |-> <<>>]
        BY <2>1 DEF Propose, With, RowOf
      <4>2. Range(<<>>) = {}
        BY DEF Range
      <4> QED
        BY <4>1, <4>2 DEF Counted
    <3>3. ASSUME NEW k \in DOMAIN proposals PROVE Counted(k)' = Counted(k)
      <4>1. k # key
        BY <3>1
      <4>2. RowOf(k)' = RowOf(k)
        BY <2>1, <4>1, OtherRows DEF Propose, RowsPaired, HasRow
      <4> QED
        BY <2>1, <4>2, SameCount DEF Propose
    <3>4. ConsentNow' = [k \in DOMAIN proposals \cup {key} |->
                           IF k = key THEN {} ELSE ConsentNow[k]]
      BY <3>1, <3>2, <3>3 DEF ConsentNow
    <3> QED
      BY <3>1, <3>4 DEF Promise!Propose, With
  <2>2. ASSUME NEW key \in Keys, NEW level \in Levels, NEW hash, Approve(key, level, hash)
        PROVE  Promise!Agree(key, level) \/ UNCHANGED Promise!vars
    <3>1. /\ key \in DOMAIN proposals
          /\ ConsentNow' = [ConsentNow EXCEPT ![key] = Counted(key)']
          /\ ConsentNow[key] = Counted(key)
          /\ UNCHANGED <<proposals, deferred>>
      BY <2>2, OneConsent DEF Approve
    <3>2. Counted(key)' = Counted(key) \/ Counted(key)' = Counted(key) \cup {level}
      BY <2>2, CountAfterApprove
    <3>3. CASE Counted(key)' = Counted(key)
      BY <3>1, <3>3 DEF Promise!vars, ConsentNow
    <3>4. CASE Counted(key)' = Counted(key) \cup {level}
      BY <3>1, <3>4 DEF Promise!Agree
    <3> QED
      BY <3>2, <3>3, <3>4
  <2>3. ASSUME NEW key \in Keys, NEW level \in Levels, Unapprove(key, level)
        PROVE  Promise!Withdraw(key, level) \/ UNCHANGED Promise!vars
    <3>1. /\ key \in DOMAIN proposals
          /\ ConsentNow' = [ConsentNow EXCEPT ![key] = Counted(key)']
          /\ ConsentNow[key] = Counted(key)
          /\ UNCHANGED <<proposals, deferred>>
      BY <2>3, OneConsent DEF Unapprove
    <3>2. Counted(key)' = Counted(key) \/ Counted(key)' = Counted(key) \ {level}
      BY <2>3, CountAfterUnapprove
    <3>3. CASE Counted(key)' = Counted(key)
      BY <3>1, <3>3 DEF Promise!vars, ConsentNow
    <3>4. CASE Counted(key)' = Counted(key) \ {level}
      BY <3>1, <3>4 DEF Promise!Withdraw
    <3> QED
      BY <3>2, <3>3, <3>4
  <2>4. ASSUME NEW key \in Keys, NEW canceler, Cancel(key, canceler) PROVE Promise!Cancel(key)
    BY <2>4, ErasedIsClosed DEF Cancel, Promise!Cancel
  <2>5. ASSUME NEW key \in Keys, Exec(key) PROVE Promise!Execute(key)
    <3>1. Promise!Closed(key) /\ key \in DOMAIN proposals /\ key \notin DOMAIN deferred
      BY <2>5, ErasedIsClosed DEF Exec
    <3>2. Promise!Authorized(proposals[key], ConsentNow[key])
      BY <2>5, <3>1 DEF Exec, Authorized, Promise!Authorized, ConsentNow
    <3>3. deferred' = [k \in DOMAIN deferred \cup {key} |->
                         IF k = key THEN proposals[key] ELSE deferred[k]]
      BY <2>5 DEF Exec, With
    <3> QED
      BY <3>1, <3>2, <3>3 DEF Promise!Execute
  <2>6. ASSUME NEW key \in Keys, ChainRuns(key) PROVE Promise!Run(key)
    BY <2>6, NothingSeen DEF ChainRuns, Without, Promise!Run
  <2>7. ASSUME NEW account, Invalidate(account)
        PROVE  \/ \E level \in Levels : Promise!Invalidate(level[1])
               \/ UNCHANGED Promise!vars
    <3>1. \A k \in DOMAIN proposals : Counted(k)' = {l \in Counted(k) : l[1] # account}
      BY <2>7, CountAfterInvalidate DEF RowsPaired, HasRow
    <3>2. UNCHANGED <<proposals, deferred>>
      BY <2>7 DEF Invalidate
    <3>3. ConsentNow' = [k \in DOMAIN ConsentNow |-> {l \in ConsentNow[k] : l[1] # account}]
      BY <3>1, <3>2 DEF ConsentNow
    <3>4. CASE \E level \in Levels : level[1] = account
      BY <3>2, <3>3, <3>4 DEF Promise!Invalidate
    <3>5. CASE \A level \in Levels : level[1] # account
      <4>1. ASSUME NEW k \in DOMAIN proposals PROVE Counted(k) \subseteq Levels
        <5>1. HasRow(k)
          BY DEF RowsPaired, HasRow
        <5> QED
          BY <5>1, RowTyped DEF Counted, Entry
      <4>2. \A k \in DOMAIN proposals : Counted(k)' = Counted(k)
        BY <3>1, <3>5, <4>1
      <4>3. ConsentNow' = ConsentNow
        BY <3>2, <4>2 DEF ConsentNow
      <4> QED
        BY <3>2, <4>3 DEF Promise!vars
    <3> QED
      BY <3>4, <3>5
  <2>8. ASSUME NextBlock \/ UNCHANGED vars PROVE UNCHANGED Promise!vars
    BY <2>8, NothingSeen DEF NextBlock, vars, Promise!vars
  <2> QED
    BY <2>1, <2>2, <2>3, <2>4, <2>5, <2>6, <2>7, <2>8 DEF Next, Promise!Next
<1> QED
  BY <1>1, <1>2, MsigTypeCorrect, ProposalsPaired, PTL
    DEF Spec, KeepsPromise, Promise!Spec

-----------------------------------------------------------------------------
(***************************************************************************)
(* Nobody is lost from the lists                                           *)
(***************************************************************************)
\* The levels on either list of a proposal.
Involved(row) == Range(row.requested) \cup {p.level : p \in Range(row.provided)}

\* Everybody whose approval a proposal needs is on one of its lists.
Listed == \A k \in DOMAIN proposals : Authorized(proposals[k], Involved(RowOf(k)))

\* approve and unapprove move a level from one list to the other.
LEMMA InvolvedKept ==
  ASSUME MsigTypeOK, NEW key, HasRow(key), NEW level \in Levels
  PROVE  /\ FirstRequested(RowOf(key), level) # 0 =>
              Involved(RowOf(key)) \subseteq Involved(Approved(RowOf(key), level, TimeOfApproval(key)))
         /\ FirstProvided(RowOf(key), level) # 0 =>
              Involved(RowOf(key)) \subseteq Involved(Unapproved(RowOf(key), level))
<1> DEFINE old == RowOf(key)
<1>1. old.requested \in Seq(Levels) /\ old.provided \in Seq(Entry)
  BY RowTyped
<1>2. ASSUME FirstRequested(old, level) # 0
      PROVE  Involved(old) \subseteq Involved(Approved(old, level, TimeOfApproval(key)))
  <2> DEFINE row == Approved(old, level, TimeOfApproval(key))
             p == [level |-> level, time |-> TimeOfApproval(key)]
             i == FirstRequested(old, level)
  <2>1. Range(row.provided) = Range(old.provided) \cup {p} /\ p.level = level
    BY <1>2, ApprovedEntries
  <2>2. row.requested = RemoveAt(old.requested, i)
    BY DEF Approved
  <2> HIDE DEF row, p
  <2>3. i \in 1 .. Len(old.requested) /\ old.requested[i] = level
    BY <1>1, <1>2, FirstRequestedIn
  <2> HIDE DEF i, old
  <2>4. \A l \in Range(old.requested) : l # level => l \in Range(row.requested)
    BY <1>1, <2>2, <2>3, RemoveAtRange
  <2>5. Involved(old) \subseteq Involved(row)
    BY <2>1, <2>4 DEF Involved
  <2> QED
    BY <2>5 DEF row
<1>3. ASSUME FirstProvided(old, level) # 0
      PROVE  Involved(old) \subseteq Involved(Unapproved(old, level))
  <2> DEFINE row == Unapproved(old, level)
  <2>1. \A p \in Range(old.provided) : p.level # level => p \in Range(row.provided)
    BY <1>3, UnapprovedEntries
  <2>2. row.requested = Append(old.requested, level)
    BY DEF Unapproved
  <2> HIDE DEF row, old
  <2>3. Range(row.requested) = Range(old.requested) \cup {level}
    BY <1>1, <2>2, AppendRange
  <2>4. Involved(old) \subseteq Involved(row)
    BY <2>1, <2>3 DEF Involved
  <2> QED
    BY <2>4 DEF row
<1> QED
  BY <1>2, <1>3

\* No step takes anybody off both lists.
LEMMA StaysListed == Spec => []Listed
<1>1. Init /\ RowsPaired => Listed
  <2> SUFFICES ASSUME Init, NEW k \in DOMAIN proposals
               PROVE  Authorized(proposals[k], Involved(RowOf(k)))
    BY DEF Listed
  <2>1. PICK rows \in SUBSET OldRows :
          LET Row(key) == CHOOSE r \in rows : r.key = key
              keys == {r.key : r \in rows}
          IN  /\ proposals = [x \in keys |-> Row(x).trx]
              /\ old_approvals = [x \in keys |-> [requested |-> Row(x).requested,
                                                  provided  |-> Row(x).provided]]
    BY DEF Init
  <2> DEFINE Row(key) == CHOOSE r \in rows : r.key = key
  <2>2. Row(k) \in OldRows
    BY <2>1
  <2>3. /\ proposals[k] = Row(k).trx
        /\ old_approvals[k].requested = Row(k).requested
        /\ old_approvals[k].provided = Row(k).provided
    BY <2>1
  <2>4. RowOf(k) = old_approvals[k]
    BY DEF Init, RowOf
  <2> HIDE DEF Row
  <2> QED
    BY <2>2, <2>3, <2>4, MsigAssumption DEF Involved
<1>2. Listed /\ MsigTypeOK /\ RowsPaired /\ [Next]_vars => Listed'
  <2> SUFFICES ASSUME Listed, MsigTypeOK, RowsPaired, [Next]_vars,
                      NEW k \in DOMAIN proposals'
               PROVE  Authorized(proposals[k], Involved(RowOf(k)))'
    BY DEF Listed
  <2>1. ASSUME k \in DOMAIN proposals, proposals'[k] = proposals[k],
               Involved(RowOf(k)) \subseteq Involved(RowOf(k))'
        PROVE  Authorized(proposals[k], Involved(RowOf(k)))'
    BY <2>1 DEF Listed, Authorized
  <2>2. ASSUME k \in DOMAIN proposals, proposals'[k] = proposals[k], RowOf(k)' = RowOf(k)
        PROVE  Authorized(proposals[k], Involved(RowOf(k)))'
    BY <2>1, <2>2 DEF Involved
  <2>3. k \in DOMAIN proposals => HasRow(k)
    BY DEF RowsPaired, HasRow
  <2>4. ASSUME NEW key, NEW requested \in Requests, NEW trx, Propose(key, requested, trx)
        PROVE  Authorized(proposals[k], Involved(RowOf(k)))'
    <3>1. CASE k = key
      <4>1. RowOf(k)' = [requested |-> requested, provided |-> <<>>] /\ proposals'[k] = trx
        BY <2>4, <3>1 DEF Propose, With, RowOf
      <4>2. Range(requested) \subseteq Involved(RowOf(k))'
        BY <4>1 DEF Involved
      <4> QED
        BY <2>4, <4>1, <4>2 DEF Propose, Authorized
    <3>2. CASE k # key
      <4>1. k \in DOMAIN proposals /\ proposals'[k] = proposals[k]
        BY <2>4, <3>2 DEF Propose, With
      <4>2. RowOf(k)' = RowOf(k)
        BY <2>3, <2>4, <3>2, <4>1, OtherRows DEF Propose
      <4> QED
        BY <2>2, <4>1, <4>2
    <3> QED
      BY <3>1, <3>2
  <2>5. ASSUME NEW key, NEW row, HasRow(key), Modify(key, row), UNCHANGED proposals,
               Involved(RowOf(key)) \subseteq Involved(row)
        PROVE  Authorized(proposals[k], Involved(RowOf(k)))'
    <3>1. CASE k = key
      <4>1. RowOf(k)' = row
        BY <2>5, <3>1, ModifiedRow
      <4>2. Involved(RowOf(k)) \subseteq Involved(RowOf(k))'
        BY <2>5, <3>1, <4>1 DEF Involved
      <4> QED
        BY <2>1, <2>5, <4>2
    <3>2. CASE k # key
      BY <2>2, <2>3, <2>5, <3>2, OtherRows
    <3> QED
      BY <3>1, <3>2
  <2>6. ASSUME NEW key, NEW level \in Levels, NEW hash, Approve(key, level, hash)
        PROVE  Authorized(proposals[k], Involved(RowOf(k)))'
    BY <2>5, <2>6, InvolvedKept DEF Approve
  <2>7. ASSUME NEW key, NEW level \in Levels, Unapprove(key, level)
        PROVE  Authorized(proposals[k], Involved(RowOf(k)))'
    BY <2>5, <2>7, InvolvedKept DEF Unapprove
  <2>8. ASSUME NEW key, Erase(key), proposals' = Without(proposals, key)
        PROVE  Authorized(proposals[k], Involved(RowOf(k)))'
    <3>1. k # key /\ k \in DOMAIN proposals /\ proposals'[k] = proposals[k]
      BY <2>8 DEF Without
    <3>2. RowOf(k)' = RowOf(k)
      BY <2>3, <2>8, <3>1, OtherRows
    <3> QED
      BY <2>2, <3>1, <3>2
  <2>9. ASSUME UNCHANGED <<proposals, approvals, old_approvals>>
        PROVE  Authorized(proposals[k], Involved(RowOf(k)))'
    BY <2>2, <2>9 DEF RowOf
  <2> QED
    BY <2>4, <2>6, <2>7, <2>8, <2>9
      DEF Next, vars, Cancel, Exec, ChainRuns, Invalidate, NextBlock
<1> QED
  BY <1>1, <1>2, MsigTypeCorrect, ProposalsPaired, PTL DEF Spec

\* A level that is not found among the approvals has none.
LEMMA NoneProvided ==
  ASSUME NEW S, NEW row, row.provided \in Seq(S), NEW level, FirstProvided(row, level) = 0
  PROVE  \A p \in Range(row.provided) : p.level # level
<1> DEFINE I == {i \in 1 .. Len(row.provided) : row.provided[i].level = level}
<1>1. FirstProvided(row, level) = IF I # {} THEN Min(I) ELSE 0
  BY DEF FirstProvided, SelectInSeq
<1>2. I \in SUBSET Nat /\ 0 \notin I
  BY LenProperties
<1>3. I = {}
  BY <1>1, <1>2, MinOfPositions
<1>4. Range(row.provided) = {row.provided[i] : i \in 1 .. Len(row.provided)}
  BY RangeEquality
<1> QED
  BY <1>3, <1>4

\* A level that is requested is found.
LEMMA RequestedFound ==
  ASSUME NEW S, NEW row, row.requested \in Seq(S), NEW level \in Range(row.requested)
  PROVE  FirstRequested(row, level) # 0
<1> DEFINE I == {i \in 1 .. Len(row.requested) : row.requested[i] = level}
<1>1. FirstRequested(row, level) = IF I # {} THEN Min(I) ELSE 0
  BY DEF FirstRequested, SelectInSeq
<1>2. I \in SUBSET Nat /\ 0 \notin I
  BY LenProperties
<1>3. Range(row.requested) = {row.requested[i] : i \in 1 .. Len(row.requested)}
  BY RangeEquality
<1>4. I # {}
  BY <1>3
<1>5. Min(I) \in I
  BY <1>2, <1>4, MinOfPositions
<1> QED
  BY <1>1, <1>2, <1>4, <1>5

\* Who is on a list can agree anew, to an old proposal unless he has invalidated.
LEMMA ListedCanAgree ==
  ASSUME MsigTypeOK, NEW key, HasRow(key), NEW level \in Levels, level \in Involved(RowOf(key)),
         ~ Withdrawn(key, level)
  PROVE  CanAgree(key, level)
<1> DEFINE row == RowOf(key)
           asked == IF FirstProvided(row, level) = 0 THEN row ELSE Unapproved(row, level)
           time == IF key \in DOMAIN approvals THEN now + 1 ELSE NoTime
           again == Approved(asked, level, time)
           p == [level |-> level, time |-> time]
           Timed == [level : Levels, time : Int]
<1>1. row.requested \in Seq(Levels) /\ row.provided \in Seq(Entry)
  BY RowTyped
<1>2. FirstProvided(row, level) # 0 =>
        /\ Unapproved(row, level) \in RowType
        /\ \A q \in Range(row.provided) :
             q.level # level => q \in Range(Unapproved(row, level).provided)
  BY UnapprovedEntries
<1>3. level \in Range(row.requested) \/ \E q \in Range(row.provided) : q.level = level
  BY DEF Involved
<1> HIDE DEF row
<1>4. /\ asked.requested \in Seq(Levels) /\ asked.provided \in Seq(Entry)
      /\ level \in Range(asked.requested)
      /\ \A q \in Range(row.provided) : q.level # level => q \in Range(asked.provided)
  <2>1. CASE FirstProvided(row, level) = 0
    <3>1. \A q \in Range(row.provided) : q.level # level
      BY <1>1, <2>1, NoneProvided
    <3> QED
      BY <1>1, <1>3, <2>1, <3>1
  <2>2. CASE FirstProvided(row, level) # 0
    <3>1. asked = Unapproved(row, level) /\ asked.requested = Append(row.requested, level)
      BY <2>2 DEF Unapproved
    <3> HIDE DEF asked
    <3>2. asked.requested \in Seq(Levels) /\ Range(asked.requested) = Range(row.requested) \cup {level}
      BY <1>1, <3>1, AppendRange
    <3> QED
      BY <1>2, <2>2, <3>1, <3>2 DEF RowType, Entry
  <2> QED
    BY <2>1, <2>2
<1> HIDE DEF asked
<1>5. FirstRequested(asked, level) # 0
  BY <1>4, RequestedFound
<1>6. now \in Int /\ now + 1 > now /\ \A a \in DOMAIN invalidations : invalidations[a] \in 0 .. now
  BY MsigAssumption DEF MsigTypeOK
<1>7. p \in Timed
  BY <1>6 DEF NoTime
<1>8. Entry \subseteq Timed
  BY MsigAssumption DEF Entry
<1>9. asked.provided \in Seq(Timed)
  BY <1>4, <1>8, SeqMonotonic
<1>10. Valid(p)
  <2>1. CASE key \in DOMAIN approvals
    BY <1>6, <2>1 DEF Valid
  <2>2. CASE key \notin DOMAIN approvals
    BY <2>2 DEF Valid, Withdrawn
  <2> QED
    BY <2>1, <2>2
<1> HIDE DEF time, Timed
<1>11. again.provided = Append(asked.provided, p) /\ p.level = level
  BY DEF Approved
<1> HIDE DEF again, p
<1>12. Range(again.provided) = Range(asked.provided) \cup {p}
  BY <1>7, <1>9, <1>11, AppendRange
<1>13. ASSUME NEW l \in Counted(key) \cup {level}
       PROVE  l \in {q.level : q \in {r \in Range(again.provided) : Valid(r)}}
  <2>1. CASE l = level
    BY <1>10, <1>11, <1>12, <2>1
  <2>2. CASE l # level
    <3>1. PICK q \in Range(row.provided) : Valid(q) /\ q.level = l
      BY <2>2 DEF Counted, row
    <3>2. q \in Range(again.provided)
      BY <1>4, <1>12, <2>2, <3>1
    <3> QED
      BY <3>1, <3>2
  <2> QED
    BY <2>1, <2>2
<1> QED
  BY <1>5, <1>13 DEF CanAgree, row, asked, again, time

\* A proposal in the new table can always be brought to execution by those it
\* needs; one in the old table too, but for accounts that have invalidated.
THEOREM StaysExecutable == Spec => []StillExecutable
<1>1. MsigTypeOK /\ RowsPaired /\ Listed => StillExecutable
  <2> SUFFICES ASSUME MsigTypeOK, RowsPaired, Listed, NEW k \in DOMAIN proposals
               PROVE  Authorized(proposals[k],
                                 {level \in Levels : CanAgree(k, level) \/ Withdrawn(k, level)})
    BY DEF StillExecutable
  <2>1. HasRow(k)
    BY DEF RowsPaired, HasRow
  <2>2. Involved(RowOf(k)) \subseteq Levels
    <3>1. RowOf(k).requested \in Seq(Levels) /\ \A p \in Range(RowOf(k).provided) : p \in Entry
      BY <2>1, RowTyped
    <3>2. Range(RowOf(k).requested) \subseteq Levels
      BY <3>1, RangeOfSeq
    <3> QED
      BY <3>1, <3>2 DEF Involved, Entry
  <2>3. Involved(RowOf(k)) \subseteq {level \in Levels : CanAgree(k, level) \/ Withdrawn(k, level)}
    BY <2>1, <2>2, ListedCanAgree
  <2>4. Authorized(proposals[k], Involved(RowOf(k)))
    BY DEF Listed
  <2> QED
    BY <2>3, <2>4 DEF Authorized
<1> QED
  BY <1>1, MsigTypeCorrect, ProposalsPaired, StaysListed, PTL
=============================================================================
