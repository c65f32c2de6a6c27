---------------------------- MODULE LimitsProofs ----------------------------
(***************************************************************************)
(* What AccountLimits promises holds for any accounts, gift and settings.  *)
(* The row of an account and its limits are written by six actions; that   *)
(* each leaves the limits in step with the row depends on their having     *)
(* been so before (changebw takes the larger of two RAM limits), so the    *)
(* invariant is LimitsFollowRows with the types.                           *)
(***************************************************************************)
EXTENDS AccountLimits, TLAPS

\* The invariant that every action preserves.
IInv == LimitsTypeOK /\ LimitsFollowRows

LimitValue == Nat \cup {Unlimited}

\* Limits that follow a row wherever it holds something that is not managed.
Follow(read, flags, new) ==
  \A r \in Resource \ flags :
    read[r] > 0 => new[r] = read[r] + (IF r = "ram" THEN Gift ELSE 0)

\* A row, present or not, holds amounts that are not negative.
LEMMA RowType ==
  ASSUME LimitsTypeOK, NEW a \in Accounts
  PROVE  Row(a) \in [Resource -> Nat]
BY DEF LimitsTypeOK, Row, Empty

\* Erasing an empty row loses nothing: read as a row, it holds what it held.
LEMMA KeptReads ==
  ASSUME NEW row \in [Resource -> Nat]
  PROVE  /\ Kept(row) \in [Resource -> Nat] \cup {NoRow}
         /\ (IF Kept(row) = NoRow THEN Empty ELSE Kept(row)) = row
BY LimitsAssumption DEF Kept, LimitsAssumption

\* A change of stake that does not overdraw it leaves a row, with the same RAM.
LEMMA StakedRow ==
  ASSUME LimitsTypeOK, NEW a \in Accounts, NEW net \in Int, NEW cpu \in Int,
         Sufficient(Staked(a, net, cpu))
  PROVE  /\ Staked(a, net, cpu) \in [Resource -> Nat]
         /\ Staked(a, net, cpu)["ram"] = Row(a)["ram"]
<1>1. Row(a) \in [Resource -> Nat]
  BY RowType
<1> DEFINE row == Staked(a, net, cpu)
<1>2. row \in [Resource -> Int] /\ row["ram"] = Row(a)["ram"]
  BY <1>1 DEF Staked, Resource, Bandwidth
<1>3. \A r \in Bandwidth : row[r] \in Nat
  BY LimitsAssumption DEF Sufficient, LimitsAssumption
<1>4. row["ram"] \in Nat
  BY <1>1, <1>2 DEF Resource, Bandwidth
<1>5. \A r \in Resource : row[r] \in Nat
  BY <1>3, <1>4 DEF Resource, Bandwidth
<1> QED
  BY <1>2, <1>5

\* Limits that follow a row where nothing is managed, but for RAM.
FollowsRow(a, row, ram, new) ==
  /\ new \in [Resource -> LimitValue]
  /\ \A r \in managed[a] : new[r] = limits[a][r]
  /\ \A r \in Bandwidth \ managed[a] : new[r] = row[r]
  /\ "ram" \notin managed[a] => new["ram"] \in {ram, limits[a]["ram"]}

\* The limits set after a change of stake, for a row and a RAM limit.
LEMMA BandwidthLimitsSet ==
  ASSUME LimitsTypeOK, NEW a \in Accounts, NEW row \in [Resource -> Nat], NEW ram \in LimitValue
  PROVE  FollowsRow(a, row, ram, BandwidthLimits(a, row, ram))
<1>1. limits[a] \in [Resource -> LimitValue] /\ managed[a] \subseteq Resource
  BY DEF LimitsTypeOK, LimitValue
<1>2. CASE Bandwidth \subseteq managed[a]
  BY <1>1, <1>2 DEF BandwidthLimits, FollowsRow, Resource
<1>3. CASE ~ (Bandwidth \subseteq managed[a])
  BY <1>1, <1>3 DEF BandwidthLimits, FollowsRow, Resource, Bandwidth, LimitValue
<1> QED
  BY <1>2, <1>3

\* A step that gives one account a row, flags and limits of their types.
Sets(a, row, flags, new) ==
  /\ row \in [Resource -> Nat] \cup {NoRow}
  /\ flags \in SUBSET Resource
  /\ new \in [Resource -> LimitValue]
  /\ userres' = [userres EXCEPT ![a] = row]
  /\ managed' = [managed EXCEPT ![a] = flags]
  /\ limits' = [limits EXCEPT ![a] = new]

\* It keeps the types, if the account is one of those that exist.
LEMMA OneAccount ==
  ASSUME LimitsTypeOK, NEW a \in created, NEW row, NEW flags, NEW new,
         Sets(a, row, flags, new), created' = created
  PROVE  LimitsTypeOK'
BY DEF LimitsTypeOK, LimitValue, Sets

\* If each account's limits follow its row and only one account is written, with
\* limits that follow the new row wherever it holds something, they still do.
LEMMA OneFollows ==
  ASSUME LimitsTypeOK, LimitsFollowRows, NEW a \in Accounts,
         NEW row, NEW flags, NEW new, Sets(a, row, flags, new),
         NEW read \in [Resource -> Nat],
         (IF row = NoRow THEN Empty ELSE row) = read,
         Follow(read, flags, new)
  PROVE  LimitsFollowRows'
<1> SUFFICES ASSUME NEW b \in Accounts, NEW r \in Resource \ managed'[b], Row(b)'[r] > 0
             PROVE  limits'[b][r] = Row(b)'[r] + (IF r = "ram" THEN Gift ELSE 0)
  BY DEF LimitsFollowRows
<1>1. CASE b = a
  <2>1. userres'[a] = row /\ managed'[a] = flags /\ limits'[a] = new
    BY DEF LimitsTypeOK, Sets
  <2>2. Row(a)' = read
    BY <2>1 DEF Row
  <2> QED
    BY <1>1, <2>1, <2>2 DEF Follow
<1>2. CASE b # a
  <2>1. userres'[b] = userres[b] /\ managed'[b] = managed[b] /\ limits'[b] = limits[b]
    BY <1>2 DEF LimitsTypeOK, Sets
  <2>2. Row(b)' = Row(b)
    BY <2>1 DEF Row
  <2> QED
    BY <2>1, <2>2 DEF LimitsFollowRows
<1> QED
  BY <1>1, <1>2

-----------------------------------------------------------------------------
\* Before any account exists there is nothing to follow.
LEMMA InitHolds ==
  Init => IInv
<1> SUFFICES ASSUME Init
             PROVE  IInv
  OBVIOUS
<1>1. LimitsTypeOK
  BY DEF Init, LimitsTypeOK, Empty
<1>2. LimitsFollowRows
  BY DEF Init, LimitsFollowRows, Row, Empty
<1> QED
  BY <1>1, <1>2 DEF IInv

\* A new account has an empty row and no limit above zero.
LEMMA NewAccountKeeps ==
  ASSUME IInv, NEW a \in Accounts, newaccount(a)
  PROVE  IInv'
<1>1. Empty \in [Resource -> Nat] /\ Empty \in [Resource -> LimitValue]
  BY DEF Empty, LimitValue
<1>2. LimitsTypeOK'
  BY <1>1 DEF IInv, newaccount, LimitsTypeOK, LimitValue
<1>3. managed' = [managed EXCEPT ![a] = managed[a]] /\ managed[a] \in SUBSET Resource
  BY DEF IInv, newaccount, LimitsTypeOK
<1>4. (IF Empty = NoRow THEN Empty ELSE Empty) = Empty /\ Follow(Empty, managed[a], Empty)
  BY DEF Empty, Follow
<1>5. LimitsFollowRows'
  <2>1. Sets(a, Empty, managed[a], Empty)
    BY <1>1, <1>3 DEF newaccount, Sets
  <2> QED
    BY <1>1, <1>4, <2>1, OneFollows DEF IInv
<1> QED
  BY <1>2, <1>5 DEF IInv

\* Limits are given only to accounts without a row.
LEMMA SetalimitsKeeps ==
  ASSUME IInv, NEW a \in Accounts, NEW ram \in Settings, NEW net \in Settings, NEW cpu \in Settings,
         setalimits(a, ram, net, cpu)
  PROVE  IInv'
<1> DEFINE new == Limits(ram, net, cpu)
<1>1. a \in created /\ userres[a] = NoRow /\ managed[a] \in SUBSET Resource
  BY DEF IInv, setalimits, LimitsTypeOK
<1>2. new \in [Resource -> LimitValue]
  BY LimitsAssumption DEF Limits, LimitValue, Resource, Bandwidth, LimitsAssumption
<1>3. /\ created' = created
      /\ userres' = [userres EXCEPT ![a] = NoRow]
      /\ managed' = [managed EXCEPT ![a] = managed[a]]
      /\ limits' = [limits EXCEPT ![a] = new]
  BY <1>1 DEF IInv, setalimits, LimitsTypeOK
<1>4. Empty \in [Resource -> Nat] /\ Follow(Empty, managed[a], new)
  BY DEF Empty, Follow
<1> HIDE DEF new
<1>5. Sets(a, NoRow, managed[a], new) /\ created' = created
  BY <1>1, <1>2, <1>3 DEF Sets
<1>6. LimitsTypeOK'
  BY <1>1, <1>5, OneAccount DEF IInv
<1>7. LimitsFollowRows'
  BY <1>4, <1>5, OneFollows DEF IInv
<1> QED
  BY <1>6, <1>7 DEF IInv

\* A resource that becomes managed need not follow the row any longer.
LEMMA ManageKeeps ==
  ASSUME IInv, NEW a \in Accounts, NEW r \in Resource, NEW value \in Settings,
         Manage(a, r, value)
  PROVE  IInv'
<1> DEFINE new == [limits[a] EXCEPT ![r] = value]
<1> DEFINE flags == managed[a] \cup {r}
<1>1. /\ a \in created /\ flags \in SUBSET Resource
      /\ userres[a] \in [Resource -> Nat] \cup {NoRow}
      /\ Row(a) \in [Resource -> Nat]
  BY RowType DEF IInv, Manage, LimitsTypeOK
<1>2. new \in [Resource -> LimitValue]
  BY LimitsAssumption DEF IInv, LimitsTypeOK, LimitValue, LimitsAssumption
<1>3. /\ created' = created
      /\ userres' = [userres EXCEPT ![a] = userres[a]]
      /\ managed' = [managed EXCEPT ![a] = flags]
      /\ limits' = [limits EXCEPT ![a] = new]
  BY DEF IInv, Manage, LimitsTypeOK
<1>4. Follow(Row(a), flags, new)
  BY DEF IInv, LimitsFollowRows, LimitsTypeOK, Follow
<1>5. (IF userres[a] = NoRow THEN Empty ELSE userres[a]) = Row(a)
  BY DEF Row
<1> HIDE DEF new, flags
<1>6. Sets(a, userres[a], flags, new) /\ created' = created
  BY <1>1, <1>2, <1>3 DEF Sets
<1>7. LimitsTypeOK'
  BY <1>1, <1>6, OneAccount DEF IInv
<1>8. LimitsFollowRows'
  BY <1>1, <1>4, <1>5, <1>6, OneFollows DEF IInv
<1> QED
  BY <1>7, <1>8 DEF IInv

\* What is no longer managed is set to what the row holds.
LEMMA UnmanageKeeps ==
  ASSUME IInv, NEW a \in Accounts, NEW r \in Resource, Unmanage(a, r)
  PROVE  IInv'
<1> DEFINE new == [limits[a] EXCEPT ![r] = Unmanaged(a, r)]
<1> DEFINE flags == managed[a] \ {r}
<1>1. /\ a \in created /\ flags \in SUBSET Resource
      /\ userres[a] \in [Resource -> Nat] \cup {NoRow}
      /\ Row(a) \in [Resource -> Nat]
  BY RowType DEF IInv, Unmanage, LimitsTypeOK
<1>2. Unmanaged(a, r) \in Nat
  BY <1>1, LimitsAssumption DEF Unmanaged, LimitsAssumption
<1>3. new \in [Resource -> LimitValue]
  BY <1>2 DEF IInv, LimitsTypeOK, LimitValue
<1>4. /\ created' = created
      /\ userres' = [userres EXCEPT ![a] = userres[a]]
      /\ managed' = [managed EXCEPT ![a] = flags]
      /\ limits' = [limits EXCEPT ![a] = new]
  BY DEF IInv, Unmanage, LimitsTypeOK
<1>5. Follow(Row(a), flags, new)
  <2> SUFFICES ASSUME NEW s \in Resource \ flags, Row(a)[s] > 0
               PROVE  new[s] = Row(a)[s] + (IF s = "ram" THEN Gift ELSE 0)
    BY DEF Follow
  <2>1. CASE s = r
    BY <2>1 DEF IInv, LimitsTypeOK, Unmanaged
  <2>2. CASE s # r
    BY <2>2 DEF IInv, LimitsFollowRows, LimitsTypeOK
  <2> QED
    BY <2>1, <2>2
<1>6. (IF userres[a] = NoRow THEN Empty ELSE userres[a]) = Row(a)
  BY DEF Row
<1> HIDE DEF new, flags
<1>7. Sets(a, userres[a], flags, new) /\ created' = created
  BY <1>1, <1>3, <1>4 DEF Sets
<1>8. LimitsTypeOK'
  BY <1>1, <1>7, OneAccount DEF IInv
<1>9. LimitsFollowRows'
  BY <1>1, <1>5, <1>6, <1>7, OneFollows DEF IInv
<1> QED
  BY <1>8, <1>9 DEF IInv

\* A change of stake sets the limits of what is not managed; the RAM limit it
\* keeps or sets to the larger of two is the one that followed the row before.
LEMMA StakeChangeKeeps ==
  ASSUME IInv, NEW a \in created, NEW net \in Int, NEW cpu \in Int,
         NEW ram \in {larger(Row(a)["ram"] + Gift, limits[a]["ram"]), limits[a]["ram"]},
         Sufficient(Staked(a, net, cpu)),
         created' = created, managed' = managed,
         userres' = [userres EXCEPT ![a] = Kept(Staked(a, net, cpu))],
         limits' = [limits EXCEPT ![a] = BandwidthLimits(a, Staked(a, net, cpu), ram)]
  PROVE  IInv'
<1> DEFINE row == Staked(a, net, cpu)
<1> DEFINE new == BandwidthLimits(a, row, ram)
<1>1. /\ a \in Accounts /\ managed[a] \in SUBSET Resource
      /\ limits[a] \in [Resource -> LimitValue]
      /\ managed' = [managed EXCEPT ![a] = managed[a]]
  BY DEF IInv, LimitsTypeOK, LimitValue
<1>2. Row(a) \in [Resource -> Nat]
  BY <1>1, RowType DEF IInv
<1>3. row \in [Resource -> Nat] /\ row["ram"] = Row(a)["ram"]
  BY <1>1, StakedRow DEF IInv
<1>4. ram \in LimitValue
  BY <1>1, <1>2, LimitsAssumption DEF larger, LimitValue, Resource, LimitsAssumption
<1> HIDE DEF row
<1>5. /\ new \in [Resource -> LimitValue]
      /\ \A r \in Bandwidth \ managed[a] : new[r] = row[r]
      /\ "ram" \notin managed[a] => new["ram"] \in {ram, limits[a]["ram"]}
  <2>1. FollowsRow(a, row, ram, BandwidthLimits(a, row, ram))
    BY <1>1, <1>3, <1>4, BandwidthLimitsSet DEF IInv
  <2> QED
    BY <2>1 DEF FollowsRow
<1>6. ASSUME "ram" \notin managed[a], row["ram"] > 0
      PROVE  new["ram"] = row["ram"] + Gift
  <2>1. limits[a]["ram"] = Row(a)["ram"] + Gift
    BY <1>1, <1>3, <1>6 DEF IInv, LimitsFollowRows, Resource
  <2>2. ram = Row(a)["ram"] + Gift
    BY <2>1, <1>1, <1>2, LimitsAssumption DEF larger, LimitsAssumption
  <2> QED
    BY <2>1, <2>2, <1>3, <1>5, <1>6
<1>7. Follow(row, managed[a], new)
  BY <1>3, <1>5, <1>6 DEF Resource, Bandwidth, Follow
<1>8. /\ Kept(row) \in [Resource -> Nat] \cup {NoRow}
      /\ (IF Kept(row) = NoRow THEN Empty ELSE Kept(row)) = row
  BY <1>3, KeptReads
<1>9. userres' = [userres EXCEPT ![a] = Kept(row)] /\ limits' = [limits EXCEPT ![a] = new]
  BY DEF row
<1> HIDE DEF new
<1>10. Sets(a, Kept(row), managed[a], new) /\ created' = created
  BY <1>1, <1>5, <1>8, <1>9 DEF Sets
<1>11. LimitsTypeOK'
  BY <1>10, OneAccount DEF IInv
<1>12. LimitsFollowRows'
  BY <1>1, <1>3, <1>7, <1>8, <1>10, OneFollows DEF IInv
<1> QED
  BY <1>11, <1>12 DEF IInv

\* The new RAM limit follows a row whose RAM was traded, the others did before.
LEMMA RamTradeKeeps ==
  ASSUME IInv, NEW a \in created, NEW held \in Nat,
         created' = created, managed' = managed,
         userres' = [userres EXCEPT ![a] = [Row(a) EXCEPT !["ram"] = held]],
         limits' = [limits EXCEPT ![a]["ram"] = RamTraded(a, held)]
  PROVE  IInv'
<1> DEFINE row == [Row(a) EXCEPT !["ram"] = held]
<1> DEFINE new == [limits[a] EXCEPT !["ram"] = RamTraded(a, held)]
<1>1. /\ a \in Accounts /\ managed[a] \in SUBSET Resource
      /\ limits[a] \in [Resource -> LimitValue]
      /\ managed' = [managed EXCEPT ![a] = managed[a]]
      /\ limits' = [limits EXCEPT ![a] = new]
  BY DEF IInv, LimitsTypeOK, LimitValue
<1>2. Row(a) \in [Resource -> Nat]
  BY <1>1, RowType DEF IInv
<1>3. "ram" \in Resource
  BY DEF Resource
<1>4. RamTraded(a, held) \in LimitValue
  BY <1>1, <1>3, LimitsAssumption DEF RamTraded, LimitValue, LimitsAssumption
<1>5. row \in [Resource -> Nat] /\ new \in [Resource -> LimitValue]
  BY <1>1, <1>2, <1>4
<1>6. Follow(row, managed[a], new)
  <2> SUFFICES ASSUME NEW r \in Resource \ managed[a], row[r] > 0
               PROVE  new[r] = row[r] + (IF r = "ram" THEN Gift ELSE 0)
    BY DEF Follow
  <2>1. CASE r = "ram"
    BY <2>1, <1>1, <1>2, <1>3 DEF RamTraded
  <2>2. CASE r # "ram"
    BY <2>2, <1>1, <1>2 DEF IInv, LimitsFollowRows
  <2> QED
    BY <2>1, <2>2
<1>7. (IF row = NoRow THEN Empty ELSE row) = row /\ userres' = [userres EXCEPT ![a] = row]
  BY <1>5, LimitsAssumption DEF LimitsAssumption
<1> HIDE DEF row, new
<1>8. Sets(a, row, managed[a], new) /\ created' = created
  BY <1>1, <1>5, <1>7 DEF Sets
<1>9. LimitsTypeOK'
  BY <1>8, OneAccount DEF IInv
<1>10. LimitsFollowRows'
  BY <1>1, <1>5, <1>6, <1>7, <1>8, OneFollows DEF IInv
<1> QED
  BY <1>9, <1>10 DEF IInv

-----------------------------------------------------------------------------
\* The amounts by which stakes change, and their opposites, are integers.
LEMMA DeltaTypes ==
  \A d \in Deltas : d \in Int /\ - d \in Int
BY LimitsAssumption DEF LimitsAssumption

\* The part of delegatebw and undelegatebw about the receiver.
LEMMA ChangebwKeeps ==
  ASSUME IInv, NEW a \in Accounts, NEW net \in Int, NEW cpu \in Int, changebw(a, net, cpu)
  PROVE  IInv'
<1>1. Staked(a, net, cpu)["ram"] = Row(a)["ram"]
  BY StakedRow DEF IInv, changebw
<1>2. /\ a \in created /\ Sufficient(Staked(a, net, cpu))
      /\ created' = created /\ managed' = managed
      /\ userres' = [userres EXCEPT ![a] = Kept(Staked(a, net, cpu))]
      /\ limits' = [limits EXCEPT ![a] =
           BandwidthLimits(a, Staked(a, net, cpu), larger(Row(a)["ram"] + Gift, limits[a]["ram"]))]
  BY <1>1 DEF changebw
<1> QED
  BY <1>2, StakeChangeKeeps

\* A loan that begins or ends.
LEMMA UpdateResourceLimitsKeeps ==
  ASSUME IInv, NEW a \in Accounts, NEW net \in Int, NEW cpu \in Int,
         update_resource_limits(a, net, cpu)
  PROVE  IInv'
<1>1. /\ a \in created /\ Sufficient(Staked(a, net, cpu))
      /\ created' = created /\ managed' = managed
      /\ userres' = [userres EXCEPT ![a] = Kept(Staked(a, net, cpu))]
      /\ limits' = [limits EXCEPT ![a] =
           BandwidthLimits(a, Staked(a, net, cpu), limits[a]["ram"])]
  BY DEF update_resource_limits
<1> QED
  BY <1>1, StakeChangeKeeps

\* Bytes bought and bytes sold.
LEMMA BuyramKeeps ==
  ASSUME IInv, NEW a \in Accounts, NEW bytes \in Deltas, buyram(a, bytes)
  PROVE  IInv'
<1> DEFINE held == Row(a)["ram"] + bytes
<1>1. Row(a) \in [Resource -> Nat] /\ "ram" \in Resource
  BY RowType DEF IInv, Resource
<1>2. held \in Nat
  BY <1>1, LimitsAssumption DEF LimitsAssumption
<1>3. /\ a \in created
      /\ created' = created /\ managed' = managed
      /\ userres' = [userres EXCEPT ![a] = [Row(a) EXCEPT !["ram"] = held]]
      /\ limits' = [limits EXCEPT ![a]["ram"] = RamTraded(a, held)]
  BY <1>1 DEF buyram
<1> HIDE DEF held
<1> QED
  BY <1>2, <1>3, RamTradeKeeps

LEMMA SellramKeeps ==
  ASSUME IInv, NEW a \in Accounts, NEW bytes \in Deltas, sellram(a, bytes)
  PROVE  IInv'
<1> DEFINE held == Row(a)["ram"] - bytes
<1>1. Row(a) \in [Resource -> Nat] /\ "ram" \in Resource
  BY RowType DEF IInv, Resource
<1>2. /\ userres' = [userres EXCEPT ![a] = [Row(a) EXCEPT !["ram"] = held]]
      /\ limits' = [limits EXCEPT ![a]["ram"] = RamTraded(a, held)]
      /\ created' = created /\ managed' = managed
      /\ held >= 0
  BY <1>1 DEF sellram
<1>3. held \in Nat
  BY <1>1, <1>2, LimitsAssumption DEF LimitsAssumption
<1>4. a \in created
  BY DEF IInv, LimitsTypeOK, sellram
<1> HIDE DEF held
<1> QED
  BY <1>2, <1>3, <1>4, RamTradeKeeps

\* Every step keeps the types and the limits in step with the rows.
LEMMA NextKeeps ==
  IInv /\ [Next]_vars => IInv'
<1> SUFFICES ASSUME IInv, [Next]_vars
             PROVE  IInv'
  OBVIOUS
<1>1. ASSUME NEW a \in Accounts, newaccount(a)
      PROVE  IInv'
  BY <1>1, NewAccountKeeps
<1>2. ASSUME NEW a \in Accounts, NEW ram \in Settings, NEW net \in Settings, NEW cpu \in Settings,
             setalimits(a, ram, net, cpu)
      PROVE  IInv'
  BY <1>2, SetalimitsKeeps
<1>3. ASSUME NEW a \in Accounts, NEW r \in Resource, NEW value \in Settings, Manage(a, r, value)
      PROVE  IInv'
  BY <1>3, ManageKeeps
<1>4. ASSUME NEW a \in Accounts, NEW r \in Resource, Unmanage(a, r)
      PROVE  IInv'
  BY <1>4, UnmanageKeeps
<1>5. ASSUME NEW a \in Accounts, NEW net \in Deltas, NEW cpu \in Deltas,
             \/ changebw(a, net, cpu) \/ changebw(a, - net, - cpu)
             \/ update_resource_limits(a, net, cpu) \/ update_resource_limits(a, - net, - cpu)
      PROVE  IInv'
  BY <1>5, DeltaTypes, ChangebwKeeps, UpdateResourceLimitsKeeps
<1>6. ASSUME NEW a \in Accounts, NEW bytes \in Deltas, buyram(a, bytes) \/ sellram(a, bytes)
      PROVE  IInv'
  BY <1>6, BuyramKeeps, SellramKeeps
<1>7. ASSUME UNCHANGED vars
      PROVE  IInv'
  BY <1>7 DEF vars, IInv, LimitsTypeOK, LimitsFollowRows, Row
<1> QED
  BY <1>1, <1>2, <1>3, <1>4, <1>5, <1>6, <1>7 DEF Next

\* The invariant holds of every reachable state.
LEMMA LimitsInvariant ==
  Spec => []IInv
BY InitHolds, NextKeeps, PTL DEF Spec

\* Rows, flags and limits keep their types, and an account that does not exist
\* has none of them.
THEOREM LimitsTypeCorrect ==
  Spec => []LimitsTypeOK
<1>1. IInv => LimitsTypeOK
  BY DEF IInv
<1> QED
  BY <1>1, LimitsInvariant, PTL

\* What the chain lets an account use is what its row says, whatever order
\* stakes, loans, trades, flags and given limits come in.
THEOREM LimitsFollow ==
  Spec => []LimitsFollowRows
<1>1. IInv => LimitsFollowRows
  BY DEF IInv
<1> QED
  BY <1>1, LimitsInvariant, PTL

-----------------------------------------------------------------------------
\* What UnstakedIsGone and ManagedIsKept say of one account, resource and step.
Gone(a, r) ==
  (Row(a)[r] > 0 \/ r \in managed[a]) /\ Row(a)'[r] = 0 => limits'[a][r] = 0

KeptLimit(a, r) ==
  limits'[a][r] # limits[a][r] =>
    userres' = userres /\ limits' = [limits EXCEPT ![a][r] = limits'[a][r]]

\* A step that writes nothing of an account is of no concern to it.
LEMMA OtherAccount ==
  ASSUME IInv, NEW a \in Accounts, NEW r \in Resource,
         userres'[a] = userres[a], managed'[a] = managed[a], limits'[a] = limits[a]
  PROVE  (r \notin managed'[a] => Gone(a, r)) /\ KeptLimit(a, r)
<1>1. Row(a)' = Row(a)
  BY DEF Row
<1> QED
  BY <1>1 DEF Gone, KeptLimit

\* A change of stake sets a limit that is not managed to the new stake and
\* leaves one that is.
LEMMA StakeChangeStep ==
  ASSUME IInv, NEW b \in created, NEW net \in Int, NEW cpu \in Int, NEW ram \in LimitValue,
         Sufficient(Staked(b, net, cpu)), managed' = managed,
         userres' = [userres EXCEPT ![b] = Kept(Staked(b, net, cpu))],
         limits' = [limits EXCEPT ![b] = BandwidthLimits(b, Staked(b, net, cpu), ram)],
         NEW a \in Accounts, NEW r \in Resource
  PROVE  /\ r \in Bandwidth \ managed'[a] => Gone(a, r)
         /\ r \in managed[a] \cap managed'[a] => KeptLimit(a, r)
<1>1. b \in Accounts
  BY DEF IInv, LimitsTypeOK
<1>2. CASE a = b
  <2> DEFINE row == Staked(a, net, cpu)
  <2>1. row \in [Resource -> Nat]
    BY <1>1, <1>2, StakedRow DEF IInv
  <2>2. userres'[a] = Kept(row) /\ limits'[a] = BandwidthLimits(a, row, ram)
    BY <1>2 DEF IInv, LimitsTypeOK
  <2> HIDE DEF row
  <2>3. Row(a)' = row
    BY <2>1, <2>2, KeptReads DEF Row
  <2>4. /\ \A s \in managed[a] : limits'[a][s] = limits[a][s]
        /\ \A s \in Bandwidth \ managed[a] : limits'[a][s] = row[s]
    <3>1. ram \in LimitValue
      OBVIOUS
    <3>2. LimitsTypeOK
      BY DEF IInv
    <3>3. FollowsRow(a, row, ram, limits'[a])
      BY <2>1, <2>2, <3>1, <3>2, BandwidthLimitsSet
    <3> QED
      BY <3>3 DEF FollowsRow
  <2> QED
    BY <2>3, <2>4 DEF Gone, KeptLimit
<1>3. CASE a # b
  <2>1. userres'[a] = userres[a] /\ managed'[a] = managed[a] /\ limits'[a] = limits[a]
    BY <1>3 DEF IInv, LimitsTypeOK
  <2> QED
    BY <2>1, OtherAccount
<1> QED
  BY <1>2, <1>3

\* A trade of RAM leaves NET and CPU, and the RAM limit when it is managed.
LEMMA RamTradeStep ==
  ASSUME IInv, NEW b \in Accounts, NEW held \in Int, managed' = managed,
         userres' = [userres EXCEPT ![b] = [Row(b) EXCEPT !["ram"] = held]],
         [Row(b) EXCEPT !["ram"] = held] # NoRow,
         limits' = [limits EXCEPT ![b]["ram"] = RamTraded(b, held)],
         NEW a \in Accounts, NEW r \in Resource
  PROVE  /\ r \in Bandwidth \ managed'[a] => Gone(a, r)
         /\ r \in managed[a] \cap managed'[a] => KeptLimit(a, r)
<1>1. CASE a = b
  <2>1. Row(a) \in [Resource -> Nat] /\ limits[a] \in [Resource -> LimitValue]
    BY RowType DEF IInv, LimitsTypeOK, LimitValue
  <2>2. Row(a)' = [Row(a) EXCEPT !["ram"] = held]
    BY <1>1 DEF IInv, LimitsTypeOK, Row
  <2>3. limits'[a] = [limits[a] EXCEPT !["ram"] = RamTraded(a, held)]
    BY <1>1 DEF IInv, LimitsTypeOK
  <2>4. ASSUME r \in Bandwidth \ managed'[a]
        PROVE  Gone(a, r)
    <3>1. Row(a)'[r] = Row(a)[r] /\ r \notin managed[a]
      BY <2>1, <2>2, <2>4 DEF Bandwidth, Resource
    <3> QED
      BY <3>1, <2>1 DEF Gone
  <2>5. ASSUME r \in managed[a]
        PROVE  KeptLimit(a, r)
    <3>1. limits'[a][r] = limits[a][r]
      BY <2>1, <2>3, <2>5 DEF RamTraded
    <3> QED
      BY <3>1 DEF KeptLimit
  <2> QED
    BY <2>4, <2>5
<1>2. CASE a # b
  <2>1. userres'[a] = userres[a] /\ managed'[a] = managed[a] /\ limits'[a] = limits[a]
    BY <1>2 DEF IInv, LimitsTypeOK
  <2> QED
    BY <2>1, OtherAccount
<1> QED
  BY <1>1, <1>2

\* A step that manages a resource, or no longer does, writes its limit alone.
LEMMA ManageStep ==
  ASSUME IInv, NEW b \in Accounts, NEW s \in Resource,
         (\E value \in Settings : Manage(b, s, value)) \/ Unmanage(b, s),
         NEW a \in created, NEW r \in Resource
  PROVE  /\ r \in Bandwidth \ managed'[a] => Gone(a, r)
         /\ r \in managed[a] \cap managed'[a] => KeptLimit(a, r)
<1>1. a \in Accounts /\ Row(a)' = Row(a)
  BY DEF IInv, LimitsTypeOK, Manage, Unmanage, Row
<1>2. Row(a) \in [Resource -> Nat]
  BY <1>1, RowType DEF IInv
<1>3. ASSUME a = b, NEW value \in Settings, Manage(b, s, value)
      PROVE  /\ r \in Bandwidth \ managed'[a] => Gone(a, r)
             /\ r \in managed[a] \cap managed'[a] => KeptLimit(a, r)
  <2>1. managed'[a] = managed[a] \cup {s} /\ limits' = [limits EXCEPT ![a][s] = value] /\ userres' = userres
    BY <1>3 DEF IInv, LimitsTypeOK, Manage
  <2>2. r # s => limits'[a][r] = limits[a][r]
    BY <1>1, <2>1 DEF IInv, LimitsTypeOK
  <2>3. limits'[a][s] = value
    BY <1>1, <2>1 DEF IInv, LimitsTypeOK
  <2>4. r = s => limits' = [limits EXCEPT ![a][r] = limits'[a][r]]
    BY <2>1, <2>3
  <2> QED
    BY <1>1, <1>2, <2>1, <2>2, <2>4 DEF Gone, KeptLimit
<1>4. CASE a = b /\ Unmanage(b, s)
  <2>1. managed'[a] = managed[a] \ {s} /\ limits' = [limits EXCEPT ![a][s] = Unmanaged(a, s)]
    BY <1>4 DEF IInv, LimitsTypeOK, Unmanage
  <2>2. r # s => limits'[a][r] = limits[a][r]
    BY <1>1, <2>1 DEF IInv, LimitsTypeOK
  <2>3. limits'[a][s] = Unmanaged(a, s)
    BY <1>1, <2>1 DEF IInv, LimitsTypeOK
  <2>4. r = s /\ r \in Bandwidth => limits'[a][r] = Row(a)[r]
    BY <1>2, <2>3 DEF Unmanaged, Bandwidth, Resource
  <2> QED
    BY <1>1, <1>2, <2>1, <2>2, <2>4 DEF Gone, KeptLimit
<1>5. CASE a # b
  <2>1. userres'[a] = userres[a] /\ managed'[a] = managed[a] /\ limits'[a] = limits[a]
    BY <1>1, <1>5 DEF IInv, LimitsTypeOK, Manage, Unmanage
  <2> QED
    BY <1>1, <2>1, OtherAccount
<1> QED
  BY <1>3, <1>4, <1>5

\* No step disturbs what either property says of an account that exists.
LEMMA StepOf ==
  ASSUME IInv, [Next]_vars, NEW a \in created, NEW r \in Resource
  PROVE  /\ r \in Bandwidth \ managed'[a] => Gone(a, r)
         /\ r \in managed[a] \cap managed'[a] => KeptLimit(a, r)
<1> DEFINE Goal == /\ r \in Bandwidth \ managed'[a] => Gone(a, r)
                   /\ r \in managed[a] \cap managed'[a] => KeptLimit(a, r)
<1> SUFFICES Goal
  OBVIOUS
<1>0. a \in Accounts
  BY DEF IInv, LimitsTypeOK
<1>1. ASSUME NEW b \in Accounts, newaccount(b)
      PROVE  Goal
  <2>1. userres'[a] = userres[a] /\ managed'[a] = managed[a] /\ limits'[a] = limits[a]
    BY <1>0, <1>1 DEF IInv, LimitsTypeOK, newaccount
  <2> QED
    BY <1>0, <2>1, OtherAccount
<1>2. ASSUME NEW b \in Accounts, NEW ram \in Settings, NEW net \in Settings, NEW cpu \in Settings,
             setalimits(b, ram, net, cpu)
      PROVE  Goal
  <2>1. userres' = userres /\ managed' = managed /\ Row(a)' = Row(a)
    BY <1>2 DEF setalimits, Row
  <2>2. Row(a) \in [Resource -> Nat]
    BY <1>0, RowType DEF IInv
  <2>3. r \in managed[a] => limits'[a][r] = limits[a][r]
    BY <1>0, <1>2 DEF IInv, LimitsTypeOK, setalimits
  <2> QED
    BY <2>1, <2>2, <2>3 DEF Gone, KeptLimit
<1>3. ASSUME NEW b \in Accounts, NEW s \in Resource, NEW value \in Settings, Manage(b, s, value)
      PROVE  Goal
  BY <1>3, ManageStep
<1>4. ASSUME NEW b \in Accounts, NEW s \in Resource, Unmanage(b, s)
      PROVE  Goal
  BY <1>4, ManageStep
<1>5. ASSUME NEW b \in Accounts, NEW net \in Int, NEW cpu \in Int, changebw(b, net, cpu)
      PROVE  Goal
  <2> DEFINE ram == larger(Staked(b, net, cpu)["ram"] + Gift, limits[b]["ram"])
  <2>1. /\ b \in created /\ Sufficient(Staked(b, net, cpu)) /\ managed' = managed
        /\ userres' = [userres EXCEPT ![b] = Kept(Staked(b, net, cpu))]
        /\ limits' = [limits EXCEPT ![b] = BandwidthLimits(b, Staked(b, net, cpu), ram)]
    BY <1>5 DEF changebw
  <2>2. Staked(b, net, cpu) \in [Resource -> Nat]
    BY <2>1, StakedRow DEF IInv
  <2>3. limits[b] \in [Resource -> LimitValue] /\ "ram" \in Resource
    BY DEF IInv, LimitsTypeOK, LimitValue, Resource
  <2>4. ram \in LimitValue
    BY <2>2, <2>3, LimitsAssumption DEF larger, LimitValue, LimitsAssumption
  <2> HIDE DEF ram
  <2> QED
    BY <1>0, <2>1, <2>4, StakeChangeStep
<1>6. ASSUME NEW b \in Accounts, NEW net \in Int, NEW cpu \in Int,
             update_resource_limits(b, net, cpu)
      PROVE  Goal
  <2> DEFINE ram == limits[b]["ram"]
  <2>1. /\ b \in created /\ Sufficient(Staked(b, net, cpu)) /\ managed' = managed
        /\ userres' = [userres EXCEPT ![b] = Kept(Staked(b, net, cpu))]
        /\ limits' = [limits EXCEPT ![b] = BandwidthLimits(b, Staked(b, net, cpu), ram)]
    BY <1>6 DEF update_resource_limits
  <2>2. ram \in LimitValue
    BY DEF IInv, LimitsTypeOK, LimitValue, Resource
  <2> HIDE DEF ram
  <2> QED
    BY <1>0, <2>1, <2>2, StakeChangeStep
<1>7. ASSUME NEW b \in Accounts, NEW bytes \in Deltas, buyram(b, bytes) \/ sellram(b, bytes)
      PROVE  Goal
  <2>1. Row(b) \in [Resource -> Nat] /\ "ram" \in Resource
    BY RowType DEF IInv, Resource
  <2>2. PICK held \in Int :
          /\ userres' = [userres EXCEPT ![b] = [Row(b) EXCEPT !["ram"] = held]]
          /\ limits' = [limits EXCEPT ![b]["ram"] = RamTraded(b, held)]
          /\ managed' = managed
    <3>1. Row(b)["ram"] + bytes \in Int /\ Row(b)["ram"] - bytes \in Int
      BY <2>1, DeltaTypes
    <3>2. CASE buyram(b, bytes)
      BY <2>1, <3>1, <3>2 DEF buyram
    <3>3. CASE sellram(b, bytes)
      BY <2>1, <3>1, <3>3 DEF sellram
    <3> QED
      BY <1>7, <3>2, <3>3
  <2>3. [Row(b) EXCEPT !["ram"] = held] # NoRow
    BY <2>1, LimitsAssumption DEF LimitsAssumption
  <2> QED
    BY <1>0, <2>2, <2>3, RamTradeStep
<1>8. ASSUME UNCHANGED vars
      PROVE  Goal
  BY <1>0, <1>8, OtherAccount DEF vars
<1> HIDE DEF Goal
<1> QED
  BY <1>1, <1>2, <1>3, <1>4, <1>5, <1>6, <1>7, <1>8, DeltaTypes DEF Next

\* What is unstaked cannot be used any longer, nor what was unstaked while the
\* system account managed the resource, once it no longer does.
THEOREM UnstakedGone ==
  Spec => UnstakedIsGone
<1>1. IInv /\ [Next]_vars =>
        [\A a \in created : \A r \in Bandwidth \ managed'[a] :
           (Row(a)[r] > 0 \/ r \in managed[a]) /\ Row(a)'[r] = 0 => limits'[a][r] = 0]_vars
  BY StepOf DEF Gone, Resource
<1> QED
  BY <1>1, LimitsInvariant, PTL DEF Spec, UnstakedIsGone

\* The limit of a managed resource changes only when it is set.
THEOREM ManagedKept ==
  Spec => ManagedIsKept
<1>1. IInv /\ [Next]_vars =>
        [\A a \in Accounts : \A r \in managed[a] \cap managed'[a] :
           limits'[a][r] # limits[a][r] =>
             userres' = userres /\ limits' = [limits EXCEPT ![a][r] = limits'[a][r]]]_vars
  <2> SUFFICES ASSUME IInv, [Next]_vars, NEW a \in Accounts, NEW r \in managed[a] \cap managed'[a]
               PROVE  KeptLimit(a, r)
    BY DEF KeptLimit
  <2>1. a \in created /\ r \in Resource
    BY DEF IInv, LimitsTypeOK
  <2> QED
    BY <2>1, StepOf
<1> QED
  BY <1>1, LimitsInvariant, PTL DEF Spec, ManagedIsKept
=============================================================================
