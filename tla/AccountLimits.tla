---------------------------- MODULE AccountLimits ----------------------------
(***************************************************************************)
(* What an account may use of RAM, NET and CPU.  The chain enforces one    *)
(* limit per account and resource.  eosio.system sets it from the row of   *)
(* what the account owns or has staked to it, unless the system account    *)
(* manages that resource of that account itself (flags of the voter row),  *)
(* or gave limits to an account that has no row (setalimits).              *)
(***************************************************************************)
EXTENDS Integers

CONSTANTS Accounts,
          Gift,          \* ram_gift_bytes
          NoRow,         \* a row that does not exist
          Deltas,        \* amounts by which stakes and RAM change
          Settings,      \* limits the system account sets
          MaxWeight      \* bound of what a row holds of one resource

Unlimited == -1

Bandwidth == {"net", "cpu"}
Resource == Bandwidth \cup {"ram"}

ASSUME LimitsAssumption ==
  /\ Gift \in Nat
  /\ Deltas \subseteq Nat
  /\ Settings \subseteq Nat \cup {Unlimited}
  /\ MaxWeight \in Nat
  /\ NoRow \notin [Resource -> Int]

VARIABLES created,   \* accounts that exist
          userres,   \* account -> what it owns or has staked to it, or NoRow
          managed,   \* account -> resources flagged in its voter row
          limits     \* account -> resource -> limit the chain enforces

vars == <<created, userres, managed, limits>>

Empty == [r \in Resource |-> 0]

Init ==
  /\ created = {}
  /\ userres = [a \in Accounts |-> NoRow]
  /\ managed = [a \in Accounts |-> {}]
  /\ limits = [a \in Accounts |-> Empty]

\* A missing row holds nothing.
Row(a) == IF userres[a] = NoRow THEN Empty ELSE userres[a]

Limits(ram, net, cpu) ==
  [r \in Resource |-> CASE r = "ram" -> ram [] r = "net" -> net [] r = "cpu" -> cpu]

larger(i, j) == IF i > j THEN i ELSE j

-----------------------------------------------------------------------------
newaccount(a) ==
  /\ a \notin created
  /\ created' = created \cup {a}
  /\ userres' = [userres EXCEPT ![a] = Empty]
  /\ limits' = [limits EXCEPT ![a] = Empty]
  /\ UNCHANGED managed

setalimits(a, ram, net, cpu) ==
  /\ a \in created
  /\ userres[a] = NoRow
  /\ managed[a] = {}
  /\ limits' = [limits EXCEPT ![a] = Limits(ram, net, cpu)]
  /\ UNCHANGED <<created, userres, managed>>

\* MUTANT: the account gets what it has staked without what it was given.
UnmanagedNoGift(a, r) == Row(a)[r]

\* The limit of a resource that is no longer managed.
Unmanaged(a, r) == Row(a)[r] + (IF r = "ram" THEN Gift ELSE 0)

\* setacctram, setacctnet, setacctcpu with a value; RAM cannot be unlimited.
Manage(a, r, value) ==
  /\ a \in created
  /\ value >= (IF r = "ram" THEN 0 ELSE Unlimited)
  /\ managed' = [managed EXCEPT ![a] = @ \cup {r}]
  /\ limits' = [limits EXCEPT ![a][r] = value]
  /\ UNCHANGED <<created, userres>>

\* setacctram, setacctnet, setacctcpu without a value.
Unmanage(a, r) ==
  /\ r \in managed[a]
  /\ managed' = [managed EXCEPT ![a] = @ \ {r}]
  /\ limits' = [limits EXCEPT ![a][r] = Unmanaged(a, r)]
  /\ UNCHANGED <<created, userres>>

-----------------------------------------------------------------------------
\* Rows are erased when they hold nothing.
Kept(row) == IF row = Empty THEN NoRow ELSE row

\* MUTANT: the limits are left alone when either resource is managed.
BandwidthLimitsEither(a, row, ram) ==
  IF managed[a] \cap Bandwidth # {} THEN limits[a]
  ELSE [r \in Resource |-> IF r = "ram" THEN ram ELSE row[r]]

\* The limits after a change of stake, which leave alone what is managed, and
\* RAM too when both NET and CPU are.
BandwidthLimits(a, row, ram) ==
  IF Bandwidth \subseteq managed[a] THEN limits[a]
  ELSE [r \in Resource |-> IF r \in managed[a] THEN limits[a][r]
                           ELSE IF r = "ram" THEN ram
                           ELSE row[r]]

Staked(a, net, cpu) ==
  [Row(a) EXCEPT !["net"] = @ + net, !["cpu"] = @ + cpu]

Sufficient(row) == \A r \in Bandwidth : row[r] \in 0 .. MaxWeight

\* The part of delegatebw and undelegatebw that is about the receiver.
changebw(a, net, cpu) ==
  LET row == Staked(a, net, cpu)
  IN  /\ a \in created
      /\ net # 0 \/ cpu # 0
      /\ Sufficient(row)
      /\ limits' = [limits EXCEPT ![a] =
                      BandwidthLimits(a, row, larger(row["ram"] + Gift, limits[a]["ram"]))]
      /\ userres' = [userres EXCEPT ![a] = Kept(row)]
      /\ UNCHANGED <<created, managed>>

\* A REX loan to the account begins or ends, or stake to it becomes REX.
update_resource_limits(a, net, cpu) ==
  LET row == Staked(a, net, cpu)
  IN  /\ a \in created
      /\ net # 0 \/ cpu # 0
      /\ userres[a] = NoRow => 0 <= net /\ 0 <= cpu
      /\ Sufficient(row)
      /\ limits' = [limits EXCEPT ![a] = BandwidthLimits(a, row, limits[a]["ram"])]
      /\ userres' = [userres EXCEPT ![a] = Kept(row)]
      /\ UNCHANGED <<created, managed>>

\* MUTANT: a trade sets the RAM limit whether it is managed or not.
RamTradedAlways(a, bytes) == bytes + Gift

\* The RAM limit after a trade.
RamTraded(a, bytes) == IF "ram" \in managed[a] THEN limits[a]["ram"] ELSE bytes + Gift

buyram(a, bytes) ==
  LET row == [Row(a) EXCEPT !["ram"] = @ + bytes]
  IN  /\ a \in created
      /\ bytes > 0
      /\ row["ram"] <= MaxWeight
      /\ userres' = [userres EXCEPT ![a] = row]
      /\ limits' = [limits EXCEPT ![a]["ram"] = RamTraded(a, row["ram"])]
      /\ UNCHANGED <<created, managed>>

\* Selling the last bytes leaves an empty row behind.
sellram(a, bytes) ==
  LET row == [Row(a) EXCEPT !["ram"] = @ - bytes]
  IN  /\ userres[a] # NoRow
      /\ bytes > 0
      /\ row["ram"] >= 0
      /\ userres' = [userres EXCEPT ![a] = row]
      /\ limits' = [limits EXCEPT ![a]["ram"] = RamTraded(a, row["ram"])]
      /\ UNCHANGED <<created, managed>>

Opposite(S) == {- d : d \in S}

Next ==
  \/ \E a \in Accounts : newaccount(a)
  \/ \E a \in Accounts, ram, net, cpu \in Settings : setalimits(a, ram, net, cpu)
  \/ \E a \in Accounts, r \in Resource, value \in Settings : Manage(a, r, value)
  \/ \E a \in Accounts, r \in Resource : Unmanage(a, r)
  \/ \E a \in Accounts, net, cpu \in Deltas :
       \/ changebw(a, net, cpu) \/ changebw(a, - net, - cpu)
       \/ update_resource_limits(a, net, cpu) \/ update_resource_limits(a, - net, - cpu)
  \/ \E a \in Accounts, bytes \in Deltas : buyram(a, bytes) \/ sellram(a, bytes)

Spec == Init /\ [][Next]_vars

-----------------------------------------------------------------------------
(***************************************************************************)
(* Properties                                                              *)
(***************************************************************************)
\* Rows and limits have their types, and an account that does not exist has
\* neither.
LimitsTypeOK ==
  /\ created \subseteq Accounts
  /\ userres \in [Accounts -> [Resource -> Nat] \cup {NoRow}]
  /\ managed \in [Accounts -> SUBSET Resource]
  /\ limits \in [Accounts -> [Resource -> Nat \cup {Unlimited}]]
  /\ \A a \in Accounts \ created : userres[a] = NoRow /\ managed[a] = {} /\ limits[a] = Empty

\* Who has NET or CPU staked to it may use exactly that much of it, and who
\* owns RAM exactly that and the gift, through every order of staking,
\* lending, trading, managing and giving limits, unless the system account
\* manages that very resource of that account.
LimitsFollowRows ==
  \A a \in Accounts : \A r \in Resource \ managed[a] :
    Row(a)[r] > 0 => limits[a][r] = Row(a)[r] + (IF r = "ram" THEN Gift ELSE 0)

\* What was unstaked cannot be used any longer, also when it was unstaked while
\* the system account managed the resource.
UnstakedIsGone ==
  [][\A a \in created : \A r \in Bandwidth \ managed'[a] :
       (Row(a)[r] > 0 \/ r \in managed[a]) /\ Row(a)'[r] = 0 => limits'[a][r] = 0]_vars

\* The limit of a resource that is and stays managed changes by itself: no
\* stake, no trade of RAM, and no setting of another resource touches it.
ManagedIsKept ==
  [][\A a \in Accounts : \A r \in managed[a] \cap managed'[a] :
       limits'[a][r] # limits[a][r] =>
         userres' = userres /\ limits' = [limits EXCEPT ![a][r] = limits'[a][r]]]_vars
=============================================================================
