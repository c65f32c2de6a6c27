---------------------------- MODULE TokenAuctionProofs ----------------------------
(***************************************************************************)
(* Proofs about the token contract and about the auction of names, whose   *)
(* bids, refunds and proceeds are tokens of that contract.  Parts 1 to 4   *)
(* are about Token for every set of names, accounts and symbols and for    *)
(* every MaxAmount: its safety invariants, from the inductive invariant    *)
(* IInv, and that it implements Ledger.  Parts 5 to 8 are about NameAuction *)
(* for all bidders, names, balances and delays: EveryTokenPlaced, which is *)
(* inductive as it stands, since its types and its two accounts, of        *)
(* eosio.names and of each bidder, cover every table that a token moves    *)
(* through.  SumProofs handles the sums.                                   *)
(***************************************************************************)
EXTENDS Token, NameAuction, SumProofs

(***************************************************************************)
(* Part 1: what the row helpers do to the holdings and to their total.     *)
(***************************************************************************)
LEMMA HoldingsType ==
  ASSUME NEW rows, RowsOK(rows)
  PROVE  HoldingsOf(rows) \in [Names -> Int]
BY DEF RowsOK, HoldingsOf, Balance

\* Rows whose holdings differ in one entry differ in total by as much.
LEMMA TotalOfChange ==
  ASSUME NEW rows, RowsOK(rows), NEW other, RowsOK(other),
         NEW owner \in Names, NEW d \in Int,
         Balance(other, owner) = Balance(rows, owner) + d,
         \A n \in Names \ {owner} : Balance(other, n) = Balance(rows, n)
  PROVE  TotalOf(other) = TotalOf(rows) + d
<1> DEFINE f == HoldingsOf(rows)
           h == HoldingsOf(other)
<1>1. f \in [Names -> Int] /\ h \in [Names -> Int]
  BY HoldingsType
<1>2. h[owner] = f[owner] + d /\ \A n \in Names \ {owner} : h[n] = f[n]
  BY DEF HoldingsOf
<1> HIDE DEF f, h
<1>3. SumFunctionOnSet(h, Names) = SumFunctionOnSet(f, Names) + d
  BY <1>1, <1>2, SumUpdate, NamesAssumption
<1> QED BY <1>3 DEF TotalOf, f, h

\* add_balance adds the value to the total of the rows and to one balance.
LEMMA AddBalance ==
  ASSUME NEW rows, RowsOK(rows), NEW owner \in Names, NEW value \in Int
  PROVE  /\ RowsOK(add_balance(rows, owner, value))
         /\ DOMAIN add_balance(rows, owner, value) = DOMAIN rows \cup {owner}
         /\ Balance(add_balance(rows, owner, value), owner) = Balance(rows, owner) + value
         /\ \A n \in Names \ {owner} :
               Balance(add_balance(rows, owner, value), n) = Balance(rows, n)
         /\ TotalOf(add_balance(rows, owner, value)) = TotalOf(rows) + value
<1> DEFINE new == add_balance(rows, owner, value)
<1>1. Balance(rows, owner) \in Int
  BY DEF RowsOK, Balance
<1>2. DOMAIN new = DOMAIN rows \cup {owner} /\ RowsOK(new)
  BY <1>1 DEF add_balance, RowsOK
<1>3. Balance(new, owner) = Balance(rows, owner) + value
  BY DEF add_balance, Balance
<1>4. \A n \in Names \ {owner} : Balance(new, n) = Balance(rows, n)
  BY DEF add_balance, Balance
<1> HIDE DEF new
<1>5. TotalOf(new) = TotalOf(rows) + value
  BY <1>2, <1>3, <1>4, TotalOfChange
<1> QED BY <1>2, <1>3, <1>4, <1>5 DEF new

\* sub_balance takes the value from the total of the rows and from one balance.
LEMMA SubBalance ==
  ASSUME NEW rows, RowsOK(rows), NEW owner \in DOMAIN rows, NEW value \in Int
  PROVE  /\ RowsOK(sub_balance(rows, owner, value))
         /\ DOMAIN sub_balance(rows, owner, value) = DOMAIN rows
         /\ Balance(sub_balance(rows, owner, value), owner) = Balance(rows, owner) - value
         /\ \A n \in Names \ {owner} :
               Balance(sub_balance(rows, owner, value), n) = Balance(rows, n)
         /\ TotalOf(sub_balance(rows, owner, value)) = TotalOf(rows) - value
<1> DEFINE new == sub_balance(rows, owner, value)
<1>1. owner \in Names /\ rows[owner] \in Int /\ rows \in [DOMAIN rows -> Int]
  BY DEF RowsOK
<1>2. DOMAIN new = DOMAIN rows /\ RowsOK(new)
  BY <1>1 DEF sub_balance, RowsOK
<1>3. Balance(new, owner) = Balance(rows, owner) + (- value) /\ - value \in Int
  BY <1>1 DEF sub_balance, Balance
<1>4. \A n \in Names \ {owner} : Balance(new, n) = Balance(rows, n)
  BY <1>1 DEF sub_balance, Balance
<1> HIDE DEF new
<1>5. TotalOf(new) = TotalOf(rows) + (- value)
  BY <1>1, <1>2, <1>3, <1>4, TotalOfChange
<1>6. TotalOf(rows) \in Int /\ Balance(rows, owner) \in Int
  BY <1>1, SumIsInt, HoldingsType, NamesAssumption DEF TotalOf, Balance
<1> QED BY <1>2, <1>3, <1>4, <1>5, <1>6 DEF new

\* A transfer keeps the total; nobody but the two parties is touched.
LEMMA TransferKeepsTotal ==
  ASSUME NEW rows, RowsOK(rows), NEW from \in Names, NEW to \in Names,
         NEW quantity \in Int, CanTransfer(rows, from, to, quantity)
  PROVE  /\ RowsOK(Transferred(rows, from, to, quantity))
         /\ Balance(Transferred(rows, from, to, quantity), from) = Balance(rows, from) - quantity
         /\ Balance(Transferred(rows, from, to, quantity), to) = Balance(rows, to) + quantity
         /\ \A n \in Names \ {from, to} :
               Balance(Transferred(rows, from, to, quantity), n) = Balance(rows, n)
         /\ TotalOf(Transferred(rows, from, to, quantity)) = TotalOf(rows)
<1> DEFINE mid == sub_balance(rows, from, quantity)
           new == Transferred(rows, from, to, quantity)
<1>1. from \in DOMAIN rows /\ from # to
  BY DEF CanTransfer, CanSub
<1>2. /\ RowsOK(mid)
      /\ DOMAIN mid = DOMAIN rows
      /\ Balance(mid, from) = Balance(rows, from) - quantity
      /\ \A n \in Names \ {from} : Balance(mid, n) = Balance(rows, n)
      /\ TotalOf(mid) = TotalOf(rows) - quantity
  BY <1>1, SubBalance
<1> HIDE DEF mid
<1>3. /\ RowsOK(new)
      /\ DOMAIN new = DOMAIN mid \cup {to}
      /\ Balance(new, to) = Balance(mid, to) + quantity
      /\ \A n \in Names \ {to} : Balance(new, n) = Balance(mid, n)
      /\ TotalOf(new) = TotalOf(mid) + quantity
  BY <1>2, AddBalance DEF Transferred, mid
<1>4. TotalOf(rows) \in Int
  BY SumIsInt, HoldingsType, NamesAssumption DEF TotalOf
<1> HIDE DEF new
<1> QED BY <1>1, <1>2, <1>3, <1>4 DEF new

\* Erasing a row of zero changes nobody's holdings.
LEMMA CloseKeepsTotal ==
  ASSUME NEW rows, RowsOK(rows), NEW owner \in DOMAIN rows, rows[owner] = 0
  PROVE  LET new == Restrict(rows, DOMAIN rows \ {owner})
         IN  /\ RowsOK(new)
             /\ \A n \in Names : Balance(new, n) = Balance(rows, n)
             /\ TotalOf(new) = TotalOf(rows)
<1> DEFINE new == Restrict(rows, DOMAIN rows \ {owner})
<1>1. RowsOK(new)
  BY DEF RowsOK, Restrict
<1>2. \A n \in Names : Balance(new, n) = Balance(rows, n)
  BY DEF Balance, Restrict
<1> HIDE DEF new
<1>3. HoldingsOf(new) = HoldingsOf(rows)
  BY <1>2 DEF HoldingsOf
<1> QED BY <1>1, <1>2, <1>3 DEF TotalOf, new

(***************************************************************************)
(* Part 2: the inductive invariant.  SymbolInv speaks of one symbol's rows *)
(* in the two tables; it adds to the checked invariants that the maximum   *)
(* is representable and is phrased with Balance, so that a missing row and *)
(* a row of zero count the same.                                           *)
(***************************************************************************)
RowsInv(rows) ==
  /\ RowsOK(rows)
  /\ \A n \in Names : Balance(rows, n) >= 0
  /\ \A n \in Names \ Accounts : Balance(rows, n) = 0

SymbolInv(st, rows) ==
  /\ st \in CurrencyStats
  /\ RowsInv(rows)
  /\ st.supply = TotalOf(rows)
  /\ st.supply <= st.max_supply
  /\ st.max_supply <= MaxAmount

IInv ==
  /\ stat \in [DOMAIN stat -> CurrencyStats]
  /\ DOMAIN stat \subseteq Symbols
  /\ DOMAIN accounts = Symbols
  /\ \A s \in DOMAIN stat : SymbolInv(stat[s], accounts[s])
  /\ \A s \in Symbols \ DOMAIN stat : RowsOK(accounts[s]) /\ DOMAIN accounts[s] = {}

\* No rows hold nothing.
LEMMA EmptyTotal ==
  ASSUME NEW rows, RowsOK(rows), DOMAIN rows = {}
  PROVE  RowsInv(rows) /\ TotalOf(rows) = 0
<1>1. \A n \in Names : Balance(rows, n) = 0
  BY DEF Balance
<1>2. HoldingsOf(rows) \in [Names -> Int] /\ \A n \in Names : HoldingsOf(rows)[n] = 0
  BY <1>1 DEF HoldingsOf
<1>3. TotalOf(rows) = 0
  BY <1>2, SumZero, NamesAssumption DEF TotalOf
<1> QED BY <1>1, <1>3 DEF RowsInv

\* A step that rewrites the rows of one existing symbol and leaves every other
\* symbol alone keeps IInv if the new rows satisfy SymbolInv.
LEMMA OneSymbolStep ==
  ASSUME IInv, NEW sym \in DOMAIN stat, NEW st, NEW rows, SymbolInv(st, rows),
         stat' = [stat EXCEPT ![sym] = st], accounts' = [accounts EXCEPT ![sym] = rows]
  PROVE  IInv'
<1>1. /\ DOMAIN stat' = DOMAIN stat
      /\ DOMAIN accounts' = DOMAIN accounts
      /\ stat'[sym] = st
      /\ accounts'[sym] = rows
      /\ \A s \in DOMAIN stat \ {sym} : stat'[s] = stat[s]
      /\ \A s \in Symbols \ {sym} : accounts'[s] = accounts[s]
  BY DEF IInv
<1>2. stat' \in [DOMAIN stat' -> CurrencyStats]
  BY DEF IInv, SymbolInv
<1> QED BY <1>1, <1>2 DEF IInv

\* create keeps the invariant: a new symbol has no supply and no rows.
LEMMA CreateInv ==
  ASSUME IInv, NEW sym \in Symbols, NEW issuer \in Names, NEW m \in Quantity,
         Create(issuer, sym, m)
  PROVE  IInv'
<1> DEFINE st == [supply |-> 0, max_supply |-> m, issuer |-> issuer]
<1>1. /\ sym \notin DOMAIN stat
      /\ m > 0
      /\ accounts' = accounts
      /\ DOMAIN stat' = DOMAIN stat \cup {sym}
      /\ stat'[sym] = st
      /\ \A s \in DOMAIN stat : stat'[s] = stat[s]
      /\ stat' = [s \in DOMAIN stat' |-> stat'[s]]
  BY DEF Create, Exists
<1>2. m \in Int /\ m <= MaxAmount
  BY MaxAmountAssumption DEF Quantity
<1>3. RowsInv(accounts[sym]) /\ TotalOf(accounts[sym]) = 0
  BY <1>1, EmptyTotal DEF IInv
<1>4. SymbolInv(st, accounts[sym])
  BY <1>1, <1>2, <1>3 DEF SymbolInv, CurrencyStats
<1>5. stat' \in [DOMAIN stat' -> CurrencyStats]
  BY <1>1, <1>4 DEF IInv, SymbolInv
<1> QED BY <1>1, <1>4, <1>5 DEF IInv

\* transfer keeps the invariant: what one balance loses the other gains.
LEMMA TransferInv ==
  ASSUME IInv, NEW sym \in Symbols, NEW from \in Names, NEW to \in Names,
         NEW q \in Quantity, Transfer(from, to, sym, q)
  PROVE  IInv'
<1> DEFINE rows == accounts[sym]
           new  == Transferred(rows, from, to, q)
<1>1. /\ sym \in DOMAIN stat
      /\ CanTransfer(rows, from, to, q)
      /\ accounts' = [accounts EXCEPT ![sym] = new]
      /\ stat' = stat
  BY DEF Transfer, Exists
<1>2. SymbolInv(stat[sym], rows) /\ q \in Int
  BY <1>1 DEF IInv, Quantity
<1>3. /\ RowsOK(new)
      /\ Balance(new, from) = Balance(rows, from) - q
      /\ Balance(new, to) = Balance(rows, to) + q
      /\ \A n \in Names \ {from, to} : Balance(new, n) = Balance(rows, n)
      /\ TotalOf(new) = TotalOf(rows)
  <2>1. RowsOK(rows)
    BY <1>2 DEF SymbolInv, RowsInv
  <2> HIDE DEF rows
  <2> QED BY <1>1, <1>2, <2>1, TransferKeepsTotal
<1>4. q > 0 /\ Balance(rows, from) >= q /\ from \in Accounts /\ to \in Accounts
  BY <1>1 DEF CanTransfer, CanSub, Balance
<1> HIDE DEF rows, new
<1>5. \A n \in Names : Balance(rows, n) \in Int
  BY <1>2 DEF SymbolInv, RowsInv, RowsOK, Balance
<1>6. RowsInv(new)
  BY <1>2, <1>3, <1>4, <1>5 DEF SymbolInv, RowsInv
<1>7. SymbolInv(stat[sym], new)
  BY <1>2, <1>3, <1>6 DEF SymbolInv
<1>8. stat' = [stat EXCEPT ![sym] = stat[sym]]
  BY <1>1 DEF IInv
<1> QED BY <1>1, <1>7, <1>8, OneSymbolStep DEF rows, new

\* issue keeps the invariant: supply and balances grow by the same amount.
LEMMA IssueInv ==
  ASSUME IInv, NEW sym \in Symbols, NEW to \in Names, NEW q \in Quantity, Issue(to, sym, q)
  PROVE  IInv'
<1> DEFINE st   == stat[sym]
           rows == add_balance(accounts[sym], st.issuer, q)
           nst  == [st EXCEPT !.supply = st.supply + q]
<1>1. /\ sym \in DOMAIN stat
      /\ st.issuer \in Accounts
      /\ q > 0
      /\ q <= st.max_supply - st.supply
      /\ stat' = [stat EXCEPT ![sym] = nst]
      /\ \/ to = st.issuer /\ accounts' = [accounts EXCEPT ![sym] = rows]
         \/ /\ CanTransfer(rows, st.issuer, to, q)
            /\ accounts' = [accounts EXCEPT ![sym] = Transferred(rows, st.issuer, to, q)]
  BY DEF Issue, Exists, WithinSupply, IInv
<1>2. SymbolInv(st, accounts[sym]) /\ q \in Int
  BY <1>1 DEF IInv, Quantity
<1>3. st \in CurrencyStats /\ RowsInv(accounts[sym]) /\ RowsOK(accounts[sym])
  BY <1>2 DEF SymbolInv, RowsInv
<1>4. st.issuer \in Names /\ st.supply \in Int /\ st.max_supply \in Int
  BY <1>3 DEF CurrencyStats
<1>5. nst \in CurrencyStats /\ nst.supply = st.supply + q /\ nst.max_supply = st.max_supply
  BY <1>2, <1>3 DEF CurrencyStats
<1> HIDE DEF st, nst
<1>6. /\ RowsOK(rows)
      /\ Balance(rows, st.issuer) = Balance(accounts[sym], st.issuer) + q
      /\ \A n \in Names \ {st.issuer} : Balance(rows, n) = Balance(accounts[sym], n)
      /\ TotalOf(rows) = TotalOf(accounts[sym]) + q
  BY <1>2, <1>3, <1>4, AddBalance
<1> HIDE DEF rows
<1>7. \A n \in Names : Balance(accounts[sym], n) \in Int /\ Balance(rows, n) \in Int
  BY <1>3, <1>6 DEF RowsOK, Balance
<1>8. RowsInv(rows) /\ TotalOf(rows) = nst.supply
  BY <1>1, <1>2, <1>3, <1>4, <1>5, <1>6, <1>7 DEF RowsInv, SymbolInv
<1>9. nst.supply <= nst.max_supply /\ nst.max_supply <= MaxAmount
  BY <1>1, <1>2, <1>4, <1>5 DEF SymbolInv
<1>10. CASE to = st.issuer /\ accounts' = [accounts EXCEPT ![sym] = rows]
  <2>1. SymbolInv(nst, rows)
    BY <1>5, <1>8, <1>9 DEF SymbolInv
  <2> QED BY <1>1, <1>10, <2>1, OneSymbolStep
<1>11. CASE /\ CanTransfer(rows, st.issuer, to, q)
            /\ accounts' = [accounts EXCEPT ![sym] = Transferred(rows, st.issuer, to, q)]
  <2> DEFINE new == Transferred(rows, st.issuer, to, q)
  <2>1. /\ RowsOK(new)
        /\ Balance(new, st.issuer) = Balance(rows, st.issuer) - q
        /\ Balance(new, to) = Balance(rows, to) + q
        /\ \A n \in Names \ {st.issuer, to} : Balance(new, n) = Balance(rows, n)
        /\ TotalOf(new) = TotalOf(rows)
    BY <1>2, <1>4, <1>6, <1>11, TransferKeepsTotal
  <2>2. to \in Accounts /\ q > 0 /\ q <= Balance(rows, st.issuer)
    BY <1>11 DEF CanTransfer, CanSub, Balance
  <2> HIDE DEF new
  <2>3. RowsInv(new)
    BY <1>1, <1>2, <1>7, <1>8, <2>1, <2>2 DEF RowsInv
  <2>4. SymbolInv(nst, new)
    BY <1>5, <1>8, <1>9, <2>1, <2>3 DEF SymbolInv
  <2> QED BY <1>1, <1>11, <2>4, OneSymbolStep DEF new
<1> QED BY <1>1, <1>10, <1>11

\* retire keeps the invariant: the issuer's balance, part of the supply, covers it.
LEMMA RetireInv ==
  ASSUME IInv, NEW sym \in Symbols, NEW q \in Quantity, Retire(sym, q)
  PROVE  IInv'
<1> DEFINE st   == stat[sym]
           rows == accounts[sym]
           new  == sub_balance(rows, st.issuer, q)
           nst  == [st EXCEPT !.supply = st.supply - q]
<1>1. /\ sym \in DOMAIN stat
      /\ st.issuer \in Accounts
      /\ q > 0
      /\ CanSub(rows, st.issuer, q)
      /\ stat' = [stat EXCEPT ![sym] = nst]
      /\ accounts' = [accounts EXCEPT ![sym] = new]
  BY DEF Retire, Exists, IInv
<1>2. SymbolInv(st, rows) /\ q \in Int
  BY <1>1 DEF IInv, Quantity
<1>3. st \in CurrencyStats /\ RowsInv(rows) /\ RowsOK(rows)
  BY <1>2 DEF SymbolInv, RowsInv
<1>4. st.issuer \in DOMAIN rows /\ st.supply \in Int /\ st.max_supply \in Int
  BY <1>1, <1>3 DEF CurrencyStats, CanSub
<1>5. nst \in CurrencyStats /\ nst.supply = st.supply - q /\ nst.max_supply = st.max_supply
  BY <1>2, <1>3 DEF CurrencyStats
<1>6. q <= Balance(rows, st.issuer)
  BY <1>1 DEF CanSub, Balance
<1> HIDE DEF st, nst, rows
<1>7. /\ RowsOK(new)
      /\ Balance(new, st.issuer) = Balance(rows, st.issuer) - q
      /\ \A n \in Names \ {st.issuer} : Balance(new, n) = Balance(rows, n)
      /\ TotalOf(new) = TotalOf(rows) - q
  BY <1>2, <1>3, <1>4, SubBalance
<1> HIDE DEF new
<1>8. \A n \in Names : Balance(rows, n) \in Int
  BY <1>3 DEF RowsOK, Balance
<1>9. RowsInv(new)
  BY <1>1, <1>2, <1>3, <1>6, <1>7, <1>8 DEF RowsInv
<1>10. SymbolInv(nst, new)
  BY <1>1, <1>2, <1>4, <1>5, <1>7, <1>9 DEF SymbolInv
<1> QED BY <1>1, <1>10, OneSymbolStep

\* open keeps the invariant: the new row is empty.
LEMMA OpenInv ==
  ASSUME IInv, NEW sym \in Symbols, NEW owner \in Names, NEW ram_payer \in Names,
         Open(owner, sym, ram_payer)
  PROVE  IInv'
<1> DEFINE rows == accounts[sym]
           new  == add_balance(rows, owner, 0)
<1>1. /\ sym \in DOMAIN stat
      /\ stat' = [stat EXCEPT ![sym] = stat[sym]]
      /\ accounts' = [accounts EXCEPT ![sym] = new]
  BY DEF Open, Exists, IInv
<1>2. SymbolInv(stat[sym], rows) /\ RowsOK(rows)
  BY <1>1 DEF IInv, SymbolInv, RowsInv
<1> HIDE DEF rows
<1>3. /\ RowsOK(new)
      /\ Balance(new, owner) = Balance(rows, owner) + 0
      /\ \A n \in Names \ {owner} : Balance(new, n) = Balance(rows, n)
      /\ TotalOf(new) = TotalOf(rows) + 0
  <2>1. 0 \in Int
    OBVIOUS
  <2> QED BY <1>2, <2>1, AddBalance, Zenon
<1>4. TotalOf(rows) \in Int /\ Balance(rows, owner) \in Int
  BY <1>2, SumIsInt, HoldingsType, NamesAssumption DEF TotalOf, RowsOK, Balance
<1> HIDE DEF new
<1>5. \A n \in Names : Balance(new, n) = Balance(rows, n)
  BY <1>3, <1>4
<1>6. SymbolInv(stat[sym], new)
  BY <1>2, <1>3, <1>4, <1>5 DEF SymbolInv, RowsInv
<1> QED BY <1>1, <1>6, OneSymbolStep

\* close keeps the invariant: the row it erases is empty.
LEMMA CloseInv ==
  ASSUME IInv, NEW sym \in Symbols, NEW owner \in Names, Close(owner, sym)
  PROVE  IInv'
<1> DEFINE rows == accounts[sym]
           new  == Restrict(rows, DOMAIN rows \ {owner})
<1>1. /\ owner \in DOMAIN rows
      /\ rows[owner] = 0
      /\ stat' = stat
      /\ accounts' = [accounts EXCEPT ![sym] = new]
  BY DEF Close, IInv
<1>2. sym \in DOMAIN stat
  BY <1>1 DEF IInv
<1>3. SymbolInv(stat[sym], rows) /\ RowsOK(rows)
  BY <1>2 DEF IInv, SymbolInv, RowsInv
<1>4. stat' = [stat EXCEPT ![sym] = stat[sym]]
  BY <1>1 DEF IInv
<1> HIDE DEF rows
<1>5. /\ RowsOK(new)
      /\ \A n \in Names : Balance(new, n) = Balance(rows, n)
      /\ TotalOf(new) = TotalOf(rows)
  BY <1>1, <1>3, CloseKeepsTotal
<1> HIDE DEF new
<1>6. SymbolInv(stat[sym], new)
  BY <1>3, <1>5 DEF SymbolInv, RowsInv
<1> QED BY <1>1, <1>2, <1>4, <1>6, OneSymbolStep

(***************************************************************************)
(* Part 3: the theorems.                                                   *)
(***************************************************************************)
LEMMA InitInv == Init => IInv
BY DEF Init, IInv, RowsOK

\* Every step keeps the invariant.
LEMMA NextInv == IInv /\ [Next]_vars => IInv'
<1> SUFFICES ASSUME IInv, [Next]_vars PROVE IInv'
  OBVIOUS
<1>1. CASE UNCHANGED vars
  BY <1>1 DEF vars, IInv
<1>2. CASE Next
  <2>1. PICK sym \in Symbols :
          \/ \E issuer \in Names, m \in Quantity : Create(issuer, sym, m)
          \/ \E to \in Names, q \in Quantity : Issue(to, sym, q)
          \/ \E q \in Quantity : Retire(sym, q)
          \/ \E from, to \in Names, q \in Quantity : Transfer(from, to, sym, q)
          \/ \E owner, ram_payer \in Names : Open(owner, sym, ram_payer)
          \/ \E owner \in Names : Close(owner, sym)
    BY <1>2 DEF Next
  <2> QED BY <2>1, CreateInv, IssueInv, RetireInv, TransferInv, OpenInv, CloseInv
<1> QED BY <1>1, <1>2

\* The inductive invariant of the token contract.
LEMMA InductiveInvariant == Spec => []IInv
BY InitInv, NextInv, PTL DEF Spec

\* The invariant implies the properties.
LEMMA ImpliedBySymbols ==
  ASSUME IInv
  PROVE  TypeOK /\ SupplyIsHeld /\ NoOverdraft /\ SupplyBounded /\ NoStrandedTokens
<1>1. \A s \in Symbols : RowsInv(accounts[s])
  BY EmptyTotal DEF IInv, SymbolInv
<1>2. TypeOK
  BY <1>1 DEF IInv, TypeOK, RowsInv
<1>3. SupplyIsHeld
  BY DEF IInv, SymbolInv, SupplyIsHeld
<1>4. NoOverdraft
  BY <1>1 DEF RowsInv, RowsOK, Balance, NoOverdraft
<1>5. NoStrandedTokens
  BY <1>1 DEF RowsInv, NoStrandedTokens
<1>6. SupplyBounded
  <2>1. ASSUME NEW s \in DOMAIN stat PROVE 0 <= stat[s].supply
    <3>1. HoldingsOf(accounts[s]) \in [Names -> Int]
      BY HoldingsType DEF IInv, SymbolInv, RowsInv
    <3>2. \A n \in Names : HoldingsOf(accounts[s])[n] >= 0
      BY DEF IInv, SymbolInv, RowsInv, HoldingsOf
    <3>3. HoldingsOf(accounts[s]) \in [Names -> Nat]
      BY <3>1, <3>2
    <3>4. TotalOf(accounts[s]) >= 0
      BY <3>3, SumBound, NamesAssumption DEF TotalOf
    <3> QED BY <3>4 DEF IInv, SymbolInv
  <2> QED BY <2>1 DEF IInv, SymbolInv, SupplyBounded
<1> QED BY <1>2, <1>3, <1>4, <1>5, <1>6

\* The tables keep their shape, and a balance row exists only of a symbol that
\* has been created.
THEOREM TypeCorrect == Spec => []TypeOK
BY InductiveInvariant, ImpliedBySymbols, PTL

\* Whatever actions are pushed, the recorded supply of a symbol is the sum of
\* all balances: issue, retire and transfer never create or lose a unit.
THEOREM SupplyConserved == Spec => []SupplyIsHeld
BY InductiveInvariant, ImpliedBySymbols, PTL

\* No balance is ever negative.
THEOREM NeverOverdrawn == Spec => []NoOverdraft
BY InductiveInvariant, ImpliedBySymbols, PTL

\* The supply stays within what the creator fixed; in particular retire, which
\* does not look at the supply, cannot make it negative.
THEOREM SupplyStaysBounded == Spec => []SupplyBounded
BY InductiveInvariant, ImpliedBySymbols, PTL

\* A name that is no account never holds anything.
THEOREM NothingStranded == Spec => []NoStrandedTokens
BY InductiveInvariant, ImpliedBySymbols, PTL

(***************************************************************************)
(* Part 4: the contract implements the abstract ledger.                    *)
(***************************************************************************)
\* What the ledger sees of the tables.
Issuers == [s \in Symbols |-> IF Exists(s) THEN stat[s].issuer ELSE NoIssuer]

Caps == [s \in Symbols |-> IF Exists(s) THEN stat[s].max_supply ELSE 0]

Supplies == [s \in Symbols |-> IF Exists(s) THEN stat[s].supply ELSE 0]

Held == [s \in Symbols |-> Holdings(s)]

\* A function that differs from another in one place.
LEMMA OneChanged ==
  ASSUME NEW S, NEW F, NEW G, F = [s \in S |-> F[s]], G = [s \in S |-> G[s]],
         NEW x \in S, NEW v, G[x] = v, \A s \in S \ {x} : G[s] = F[s]
  PROVE  G = [F EXCEPT ![x] = v]
<1>1. DOMAIN F = S
  BY Zenon
<1>2. [F EXCEPT ![x] = v] = [s \in S |-> IF s = x THEN v ELSE F[s]]
  BY <1>1
<1>3. \A s \in S : G[s] = IF s = x THEN v ELSE F[s]
  OBVIOUS
<1>4. [s \in S |-> G[s]] = [s \in S |-> IF s = x THEN v ELSE F[s]]
  BY <1>3
<1> QED BY <1>2, <1>4

\* What the ledger sees is seen symbol by symbol, before and after a step.
LEMMA SeenAsFunctions ==
  /\ Issuers = [s \in Symbols |-> Issuers[s]] /\ Issuers' = [s \in Symbols |-> Issuers'[s]]
  /\ Caps = [s \in Symbols |-> Caps[s]] /\ Caps' = [s \in Symbols |-> Caps'[s]]
  /\ Supplies = [s \in Symbols |-> Supplies[s]] /\ Supplies' = [s \in Symbols |-> Supplies'[s]]
  /\ Held = [s \in Symbols |-> Held[s]] /\ Held' = [s \in Symbols |-> Held'[s]]
BY DEF Issuers, Caps, Supplies, Held

\* A step that rewrites the rows of one existing symbol.
Rewritten(sym, st, rows) ==
  /\ stat' = [stat EXCEPT ![sym] = st]
  /\ accounts' = [accounts EXCEPT ![sym] = rows]

\* What the ledger sees of it.
SeenAs(sym, st, rows) ==
  /\ Issuers' = [Issuers EXCEPT ![sym] = st.issuer]
  /\ Caps' = [Caps EXCEPT ![sym] = st.max_supply]
  /\ Supplies' = [Supplies EXCEPT ![sym] = st.supply]
  /\ Held' = [Held EXCEPT ![sym] = HoldingsOf(rows)]

\* Such a step changes what the ledger sees of that symbol, and of no other.
LEMMA OneSymbolSeen ==
  ASSUME IInv, NEW sym \in DOMAIN stat, NEW st, NEW rows, Rewritten(sym, st, rows)
  PROVE  SeenAs(sym, st, rows)
<1>1. /\ DOMAIN stat' = DOMAIN stat /\ sym \in Symbols
      /\ stat'[sym] = st
      /\ accounts'[sym] = rows
      /\ \A s \in DOMAIN stat \ {sym} : stat'[s] = stat[s]
      /\ \A s \in Symbols \ {sym} : accounts'[s] = accounts[s]
  BY DEF IInv, Rewritten
<1>2. /\ \A s \in DOMAIN stat \ {sym} : Exists(s)' /\ Exists(s)
      /\ \A s \in Symbols \ DOMAIN stat : ~ Exists(s)' /\ ~ Exists(s)
      /\ Exists(sym)'
  BY <1>1 DEF Exists
<1>3. /\ Issuers'[sym] = st.issuer
      /\ \A s \in Symbols \ {sym} : Issuers'[s] = Issuers[s]
  BY <1>1, <1>2 DEF Issuers
<1>4. /\ Caps'[sym] = st.max_supply
      /\ \A s \in Symbols \ {sym} : Caps'[s] = Caps[s]
  BY <1>1, <1>2 DEF Caps
<1>5. /\ Supplies'[sym] = st.supply
      /\ \A s \in Symbols \ {sym} : Supplies'[s] = Supplies[s]
  BY <1>1, <1>2 DEF Supplies
<1>6. /\ Held'[sym] = HoldingsOf(rows)
      /\ \A s \in Symbols \ {sym} : Held'[s] = Held[s]
  BY <1>1 DEF Held, Holdings
<1> QED BY <1>1, <1>3, <1>4, <1>5, <1>6, OneChanged, SeenAsFunctions DEF SeenAs

\* What the ledger sees of an existing symbol before the step.
LEMMA Seen ==
  ASSUME IInv, NEW sym \in DOMAIN stat
  PROVE  /\ sym \in Symbols /\ RowsOK(accounts[sym])
         /\ stat[sym] \in CurrencyStats
         /\ Issuers[sym] = stat[sym].issuer /\ Caps[sym] = stat[sym].max_supply
         /\ Supplies[sym] = stat[sym].supply /\ Held[sym] = HoldingsOf(accounts[sym])
BY DEF IInv, SymbolInv, RowsInv, Issuers, Caps, Supplies, Held, Holdings, Exists

\* Writing back what the ledger saw changes nothing.
LEMMA SameSeen ==
  ASSUME NEW sym \in Symbols
  PROVE  /\ [Issuers EXCEPT ![sym] = Issuers[sym]] = Issuers
         /\ [Caps EXCEPT ![sym] = Caps[sym]] = Caps
         /\ [Supplies EXCEPT ![sym] = Supplies[sym]] = Supplies
         /\ [Held EXCEPT ![sym] = Held[sym]] = Held
BY DEF Issuers, Caps, Supplies, Held

\* create registers a symbol nobody holds.
LEMMA CreateRegisters ==
  ASSUME IInv, NEW sym \in Symbols, NEW issuer \in Names, NEW m \in Quantity,
         Create(issuer, sym, m)
  PROVE  L!Register(sym, issuer, m) /\ m \in 1 .. MaxAmount
<1>1. /\ sym \notin DOMAIN stat /\ accounts' = accounts
      /\ DOMAIN stat' = DOMAIN stat \cup {sym}
      /\ stat'[sym] = [supply |-> 0, max_supply |-> m, issuer |-> issuer]
      /\ \A s \in DOMAIN stat : stat'[s] = stat[s]
  BY DEF Create, Exists
<1>2. Issuers[sym] = NoIssuer /\ Issuers' = [Issuers EXCEPT ![sym] = issuer]
  <2>1. /\ Issuers[sym] = NoIssuer /\ Issuers'[sym] = issuer
        /\ \A s \in Symbols \ {sym} : Issuers'[s] = Issuers[s]
    BY <1>1 DEF Issuers, Exists
  <2> QED BY <2>1, OneChanged, SeenAsFunctions
<1>3. Caps' = [Caps EXCEPT ![sym] = m]
  <2>1. Caps'[sym] = m /\ \A s \in Symbols \ {sym} : Caps'[s] = Caps[s]
    BY <1>1 DEF Caps, Exists
  <2> QED BY <2>1, OneChanged, SeenAsFunctions
<1>4. Supplies' = Supplies
  BY <1>1 DEF Supplies, Exists
<1>5. Held' = Held
  BY <1>1 DEF Held, Holdings
<1>6. m \in 1 .. MaxAmount
  BY MaxAmountAssumption DEF Create, Quantity
<1> QED BY <1>2, <1>3, <1>4, <1>5, <1>6 DEF L!Register, Issuers, Caps, Supplies, Held

\* A transfer moves an amount.
LEMMA TransferMoves ==
  ASSUME IInv, NEW sym \in Symbols, NEW from \in Names, NEW to \in Names,
         NEW q \in Quantity, Transfer(from, to, sym, q)
  PROVE  L!Move(sym, from, to, q) /\ q \in 1 .. MaxAmount
<1> DEFINE rows == accounts[sym]
           new  == Transferred(rows, from, to, q)
<1>1. /\ sym \in DOMAIN stat
      /\ CanTransfer(rows, from, to, q)
      /\ accounts' = [accounts EXCEPT ![sym] = new]
      /\ stat' = [stat EXCEPT ![sym] = stat[sym]]
  BY DEF Transfer, Exists, IInv
<1>2. /\ RowsOK(rows) /\ q \in Int
      /\ Issuers[sym] = stat[sym].issuer /\ Caps[sym] = stat[sym].max_supply
      /\ Supplies[sym] = stat[sym].supply /\ Held[sym] = HoldingsOf(rows)
  BY <1>1, Seen DEF Quantity
<1>3. /\ from # to /\ from \in Accounts /\ to \in Accounts
      /\ q \in 1 .. MaxAmount /\ q <= Balance(rows, from)
  BY <1>1, MaxAmountAssumption DEF CanTransfer, CanSub, Balance, Quantity
<1> HIDE DEF rows
<1>4. /\ Balance(new, from) = Balance(rows, from) - q
      /\ Balance(new, to) = Balance(rows, to) + q
      /\ \A n \in Names \ {from, to} : Balance(new, n) = Balance(rows, n)
  BY <1>1, <1>2, TransferKeepsTotal
<1> HIDE DEF new
<1>5. HoldingsOf(new) = [HoldingsOf(rows) EXCEPT ![from] = @ - q, ![to] = @ + q]
  BY <1>3, <1>4 DEF HoldingsOf
<1>6. /\ Issuers' = Issuers /\ Caps' = Caps /\ Supplies' = Supplies
      /\ Held' = [Held EXCEPT ![sym] = HoldingsOf(new)]
  <2>1. /\ Issuers' = [Issuers EXCEPT ![sym] = stat[sym].issuer]
        /\ Caps' = [Caps EXCEPT ![sym] = stat[sym].max_supply]
        /\ Supplies' = [Supplies EXCEPT ![sym] = stat[sym].supply]
        /\ Held' = [Held EXCEPT ![sym] = HoldingsOf(new)]
    <3>1. Rewritten(sym, stat[sym], new)
      BY <1>1 DEF Rewritten
    <3>2. SeenAs(sym, stat[sym], new)
      BY <1>1, <3>1, OneSymbolSeen
    <3> QED BY <3>2, Zenon DEF SeenAs
  <2> QED BY <1>2, <2>1, SameSeen, Zenon
<1>7. Held' = [Held EXCEPT ![sym][from] = @ - q, ![sym][to] = @ + q]
  BY <1>2, <1>3, <1>5, <1>6 DEF Held
<1>8. q <= Held[sym][from]
  BY <1>2, <1>3 DEF HoldingsOf
<1> QED BY <1>3, <1>6, <1>7, <1>8 DEF L!Move, Issuers, Caps, Supplies, Held

\* issue, with its inline transfer, mints to the receiver.
LEMMA IssueMints ==
  ASSUME IInv, NEW sym \in Symbols, NEW to \in Names, NEW q \in Quantity, Issue(to, sym, q)
  PROVE  L!Mint(sym, to, q) /\ q \in 1 .. MaxAmount
<1> DEFINE st   == stat[sym]
           rows == add_balance(accounts[sym], st.issuer, q)
           nst  == [st EXCEPT !.supply = st.supply + q]
<1>1. /\ sym \in DOMAIN stat
      /\ st.issuer \in Accounts
      /\ q > 0
      /\ q <= st.max_supply - st.supply
      /\ stat' = [stat EXCEPT ![sym] = nst]
      /\ \/ to = st.issuer /\ accounts' = [accounts EXCEPT ![sym] = rows]
         \/ /\ CanTransfer(rows, st.issuer, to, q)
            /\ accounts' = [accounts EXCEPT ![sym] = Transferred(rows, st.issuer, to, q)]
  BY DEF Issue, Exists, WithinSupply, IInv
<1>2. /\ RowsOK(accounts[sym]) /\ q \in Int /\ q \in 1 .. MaxAmount
      /\ st \in CurrencyStats
      /\ Issuers[sym] = st.issuer /\ Caps[sym] = st.max_supply
      /\ Supplies[sym] = st.supply /\ Held[sym] = HoldingsOf(accounts[sym])
  BY <1>1, Seen, MaxAmountAssumption DEF Quantity
<1>3. st.issuer \in Names /\ st.supply \in Int /\ st.max_supply \in Int
  BY <1>2 DEF CurrencyStats
<1>4. nst.supply = st.supply + q /\ nst.max_supply = st.max_supply /\ nst.issuer = st.issuer
  BY <1>2 DEF CurrencyStats
<1> HIDE DEF st, nst
<1>5. /\ RowsOK(rows)
      /\ Balance(rows, st.issuer) = Balance(accounts[sym], st.issuer) + q
      /\ \A n \in Names \ {st.issuer} : Balance(rows, n) = Balance(accounts[sym], n)
  <2>1. PICK had : had = accounts[sym]
    OBVIOUS
  <2>2. PICK owner \in Names : owner = st.issuer
    BY <1>3
  <2>3. PICK got : got = add_balance(had, owner, q)
    OBVIOUS
  <2>4. /\ RowsOK(got) /\ Balance(got, owner) = Balance(had, owner) + q
        /\ \A n \in Names \ {owner} : Balance(got, n) = Balance(had, n)
    <3>1. RowsOK(had) /\ q \in Int
      BY <1>2, <2>1
    <3> QED
      BY <2>3, <3>1, AddBalance, ZenonT(40)
  <2> QED
    BY <2>1, <2>2, <2>3, <2>4
<1> HIDE DEF rows
<1>6. \A n \in Names : Balance(accounts[sym], n) \in Int /\ Balance(rows, n) \in Int
  BY <1>2, <1>5 DEF RowsOK, Balance
<1>7. \E new : /\ accounts' = [accounts EXCEPT ![sym] = new]
               /\ to \in Accounts
               /\ Balance(new, to) = Balance(accounts[sym], to) + q
               /\ \A n \in Names \ {to} : Balance(new, n) = Balance(accounts[sym], n)
  <2>1. CASE to = st.issuer /\ accounts' = [accounts EXCEPT ![sym] = rows]
    BY <1>1, <1>5, <2>1
  <2>2. CASE /\ CanTransfer(rows, st.issuer, to, q)
             /\ accounts' = [accounts EXCEPT ![sym] = Transferred(rows, st.issuer, to, q)]
    <3> DEFINE new == Transferred(rows, st.issuer, to, q)
    <3>1. to # st.issuer /\ to \in Accounts
      BY <2>2 DEF CanTransfer
    <3>2. /\ Balance(new, st.issuer) = Balance(rows, st.issuer) - q
          /\ Balance(new, to) = Balance(rows, to) + q
          /\ \A n \in Names \ {st.issuer, to} : Balance(new, n) = Balance(rows, n)
      BY <1>2, <1>3, <1>5, <2>2, TransferKeepsTotal
    <3> HIDE DEF new
    <3>3. /\ Balance(new, to) = Balance(accounts[sym], to) + q
          /\ \A n \in Names \ {to} : Balance(new, n) = Balance(accounts[sym], n)
      BY <1>2, <1>3, <1>5, <1>6, <3>1, <3>2
    <3>4. accounts' = [accounts EXCEPT ![sym] = new]
      BY <2>2 DEF new
    <3> QED BY <3>1, <3>3, <3>4
  <2> QED BY <1>1, <2>1, <2>2
<1>8. PICK new : /\ accounts' = [accounts EXCEPT ![sym] = new]
                 /\ to \in Accounts
                 /\ Balance(new, to) = Balance(accounts[sym], to) + q
                 /\ \A n \in Names \ {to} : Balance(new, n) = Balance(accounts[sym], n)
  BY <1>7
<1>9. HoldingsOf(new) = [HoldingsOf(accounts[sym]) EXCEPT ![to] = @ + q]
  BY <1>8 DEF HoldingsOf
<1>10. /\ Issuers' = Issuers /\ Caps' = Caps
       /\ Supplies' = [Supplies EXCEPT ![sym] = @ + q]
       /\ Held' = [Held EXCEPT ![sym] = HoldingsOf(new)]
  <2>1. /\ Issuers' = [Issuers EXCEPT ![sym] = nst.issuer]
        /\ Caps' = [Caps EXCEPT ![sym] = nst.max_supply]
        /\ Supplies' = [Supplies EXCEPT ![sym] = nst.supply]
        /\ Held' = [Held EXCEPT ![sym] = HoldingsOf(new)]
    <3>1. /\ sym \in DOMAIN stat
          /\ stat' = [stat EXCEPT ![sym] = nst] /\ accounts' = [accounts EXCEPT ![sym] = new]
      BY <1>1, <1>8
    <3>2. Rewritten(sym, nst, new)
      BY <3>1, Zenon DEF Rewritten
    <3>3. SeenAs(sym, nst, new)
      BY <3>1, <3>2, OneSymbolSeen
    <3> QED BY <3>3, Zenon DEF SeenAs
  <2>2. Supplies' = [Supplies EXCEPT ![sym] = @ + q]
    BY <1>2, <1>4, <2>1 DEF Supplies
  <2> QED BY <1>2, <1>4, <2>1, <2>2, SameSeen
<1>11. Held' = [Held EXCEPT ![sym][to] = @ + q]
  BY <1>2, <1>9, <1>10 DEF Held
<1>12. Issuers[sym] \in Accounts /\ Supplies[sym] + q <= Caps[sym]
  BY <1>1, <1>2, <1>3
<1> QED BY <1>2, <1>8, <1>10, <1>11, <1>12 DEF L!Mint, Issuers, Caps, Supplies, Held

\* retire burns what the issuer holds.
LEMMA RetireBurns ==
  ASSUME IInv, NEW sym \in Symbols, NEW q \in Quantity, Retire(sym, q)
  PROVE  L!Burn(sym, q) /\ q \in 1 .. MaxAmount
<1> DEFINE st   == stat[sym]
           rows == accounts[sym]
           new  == sub_balance(rows, st.issuer, q)
           nst  == [st EXCEPT !.supply = st.supply - q]
<1>1. /\ sym \in DOMAIN stat
      /\ st.issuer \in Accounts
      /\ q > 0
      /\ CanSub(rows, st.issuer, q)
      /\ stat' = [stat EXCEPT ![sym] = nst]
      /\ accounts' = [accounts EXCEPT ![sym] = new]
  BY DEF Retire, Exists, IInv
<1>2. /\ RowsOK(rows) /\ q \in Int /\ q \in 1 .. MaxAmount
      /\ st \in CurrencyStats
      /\ Issuers[sym] = st.issuer /\ Caps[sym] = st.max_supply
      /\ Supplies[sym] = st.supply /\ Held[sym] = HoldingsOf(rows)
  BY <1>1, Seen, MaxAmountAssumption DEF Quantity
<1>3. /\ st.issuer \in DOMAIN rows /\ st.issuer \in Names
      /\ q <= Balance(rows, st.issuer)
  BY <1>1, <1>2 DEF CanSub, CurrencyStats, Balance
<1>4. nst.supply = st.supply - q /\ nst.max_supply = st.max_supply /\ nst.issuer = st.issuer
  BY <1>2 DEF CurrencyStats
<1> HIDE DEF st, nst, rows
<1>5. /\ Balance(new, st.issuer) = Balance(rows, st.issuer) - q
      /\ \A n \in Names \ {st.issuer} : Balance(new, n) = Balance(rows, n)
  BY <1>2, <1>3, SubBalance
<1> HIDE DEF new
<1>6. HoldingsOf(new) = [HoldingsOf(rows) EXCEPT ![st.issuer] = @ - q]
  BY <1>3, <1>5 DEF HoldingsOf
<1>7. /\ Issuers' = [Issuers EXCEPT ![sym] = nst.issuer]
      /\ Caps' = [Caps EXCEPT ![sym] = nst.max_supply]
      /\ Supplies' = [Supplies EXCEPT ![sym] = nst.supply]
      /\ Held' = [Held EXCEPT ![sym] = HoldingsOf(new)]
  <2>1. Rewritten(sym, nst, new)
    BY <1>1, Zenon DEF Rewritten
  <2>2. SeenAs(sym, nst, new)
    BY <1>1, <2>1, OneSymbolSeen
  <2> QED BY <2>2, Zenon DEF SeenAs
<1>8. Issuers' = Issuers /\ Caps' = Caps
  BY <1>2, <1>4, <1>7, SameSeen, Zenon
<1>9. Supplies' = [Supplies EXCEPT ![sym] = @ - q]
  BY <1>2, <1>4, <1>7 DEF Supplies
<1>10. Held' = [Held EXCEPT ![sym][st.issuer] = @ - q]
  BY <1>2, <1>3, <1>6, <1>7 DEF Held
<1>11. q <= Held[sym][st.issuer]
  BY <1>2, <1>3 DEF HoldingsOf
<1> QED BY <1>1, <1>2, <1>8, <1>9, <1>10, <1>11 DEF L!Burn, Issuers, Caps, Supplies, Held

\* A row of zero that appears or disappears is not seen.
LEMMA RowsNotSeen ==
  ASSUME IInv, NEW sym \in DOMAIN stat, NEW rows, Rewritten(sym, stat[sym], rows),
         HoldingsOf(rows) = HoldingsOf(accounts[sym])
  PROVE  UNCHANGED <<Issuers, Caps, Supplies, Held>>
<1>1. /\ Issuers' = [Issuers EXCEPT ![sym] = stat[sym].issuer]
      /\ Caps' = [Caps EXCEPT ![sym] = stat[sym].max_supply]
      /\ Supplies' = [Supplies EXCEPT ![sym] = stat[sym].supply]
      /\ Held' = [Held EXCEPT ![sym] = HoldingsOf(rows)]
  <2>1. SeenAs(sym, stat[sym], rows)
    BY OneSymbolSeen
  <2> QED
    BY <2>1, Zenon DEF SeenAs
<1>2. /\ sym \in Symbols
      /\ Issuers[sym] = stat[sym].issuer /\ Caps[sym] = stat[sym].max_supply
      /\ Supplies[sym] = stat[sym].supply /\ Held[sym] = HoldingsOf(accounts[sym])
  BY Seen
<1> QED BY <1>1, <1>2, SameSeen, Zenon

\* open is not seen by the ledger.
LEMMA OpenNotSeen ==
  ASSUME IInv, NEW sym \in Symbols, NEW owner \in Names, NEW ram_payer \in Names,
         Open(owner, sym, ram_payer)
  PROVE  UNCHANGED <<Issuers, Caps, Supplies, Held>>
<1> DEFINE rows == accounts[sym]
           new  == add_balance(rows, owner, 0)
<1>1. /\ sym \in DOMAIN stat /\ owner \notin DOMAIN rows
      /\ stat' = [stat EXCEPT ![sym] = stat[sym]]
      /\ accounts' = [accounts EXCEPT ![sym] = new]
  BY DEF Open, Exists, IInv
<1>2. \A n \in Names : Balance(new, n) = Balance(rows, n)
  BY <1>1 DEF add_balance, Balance
<1>3. HoldingsOf(new) = HoldingsOf(rows)
  BY <1>2 DEF HoldingsOf
<1> HIDE DEF new
<1>4. Rewritten(sym, stat[sym], new)
  BY <1>1, Zenon DEF Rewritten
<1> QED BY <1>1, <1>3, <1>4, RowsNotSeen

\* close is not seen by the ledger.
LEMMA CloseNotSeen ==
  ASSUME IInv, NEW sym \in Symbols, NEW owner \in Names, Close(owner, sym)
  PROVE  UNCHANGED <<Issuers, Caps, Supplies, Held>>
<1> DEFINE rows == accounts[sym]
           new  == Restrict(rows, DOMAIN rows \ {owner})
<1>1. /\ owner \in DOMAIN rows
      /\ rows[owner] = 0
      /\ stat' = [stat EXCEPT ![sym] = stat[sym]]
      /\ accounts' = [accounts EXCEPT ![sym] = new]
  BY DEF Close, IInv
<1>2. sym \in DOMAIN stat
  BY <1>1 DEF IInv
<1>3. \A n \in Names : Balance(new, n) = Balance(rows, n)
  BY <1>1 DEF Restrict, Balance
<1>4. HoldingsOf(new) = HoldingsOf(rows)
  BY <1>3 DEF HoldingsOf
<1> HIDE DEF new
<1>5. Rewritten(sym, stat[sym], new)
  BY <1>1, Zenon DEF Rewritten
<1> QED BY <1>2, <1>4, <1>5, RowsNotSeen

\* What changes nothing of the tables changes nothing of the ledger.
LEMMA StutterNotSeen ==
  ASSUME UNCHANGED vars
  PROVE  UNCHANGED <<Issuers, Caps, Supplies, Held>>
BY DEF vars, Issuers, Caps, Supplies, Held, Exists, Holdings

\* At first the ledger is empty.
LEMMA LedgerStarts == Init => L!LedgerInit
BY DEF Init, L!LedgerInit, Exists, Holdings, HoldingsOf, Balance

\* Every step of the contract is a step of the ledger or is not seen by it.
LEMMA LedgerSteps == IInv /\ [Next]_vars => [L!LedgerNext]_(L!ledgerVars)
<1> SUFFICES ASSUME IInv, [Next]_vars PROVE [L!LedgerNext]_(L!ledgerVars)
  OBVIOUS
<1>1. ASSUME UNCHANGED <<Issuers, Caps, Supplies, Held>>
      PROVE  UNCHANGED L!ledgerVars
  BY <1>1 DEF L!ledgerVars, Issuers, Caps, Supplies, Held
<1>2. CASE UNCHANGED vars
  BY <1>1, <1>2, StutterNotSeen
<1>3. ASSUME NEW sym \in Symbols, NEW issuer \in Names, NEW m \in Quantity,
             Create(issuer, sym, m)
      PROVE  L!LedgerNext
  BY <1>3, CreateRegisters DEF L!LedgerNext
<1>4. ASSUME NEW sym \in Symbols, NEW to \in Names, NEW q \in Quantity, Issue(to, sym, q)
      PROVE  L!LedgerNext
  BY <1>4, IssueMints DEF L!LedgerNext
<1>5. ASSUME NEW sym \in Symbols, NEW q \in Quantity, Retire(sym, q)
      PROVE  L!LedgerNext
  BY <1>5, RetireBurns DEF L!LedgerNext
<1>6. ASSUME NEW sym \in Symbols, NEW from \in Names, NEW to \in Names,
             NEW q \in Quantity, Transfer(from, to, sym, q)
      PROVE  L!LedgerNext
  BY <1>6, TransferMoves DEF L!LedgerNext
<1>7. CASE Next
  <2>1. PICK sym \in Symbols :
          \/ \E issuer \in Names, m \in Quantity : Create(issuer, sym, m)
          \/ \E to \in Names, q \in Quantity : Issue(to, sym, q)
          \/ \E q \in Quantity : Retire(sym, q)
          \/ \E from, to \in Names, q \in Quantity : Transfer(from, to, sym, q)
          \/ \E owner, ram_payer \in Names : Open(owner, sym, ram_payer)
          \/ \E owner \in Names : Close(owner, sym)
    BY <1>7 DEF Next
  <2> QED BY <1>1, <1>3, <1>4, <1>5, <1>6, <2>1, OpenNotSeen, CloseNotSeen
<1> QED BY <1>2, <1>7

\* The token contract implements the abstract ledger: rows that appear and
\* disappear, and the two transfers of one issue, are no behaviour of its own.
THEOREM LedgerImplemented == Spec => ImplementsLedger
BY InductiveInvariant, LedgerStarts, LedgerSteps, PTL
DEF Spec, ImplementsLedger, L!LedgerSpec


\* The three sums of the invariant.
OpenBids == SumOver([n \in TopNames |-> OpenBid(n)], TopNames)

AllRefunds == SumOver([n \in TopNames |-> Refunds(n)], TopNames)

CommittedBy(b) == SumOver([n \in TopNames |-> Committed(b, n)], TopNames)

\* What bidder b has bid on n, as long as it is the highest bidder.
Bid(b, n) ==
  IF namebids[n] # NoRow /\ namebids[n].high_bidder = b
  THEN IF IsOpen(n) THEN namebids[n].high_bid ELSE - namebids[n].high_bid
  ELSE 0

(***************************************************************************)
(* Part 5: the sums.                                                       *)
(***************************************************************************)
\* There are finitely many names and bidders to sum over.
LEMMA Finite ==
  IsFiniteSet(TopNames) /\ IsFiniteSet(Bidders)
BY AuctionAssumption DEF AuctionAssumption

\* Rows are bids or missing, and what is summed are numbers.
LEMMA Summands ==
  ASSUME AuctionTypeOK, NEW n \in TopNames, NEW b \in Bidders
  PROVE  /\ namebids[n] = NoRow \/ namebids[n] \in NameBid
         /\ OpenBid(n) \in Int /\ Refund(n, b) \in Int /\ Bid(b, n) \in Int
         /\ Committed(b, n) = Bid(b, n) + Refund(n, b)
<1>1. namebids[n] = NoRow \/ namebids[n] \in NameBid
  BY DEF AuctionTypeOK
<1>2. namebids[n] # NoRow => namebids[n].high_bid \in Int
  BY <1>1 DEF NameBid
<1>3. bidrefunds[n][b] \in Nat \cup {NoRow}
  BY DEF AuctionTypeOK
<1> QED
  BY <1>1, <1>2, <1>3 DEF OpenBid, Refund, Bid, Committed, IsOpen

\* The refunds of one name add up to a number.
LEMMA RefundsType ==
  ASSUME AuctionTypeOK, NEW n \in TopNames
  PROVE  Refunds(n) \in Int
<1> DEFINE f == [b \in Bidders |-> Refund(n, b)]
<1>1. f \in [Bidders -> Int]
  BY Summands
<1> HIDE DEF f
<1>2. SumFunctionOnSet(f, Bidders) \in Int
  BY <1>1, Finite, SumIsInt
<1> QED
  BY <1>2 DEF Refunds, SumOver, f

\* The three sums are numbers.
LEMMA SumTypes ==
  ASSUME AuctionTypeOK
  PROVE  /\ OpenBids \in Int /\ AllRefunds \in Int
         /\ \A b \in Bidders : CommittedBy(b) \in Int
<1>1. OpenBids \in Int
  <2> DEFINE f == [n \in TopNames |-> OpenBid(n)]
  <2>1. f \in [TopNames -> Int]
    BY DEF AuctionTypeOK, OpenBid, IsOpen, NameBid
  <2> HIDE DEF f
  <2>2. SumFunctionOnSet(f, TopNames) \in Int
    BY <2>1, Finite, SumIsInt
  <2> QED
    BY <2>2 DEF OpenBids, SumOver, f
<1>2. AllRefunds \in Int
  <2> DEFINE f == [n \in TopNames |-> Refunds(n)]
  <2>1. f \in [TopNames -> Int]
    BY RefundsType
  <2> HIDE DEF f
  <2>2. SumFunctionOnSet(f, TopNames) \in Int
    BY <2>1, Finite, SumIsInt
  <2> QED
    BY <2>2 DEF AllRefunds, SumOver, f
<1>3. ASSUME NEW b \in Bidders
      PROVE  CommittedBy(b) \in Int
  <2> DEFINE f == [n \in TopNames |-> Committed(b, n)]
  <2>1. f \in [TopNames -> Int]
    BY Summands
  <2> HIDE DEF f
  <2>2. SumFunctionOnSet(f, TopNames) \in Int
    BY <2>1, Finite, SumIsInt
  <2> QED
    BY <2>2 DEF CommittedBy, SumOver, f
<1> QED
  BY <1>1, <1>2, <1>3

\* One open bid changes.
LEMMA OpenBidsChange ==
  ASSUME AuctionTypeOK, NEW n \in TopNames, NEW d \in Int,
         OpenBid(n)' = OpenBid(n) + d,
         \A m \in TopNames \ {n} : OpenBid(m)' = OpenBid(m)
  PROVE  OpenBids' = OpenBids + d
<1> DEFINE f == [m \in TopNames |-> OpenBid(m)]
           h == [m \in TopNames |-> OpenBid(m)']
<1>1. \A m \in TopNames : OpenBid(m) \in Int
  BY DEF AuctionTypeOK, OpenBid, IsOpen, NameBid
<1>2. /\ f \in [TopNames -> Int] /\ h \in [TopNames -> Int]
      /\ h[n] = f[n] + d
      /\ \A m \in TopNames \ {n} : h[m] = f[m]
  BY <1>1
<1> HIDE DEF f, h
<1>3. SumFunctionOnSet(h, TopNames) = SumFunctionOnSet(f, TopNames) + d
  BY <1>2, Finite, SumUpdate
<1> QED
  BY <1>3 DEF OpenBids, SumOver, f, h

\* One refund of one bidder changes.
LEMMA RefundsChange ==
  ASSUME AuctionTypeOK, NEW n \in TopNames, NEW b \in Bidders, NEW d \in Int,
         Refund(n, b)' = Refund(n, b) + d,
         \A c \in Bidders \ {b} : Refund(n, c)' = Refund(n, c),
         \A m \in TopNames \ {n} : \A c \in Bidders : Refund(m, c)' = Refund(m, c)
  PROVE  AllRefunds' = AllRefunds + d
<1>1. \A m \in TopNames : \A c \in Bidders : Refund(m, c) \in Int
  BY Summands
<1>2. Refunds(n)' = Refunds(n) + d
  <2> DEFINE f == [c \in Bidders |-> Refund(n, c)]
             h == [c \in Bidders |-> Refund(n, c)']
  <2>1. /\ f \in [Bidders -> Int] /\ h \in [Bidders -> Int]
        /\ h[b] = f[b] + d
        /\ \A c \in Bidders \ {b} : h[c] = f[c]
    BY <1>1
  <2> HIDE DEF f, h
  <2>2. SumFunctionOnSet(h, Bidders) = SumFunctionOnSet(f, Bidders) + d
    BY <2>1, Finite, SumUpdate
  <2> QED
    BY <2>2 DEF Refunds, SumOver, f, h
<1>3. ASSUME NEW m \in TopNames \ {n}
      PROVE  Refunds(m)' = Refunds(m)
  <2>1. [c \in Bidders |-> Refund(m, c)'] = [c \in Bidders |-> Refund(m, c)]
    OBVIOUS
  <2> QED
    BY <2>1 DEF Refunds, SumOver
<1> DEFINE f == [m \in TopNames |-> Refunds(m)]
           h == [m \in TopNames |-> Refunds(m)']
<1>4. /\ f \in [TopNames -> Int] /\ h \in [TopNames -> Int]
      /\ h[n] = f[n] + d
      /\ \A m \in TopNames \ {n} : h[m] = f[m]
  BY <1>2, <1>3, RefundsType
<1> HIDE DEF f, h
<1>5. SumFunctionOnSet(h, TopNames) = SumFunctionOnSet(f, TopNames) + d
  BY <1>4, Finite, SumUpdate
<1> QED
  BY <1>5 DEF AllRefunds, SumOver, f, h

\* What one bidder has in one name changes.
LEMMA CommittedChange ==
  ASSUME AuctionTypeOK, NEW b \in Bidders, NEW n \in TopNames, NEW d \in Int,
         Committed(b, n)' = Committed(b, n) + d,
         \A m \in TopNames \ {n} : Committed(b, m)' = Committed(b, m)
  PROVE  CommittedBy(b)' = CommittedBy(b) + d
<1> DEFINE f == [m \in TopNames |-> Committed(b, m)]
           h == [m \in TopNames |-> Committed(b, m)']
<1>1. \A m \in TopNames : Committed(b, m) \in Int
  BY Summands
<1>2. /\ f \in [TopNames -> Int] /\ h \in [TopNames -> Int]
      /\ h[n] = f[n] + d
      /\ \A m \in TopNames \ {n} : h[m] = f[m]
  BY <1>1
<1> HIDE DEF f, h
<1>3. SumFunctionOnSet(h, TopNames) = SumFunctionOnSet(f, TopNames) + d
  BY <1>2, Finite, SumUpdate
<1> QED
  BY <1>3 DEF CommittedBy, SumOver, f, h

(***************************************************************************)
(* Part 6: what a step writes.                                             *)
(***************************************************************************)
\* One row of bids is written.
LEMMA RowWritten ==
  ASSUME AuctionTypeOK, NEW n \in TopNames, NEW row,
         namebids' = [namebids EXCEPT ![n] = row]
  PROVE  /\ OpenBid(n)' = (IF row # NoRow /\ row.high_bid > 0 THEN row.high_bid ELSE 0)
         /\ \A b \in Bidders :
              Bid(b, n)' = (IF row # NoRow /\ row.high_bidder = b
                            THEN IF row.high_bid > 0 THEN row.high_bid ELSE - row.high_bid
                            ELSE 0)
         /\ \A m \in TopNames \ {n} :
              OpenBid(m)' = OpenBid(m) /\ \A b \in Bidders : Bid(b, m)' = Bid(b, m)
<1>1. namebids'[n] = row /\ \A m \in TopNames \ {n} : namebids'[m] = namebids[m]
  BY DEF AuctionTypeOK
<1> QED
  BY <1>1 DEF OpenBid, Bid, IsOpen

\* No row of bids is written.
LEMMA RowsKept ==
  ASSUME namebids' = namebids
  PROVE  /\ \A n \in TopNames : OpenBid(n)' = OpenBid(n) /\ \A b \in Bidders : Bid(b, n)' = Bid(b, n)
         /\ OpenBids' = OpenBids
BY DEF OpenBids, OpenBid, Bid, IsOpen

\* One refund is written.
LEMMA RefundWritten ==
  ASSUME AuctionTypeOK, NEW n \in TopNames, NEW b \in Bidders, NEW amount,
         bidrefunds' = [bidrefunds EXCEPT ![n][b] = amount]
  PROVE  /\ Refund(n, b)' = (IF amount = NoRow THEN 0 ELSE amount)
         /\ \A c \in Bidders \ {b} : Refund(n, c)' = Refund(n, c)
         /\ \A m \in TopNames \ {n} : \A c \in Bidders : Refund(m, c)' = Refund(m, c)
<1>1. /\ bidrefunds'[n][b] = amount
      /\ \A c \in Bidders \ {b} : bidrefunds'[n][c] = bidrefunds[n][c]
      /\ \A m \in TopNames \ {n} : bidrefunds'[m] = bidrefunds[m]
  BY DEF AuctionTypeOK
<1> QED
  BY <1>1 DEF Refund

\* No refund is written.
LEMMA RefundsKept ==
  ASSUME bidrefunds' = bidrefunds
  PROVE  /\ \A n \in TopNames : \A b \in Bidders : Refund(n, b)' = Refund(n, b)
         /\ AllRefunds' = AllRefunds
BY DEF AllRefunds, Refunds, Refund

\* What a bidder has in a name is its bid and its refund, before and after.
LEMMA Parts ==
  ASSUME NEW n \in TopNames, NEW b \in Bidders
  PROVE  /\ Committed(b, n) = Bid(b, n) + Refund(n, b)
         /\ Committed(b, n)' = Bid(b, n)' + Refund(n, b)'
BY DEF Committed, Bid, Refund

\* A payment between two holders.
LEMMA Paid ==
  ASSUME AuctionTypeOK, NEW from \in Holders, NEW to \in Holders, from # to, NEW amount \in Nat,
         Pay(from, to, amount)
  PROVE  /\ tokens' \in [Holders -> Nat]
         /\ tokens'[from] = tokens[from] - amount
         /\ tokens'[to] = tokens[to] + amount
         /\ \A h \in Holders \ {from, to} : tokens'[h] = tokens[h]
<1>1. tokens \in [Holders -> Nat] /\ tokens[from] >= amount
  BY DEF AuctionTypeOK, Pay
<1>2. tokens' = [tokens EXCEPT ![from] = tokens[from] - amount, ![to] = tokens[to] + amount]
  BY <1>1 DEF Pay
<1>3. tokens[from] - amount \in Nat /\ tokens[to] + amount \in Nat
  BY <1>1
<1> QED
  BY <1>1, <1>2, <1>3

\* Bidders, eosio.names and eosio.rex are different holders.
LEMMA HoldersDiffer ==
  /\ Bidders \subseteq Holders /\ NamesAccount \in Holders /\ RexAccount \in Holders
  /\ NamesAccount \notin Bidders /\ RexAccount \notin Bidders /\ RexAccount # NamesAccount
BY AuctionAssumption DEF AuctionAssumption, Holders

\* The invariants in terms of the three sums.
LEMMA InTermsOfSums ==
  /\ NamesBacked <=> tokens[NamesAccount] = OpenBids + AllRefunds + namebid_proceeds + kept
  /\ BidderWhole <=> \A b \in Bidders : tokens[b] + CommittedBy(b) + spent[b] = InitTokens[b]
BY DEF NamesBacked, BidderWhole, OpenBids, AllRefunds, CommittedBy

\* The same after a step.
LEMMA InTermsOfSumsAfter ==
  /\ NamesBacked' <=> tokens'[NamesAccount] = OpenBids' + AllRefunds' + namebid_proceeds' + kept'
  /\ BidderWhole' <=> \A b \in Bidders : tokens'[b] + CommittedBy(b)' + spent'[b] = InitTokens[b]
BY DEF NamesBacked, BidderWhole, OpenBids, AllRefunds, CommittedBy

\* The numbers of a state.
LEMMA Numbers ==
  ASSUME EveryTokenPlaced
  PROVE  /\ tokens[NamesAccount] = OpenBids + AllRefunds + namebid_proceeds + kept
         /\ \A b \in Bidders : tokens[b] + CommittedBy(b) + spent[b] = InitTokens[b]
         /\ tokens \in [Holders -> Nat] /\ namebid_proceeds \in Nat /\ kept \in Nat
         /\ OpenBids \in Int /\ AllRefunds \in Int
         /\ \A b \in Bidders : tokens[b] \in Nat /\ CommittedBy(b) \in Int /\ spent[b] \in Nat
BY InTermsOfSums, SumTypes, HoldersDiffer DEF EveryTokenPlaced, AuctionTypeOK

(***************************************************************************)
(* Part 7: the actions.                                                    *)
(***************************************************************************)
\* A bid moves tokens from the bidder to eosio.names, and the bid it beats into
\* a refund of who had bid it.
LEMMA BidnameKeeps ==
  ASSUME EveryTokenPlaced, NEW bidder \in Bidders, NEW n \in TopNames, NEW bid \in Nat,
         bidname(bidder, n, bid)
  PROVE  EveryTokenPlaced'
<1> DEFINE row == namebids[n]
           new == [high_bidder |-> bidder, high_bid |-> bid, last_bid_time |-> now]
<1>1. /\ AuctionTypeOK /\ bid > 0 /\ now \in Nat
      /\ Pay(bidder, NamesAccount, bid)
      /\ namebids' = [namebids EXCEPT ![n] = new]
      /\ UNCHANGED <<now, created, thresh_activated_stake_time, last_name_close,
                     rex_available, namebid_proceeds, kept, spent>>
  BY DEF EveryTokenPlaced, AuctionTypeOK, bidname
<1>2. new \in NameBid /\ new # NoRow /\ new.high_bidder = bidder /\ new.high_bid = bid
  <2>1. new \in [high_bidder : Bidders, high_bid : Int, last_bid_time : Nat]
    BY <1>1
  <2> QED
    BY <2>1, AuctionAssumption DEF NameBid, AuctionAssumption
<1> HIDE DEF new
<1>3. /\ tokens' \in [Holders -> Nat]
      /\ tokens'[bidder] = tokens[bidder] - bid
      /\ tokens'[NamesAccount] = tokens[NamesAccount] + bid
      /\ \A b \in Bidders \ {bidder} : tokens'[b] = tokens[b]
  BY <1>1, Paid, HoldersDiffer
<1>4. /\ OpenBid(n)' = bid
      /\ \A b \in Bidders : Bid(b, n)' = IF b = bidder THEN bid ELSE 0
      /\ \A m \in TopNames \ {n} :
           OpenBid(m)' = OpenBid(m) /\ \A b \in Bidders : Bid(b, m)' = Bid(b, m)
  BY <1>1, <1>2, RowWritten
<1>5. /\ namebids' \in [TopNames -> NameBid \cup {NoRow}]
      /\ \A m \in TopNames : namebids'[m] # NoRow => namebids'[m].high_bid # 0
  <2>1. namebids'[n] = new /\ \A m \in TopNames \ {n} : namebids'[m] = namebids[m]
    BY <1>1 DEF AuctionTypeOK
  <2>2. namebids' \in [TopNames -> NameBid \cup {NoRow}]
    BY <1>1, <1>2 DEF AuctionTypeOK
  <2> QED
    BY <1>1, <1>2, <2>1, <2>2 DEF AuctionTypeOK
<1>6. CASE row = NoRow /\ UNCHANGED <<bidrefunds, deferred>>
  <2>1. OpenBid(n) = 0 /\ \A b \in Bidders : Bid(b, n) = 0
    BY <1>6 DEF OpenBid, Bid, IsOpen
  <2>2. OpenBids' = OpenBids + bid
    BY <1>1, <1>4, <2>1, OpenBidsChange
  <2>3. AllRefunds' = AllRefunds /\ \A m \in TopNames : \A b \in Bidders : Refund(m, b)' = Refund(m, b)
    BY <1>6, RefundsKept
  <2>4. AuctionTypeOK'
    BY <1>1, <1>3, <1>5, <1>6 DEF AuctionTypeOK
  <2>5. ASSUME NEW b \in Bidders
        PROVE  CommittedBy(b)' = CommittedBy(b) + (IF b = bidder THEN bid ELSE 0)
    <3>1. \A m \in TopNames \ {n} : Committed(b, m)' = Committed(b, m)
      BY <1>4, <2>3, Parts
    <3>2. Committed(b, n)' = Committed(b, n) + (IF b = bidder THEN bid ELSE 0)
      BY <1>1, <1>4, <2>1, <2>3, Parts, Summands
    <3> DEFINE d == IF b = bidder THEN bid ELSE 0
    <3>3. d \in Int
      OBVIOUS
    <3> HIDE DEF d
    <3>4. CommittedBy(b)' = CommittedBy(b) + d
      BY <1>1, <3>1, <3>2, <3>3, CommittedChange DEF d
    <3> QED
      BY <3>4 DEF d
  <2>6. NamesBacked'
    BY <1>1, <1>3, <2>2, <2>3, Numbers, HoldersDiffer, InTermsOfSumsAfter
  <2>7. BidderWhole'
    BY <1>1, <1>3, <2>5, Numbers, InTermsOfSumsAfter
  <2> QED
    BY <2>4, <2>6, <2>7 DEF EveryTokenPlaced
<1>7. CASE /\ row # NoRow
           /\ Beats(row, bidder, bid)
           /\ bidrefunds' = [bidrefunds EXCEPT ![n][row.high_bidder] = RefundAfter(@, row.high_bid)]
           /\ deferred' = Rescheduled(n, row.high_bidder)
  <2>1. PICK loser \in Bidders, was \in Nat :
          row.high_bidder = loser /\ row.high_bid = was /\ was > 0 /\ loser # bidder
    <3>1. row \in NameBid
      BY <1>1, <1>7 DEF AuctionTypeOK
    <3> QED
      BY <3>1, <1>7 DEF Beats, NameBid
  <2>2. bidrefunds[n][loser] \in (Nat \ {0}) \cup {NoRow} /\ Refund(n, loser) \in Int
    BY <1>1, <2>1, Summands DEF AuctionTypeOK
  <2>3. PICK amount \in Nat \ {0} : /\ amount = RefundAfter(bidrefunds[n][loser], was)
                                   /\ amount = Refund(n, loser) + was
    BY <2>1, <2>2, AuctionAssumption DEF RefundAfter, Refund, AuctionAssumption
  <2>4. bidrefunds' = [bidrefunds EXCEPT ![n][loser] = amount]
    BY <1>1, <1>7, <2>1, <2>3 DEF AuctionTypeOK
  <2>5. /\ OpenBid(n) = was
        /\ \A b \in Bidders : Bid(b, n) = IF b = loser THEN was ELSE 0
    BY <1>7, <2>1 DEF OpenBid, Bid, IsOpen
  <2>6. /\ Refund(n, loser)' = Refund(n, loser) + was
        /\ \A c \in Bidders \ {loser} : Refund(n, c)' = Refund(n, c)
        /\ \A m \in TopNames \ {n} : \A c \in Bidders : Refund(m, c)' = Refund(m, c)
    <3>1. amount # NoRow
      BY <2>3, AuctionAssumption DEF AuctionAssumption
    <3> QED
      BY <1>1, <2>3, <2>4, <3>1, RefundWritten
  <2>7. OpenBids' = OpenBids + (bid - was)
    <3>1. OpenBid(n)' = OpenBid(n) + (bid - was) /\ bid - was \in Int
      BY <1>4, <2>1, <2>5
    <3> QED
      BY <1>1, <1>4, <3>1, OpenBidsChange
  <2>8. AllRefunds' = AllRefunds + was
    BY <1>1, <2>1, <2>6, RefundsChange
  <2>9. AuctionTypeOK'
    <3>1. bidrefunds' \in [TopNames -> [Bidders -> (Nat \ {0}) \cup {NoRow}]]
      BY <1>1, <2>1, <2>3, <2>4 DEF AuctionTypeOK
    <3>2. deferred' \in SUBSET (TopNames \X Bidders)
      BY <1>1, <1>7, <2>1 DEF AuctionTypeOK, Rescheduled
    <3> QED
      BY <1>1, <1>3, <1>5, <3>1, <3>2 DEF AuctionTypeOK
  <2>10. ASSUME NEW b \in Bidders
         PROVE  CommittedBy(b)' = CommittedBy(b) + (IF b = bidder THEN bid ELSE 0)
    <3>1. \A m \in TopNames \ {n} : Committed(b, m)' = Committed(b, m)
      BY <1>4, <2>6, Parts
    <3>2. Refund(n, b) \in Int
      BY <1>1, Summands
    <3>3. Refund(n, b)' = Refund(n, b) + (IF b = loser THEN was ELSE 0)
      BY <2>6, <3>2
    <3>4. Committed(b, n)' = Committed(b, n) + (IF b = bidder THEN bid ELSE 0)
      BY <1>4, <2>1, <2>5, <3>2, <3>3, Parts
    <3> DEFINE d == IF b = bidder THEN bid ELSE 0
    <3>5. d \in Int
      OBVIOUS
    <3> HIDE DEF d
    <3>6. CommittedBy(b)' = CommittedBy(b) + d
      BY <1>1, <3>1, <3>4, <3>5, CommittedChange DEF d
    <3> QED
      BY <3>6 DEF d
  <2>11. NamesBacked'
    BY <1>1, <1>3, <2>1, <2>7, <2>8, Numbers, HoldersDiffer, InTermsOfSumsAfter
  <2>12. BidderWhole'
    BY <1>1, <1>3, <2>10, Numbers, InTermsOfSumsAfter
  <2> QED
    BY <2>9, <2>11, <2>12 DEF EveryTokenPlaced
<1> QED
  BY <1>6, <1>7 DEF bidname

\* A refund moves tokens from eosio.names to the bidder, by whoever pushes it.
LEMMA PayRefundKeeps ==
  ASSUME EveryTokenPlaced, NEW bidder \in Bidders, NEW n \in TopNames,
         PayRefund(bidder, n), deferred' \in SUBSET deferred
  PROVE  EveryTokenPlaced'
<1>1. /\ AuctionTypeOK
      /\ bidrefunds' = [bidrefunds EXCEPT ![n][bidder] = NoRow]
      /\ UNCHANGED <<now, namebids, created, thresh_activated_stake_time, last_name_close,
                     rex_available, namebid_proceeds, kept, spent>>
  BY DEF EveryTokenPlaced, PayRefund
<1>2. PICK amount \in Nat : amount = bidrefunds[n][bidder] /\ amount = Refund(n, bidder)
  BY <1>1 DEF AuctionTypeOK, PayRefund, Refund
<1>3. /\ tokens' \in [Holders -> Nat]
      /\ tokens'[bidder] = tokens[bidder] + amount
      /\ tokens'[NamesAccount] = tokens[NamesAccount] - amount
      /\ \A b \in Bidders \ {bidder} : tokens'[b] = tokens[b]
  <2>1. Pay(NamesAccount, bidder, amount)
    BY <1>2 DEF PayRefund
  <2> QED
    BY <1>1, <2>1, Paid, HoldersDiffer
<1>4. /\ Refund(n, bidder)' = Refund(n, bidder) + (- amount)
      /\ \A c \in Bidders \ {bidder} : Refund(n, c)' = Refund(n, c)
      /\ \A m \in TopNames \ {n} : \A c \in Bidders : Refund(m, c)' = Refund(m, c)
  <2>1. /\ Refund(n, bidder)' = 0
        /\ \A c \in Bidders \ {bidder} : Refund(n, c)' = Refund(n, c)
        /\ \A m \in TopNames \ {n} : \A c \in Bidders : Refund(m, c)' = Refund(m, c)
    BY <1>1, RefundWritten
  <2>2. Refund(n, bidder) + (- amount) = 0
    BY <1>2
  <2> QED
    BY <2>1, <2>2
<1>5. AllRefunds' = AllRefunds + (- amount)
  <2>1. - amount \in Int
    OBVIOUS
  <2> QED
    BY <1>1, <1>4, <2>1, RefundsChange
<1>6. OpenBids' = OpenBids /\ \A m \in TopNames : \A b \in Bidders : Bid(b, m)' = Bid(b, m)
  BY <1>1, RowsKept
<1>7. AuctionTypeOK'
  BY <1>1, <1>3 DEF AuctionTypeOK
<1>8. ASSUME NEW b \in Bidders
      PROVE  CommittedBy(b)' = CommittedBy(b) + (IF b = bidder THEN - amount ELSE 0)
  <2> DEFINE d == IF b = bidder THEN - amount ELSE 0
  <2>1. \A m \in TopNames \ {n} : Committed(b, m)' = Committed(b, m)
    BY <1>4, <1>6, Parts
  <2>2. Refund(n, b) \in Int /\ Bid(b, n) \in Int
    BY <1>1, Summands
  <2>3. Committed(b, n)' = Committed(b, n) + d
    BY <1>4, <1>6, <2>2, Parts
  <2>4. d \in Int
    OBVIOUS
  <2> HIDE DEF d
  <2>5. CommittedBy(b)' = CommittedBy(b) + d
    BY <1>1, <2>1, <2>3, <2>4, CommittedChange
  <2> QED
    BY <2>5 DEF d
<1>9. NamesBacked'
  BY <1>1, <1>3, <1>5, <1>6, Numbers, HoldersDiffer, InTermsOfSumsAfter
<1>10. BidderWhole'
  BY <1>1, <1>3, <1>8, Numbers, InTermsOfSumsAfter
<1> QED
  BY <1>7, <1>9, <1>10 DEF EveryTokenPlaced

\* Steps that move no token and write no row.
LEMMA TablesKept ==
  ASSUME EveryTokenPlaced, AuctionTypeOK',
         UNCHANGED <<tokens, namebids, bidrefunds, namebid_proceeds, kept, spent>>
  PROVE  EveryTokenPlaced'
<1>1. \A b \in Bidders : CommittedBy(b)' = CommittedBy(b)
  BY DEF CommittedBy, Committed, IsOpen, Refund
<1>2. OpenBids' = OpenBids /\ AllRefunds' = AllRefunds
  BY RowsKept, RefundsKept
<1>3. NamesBacked' /\ BidderWhole'
  BY <1>1, <1>2, Numbers, InTermsOfSumsAfter
<1> QED
  BY <1>3 DEF EveryTokenPlaced

\* A transaction that fails because the refund was taken is only gone.
LEMMA DeferredBidrefundKeeps ==
  ASSUME EveryTokenPlaced, NEW bidder \in Bidders, NEW n \in TopNames, DeferredBidrefund(n, bidder)
  PROVE  EveryTokenPlaced'
<1>1. CASE PayRefund(bidder, n)
  BY <1>1, PayRefundKeeps DEF DeferredBidrefund
<1>2. CASE UNCHANGED <<now, tokens, namebids, bidrefunds, created, thresh_activated_stake_time,
                       last_name_close, rex_available, namebid_proceeds, kept, spent>>
  <2>1. AuctionTypeOK'
    BY <1>2 DEF EveryTokenPlaced, AuctionTypeOK, DeferredBidrefund
  <2> QED
    BY <1>2, <2>1, TablesKept
<1> QED
  BY <1>1, <1>2 DEF DeferredBidrefund

\* A closed bid is no longer open, and its tokens are promised to REX or kept;
\* they still are what its bidder has committed.
LEMMA OnblockKeeps ==
  ASSUME EveryTokenPlaced, onblock
  PROVE  EveryTokenPlaced'
<1>1. PICK n \in TopNames :
        /\ IsOpen(n) /\ last_name_close' = now
        /\ ChannelNamebid(namebids[n].high_bid)
        /\ namebids' = [namebids EXCEPT ![n].high_bid = - @]
        /\ UNCHANGED <<now, tokens, bidrefunds, deferred, created, thresh_activated_stake_time,
                       rex_available, spent>>
  BY DEF onblock, CanClose, IsHighest
<1>2. AuctionTypeOK
  BY DEF EveryTokenPlaced
<1>3. PICK bidder \in Bidders, bid \in Nat, time \in Nat :
        /\ namebids[n] = [high_bidder |-> bidder, high_bid |-> bid, last_bid_time |-> time]
        /\ bid > 0
  BY <1>1, <1>2 DEF AuctionTypeOK, IsOpen, NameBid
<1> DEFINE new == [high_bidder |-> bidder, high_bid |-> - bid, last_bid_time |-> time]
<1>4. /\ namebids' = [namebids EXCEPT ![n] = new]
      /\ ChannelNamebid(bid)
  <2>1. namebids' = [namebids EXCEPT ![n] = [namebids[n] EXCEPT !.high_bid = - namebids[n].high_bid]]
    BY <1>1, <1>2 DEF AuctionTypeOK
  <2>2. namebids[n].high_bid = bid /\ [namebids[n] EXCEPT !.high_bid = - bid] = new
    BY <1>3
  <2> HIDE DEF new
  <2> QED
    BY <1>1, <2>1, <2>2
<1>5. new \in NameBid /\ new # NoRow /\ new.high_bidder = bidder /\ new.high_bid = - bid
  <2>1. new \in [high_bidder : Bidders, high_bid : Int, last_bid_time : Nat]
    OBVIOUS
  <2> QED
    BY <2>1, AuctionAssumption DEF NameBid, AuctionAssumption
<1> HIDE DEF new
<1>6. /\ OpenBid(n) = bid
      /\ \A b \in Bidders : Bid(b, n) = IF b = bidder THEN bid ELSE 0
  BY <1>1, <1>3 DEF OpenBid, Bid, IsOpen
<1>7. /\ OpenBid(n)' = OpenBid(n) + (- bid) /\ - bid \in Int
      /\ \A b \in Bidders : Bid(b, n)' = Bid(b, n)
      /\ \A m \in TopNames \ {n} :
           OpenBid(m)' = OpenBid(m) /\ \A b \in Bidders : Bid(b, m)' = Bid(b, m)
  <2>1. /\ OpenBid(n)' = 0
        /\ \A b \in Bidders : Bid(b, n)' = IF b = bidder THEN bid ELSE 0
        /\ \A m \in TopNames \ {n} :
             OpenBid(m)' = OpenBid(m) /\ \A b \in Bidders : Bid(b, m)' = Bid(b, m)
    <3>1. ~ (new.high_bid > 0) /\ - new.high_bid = bid
      BY <1>3, <1>5
    <3>2. /\ OpenBid(n)' = (IF new # NoRow /\ new.high_bid > 0 THEN new.high_bid ELSE 0)
          /\ \A b \in Bidders :
               Bid(b, n)' = (IF new # NoRow /\ new.high_bidder = b
                             THEN IF new.high_bid > 0 THEN new.high_bid ELSE - new.high_bid
                             ELSE 0)
          /\ \A m \in TopNames \ {n} :
               OpenBid(m)' = OpenBid(m) /\ \A b \in Bidders : Bid(b, m)' = Bid(b, m)
      <4>1. namebids' = [namebids EXCEPT ![n] = new]
        BY <1>4
      <4> QED
        BY <1>2, <4>1, RowWritten
    <3> QED
      BY <1>5, <3>1, <3>2
  <2>2. OpenBid(n) + (- bid) = 0 /\ - bid \in Int
    BY <1>6
  <2> QED
    BY <1>6, <2>1, <2>2
<1>8. OpenBids' = OpenBids + (- bid)
  BY <1>2, <1>7, OpenBidsChange
<1>9. AllRefunds' = AllRefunds /\ \A m \in TopNames : \A b \in Bidders : Refund(m, b)' = Refund(m, b)
  BY <1>1, RefundsKept
<1>10. \A b \in Bidders : CommittedBy(b)' = CommittedBy(b)
  <2> SUFFICES ASSUME NEW b \in Bidders
               PROVE  CommittedBy(b)' = CommittedBy(b)
    OBVIOUS
  <2>1. \A m \in TopNames : Committed(b, m)' = Committed(b, m)
    BY <1>7, <1>9, Parts
  <2>2. [m \in TopNames |-> Committed(b, m)'] = [m \in TopNames |-> Committed(b, m)]
    BY <2>1
  <2> QED
    BY <2>2 DEF CommittedBy, SumOver
<1>11. AuctionTypeOK'
  <2>1. namebids'[n] = new /\ \A m \in TopNames \ {n} : namebids'[m] = namebids[m]
    BY <1>2, <1>4 DEF AuctionTypeOK
  <2>2. /\ namebids' \in [TopNames -> NameBid \cup {NoRow}]
        /\ \A m \in TopNames : namebids'[m] # NoRow => namebids'[m].high_bid # 0
    BY <1>2, <1>3, <1>4, <1>5, <2>1 DEF AuctionTypeOK
  <2>3. namebid_proceeds' \in Nat /\ kept' \in Nat
    BY <1>2, <1>4 DEF AuctionTypeOK, ChannelNamebid
  <2>4. last_name_close' \in 0 .. now'
    BY <1>1, <1>2 DEF AuctionTypeOK
  <2> QED
    BY <1>1, <1>2, <2>2, <2>3, <2>4 DEF AuctionTypeOK
<1>12. namebid_proceeds' + kept' = namebid_proceeds + kept + bid
  BY <1>4, Numbers DEF ChannelNamebid
<1>13. namebid_proceeds' \in Nat /\ kept' \in Nat
  BY <1>11 DEF AuctionTypeOK
<1>14. NamesBacked'
  BY <1>1, <1>8, <1>9, <1>12, <1>13, Numbers, InTermsOfSumsAfter
<1>15. BidderWhole'
  BY <1>1, <1>10, Numbers, InTermsOfSumsAfter
<1> QED
  BY <1>11, <1>14, <1>15 DEF EveryTokenPlaced

\* What was promised to REX is paid to it, or kept.
LEMMA CollectProceedsKeeps ==
  ASSUME EveryTokenPlaced, CollectProceeds
  PROVE  EveryTokenPlaced'
<1>1. /\ AuctionTypeOK /\ namebid_proceeds \in Nat /\ namebid_proceeds' = 0
      /\ UNCHANGED <<now, namebids, bidrefunds, deferred, created, thresh_activated_stake_time,
                     last_name_close, rex_available, spent>>
  BY DEF EveryTokenPlaced, AuctionTypeOK, CollectProceeds
<1>2. /\ OpenBids' = OpenBids /\ AllRefunds' = AllRefunds
      /\ \A b \in Bidders : CommittedBy(b)' = CommittedBy(b)
  <2>1. \A b \in Bidders : CommittedBy(b)' = CommittedBy(b)
    BY <1>1 DEF CommittedBy, Committed, IsOpen, Refund
  <2> QED
    BY <1>1, <2>1, RowsKept, RefundsKept
<1>3. /\ tokens' \in [Holders -> Nat] /\ kept' \in Nat
      /\ \A b \in Bidders : tokens'[b] = tokens[b]
      /\ tokens'[NamesAccount] - kept' = tokens[NamesAccount] - kept - namebid_proceeds
      /\ tokens'[NamesAccount] \in Nat
  <2>1. CASE Pay(NamesAccount, RexAccount, namebid_proceeds) /\ UNCHANGED kept
    <3>1. /\ tokens' \in [Holders -> Nat]
          /\ tokens'[NamesAccount] = tokens[NamesAccount] - namebid_proceeds
          /\ \A b \in Bidders : tokens'[b] = tokens[b]
      BY <1>1, <2>1, Paid, HoldersDiffer
    <3> QED
      BY <1>1, <2>1, <3>1, Numbers, HoldersDiffer
  <2>2. CASE kept' = kept + namebid_proceeds /\ UNCHANGED tokens
    BY <1>1, <2>2, Numbers, HoldersDiffer
  <2> QED
    BY <2>1, <2>2 DEF CollectProceeds
<1>4. AuctionTypeOK'
  BY <1>1, <1>3 DEF AuctionTypeOK
<1>5. NamesBacked'
  BY <1>1, <1>2, <1>3, Numbers, HoldersDiffer, InTermsOfSumsAfter
<1>6. BidderWhole'
  BY <1>1, <1>2, <1>3, Numbers, InTermsOfSumsAfter
<1> QED
  BY <1>4, <1>5, <1>6 DEF EveryTokenPlaced

\* The winner of an auction pays its bid for the name it creates.
LEMMA NewaccountKeeps ==
  ASSUME EveryTokenPlaced, NEW creator \in Bidders \cup {System} \cup created, NEW n \in AuctionNames,
         newaccount(creator, n)
  PROVE  EveryTokenPlaced'
<1>1. /\ AuctionTypeOK /\ created' \in SUBSET AuctionNames
      /\ UNCHANGED <<now, tokens, bidrefunds, deferred, thresh_activated_stake_time,
                     last_name_close, rex_available, namebid_proceeds, kept>>
  BY DEF EveryTokenPlaced, AuctionTypeOK, newaccount
<1>2. CASE UNCHANGED <<namebids, spent>>
  <2>1. AuctionTypeOK'
    BY <1>1, <1>2 DEF AuctionTypeOK
  <2> QED
    BY <1>1, <1>2, <2>1, TablesKept
<1>3. CASE /\ n \in TopNames /\ Claims(creator, n)
           /\ namebids' = [namebids EXCEPT ![n] = NoRow]
           /\ spent' = [spent EXCEPT ![creator] = @ - namebids[n].high_bid]
  <2>1. PICK price \in Nat : namebids[n].high_bid = - price /\ price > 0
    <3>1. namebids[n] \in NameBid /\ namebids[n].high_bid < 0
      BY <1>1, <1>3 DEF AuctionTypeOK, Claims, IsClosed
    <3>2. namebids[n].high_bid \in Int
      BY <3>1 DEF NameBid
    <3>3. - namebids[n].high_bid \in Nat /\ namebids[n].high_bid = - (- namebids[n].high_bid)
      BY <3>1, <3>2
    <3> QED
      BY <3>1, <3>2, <3>3
  <2>2. creator \in Bidders /\ namebids[n] # NoRow /\ namebids[n].high_bidder = creator
    BY <1>1, <1>3 DEF AuctionTypeOK, Claims, IsClosed, NameBid
  <2>3. /\ OpenBid(n) = 0
        /\ \A b \in Bidders : Bid(b, n) = IF b = creator THEN price ELSE 0
    BY <2>1, <2>2 DEF OpenBid, Bid, IsOpen
  <2>4. /\ OpenBid(n)' = OpenBid(n) + 0
        /\ \A b \in Bidders : Bid(b, n)' = 0
        /\ \A m \in TopNames \ {n} :
             OpenBid(m)' = OpenBid(m) /\ \A b \in Bidders : Bid(b, m)' = Bid(b, m)
    <3>1. /\ OpenBid(n)' = 0
          /\ \A b \in Bidders : Bid(b, n)' = 0
          /\ \A m \in TopNames \ {n} :
               OpenBid(m)' = OpenBid(m) /\ \A b \in Bidders : Bid(b, m)' = Bid(b, m)
      BY <1>1, <1>3, RowWritten
    <3> QED
      BY <2>3, <3>1
  <2>5. OpenBids' = OpenBids + 0
    BY <1>1, <1>3, <2>4, OpenBidsChange
  <2>6. AllRefunds' = AllRefunds /\ \A m \in TopNames : \A b \in Bidders : Refund(m, b)' = Refund(m, b)
    BY <1>1, RefundsKept
  <2>7. /\ spent' \in [Bidders -> Nat]
        /\ spent'[creator] = spent[creator] + price
        /\ \A b \in Bidders \ {creator} : spent'[b] = spent[b]
    <3>1. spent \in [Bidders -> Nat] /\ spent[creator] + price \in Nat
      BY <1>1, <2>2 DEF AuctionTypeOK
    <3>2. spent' = [spent EXCEPT ![creator] = spent[creator] + price]
      <4>1. spent' = [spent EXCEPT ![creator] = spent[creator] - (- price)]
        BY <1>3, <2>1, <3>1
      <4>2. spent[creator] - (- price) = spent[creator] + price
        BY <2>2, <3>1
      <4> QED
        BY <4>1, <4>2
    <3> QED
      BY <2>2, <3>1, <3>2
  <2>8. ASSUME NEW b \in Bidders
        PROVE  CommittedBy(b)' = CommittedBy(b) + (IF b = creator THEN - price ELSE 0)
    <3> DEFINE d == IF b = creator THEN - price ELSE 0
    <3>1. \A m \in TopNames \ {n} : Committed(b, m)' = Committed(b, m)
      BY <2>4, <2>6, Parts
    <3>2. Refund(n, b) \in Int
      BY <1>1, <1>3, Summands
    <3>3. Committed(b, n)' = Committed(b, n) + d
      BY <1>3, <2>3, <2>4, <2>6, <3>2, Parts
    <3>4. d \in Int
      OBVIOUS
    <3> HIDE DEF d
    <3>5. CommittedBy(b)' = CommittedBy(b) + d
      BY <1>1, <1>3, <3>1, <3>3, <3>4, CommittedChange
    <3> QED
      BY <3>5 DEF d
  <2>9. AuctionTypeOK'
    <3>1. namebids' \in [TopNames -> NameBid \cup {NoRow}]
      BY <1>1, <1>3 DEF AuctionTypeOK
    <3>2. \A m \in TopNames : namebids'[m] # NoRow => namebids'[m].high_bid # 0
      BY <1>1, <1>3 DEF AuctionTypeOK
    <3> QED
      BY <1>1, <2>7, <3>1, <3>2 DEF AuctionTypeOK
  <2>10. NamesBacked'
    BY <1>1, <2>5, <2>6, Numbers, InTermsOfSumsAfter
  <2>11. BidderWhole'
    BY <1>1, <2>2, <2>7, <2>8, Numbers, InTermsOfSumsAfter
  <2> QED
    BY <2>9, <2>10, <2>11 DEF EveryTokenPlaced
<1> QED
  BY <1>2, <1>3 DEF newaccount

\* At first nobody has bid, and eosio.names holds nothing.
LEMMA InitHolds ==
  AuctionInit => EveryTokenPlaced
<1> SUFFICES ASSUME AuctionInit
             PROVE  EveryTokenPlaced
  OBVIOUS
<1>1. AuctionTypeOK
  <2>1. /\ now \in Nat /\ last_name_close \in 0 .. now /\ thresh_activated_stake_time \in 0 .. now
        /\ namebid_proceeds \in Nat /\ kept \in Nat
    BY DEF AuctionInit
  <2>2. tokens \in [Holders -> Nat] /\ spent \in [Bidders -> Nat]
    BY AuctionAssumption DEF AuctionInit, AuctionAssumption
  <2>3. /\ namebids \in [TopNames -> NameBid \cup {NoRow}]
        /\ \A n \in TopNames : namebids[n] = NoRow
        /\ bidrefunds \in [TopNames -> [Bidders -> (Nat \ {0}) \cup {NoRow}]]
    BY DEF AuctionInit
  <2>4. /\ deferred \in SUBSET (TopNames \X Bidders) /\ created \in SUBSET AuctionNames
        /\ rex_available \in BOOLEAN
    BY DEF AuctionInit
  <2> QED
    BY <2>1, <2>2, <2>3, <2>4 DEF AuctionTypeOK
<1>2. \A n \in TopNames : OpenBid(n) = 0 /\ \A b \in Bidders : Refund(n, b) = 0 /\ Committed(b, n) = 0
  BY DEF AuctionInit, OpenBid, Refund, Committed, IsOpen
<1>3. OpenBids = 0
  <2> DEFINE f == [n \in TopNames |-> OpenBid(n)]
  <2>1. f \in [TopNames -> Int] /\ \A n \in TopNames : f[n] = 0
    BY <1>2
  <2> HIDE DEF f
  <2>2. SumFunctionOnSet(f, TopNames) = 0
    BY <2>1, Finite, SumZero
  <2> QED
    BY <2>2 DEF OpenBids, SumOver, f
<1>4. ASSUME NEW n \in TopNames
      PROVE  Refunds(n) = 0
  <2> DEFINE f == [b \in Bidders |-> Refund(n, b)]
  <2>1. f \in [Bidders -> Int] /\ \A b \in Bidders : f[b] = 0
    BY <1>2
  <2> HIDE DEF f
  <2>2. SumFunctionOnSet(f, Bidders) = 0
    BY <2>1, Finite, SumZero
  <2> QED
    BY <2>2 DEF Refunds, SumOver, f
<1>5. AllRefunds = 0
  <2> DEFINE f == [n \in TopNames |-> Refunds(n)]
  <2>1. f \in [TopNames -> Int] /\ \A n \in TopNames : f[n] = 0
    BY <1>4
  <2> HIDE DEF f
  <2>2. SumFunctionOnSet(f, TopNames) = 0
    BY <2>1, Finite, SumZero
  <2> QED
    BY <2>2 DEF AllRefunds, SumOver, f
<1>6. ASSUME NEW b \in Bidders
      PROVE  CommittedBy(b) = 0
  <2> DEFINE f == [n \in TopNames |-> Committed(b, n)]
  <2>1. f \in [TopNames -> Int] /\ \A n \in TopNames : f[n] = 0
    BY <1>2
  <2> HIDE DEF f
  <2>2. SumFunctionOnSet(f, TopNames) = 0
    BY <2>1, Finite, SumZero
  <2> QED
    BY <2>2 DEF CommittedBy, SumOver, f
<1>7. NamesBacked
  <2>1. tokens[NamesAccount] = 0 /\ namebid_proceeds = 0 /\ kept = 0
    BY AuctionAssumption DEF AuctionInit, AuctionAssumption
  <2> QED
    BY <1>3, <1>5, <2>1, InTermsOfSums
<1>8. BidderWhole
  <2>1. \A b \in Bidders : tokens[b] = InitTokens[b] /\ InitTokens[b] \in Nat /\ spent[b] = 0
    BY AuctionAssumption, HoldersDiffer DEF AuctionInit, AuctionAssumption
  <2> QED
    BY <1>6, <2>1, InTermsOfSums
<1> QED
  BY <1>1, <1>7, <1>8 DEF EveryTokenPlaced

\* Every step leaves every token in its place.
LEMMA NextKeeps ==
  ASSUME EveryTokenPlaced, [AuctionNext]_auctionVars
  PROVE  EveryTokenPlaced'
<1>1. ASSUME NEW b \in Bidders, NEW n \in TopNames, NEW bid \in BidAmounts[n], bidname(b, n, bid)
      PROVE  EveryTokenPlaced'
  <2>1. bid \in Nat
    BY AuctionAssumption DEF AuctionAssumption
  <2> QED
    BY <1>1, <2>1, BidnameKeeps
<1>2. ASSUME NEW b \in Bidders, NEW n \in TopNames, bidrefund(b, n)
      PROVE  EveryTokenPlaced'
  BY <1>2, PayRefundKeeps DEF bidrefund
<1>3. ASSUME NEW b \in Bidders, NEW n \in TopNames, DeferredBidrefund(n, b)
      PROVE  EveryTokenPlaced'
  BY <1>3, DeferredBidrefundKeeps
<1>4. CASE onblock
  BY <1>4, OnblockKeeps
<1>5. CASE CollectProceeds
  BY <1>5, CollectProceedsKeeps
<1>6. ASSUME NEW c \in Bidders \cup {System} \cup created, NEW n \in AuctionNames, newaccount(c, n)
      PROVE  EveryTokenPlaced'
  BY <1>6, NewaccountKeeps
<1>7. CASE Activate
  <2>1. AuctionTypeOK'
    BY <1>7 DEF Activate, EveryTokenPlaced, AuctionTypeOK
  <2> QED
    BY <1>7, <2>1, TablesKept DEF Activate
<1>8. CASE RexChanges
  <2>1. AuctionTypeOK'
    BY <1>8 DEF RexChanges, EveryTokenPlaced, AuctionTypeOK
  <2> QED
    BY <1>8, <2>1, TablesKept DEF RexChanges
<1>9. CASE AdvanceTime
  <2>1. AuctionTypeOK'
    BY <1>9 DEF AdvanceTime, EveryTokenPlaced, AuctionTypeOK
  <2> QED
    BY <1>9, <2>1, TablesKept DEF AdvanceTime
<1>10. CASE UNCHANGED auctionVars
  <2>1. AuctionTypeOK'
    BY <1>10 DEF auctionVars, EveryTokenPlaced, AuctionTypeOK
  <2> QED
    BY <1>10, <2>1, TablesKept DEF auctionVars
<1> QED
  BY <1>1, <1>2, <1>3, <1>4, <1>5, <1>6, <1>7, <1>8, <1>9, <1>10 DEF AuctionNext

\* eosio.names holds exactly what it owes, and no bidder loses or gains a token
\* but for the names it creates.
THEOREM TokensPlaced ==
  AuctionSpec => []EveryTokenPlaced
<1>1. EveryTokenPlaced /\ [AuctionNext]_auctionVars => EveryTokenPlaced'
  BY NextKeeps
<1> QED
  BY <1>1, InitHolds, PTL DEF AuctionSpec

(***************************************************************************)
(* Part 8: a closed auction stays closed.                                  *)
(***************************************************************************)
\* What SoldStaysSold says of one name and step.
StaysSold(n) ==
  IsClosed(n) /\ namebids'[n] # namebids[n] =>
    /\ namebids'[n] = NoRow
    /\ n \in created' \ created
    /\ spent'[namebids[n].high_bidder] = spent[namebids[n].high_bidder] - namebids[n].high_bid

\* Bids are refused for a closed auction, closing takes an open one, and only
\* the winner's newaccount erases it.
LEMMA StepSold ==
  ASSUME EveryTokenPlaced, [AuctionNext]_auctionVars, NEW n \in TopNames
  PROVE  StaysSold(n)
<1>0. /\ AuctionTypeOK
      /\ IsClosed(n) => namebids[n] \in NameBid /\ namebids[n] # NoRow /\ namebids[n].high_bid < 0
      /\ namebids[n] \in NameBid => namebids[n].high_bid \in Int /\ namebids[n].high_bidder \in Bidders
  BY DEF EveryTokenPlaced, AuctionTypeOK, IsClosed, NameBid
<1>1. ASSUME NEW b \in Bidders, NEW m \in TopNames, NEW bid \in BidAmounts[m], bidname(b, m, bid)
      PROVE  StaysSold(n)
  <2>1. CASE m = n
    <3>1. namebids[n] = NoRow \/ namebids[n].high_bid > 0
      BY <1>1, <2>1 DEF bidname, Beats
    <3> QED
      BY <1>0, <3>1 DEF StaysSold
  <2>2. CASE m # n
    <3>1. namebids'[n] = namebids[n]
      BY <1>0, <1>1, <2>2 DEF bidname, AuctionTypeOK
    <3> QED
      BY <3>1 DEF StaysSold
  <2> QED
    BY <2>1, <2>2
<1>2. CASE onblock
  <2>1. PICK m \in TopNames : IsOpen(m) /\ namebids' = [namebids EXCEPT ![m].high_bid = - @]
    BY <1>2 DEF onblock, CanClose, IsHighest
  <2>2. CASE m = n
    BY <1>0, <2>1, <2>2 DEF StaysSold, IsOpen
  <2>3. CASE m # n
    <3>1. namebids'[n] = namebids[n]
      BY <1>0, <2>1, <2>3 DEF AuctionTypeOK
    <3> QED
      BY <3>1 DEF StaysSold
  <2> QED
    BY <2>2, <2>3
<1>3. ASSUME NEW c \in Bidders \cup {System} \cup created, NEW m \in AuctionNames, newaccount(c, m)
      PROVE  StaysSold(n)
  <2>1. CASE UNCHANGED <<namebids, spent>>
    BY <2>1 DEF StaysSold
  <2>2. CASE /\ m \in TopNames /\ Claims(c, m)
             /\ namebids' = [namebids EXCEPT ![m] = NoRow]
             /\ spent' = [spent EXCEPT ![c] = @ - namebids[m].high_bid]
    <3>1. m \notin created /\ created' = created \cup {m}
      BY <1>3 DEF newaccount
    <3>2. CASE m = n
      <4>1. namebids[n].high_bidder = c /\ c \in Bidders
        BY <1>0, <2>2, <3>2 DEF Claims, IsClosed
      <4>2. namebids'[n] = NoRow /\ spent'[c] = spent[c] - namebids[n].high_bid
        BY <1>0, <2>2, <3>2, <4>1 DEF AuctionTypeOK
      <4> QED
        BY <3>1, <3>2, <4>1, <4>2 DEF StaysSold
    <3>3. CASE m # n
      <4>1. namebids'[n] = namebids[n]
        BY <1>0, <2>2, <3>3 DEF AuctionTypeOK
      <4> QED
        BY <4>1 DEF StaysSold
    <3> QED
      BY <3>2, <3>3
  <2> QED
    BY <1>3, <2>1, <2>2 DEF newaccount
<1>4. CASE namebids' = namebids
  BY <1>4 DEF StaysSold
<1>5. ASSUME NEW b \in Bidders, NEW m \in TopNames, bidrefund(b, m) \/ DeferredBidrefund(m, b)
      PROVE  namebids' = namebids
  BY <1>5 DEF bidrefund, DeferredBidrefund, PayRefund
<1>6. CollectProceeds \/ Activate \/ RexChanges \/ AdvanceTime \/ UNCHANGED auctionVars => namebids' = namebids
  BY DEF CollectProceeds, Activate, RexChanges, AdvanceTime, auctionVars
<1> QED
  BY <1>1, <1>2, <1>3, <1>4, <1>5, <1>6 DEF AuctionNext

\* A name that was sold is only ever created, by its buyer and at its price.
THEOREM SoldIsSold ==
  AuctionSpec => SoldStaysSold
<1>1. EveryTokenPlaced /\ [AuctionNext]_auctionVars =>
        [\A n \in TopNames :
           IsClosed(n) /\ namebids'[n] # namebids[n] =>
             /\ namebids'[n] = NoRow
             /\ n \in created' \ created
             /\ spent'[namebids[n].high_bidder]
                  = spent[namebids[n].high_bidder] - namebids[n].high_bid]_auctionVars
  BY StepSold DEF StaysSold
<1> QED
  BY <1>1, TokensPlaced, PTL DEF AuctionSpec, SoldStaysSold
==============================================================================
