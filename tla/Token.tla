-------------------------------- MODULE Token --------------------------------
(***************************************************************************)
(* The eosio.token contract: one table of currency statistics per symbol   *)
(* code and one table of balance rows per owner.  A row exists or not      *)
(* independently of what it holds (open and close create and erase rows of *)
(* zero), so both tables are partial functions.                            *)
(*                                                                         *)
(* An action of the contract is one atomic step together with the inline   *)
(* actions it sends: a failing check anywhere reverts all of it.  Wording  *)
(* of memos, the precision of a symbol and who pays for RAM are left out.  *)
(***************************************************************************)
EXTENDS Integers, FiniteSets, Functions

CONSTANTS Names,     \* account names that may be written in an action
          Accounts,  \* the names that are accounts of the chain: is_account()
          Symbols,   \* symbol codes
          MaxAmount, \* asset::max_amount, 2^62 - 1
          NoIssuer   \* not a name

ASSUME NamesAssumption == IsFiniteSet(Names) /\ Accounts \subseteq Names /\ NoIssuer \notin Names
ASSUME MaxAmountAssumption == MaxAmount \in Nat

VARIABLES stat,     \* symbol code -> currency_stats row
          accounts  \* symbol code -> owner -> balance of its row

vars == <<stat, accounts>>

\* Amounts an asset may carry into an action: asset::is_valid().
Quantity == (- MaxAmount) .. MaxAmount

CurrencyStats == [supply : Int, max_supply : Int, issuer : Names]

Init ==
  /\ stat = [s \in {} |-> 0]
  /\ accounts = [s \in Symbols |-> [n \in {} |-> 0]]

-----------------------------------------------------------------------------
(***************************************************************************)
(* The helpers the actions are built from, on the rows of one symbol.      *)
(***************************************************************************)
Exists(sym) == sym \in DOMAIN stat

Balance(rows, owner) == IF owner \in DOMAIN rows THEN rows[owner] ELSE 0

\* sub_balance aborts unless the row exists and covers the value; it keeps a
\* row that falls to zero.
CanSub(rows, owner, value) == owner \in DOMAIN rows /\ rows[owner] >= value

sub_balance(rows, owner, value) == [rows EXCEPT ![owner] = @ - value]

\* MUTANT: a row that exists is overwritten.
add_balance_overwriting(rows, owner, value) ==
  [n \in DOMAIN rows \cup {owner} |-> IF n = owner THEN value ELSE rows[n]]

\* add_balance creates the row it does not find.
add_balance(rows, owner, value) ==
  [n \in DOMAIN rows \cup {owner} |->
     IF n = owner THEN Balance(rows, owner) + value ELSE rows[n]]

\* MUTANT: the receiver need not be an account.
CanTransferAnywhere(rows, from, to, quantity) ==
  /\ from # to
  /\ from \in Accounts
  /\ quantity > 0
  /\ CanSub(rows, from, quantity)

CanTransfer(rows, from, to, quantity) ==
  /\ from # to
  /\ from \in Accounts           \* only an account can authorize: require_auth
  /\ to \in Accounts
  /\ quantity > 0
  /\ CanSub(rows, from, quantity)

Transferred(rows, from, to, quantity) ==
  add_balance(sub_balance(rows, from, quantity), to, quantity)

\* MUTANT: what was issued before is not counted.
WithinMaximum(st, quantity) == quantity <= st.max_supply

WithinSupply(st, quantity) == quantity <= st.max_supply - st.supply

-----------------------------------------------------------------------------
\* MUTANT: a symbol can be created again, by another issuer.
CreateAgain(issuer, sym, maximum_supply) ==
  /\ maximum_supply > 0
  /\ stat' = [s \in DOMAIN stat \cup {sym} |->
                IF s = sym
                THEN [supply |-> 0, max_supply |-> maximum_supply, issuer |-> issuer]
                ELSE stat[s]]
  /\ UNCHANGED accounts

Create(issuer, sym, maximum_supply) ==
  /\ maximum_supply > 0
  /\ ~ Exists(sym)
  /\ stat' = [s \in DOMAIN stat \cup {sym} |->
                IF s = sym
                THEN [supply |-> 0, max_supply |-> maximum_supply, issuer |-> issuer]
                ELSE stat[s]]
  /\ UNCHANGED accounts

\* The new tokens go to the issuer first; for another receiver an inline
\* transfer, with its own checks, passes them on.
Issue(to, sym, quantity) ==
  /\ Exists(sym)
  /\ LET st    == stat[sym]
         rows  == add_balance(accounts[sym], st.issuer, quantity)
     IN  /\ st.issuer \in Accounts
         /\ quantity > 0
         /\ WithinSupply(st, quantity)
         /\ stat' = [stat EXCEPT ![sym].supply = @ + quantity]
         /\ \/ /\ to = st.issuer
               /\ accounts' = [accounts EXCEPT ![sym] = rows]
            \/ /\ CanTransfer(rows, st.issuer, to, quantity)
               /\ accounts' = [accounts EXCEPT ![sym] = Transferred(rows, st.issuer, to, quantity)]

\* Nothing compares the quantity with the supply: that the supply covers it
\* rests on the issuer's balance covering it.
Retire(sym, quantity) ==
  /\ Exists(sym)
  /\ LET issuer == stat[sym].issuer
     IN  /\ issuer \in Accounts
         /\ quantity > 0
         /\ CanSub(accounts[sym], issuer, quantity)
         /\ stat' = [stat EXCEPT ![sym].supply = @ - quantity]
         /\ accounts' = [accounts EXCEPT ![sym] = sub_balance(@, issuer, quantity)]

Transfer(from, to, sym, quantity) ==
  /\ Exists(sym)
  /\ CanTransfer(accounts[sym], from, to, quantity)
  /\ accounts' = [accounts EXCEPT ![sym] = Transferred(@, from, to, quantity)]
  /\ UNCHANGED stat

\* The owner of an opened row is not required to be an account.
Open(owner, sym, ram_payer) ==
  /\ Exists(sym)
  /\ ram_payer \in Accounts
  /\ owner \notin DOMAIN accounts[sym]
  /\ accounts' = [accounts EXCEPT ![sym] = add_balance(@, owner, 0)]
  /\ UNCHANGED stat

Close(owner, sym) ==
  /\ owner \in Accounts
  /\ owner \in DOMAIN accounts[sym]
  /\ accounts[sym][owner] = 0
  /\ accounts' = [accounts EXCEPT ![sym] = Restrict(@, DOMAIN @ \ {owner})]
  /\ UNCHANGED stat

Next ==
  \E sym \in Symbols :
     \/ \E issuer \in Names, m \in Quantity : Create(issuer, sym, m)
     \/ \E to \in Names, q \in Quantity : Issue(to, sym, q)
     \/ \E q \in Quantity : Retire(sym, q)
     \/ \E from, to \in Names, q \in Quantity : Transfer(from, to, sym, q)
     \/ \E owner, ram_payer \in Names : Open(owner, sym, ram_payer)
     \/ \E owner \in Names : Close(owner, sym)

Spec == Init /\ [][Next]_vars

-----------------------------------------------------------------------------
\* What every name holds of a symbol, whether or not it has a row.
HoldingsOf(rows) == [n \in Names |-> Balance(rows, n)]

TotalOf(rows) == SumFunctionOnSet(HoldingsOf(rows), Names)

Holdings(sym) == HoldingsOf(accounts[sym])

RowsOK(rows) == DOMAIN rows \subseteq Names /\ rows \in [DOMAIN rows -> Int]

\* The tables hold rows of the declared shape; a balance row exists only of a
\* symbol that has been created.
TypeOK ==
  /\ stat \in [DOMAIN stat -> CurrencyStats]
  /\ DOMAIN stat \subseteq Symbols
  /\ DOMAIN accounts = Symbols
  /\ \A s \in Symbols : RowsOK(accounts[s])
  /\ \A s \in Symbols \ DOMAIN stat : DOMAIN accounts[s] = {}

\* The supply recorded for a symbol is what all owners hold together: issue
\* and its inline transfer, retire and transfer keep the two tables in step.
SupplyIsHeld == \A s \in DOMAIN stat : stat[s].supply = TotalOf(accounts[s])

\* No owner is overdrawn, although retire and transfer subtract.
NoOverdraft == \A s \in Symbols : \A n \in DOMAIN accounts[s] : accounts[s][n] >= 0

\* The supply stays between zero and the maximum the creator fixed, which an
\* asset can represent: no addition of balances can overflow.
SupplyBounded == \A s \in DOMAIN stat : /\ 0 <= stat[s].supply
                                        /\ stat[s].supply <= stat[s].max_supply
                                        /\ stat[s].max_supply <= MaxAmount

\* Tokens never end up at a name nobody controls: open may create such a row,
\* and no action puts value in it.
NoStrandedTokens == \A s \in Symbols : \A n \in Names \ Accounts : Balance(accounts[s], n) = 0

\* The contract implements the abstract ledger: rows disappear, and issue with
\* its inline transfer is a single minting to the receiver.
L == INSTANCE Ledger WITH
       issuerOf <- [s \in Symbols |-> IF Exists(s) THEN stat[s].issuer ELSE NoIssuer],
       cap      <- [s \in Symbols |-> IF Exists(s) THEN stat[s].max_supply ELSE 0],
       supply   <- [s \in Symbols |-> IF Exists(s) THEN stat[s].supply ELSE 0],
       held     <- [s \in Symbols |-> Holdings(s)]

ImplementsLedger == L!LedgerSpec
=============================================================================
