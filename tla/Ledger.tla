------------------------------- MODULE Ledger -------------------------------
(***************************************************************************)
(* What the token contract promises, without rows, RAM payers or inline    *)
(* actions: per symbol a cap fixed when the symbol is registered, a supply *)
(* and what every name holds.  Value is minted by the issuer to one        *)
(* account, moved between two of them, or burnt by the issuer.             *)
(***************************************************************************)
EXTENDS Integers, FiniteSets

CONSTANTS Names,     \* account names that may be written in an action
          Accounts,  \* the names that are accounts of the chain
          Symbols,   \* symbol codes
          MaxAmount, \* asset::max_amount, 2^62 - 1
          NoIssuer   \* issuer of a symbol nobody registered

VARIABLES issuerOf,  \* symbol -> its issuer or NoIssuer
          cap,       \* symbol -> largest supply it may ever have
          supply,    \* symbol -> amount in existence
          held       \* symbol -> name -> amount it holds

ledgerVars == <<issuerOf, cap, supply, held>>

LedgerInit ==
  /\ issuerOf = [s \in Symbols |-> NoIssuer]
  /\ cap = [s \in Symbols |-> 0]
  /\ supply = [s \in Symbols |-> 0]
  /\ held = [s \in Symbols |-> [n \in Names |-> 0]]

Register(s, i, m) ==
  /\ issuerOf[s] = NoIssuer
  /\ issuerOf' = [issuerOf EXCEPT ![s] = i]
  /\ cap' = [cap EXCEPT ![s] = m]
  /\ UNCHANGED <<supply, held>>

Mint(s, to, q) ==
  /\ issuerOf[s] \in Accounts
  /\ to \in Accounts
  /\ supply[s] + q <= cap[s]
  /\ supply' = [supply EXCEPT ![s] = @ + q]
  /\ held' = [held EXCEPT ![s][to] = @ + q]
  /\ UNCHANGED <<issuerOf, cap>>

Burn(s, q) ==
  /\ issuerOf[s] \in Accounts
  /\ q <= held[s][issuerOf[s]]
  /\ supply' = [supply EXCEPT ![s] = @ - q]
  /\ held' = [held EXCEPT ![s][issuerOf[s]] = @ - q]
  /\ UNCHANGED <<issuerOf, cap>>

Move(s, from, to, q) ==
  /\ from # to
  /\ from \in Accounts
  /\ to \in Accounts
  /\ q <= held[s][from]
  /\ held' = [held EXCEPT ![s][from] = @ - q, ![s][to] = @ + q]
  /\ UNCHANGED <<issuerOf, cap, supply>>

LedgerNext ==
  \E s \in Symbols, q \in 1..MaxAmount :
     \/ \E i \in Names : Register(s, i, q)
     \/ \E to \in Names : Mint(s, to, q)
     \/ Burn(s, q)
     \/ \E from, to \in Names : Move(s, from, to, q)

LedgerSpec == LedgerInit /\ [][LedgerNext]_ledgerVars
=============================================================================
