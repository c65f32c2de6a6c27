------------------------------ MODULE RamMarket ------------------------------
(***************************************************************************)
(* The RAM market of eosio.system: a relay between bytes (base) and core   *)
(* tokens (quote) through an intermediate token (supply) that nobody ever  *)
(* holds, the actions that trade on it and those that create RAM.          *)
(*                                                                         *)
(* Both connectors have weight 1/2, so the powers in exchange_state are a  *)
(* square root and a square; they are computed exactly here and truncated  *)
(* where the code truncates its doubles.  Only the RAM part of user rows   *)
(* is kept.  Time is the slot of the block.                                *)
(***************************************************************************)
EXTENDS Integers, FiniteSets, Functions, FiniteSetsExt

CONSTANTS Accounts,      \* user accounts
          RamAccount,    \* eosio.ram
          RamFeeAccount, \* eosio.ramfee
          RexAccount,    \* eosio.rex
          NoRow,         \* a row that does not exist
          InitTokens,    \* core tokens each holder starts with
          TokenSupply,   \* supply of the core token
          QuoteRatio,    \* the part of that supply the quote starts with (1000)
          InitSupply,    \* supply the market starts with
          InitRam,       \* max_ram_size at first
          RamLimit,      \* max_ram_size never reaches this by setram
          RamWidth,      \* 2^32 for the uint32_t that new RAM is computed in
          TokenAmounts,  \* amounts buyram may carry
          ByteAmounts,   \* bytes that buyrambytes and sellram may carry
          RamSizes,      \* sizes setram may carry
          RamRates,      \* rates setramrate may carry
          MaxSlot        \* bound of the clock

Holders == Accounts \cup {RamAccount, RamFeeAccount, RexAccount}

ASSUME RamAssumption ==
  /\ IsFiniteSet(Accounts)
  /\ {RamAccount, RamFeeAccount, RexAccount} \cap Accounts = {}
  /\ Cardinality({RamAccount, RamFeeAccount, RexAccount}) = 3
  /\ InitTokens \in [Holders -> Nat] /\ InitTokens[RamAccount] = 0
  /\ TokenSupply \in Nat /\ QuoteRatio \in Nat \ {0}
  /\ InitSupply \in Nat \ {0} /\ InitRam \in Nat /\ RamLimit \in Nat
  /\ RamWidth \in Nat \ {0}
  /\ TokenAmounts \subseteq Nat /\ ByteAmounts \subseteq Nat \ {0}
  /\ RamSizes \subseteq Nat /\ RamRates \subseteq Nat
  /\ MaxSlot \in Nat
  /\ NoRow \notin [supply : Int, base : Int, quote : Int]

VARIABLES now,                      \* slot of the current block
          market,                   \* the row of rammarket, or NoRow before init
          max_ram_size,
          total_ram_bytes_reserved,
          total_ram_stake,
          new_ram_per_block,
          last_ram_increase,
          ram_bytes,                \* account -> user_resources.ram_bytes
          tokens,                   \* core token balances
          rex_available             \* REX has shares, so that fees go to it

vars == <<now, market, max_ram_size, total_ram_bytes_reserved, total_ram_stake,
          new_ram_per_block, last_ram_increase, ram_bytes, tokens, rex_available>>

Market == [supply : Nat, base : Nat, quote : Nat]

Init ==
  /\ now = 1 /\ last_ram_increase = 0
  /\ market = NoRow
  /\ max_ram_size = InitRam
  /\ total_ram_bytes_reserved = 0 /\ total_ram_stake = 0
  /\ new_ram_per_block = 0
  /\ ram_bytes = [a \in Accounts |-> 0]
  /\ tokens = InitTokens
  /\ rex_available = FALSE

-----------------------------------------------------------------------------
(***************************************************************************)
(* exchange_state                                                          *)
(***************************************************************************)
\* MUTANT: the intermediate tokens are rounded up.
IssuedRoundedUp(R, C, T) == Max({e \in 0 .. R : R * R * (C + T) > (R + e) * (R + e) * C} \cup {0}) + 1

\* R * (sqrt(1 + T / C) - 1), truncated.
Issued(R, C, T) == Max({e \in 0 .. R : (R + e) * (R + e) * C <= R * R * (C + T)})

\* MUTANT: one token more than the connector's share is paid out.
ReleasedRoundedUp(R, C, E) == (C * ((R + E) * (R + E) - R * R)) \div (R * R) + 1

\* C * ((1 + E / R) ^ 2 - 1), truncated.
Released(R, C, E) == (C * ((R + E) * (R + E) - R * R)) \div (R * R)

convert_to_exchange(m, side, in) ==
  LET issued == Issued(m.supply, m[side] + in, in)
  IN  [out    |-> issued,
       market |-> [m EXCEPT !.supply = @ + issued, ![side] = @ + in]]

convert_from_exchange(m, side, in) ==
  LET out == Released(m.supply - in, m[side], in)
  IN  [out    |-> out,
       market |-> [m EXCEPT !.supply = @ - in, ![side] = @ - out]]

\* Every caller converts from one connector to the other.
convert(m, from, to, in) ==
  LET bought == convert_to_exchange(m, from, in)
  IN  convert_from_exchange(bought.market, to, bought.out)

-----------------------------------------------------------------------------
(***************************************************************************)
(* How much RAM there is                                                   *)
(***************************************************************************)
\* update_ram_supply multiplies a uint32_t by a uint16_t in 32 bits.
NewRam ==
  IF now > last_ram_increase
  THEN ((now - last_ram_increase) * new_ram_per_block) % RamWidth
  ELSE 0

WithNewRam == [market EXCEPT !.base = @ + NewRam]

\* MUTANT: the new RAM is put up for sale but not added to the total.
UpdateRamTotalsForgotten ==
  /\ last_ram_increase' = now
  /\ UNCHANGED max_ram_size

UpdateRamTotals ==
  /\ max_ram_size' = max_ram_size + NewRam
  /\ last_ram_increase' = now

init ==
  /\ market = NoRow
  /\ TokenSupply > 0
  /\ market' = [supply |-> InitSupply,
                base   |-> max_ram_size - total_ram_bytes_reserved,
                quote  |-> TokenSupply \div QuoteRatio]
  /\ UNCHANGED <<now, max_ram_size, total_ram_bytes_reserved, total_ram_stake,
                 new_ram_per_block, last_ram_increase, ram_bytes, tokens, rex_available>>

setram(size) ==
  /\ market # NoRow
  /\ max_ram_size < size
  /\ size < RamLimit
  /\ size > total_ram_bytes_reserved
  /\ market' = [market EXCEPT !.base = @ + (size - max_ram_size)]
  /\ max_ram_size' = size
  /\ UNCHANGED <<now, total_ram_bytes_reserved, total_ram_stake, new_ram_per_block,
                 last_ram_increase, ram_bytes, tokens, rex_available>>

setramrate(bytes_per_block) ==
  /\ market # NoRow
  /\ market' = WithNewRam
  /\ UpdateRamTotals
  /\ new_ram_per_block' = bytes_per_block
  /\ UNCHANGED <<now, total_ram_bytes_reserved, total_ram_stake, ram_bytes, tokens,
                 rex_available>>

-----------------------------------------------------------------------------
(***************************************************************************)
(* Trading                                                                 *)
(***************************************************************************)
\* Half a percent, rounded up.
Fee(amount) == (amount + 199) \div 200

\* channel_to_rex: the fee stays in eosio.ramfee while REX has no shares.
FeeAccount == IF rex_available THEN RexAccount ELSE RamFeeAccount

buyram(payer, receiver, quant) ==
  LET paid  == quant - Fee(quant)
      trade == convert(WithNewRam, "quote", "base", paid)
  IN  /\ market # NoRow
      /\ paid > 0
      /\ tokens[payer] >= quant
      /\ trade.out > 0
      /\ market' = trade.market
      /\ UpdateRamTotals
      /\ total_ram_bytes_reserved' = total_ram_bytes_reserved + trade.out
      /\ total_ram_stake' = total_ram_stake + paid
      /\ ram_bytes' = [ram_bytes EXCEPT ![receiver] = @ + trade.out]
      /\ tokens' = [tokens EXCEPT ![payer] = @ - quant,
                                  ![RamAccount] = @ + paid,
                                  ![FeeAccount] = @ + Fee(quant)]
      /\ UNCHANGED <<now, new_ram_per_block, rex_available>>

\* What the bytes would fetch if sold, at the price before any new RAM.
CostOfBytes(bytes) == convert(market, "base", "quote", bytes).out

buyrambytes(payer, receiver, bytes) ==
  /\ market # NoRow
  /\ buyram(payer, receiver, CostOfBytes(bytes))

OwnsBytes(account, bytes) == ram_bytes[account] >= bytes

\* MUTANT: the stake is reduced by what the seller keeps after the fee.
StakeAfterSaleNet(out) == total_ram_stake - (out - Fee(out))

StakeAfterSale(out) == total_ram_stake - out

\* The code also fails if it would sell more tokens than were ever paid in,
\* "this shouldn't happen": the property UnstakeCovered.
sellram(account, bytes) ==
  LET trade == convert(WithNewRam, "base", "quote", bytes)
      out   == trade.out
  IN  /\ market # NoRow
      /\ bytes > 0
      /\ OwnsBytes(account, bytes)
      /\ out > 1
      /\ StakeAfterSale(out) >= 0
      /\ market' = trade.market
      /\ UpdateRamTotals
      /\ total_ram_bytes_reserved' = total_ram_bytes_reserved - bytes
      /\ total_ram_stake' = StakeAfterSale(out)
      /\ ram_bytes' = [ram_bytes EXCEPT ![account] = @ - bytes]
      /\ tokens[RamAccount] >= out
      /\ tokens' = [tokens EXCEPT ![RamAccount] = @ - out,
                                  ![account] = @ + (out - Fee(out)),
                                  ![FeeAccount] = @ + Fee(out)]
      /\ UNCHANGED <<now, new_ram_per_block, rex_available>>

-----------------------------------------------------------------------------
(***************************************************************************)
(* The rest of the chain                                                   *)
(***************************************************************************)
RexChanges ==
  /\ rex_available' = ~ rex_available
  /\ UNCHANGED <<now, market, max_ram_size, total_ram_bytes_reserved, total_ram_stake,
                 new_ram_per_block, last_ram_increase, ram_bytes, tokens>>

NextBlock ==
  /\ now < MaxSlot
  /\ now' = now + 1
  /\ UNCHANGED <<market, max_ram_size, total_ram_bytes_reserved, total_ram_stake,
                 new_ram_per_block, last_ram_increase, ram_bytes, tokens, rex_available>>

Next ==
  \/ init
  \/ \E size \in RamSizes : setram(size)
  \/ \E rate \in RamRates : setramrate(rate)
  \/ \E payer, receiver \in Accounts, quant \in TokenAmounts : buyram(payer, receiver, quant)
  \/ \E payer, receiver \in Accounts, bytes \in ByteAmounts : buyrambytes(payer, receiver, bytes)
  \/ \E account \in Accounts, bytes \in ByteAmounts : sellram(account, bytes)
  \/ RexChanges
  \/ NextBlock

Spec == Init /\ [][Next]_vars

-----------------------------------------------------------------------------
(***************************************************************************)
(* Properties                                                              *)
(***************************************************************************)
\* The tables and the global state have their types; in particular no amount
\* of RAM or tokens is negative.
RamTypeOK ==
  /\ now \in Nat /\ last_ram_increase \in Nat /\ last_ram_increase <= now
  /\ market \in Market \cup {NoRow}
  /\ max_ram_size \in Nat
  /\ total_ram_bytes_reserved \in Nat
  /\ total_ram_stake \in Nat
  /\ new_ram_per_block \in Nat
  /\ ram_bytes \in [Accounts -> Nat]
  /\ tokens \in [Holders -> Nat]
  /\ rex_available \in BOOLEAN

\* Every byte is either owned by an account or for sale, whatever RAM was
\* added meanwhile by setram and by update_ram_supply.
BytesConserved ==
  /\ total_ram_bytes_reserved = SumFunctionOnSet(ram_bytes, Accounts)
  /\ market # NoRow => market.base + total_ram_bytes_reserved = max_ram_size

\* The tokens paid for RAM are in eosio.ram, and the quote connector is them
\* and the virtual balance it started with.  The supply of the intermediate
\* token is always back where it was: nobody holds any.
RamBacked ==
  /\ tokens[RamAccount] = total_ram_stake
  /\ market # NoRow =>
       /\ market.quote = TokenSupply \div QuoteRatio + total_ram_stake
       /\ market.supply = InitSupply

\* Bytes and tokens are all accounted for, and no amount is negative.
MarketAccounted == RamTypeOK /\ BytesConserved /\ RamBacked

\* The check that buying and selling never pays out more tokens than were
\* paid in cannot fail ("this shouldn't happen"): whatever an account sells,
\* it fetches no more than total_ram_stake, also after RAM was added.
UnstakeCovered ==
  market # NoRow =>
    \A a \in Accounts : \A bytes \in 1 .. ram_bytes[a] :
      convert(market, "base", "quote", bytes).out <= total_ram_stake

\* No trade takes value out of the market: the product of the connectors
\* never falls, although both conversions truncate.
NoValueLeaves ==
  [][market # NoRow => market'.base * market'.quote >= market.base * market.quote]_vars

\* "This action will buy an exact amount of ram and bill the payer the current
\* market price": the comment on buyrambytes.
BuysExactBytes ==
  [][\A payer, receiver \in Accounts, bytes \in ByteAmounts :
       buyrambytes(payer, receiver, bytes) => ram_bytes'[receiver] = ram_bytes[receiver] + bytes]_vars

\* "New ram will be allocated at the old rate up to the present block before
\* switching the rate": the comment on setramrate.
AllocatedAtOldRate ==
  [][\A rate \in RamRates :
       setramrate(rate) =>
         max_ram_size' = max_ram_size + (now - last_ram_increase) * new_ram_per_block]_vars
=============================================================================
