---------------------------- MODULE MarketProofs ----------------------------
(***************************************************************************)
(* Proofs about RamMarket, for all accounts, amounts, rates and times.     *)
(*                                                                         *)
(* All that matters of the relay's two conversions is one inequality: what *)
(* a trade pays out of one connector is in no better proportion to it than *)
(* what was paid in is to the other connector afterwards.  The product of  *)
(* the connectors therefore never falls by a trade.  It is at least the    *)
(* size of all RAM times the virtual tokens the market started with, and   *)
(* that is why a seller can never get more than the buyers paid in.        *)
(***************************************************************************)
EXTENDS RamMarket, SumProofs

-----------------------------------------------------------------------------
(***************************************************************************)
(* The conversions                                                         *)
(***************************************************************************)
\* A nonempty set of natural numbers with a bound has a largest element, which
\* is what Max chooses.
LEMMA LargestNumber ==
  ASSUME NEW R \in Nat, NEW S \in SUBSET (0 .. R), S # {}
  PROVE  Max(S) \in S
<1> DEFINE gaps == {R - e : e \in S}
<1>1. gaps \in SUBSET Nat /\ gaps # {}
  <2>1. \A e \in S : R - e \in Nat
    OBVIOUS
  <2> QED BY <2>1, Zenon
<1>2. PICK g \in gaps : \A k \in gaps : g <= k
  <2> HIDE DEF gaps
  <2> QED BY <1>1, SmallestNumber
<1>3. PICK m \in S : g = R - m
  BY <1>2
<1>4. \A e \in S : R - m <= R - e
  BY <1>2, <1>3
<1>5. \A e \in S : m >= e
  <2>1. m \in Int /\ \A e \in S : e \in Int
    OBVIOUS
  <2> QED BY <2>1, <1>4
<1> QED BY <1>5 DEF Max

\* convert_to_exchange issues no more than the connector's share allows.
LEMMA IssuedBound ==
  ASSUME NEW R \in Nat, NEW C \in Nat, NEW T \in Nat
  PROVE  /\ Issued(R, C, T) \in Nat
         /\ (R + Issued(R, C, T)) * (R + Issued(R, C, T)) * C <= R * R * (C + T)
<1> DEFINE S == {e \in 0 .. R : (R + e) * (R + e) * C <= R * R * (C + T)}
<1>1. 0 \in S
  <2>1. (R + 0) * (R + 0) * C = R * R * C
    OBVIOUS
  <2>2. R * R \in Nat
    BY SMT
  <2>3. (R * R) * C <= (R * R) * (C + T)
    BY <2>2, Grows
  <2> QED BY <2>1, <2>3
<1>2. S \in SUBSET (0 .. R)
  OBVIOUS
<1>3. Issued(R, C, T) = Max(S)
  BY DEF Issued
<1>4. Max(S) \in S
  <2> HIDE DEF S
  <2> QED BY <1>1, <1>2, LargestNumber
<1> QED BY <1>3, <1>4

\* convert_from_exchange pays no more than the connector's share.
LEMMA ReleasedBound ==
  ASSUME NEW R \in Nat \ {0}, NEW C \in Nat, NEW E \in Nat
  PROVE  /\ Released(R, C, E) \in Nat
         /\ (R * R) * Released(R, C, E) <= C * ((R + E) * (R + E) - R * R)
<1> DEFINE num == C * ((R + E) * (R + E) - R * R)
           den == R * R
<1>1. den \in Nat \ {0}
  BY SMT
<1>2. num \in Nat
  <2>1. (R + E) * (R + E) - R * R = E * (R + R + E)
    BY SMT
  <2>2. E * (R + R + E) \in Nat
    BY SMT
  <2> QED BY <2>1, <2>2, SMT
<1>3. Released(R, C, E) = num \div den
  BY DEF Released
<1> HIDE DEF num, den
<1>4. num \div den \in Nat /\ den * (num \div den) <= num
  BY <1>1, <1>2, DivBounds
<1> QED BY <1>3, <1>4 DEF num, den

\* The two bounds together, P and Q for the squares of the supplies.
LEMMA Proportion ==
  ASSUME NEW P \in Int, NEW Q \in Nat \ {0}, NEW c \in Nat, NEW T \in Nat, NEW B \in Nat,
         NEW out \in Nat, P * c <= Q * (c + T), Q * out <= B * (P - Q)
  PROVE  c * out <= B * T
<1>1. c * (Q * out) <= c * (B * (P - Q))
  <2>1. Q * out \in Int /\ B * (P - Q) \in Int
    BY SMT
  <2> QED BY <2>1, Grows
<1>2. B * (P * c - Q * c) <= B * (Q * T)
  <2>1. P * c - Q * c <= Q * T
    BY SMT
  <2>2. P * c - Q * c \in Int /\ Q * T \in Int
    BY SMT
  <2> QED BY <2>1, <2>2, Grows
<1>3. c * (B * (P - Q)) = B * (P * c - Q * c)
  BY SMT
<1>4. Q * (c * out) <= Q * (B * T)
  <2>1. Q * (c * out) = c * (Q * out) /\ Q * (B * T) = B * (Q * T)
    BY SMT
  <2>2. c * (Q * out) \in Int /\ c * (B * (P - Q)) \in Int /\ B * (Q * T) \in Int
    BY SMT
  <2> QED BY <1>1, <1>2, <1>3, <2>1, <2>2
<1>5. c * out \in Int /\ B * T \in Int
  BY SMT
<1> QED BY <1>4, <1>5, CancelFactor

\* A whole trade through the intermediate token: the supply is back where it
\* was, and what is paid out is covered by Proportion.
LEMMA TradeBound ==
  ASSUME NEW m \in Market, m.supply > 0, NEW in \in Nat,
         NEW from \in {"base", "quote"}, NEW to \in {"base", "quote"}, from # to
  PROVE  /\ convert(m, from, to, in).out \in Nat
         /\ (m[from] + in) * convert(m, from, to, in).out <= m[to] * in
         /\ convert(m, from, to, in).market
              = [m EXCEPT ![from] = m[from] + in, ![to] = m[to] - convert(m, from, to, in).out]
<1> DEFINE R == m.supply
           e == Issued(R, m[from] + in, in)
           out == Released(R, m[to], e)
           m1 == [m EXCEPT !.supply = R + e, ![from] = m[from] + in]
<1>1. R \in Nat \ {0} /\ m[from] \in Nat /\ m[to] \in Nat
  BY DEF Market
<1>2. m[from] + in \in Nat
  BY <1>1
<1>3. e \in Nat /\ (R + e) * (R + e) * (m[from] + in) <= R * R * (m[from] + in + in)
  <2> HIDE DEF R
  <2> QED BY <1>1, <1>2, IssuedBound
<1> HIDE DEF e
<1>4. out \in Nat /\ (R * R) * out <= m[to] * ((R + e) * (R + e) - R * R)
  <2> HIDE DEF R
  <2> QED BY <1>1, <1>3, ReleasedBound
<1>5. m1.supply = R + e /\ m1[to] = m[to] /\ (R + e) - e = R
  BY <1>1, <1>3 DEF Market
<1>6. convert(m, from, to, in)
        = [out |-> out, market |-> [m1 EXCEPT !.supply = @ - e, ![to] = @ - out]]
  <2>1. convert_to_exchange(m, from, in) = [out |-> e, market |-> m1]
    BY DEF convert_to_exchange, e
  <2>2. convert(m, from, to, in) = convert_from_exchange(m1, to, e)
    BY <2>1 DEF convert
  <2>3. Released(m1.supply - e, m1[to], e) = out
    BY <1>5
  <2> HIDE DEF m1, out
  <2> QED BY <2>2, <2>3 DEF convert_from_exchange
<1>7. convert(m, from, to, in).out = out
  BY <1>6
<1> HIDE DEF out
<1>8. (m[from] + in) * out <= m[to] * in
  <2>1. (R + e) * (R + e) \in Int /\ R * R \in Nat \ {0}
    BY <1>1, <1>3, SMT
  <2> HIDE DEF R
  <2> QED BY <1>1, <1>2, <1>3, <1>4, <2>1, Proportion
<1>9. [m1 EXCEPT !.supply = @ - e, ![to] = @ - out]
        = [m EXCEPT ![from] = m[from] + in, ![to] = m[to] - out]
  BY <1>1, <1>3, <1>4, <1>5 DEF Market
<1> QED BY <1>4, <1>6, <1>7, <1>8, <1>9

-----------------------------------------------------------------------------
(***************************************************************************)
(* The market's row before and after                                       *)
(***************************************************************************)
Virtual == TokenSupply \div QuoteRatio

\* While the market does not exist nothing is owned or paid.  Afterwards the
\* product of the connectors is at least what it would be if all RAM were for
\* sale at the virtual balance.
PriceBacked ==
  /\ market = NoRow => total_ram_bytes_reserved = 0 /\ total_ram_stake = 0
  /\ market # NoRow => market.base * market.quote >= max_ram_size * Virtual

\* The inductive invariant.
MarketInv == MarketAccounted /\ PriceBacked

\* The tokens the market starts with are a natural number.
LEMMA VirtualIsNat == Virtual \in Nat
  BY RamAssumption, DivBounds DEF Virtual

\* A pair has one or two elements.
LEMMA AtMostTwo ==
  ASSUME NEW x, NEW y
  PROVE  Cardinality({x} \cup {y}) \in {1, 2}
<1>1. IsFiniteSet({x}) /\ Cardinality({x}) = 1
  BY FS_Singleton
<1>2. Cardinality({x} \cup {y}) = IF y \in {x} THEN Cardinality({x}) ELSE Cardinality({x}) + 1
  BY <1>1, FS_AddElement
<1> QED BY <1>1, <1>2

\* The three system accounts of the market are different and no user's.
LEMMA SystemAccounts ==
  /\ RamAccount # RamFeeAccount /\ RamAccount # RexAccount
  /\ RamAccount \notin Accounts /\ RamFeeAccount \notin Accounts /\ RexAccount \notin Accounts
  /\ FeeAccount \in {RamFeeAccount, RexAccount}
<1>0. Cardinality({RamAccount, RamFeeAccount, RexAccount}) = 3
  BY RamAssumption
<1>1. RamAccount # RamFeeAccount
  <2>1. SUFFICES ASSUME RamAccount = RamFeeAccount PROVE FALSE
    OBVIOUS
  <2>2. {RamAccount, RamFeeAccount, RexAccount} = {RamAccount} \cup {RexAccount}
    BY <2>1
  <2>3. Cardinality({RamAccount} \cup {RexAccount}) \in {1, 2}
    BY AtMostTwo
  <2>4. Cardinality({RamAccount} \cup {RexAccount}) = 3
    BY <1>0, <2>2, Zenon
  <2> QED BY <2>3, <2>4
<1>2. RamAccount # RexAccount
  <2>1. SUFFICES ASSUME RamAccount = RexAccount PROVE FALSE
    OBVIOUS
  <2>2. {RamAccount, RamFeeAccount, RexAccount} = {RamAccount} \cup {RamFeeAccount}
    BY <2>1
  <2>3. Cardinality({RamAccount} \cup {RamFeeAccount}) \in {1, 2}
    BY AtMostTwo
  <2>4. Cardinality({RamAccount} \cup {RamFeeAccount}) = 3
    BY <1>0, <2>2, Zenon
  <2> QED BY <2>3, <2>4
<1> QED BY <1>1, <1>2, RamAssumption DEF FeeAccount

\* Half a percent, rounded up, is no more than the amount.
LEMMA FeeBound ==
  ASSUME NEW amount \in Nat
  PROVE  Fee(amount) \in 0 .. amount
<1>1. Fee(amount) \in Nat /\ 200 * Fee(amount) <= amount + 199
  BY DivBounds DEF Fee
<1>2. Fee(amount) <= amount
  BY <1>1
<1> QED BY <1>1, <1>2

\* New RAM is a natural number, and joins what is for sale.
LEMMA RamGrows ==
  ASSUME RamTypeOK, market # NoRow
  PROVE  /\ NewRam \in Nat
         /\ WithNewRam \in Market
         /\ WithNewRam.base = market.base + NewRam
         /\ WithNewRam.quote = market.quote
         /\ WithNewRam.supply = market.supply
<1>1. NewRam \in Nat
  <2>1. now - last_ram_increase \in Nat
    BY DEF RamTypeOK
  <2>2. (now - last_ram_increase) * new_ram_per_block \in Nat
    BY <2>1, SMT DEF RamTypeOK
  <2>3. \A x \in Nat : x % RamWidth \in Nat
    BY RamAssumption
  <2> QED BY <2>2, <2>3 DEF NewRam
<1>2. market \in Market
  BY DEF RamTypeOK
<1> QED BY <1>1, <1>2 DEF WithNewRam, Market

\* RAM that is put up for sale keeps the price backed.
LEMMA MoreRam ==
  ASSUME NEW b \in Nat, NEW q \in Nat, NEW size \in Nat, NEW v \in Nat, NEW d \in Nat,
         b * q >= size * v, q >= v
  PROVE  (b + d) * q >= (size + d) * v
<1>1. d * v <= d * q
  BY Grows
<1>2. (b + d) * q = b * q + d * q /\ (size + d) * v = size * v + d * v
  BY SMT
<1>3. b * q \in Int /\ d * q \in Int /\ size * v \in Int /\ d * v \in Int
  BY SMT
<1> QED BY <1>1, <1>2, <1>3

\* A trade that pays out no more than its share lets no value leave.
LEMMA ValueStays ==
  ASSUME NEW b \in Nat, NEW q \in Nat, NEW in \in Nat, NEW out \in Nat,
         (b + in) * out <= q * in
  PROVE  (b + in) * (q - out) >= b * q
<1>1. (b + in) * (q - out) = b * q + (q * in - (b + in) * out)
  BY SMT
<1>2. q * in \in Int /\ (b + in) * out \in Int /\ b * q \in Int
  BY SMT
<1> QED BY <1>1, <1>2

\* What is paid out of a connector is no more than it holds.
LEMMA OutBounded ==
  ASSUME NEW b \in Nat, NEW q \in Nat, NEW in \in Nat \ {0}, NEW out \in Nat,
         (b + in) * out <= q * in
  PROVE  out <= q
<1>1. in * q <= (b + in) * q
  BY SMT
<1>2. (b + in) * out <= (b + in) * q
  <2>1. q * in = in * q
    BY SMT
  <2>2. q * in \in Int /\ (b + in) * out \in Int /\ (b + in) * q \in Int
    BY SMT
  <2> QED BY <1>1, <2>1, <2>2
<1> QED BY <1>2, CancelFactor

\* A seller never gets the virtual tokens: after a sale of bytes that somebody
\* owned the quote is still at least what the market started with.
LEMMA SaleCovered ==
  ASSUME NEW b \in Nat, NEW q \in Nat, NEW v \in Nat, NEW owned \in Nat,
         NEW bytes \in Nat \ {0}, NEW out \in Nat,
         bytes <= owned, b * q >= (b + owned) * v, (b + bytes) * out <= q * bytes
  PROVE  q - out >= v
<1>1. (b + bytes) * v <= (b + owned) * v
  BY SMT
<1>2. (b + bytes) * (q - out) >= b * q
  BY ValueStays
<1>3. (b + bytes) * v <= (b + bytes) * (q - out)
  <2>1. (b + bytes) * v \in Int /\ (b + owned) * v \in Int /\ b * q \in Int
        /\ (b + bytes) * (q - out) \in Int
    BY SMT
  <2> QED BY <1>1, <1>2, <2>1
<1> QED BY <1>3, CancelFactor

\* The row after a purchase, as buyram makes it: the RAM of the blocks since
\* the last trade is for sale before the price is computed.
LEMMA AfterBuy ==
  ASSUME MarketInv, market # NoRow, NEW in \in Nat \ {0}
  PROVE  LET t == convert(WithNewRam, "quote", "base", in)
         IN  /\ t.out \in Nat
             /\ t.market \in Market
             /\ t.market.supply = market.supply
             /\ t.market.quote = market.quote + in
             /\ t.market.base = (market.base + NewRam) - t.out
             /\ t.market.base * t.market.quote >= (market.base + NewRam) * market.quote
<1> DEFINE t == convert(WithNewRam, "quote", "base", in)
           b == market.base + NewRam
           q == market.quote
<1>1. /\ NewRam \in Nat /\ WithNewRam \in Market /\ WithNewRam.base = b
      /\ WithNewRam.quote = q /\ WithNewRam.supply = market.supply
  BY RamGrows DEF MarketInv, MarketAccounted
<1>2. WithNewRam.supply > 0
  BY <1>1, RamAssumption DEF MarketInv, MarketAccounted, RamBacked
<1>3. b \in Nat /\ q \in Nat
  BY <1>1 DEF Market
<1>4. /\ t.out \in Nat
      /\ (q + in) * t.out <= b * in
      /\ t.market = [WithNewRam EXCEPT !["quote"] = q + in, !["base"] = b - t.out]
  <2>1. /\ t.out \in Nat
        /\ (WithNewRam["quote"] + in) * t.out <= WithNewRam["base"] * in
        /\ t.market = [WithNewRam EXCEPT !["quote"] = WithNewRam["quote"] + in,
                                         !["base"] = WithNewRam["base"] - t.out]
    BY <1>1, <1>2, TradeBound
  <2> HIDE DEF t, b, q
  <2> QED BY <2>1, <1>1
<1> HIDE DEF t, b, q
<1>5. t.out <= b
  BY <1>3, <1>4, OutBounded
<1>6. b - t.out \in Nat /\ q + in \in Nat
  BY <1>3, <1>4, <1>5
<1>7. /\ t.market \in Market /\ t.market.supply = WithNewRam.supply
      /\ t.market.quote = q + in /\ t.market.base = b - t.out
  BY <1>1, <1>4, <1>6 DEF Market
<1>8. (q + in) * (b - t.out) >= q * b
  BY <1>3, <1>4, ValueStays
<1>9. (b - t.out) * (q + in) >= b * q
  <2>1. (b - t.out) * (q + in) = (q + in) * (b - t.out) /\ b * q = q * b
    BY <1>3, <1>6, SMT
  <2> QED BY <1>8, <2>1
<1> QED BY <1>1, <1>4, <1>7, <1>9 DEF t, b, q

\* The row after a sale, as sellram makes it.
LEMMA AfterSale ==
  ASSUME MarketInv, market # NoRow, NEW in \in Nat \ {0}
  PROVE  LET t == convert(WithNewRam, "base", "quote", in)
         IN  /\ t.out \in Nat
             /\ t.market \in Market
             /\ t.market.supply = market.supply
             /\ t.market.base = (market.base + NewRam) + in
             /\ t.market.quote = market.quote - t.out
             /\ t.market.base * t.market.quote >= (market.base + NewRam) * market.quote
<1> DEFINE t == convert(WithNewRam, "base", "quote", in)
           b == market.base + NewRam
           q == market.quote
<1>1. /\ NewRam \in Nat /\ WithNewRam \in Market /\ WithNewRam.base = b
      /\ WithNewRam.quote = q /\ WithNewRam.supply = market.supply
  BY RamGrows DEF MarketInv, MarketAccounted
<1>2. WithNewRam.supply > 0
  BY <1>1, RamAssumption DEF MarketInv, MarketAccounted, RamBacked
<1>3. b \in Nat /\ q \in Nat
  BY <1>1 DEF Market
<1>4. /\ t.out \in Nat
      /\ (b + in) * t.out <= q * in
      /\ t.market = [WithNewRam EXCEPT !["base"] = b + in, !["quote"] = q - t.out]
  <2>1. /\ t.out \in Nat
        /\ (WithNewRam["base"] + in) * t.out <= WithNewRam["quote"] * in
        /\ t.market = [WithNewRam EXCEPT !["base"] = WithNewRam["base"] + in,
                                         !["quote"] = WithNewRam["quote"] - t.out]
    BY <1>1, <1>2, TradeBound
  <2> HIDE DEF t, b, q
  <2> QED BY <2>1, <1>1
<1> HIDE DEF t, b, q
<1>5. t.out <= q
  BY <1>3, <1>4, OutBounded
<1>6. q - t.out \in Nat /\ b + in \in Nat
  BY <1>3, <1>4, <1>5
<1>7. /\ t.market \in Market /\ t.market.supply = WithNewRam.supply
      /\ t.market.base = b + in /\ t.market.quote = q - t.out
  BY <1>1, <1>4, <1>6 DEF Market
<1>8. (b + in) * (q - t.out) >= b * q
  BY <1>3, <1>4, ValueStays
<1> QED BY <1>1, <1>4, <1>7, <1>8 DEF t, b, q

\* A payment out of one holder's balance into two others'.
LEMMA Paid ==
  ASSUME NEW f \in [Holders -> Nat], NEW a \in Holders, NEW b \in Holders, NEW c \in Holders,
         a # b, a # c, b # c, NEW x \in Nat, NEW y \in Nat, NEW z \in Nat, x <= f[a],
         NEW g, g = [f EXCEPT ![a] = @ - x, ![b] = @ + y, ![c] = @ + z]
  PROVE  g \in [Holders -> Nat] /\ g[a] = f[a] - x /\ g[b] = f[b] + y
  OBVIOUS

-----------------------------------------------------------------------------
(***************************************************************************)
(* Initially                                                               *)
(***************************************************************************)
\* Nothing is owned, paid or for sale.
LEMMA InitOK == Init => MarketInv
<1> SUFFICES ASSUME Init PROVE MarketInv
  OBVIOUS
<1>1. ram_bytes \in [Accounts -> Int] /\ \A a \in Accounts : ram_bytes[a] = 0
  BY DEF Init
<1>2. SumFunctionOnSet(ram_bytes, Accounts) = 0
  BY <1>1, SumZero, RamAssumption
<1>3. RamTypeOK
  <2>1. InitTokens \in [Holders -> Nat] /\ InitRam \in Nat
    BY RamAssumption
  <2>2. ram_bytes \in [Accounts -> Nat] /\ tokens \in [Holders -> Nat]
    BY <2>1 DEF Init
  <2>3. rex_available \in BOOLEAN
    BY Zenon DEF Init
  <2>4. /\ now = 1 /\ last_ram_increase = 0 /\ market = NoRow /\ max_ram_size = InitRam
        /\ total_ram_bytes_reserved = 0 /\ total_ram_stake = 0 /\ new_ram_per_block = 0
    BY DEF Init
  <2> QED BY <2>1, <2>2, <2>3, <2>4 DEF RamTypeOK
<1>4. BytesConserved
  BY <1>2 DEF Init, BytesConserved
<1>5. RamBacked
  BY RamAssumption DEF Init, RamBacked
<1>6. PriceBacked
  BY DEF Init, PriceBacked
<1> QED BY <1>3, <1>4, <1>5, <1>6 DEF MarketInv, MarketAccounted

-----------------------------------------------------------------------------
(***************************************************************************)
(* The steps                                                               *)
(***************************************************************************)
\* What the invariant says once the market exists.
LEMMA Existing ==
  ASSUME MarketInv, market # NoRow
  PROVE  /\ market \in Market
         /\ market.base \in Nat /\ market.quote \in Nat /\ market.supply = InitSupply
         /\ market.base + total_ram_bytes_reserved = max_ram_size
         /\ market.quote = Virtual + total_ram_stake
         /\ market.base * market.quote >= max_ram_size * Virtual
         /\ max_ram_size \in Nat /\ total_ram_bytes_reserved \in Nat /\ total_ram_stake \in Nat
         /\ Virtual \in Nat
<1>1. market \in Market
  BY DEF MarketInv, MarketAccounted, RamTypeOK
<1>2. market.base \in Nat /\ market.quote \in Nat
  BY <1>1 DEF Market
<1> QED
  BY <1>1, <1>2, VirtualIsNat
  DEF MarketInv, MarketAccounted, RamTypeOK, BytesConserved, RamBacked, PriceBacked, Virtual

\* A row of the market is not the missing row.
LEMMA RowExists == \A m \in Market : m # NoRow
<1>1. NoRow \notin [supply : Int, base : Int, quote : Int]
  BY RamAssumption
<1>2. Market \subseteq [supply : Int, base : Int, quote : Int]
  BY DEF Market
<1> QED BY <1>1, <1>2

\* init puts all RAM up for sale at the virtual balance.
LEMMA InitStep ==
  ASSUME MarketInv, init
  PROVE  MarketInv'
<1>1. total_ram_bytes_reserved = 0 /\ total_ram_stake = 0 /\ max_ram_size \in Nat
  BY DEF MarketInv, MarketAccounted, PriceBacked, RamTypeOK, init
<1>2. market' = [supply |-> InitSupply, base |-> max_ram_size, quote |-> Virtual]
  BY <1>1 DEF init, Virtual
<1>3. /\ market' \in Market /\ market'.supply = InitSupply
      /\ market'.base = max_ram_size /\ market'.quote = Virtual
  BY <1>1, <1>2, VirtualIsNat, RamAssumption DEF Market
<1>4. market' # NoRow
  BY <1>3, RowExists
<1>5. RamTypeOK'
  BY <1>3 DEF MarketInv, MarketAccounted, RamTypeOK, init
<1>6. BytesConserved'
  BY <1>1, <1>3 DEF MarketInv, MarketAccounted, BytesConserved, init
<1>7. RamBacked'
  BY <1>1, <1>3, VirtualIsNat DEF MarketInv, MarketAccounted, RamBacked, Virtual, init
<1>8. PriceBacked'
  <2>1. market'.base * market'.quote >= max_ram_size' * Virtual'
    <3>1. max_ram_size * Virtual \in Int
      BY <1>1, VirtualIsNat, SMT
    <3> QED BY <3>1, <1>3 DEF Virtual, init
  <2> QED BY <1>4, <2>1 DEF PriceBacked
<1> QED BY <1>5, <1>6, <1>7, <1>8 DEF MarketInv, MarketAccounted

\* A step that puts more RAM up for sale, and changes neither what is owned nor
\* what was paid.
LEMMA MoreForSale ==
  ASSUME MarketInv, market # NoRow, NEW d \in Nat,
         market' = [market EXCEPT !.base = @ + d], max_ram_size' = max_ram_size + d,
         now' = now, last_ram_increase' \in Nat, last_ram_increase' <= now,
         new_ram_per_block' \in Nat,
         UNCHANGED <<total_ram_bytes_reserved, total_ram_stake, ram_bytes, tokens, rex_available>>
  PROVE  MarketInv' /\ market'.base * market'.quote >= market.base * market.quote
<1>1. market'.base = market.base + d /\ market'.quote = market.quote
      /\ market' \in Market /\ market'.supply = market.supply
  BY Existing DEF Market
<1>2. (market.base + d) * market.quote >= (max_ram_size + d) * Virtual
  <2>1. market.quote >= Virtual
    BY Existing
  <2> QED BY <2>1, Existing, MoreRam
<1>3. market' # NoRow
  BY <1>1, RowExists
<1>4. RamTypeOK'
  BY <1>1, Existing DEF MarketInv, MarketAccounted, RamTypeOK
<1>5. BytesConserved'
  <2>1. market'.base + total_ram_bytes_reserved' = max_ram_size'
    BY <1>1, Existing
  <2> QED BY <2>1 DEF MarketInv, MarketAccounted, BytesConserved
<1>6. RamBacked'
  BY <1>1 DEF MarketInv, MarketAccounted, RamBacked
<1>7. PriceBacked'
  BY <1>1, <1>2, <1>3 DEF PriceBacked, Virtual
<1>8. market'.base * market'.quote >= market.base * market.quote
  <2>1. (market.base + d) * market.quote = market.base * market.quote + d * market.quote
    BY Existing, SMT
  <2>2. market.base * market.quote \in Int /\ d * market.quote \in Nat
    BY Existing, SMT
  <2> QED BY <1>1, <2>1, <2>2
<1> QED BY <1>4, <1>5, <1>6, <1>7, <1>8 DEF MarketInv, MarketAccounted

\* buyram: whatever the price, the receiver's bytes come from those for sale and
\* the payer's tokens are in eosio.ram and in the quote.
LEMMA BuyStep ==
  ASSUME MarketInv, NEW payer \in Accounts, NEW receiver \in Accounts, NEW quant \in Nat,
         buyram(payer, receiver, quant)
  PROVE  MarketInv' /\ market'.base * market'.quote >= market.base * market.quote
<1> DEFINE paid == quant - Fee(quant)
           t == convert(WithNewRam, "quote", "base", paid)
<1>1. market # NoRow /\ paid \in Nat \ {0} /\ Fee(quant) \in Nat /\ quant = paid + Fee(quant)
  BY FeeBound DEF buyram
<1>2. /\ t.out \in Nat /\ t.market \in Market /\ t.market.supply = market.supply
      /\ t.market.quote = market.quote + paid
      /\ t.market.base = (market.base + NewRam) - t.out
      /\ t.market.base * t.market.quote >= (market.base + NewRam) * market.quote
  <2> HIDE DEF paid
  <2> QED BY <1>1, AfterBuy
<1>3. /\ market' = t.market
      /\ max_ram_size' = max_ram_size + NewRam /\ last_ram_increase' = now
      /\ total_ram_bytes_reserved' = total_ram_bytes_reserved + t.out
      /\ total_ram_stake' = total_ram_stake + paid
      /\ ram_bytes' = [ram_bytes EXCEPT ![receiver] = @ + t.out]
      /\ tokens[payer] >= quant
      /\ tokens' = [tokens EXCEPT ![payer] = @ - quant, ![RamAccount] = @ + paid,
                                  ![FeeAccount] = @ + Fee(quant)]
      /\ UNCHANGED <<now, new_ram_per_block, rex_available>>
  BY DEF buyram, UpdateRamTotals
<1> HIDE DEF t, paid
<1>4. PICK out, nr, fee, p : out = t.out /\ nr = NewRam /\ fee = Fee(quant) /\ p = paid
  OBVIOUS
<1>5. nr \in Nat /\ out \in Nat /\ fee \in Nat /\ p \in Nat \ {0}
  BY <1>1, <1>2, <1>4, RamGrows DEF MarketInv, MarketAccounted
<1>6. /\ market' \in Market /\ market'.supply = InitSupply
      /\ market'.quote = market.quote + p
      /\ market'.base = (market.base + nr) - out
      /\ market'.base * market'.quote >= (market.base + nr) * market.quote
      /\ market' # NoRow
  BY <1>1, <1>2, <1>3, <1>4, Existing, RowExists
<1>7. /\ tokens' \in [Holders -> Nat] /\ tokens'[RamAccount] = tokens[RamAccount] + p
  <2>1. tokens \in [Holders -> Nat] /\ payer \in Holders /\ RamAccount \in Holders
        /\ FeeAccount \in Holders
    BY SystemAccounts DEF MarketInv, MarketAccounted, RamTypeOK, Holders
  <2>2. payer # RamAccount /\ payer # FeeAccount /\ RamAccount # FeeAccount
    BY SystemAccounts
  <2>3. quant \in Nat /\ quant <= tokens[payer]
    BY <1>3, <2>1
  <2>4. tokens' = [tokens EXCEPT ![payer] = @ - quant, ![RamAccount] = @ + p,
                                 ![FeeAccount] = @ + fee]
    BY <1>3, <1>4
  <2>5. p \in Nat /\ fee \in Nat
    BY <1>5
  <2> QED BY <2>1, <2>2, <2>3, <2>4, <2>5, Paid, Zenon
<1>8. ram_bytes' \in [Accounts -> Nat] /\ ram_bytes'[receiver] = ram_bytes[receiver] + out
      /\ \A a \in Accounts \ {receiver} : ram_bytes'[a] = ram_bytes[a]
  BY <1>3, <1>4, <1>5 DEF MarketInv, MarketAccounted, RamTypeOK
<1>9. SumFunctionOnSet(ram_bytes', Accounts) = SumFunctionOnSet(ram_bytes, Accounts) + out
  <2>1. ram_bytes \in [Accounts -> Int] /\ ram_bytes' \in [Accounts -> Int] /\ out \in Int
    BY <1>5, <1>8 DEF MarketInv, MarketAccounted, RamTypeOK
  <2> QED BY <2>1, <1>8, SumUpdate, RamAssumption
<1>10. /\ max_ram_size' = max_ram_size + nr
       /\ total_ram_bytes_reserved' = total_ram_bytes_reserved + out
       /\ total_ram_stake' = total_ram_stake + p
  BY <1>3, <1>4
<1>11. RamTypeOK'
  <2>1. now \in Nat /\ new_ram_per_block \in Nat /\ rex_available \in BOOLEAN
    BY DEF MarketInv, MarketAccounted, RamTypeOK
  <2>2. max_ram_size' \in Nat /\ total_ram_bytes_reserved' \in Nat /\ total_ram_stake' \in Nat
    BY <1>1, <1>5, <1>10, Existing
  <2> QED BY <1>3, <1>6, <1>7, <1>8, <2>1, <2>2 DEF RamTypeOK
<1>12. BytesConserved'
  <2>1. total_ram_bytes_reserved' = SumFunctionOnSet(ram_bytes', Accounts)
    BY <1>9, <1>10 DEF MarketInv, MarketAccounted, BytesConserved
  <2>2. market'.base + total_ram_bytes_reserved' = max_ram_size'
    BY <1>1, <1>5, <1>6, <1>10, Existing
  <2> QED BY <2>1, <2>2 DEF BytesConserved
<1>13. RamBacked'
  <2>1. tokens'[RamAccount] = total_ram_stake'
    BY <1>7, <1>10 DEF MarketInv, MarketAccounted, RamBacked
  <2>2. market'.quote = Virtual + total_ram_stake'
    BY <1>1, <1>5, <1>6, <1>10, Existing
  <2> QED BY <2>1, <2>2, <1>6 DEF RamBacked, Virtual
<1>14. (market.base + nr) * market.quote >= (max_ram_size + nr) * Virtual
  <2>1. market.quote >= Virtual
    BY <1>1, Existing
  <2> QED BY <1>1, <1>5, <2>1, Existing, MoreRam
<1>15. market'.base * market'.quote >= max_ram_size' * Virtual
  <2>1. market'.base \in Int /\ market'.quote \in Int
    BY <1>6 DEF Market
  <2>2. market'.base * market'.quote \in Int /\ (market.base + nr) * market.quote \in Int
        /\ (max_ram_size + nr) * Virtual \in Int
    BY <2>1, <1>1, <1>5, Existing, SMT
  <2> QED BY <2>2, <1>6, <1>10, <1>14
<1>16. PriceBacked'
  BY <1>6, <1>15 DEF PriceBacked, Virtual
<1>17. market'.base * market'.quote >= market.base * market.quote
  <2>1. market.base \in Nat /\ market.quote \in Nat
    BY <1>1, Existing
  <2>2. (market.base + nr) * market.quote = market.base * market.quote + nr * market.quote
    BY <2>1, <1>5, SMT
  <2>3. market.base * market.quote \in Nat /\ nr * market.quote \in Nat
    BY <2>1, <1>5, SMT
  <2>4. market'.base * market'.quote \in Int
    <3>1. market'.base \in Int /\ market'.quote \in Int
      BY <1>6 DEF Market
    <3> QED BY <3>1, SMT
  <2> QED BY <1>6, <2>2, <2>3, <2>4
<1> QED BY <1>11, <1>12, <1>13, <1>16, <1>17 DEF MarketInv, MarketAccounted

\* sellram: the bytes go back on sale and the tokens come out of eosio.ram.
LEMMA SellStep ==
  ASSUME MarketInv, NEW account \in Accounts, NEW bytes \in Nat \ {0},
         sellram(account, bytes)
  PROVE  MarketInv' /\ market'.base * market'.quote >= market.base * market.quote
<1> DEFINE t == convert(WithNewRam, "base", "quote", bytes)
<1>1. market # NoRow
  BY DEF sellram
<1>2. /\ t.out \in Nat /\ t.market \in Market /\ t.market.supply = market.supply
      /\ t.market.base = (market.base + NewRam) + bytes
      /\ t.market.quote = market.quote - t.out
      /\ t.market.base * t.market.quote >= (market.base + NewRam) * market.quote
  BY <1>1, AfterSale
<1>3. /\ bytes <= ram_bytes[account]
      /\ total_ram_stake - t.out >= 0
      /\ t.out <= tokens[RamAccount]
      /\ market' = t.market
      /\ max_ram_size' = max_ram_size + NewRam /\ last_ram_increase' = now
      /\ total_ram_bytes_reserved' = total_ram_bytes_reserved - bytes
      /\ total_ram_stake' = total_ram_stake - t.out
      /\ ram_bytes' = [ram_bytes EXCEPT ![account] = @ - bytes]
      /\ tokens' = [tokens EXCEPT ![RamAccount] = @ - t.out,
                                  ![account] = @ + (t.out - Fee(t.out)),
                                  ![FeeAccount] = @ + Fee(t.out)]
      /\ UNCHANGED <<now, new_ram_per_block, rex_available>>
  <2>1. tokens \in [Holders -> Nat] /\ RamAccount \in Holders /\ ram_bytes \in [Accounts -> Nat]
    BY DEF MarketInv, MarketAccounted, RamTypeOK, Holders
  <2>2. tokens[RamAccount] \in Nat /\ ram_bytes[account] \in Nat
    BY <2>1
  <2> HIDE DEF t
  <2> QED BY <1>2, <2>2 DEF sellram, UpdateRamTotals, OwnsBytes, StakeAfterSale, t
<1> HIDE DEF t
<1>4. PICK out, nr, fee : out = t.out /\ nr = NewRam /\ fee = Fee(t.out)
  OBVIOUS
<1>5. nr \in Nat /\ out \in Nat /\ fee \in 0 .. out
  BY <1>1, <1>2, <1>4, RamGrows, FeeBound DEF MarketInv, MarketAccounted
<1>6. /\ market' \in Market /\ market'.supply = InitSupply
      /\ market'.base = (market.base + nr) + bytes
      /\ market'.quote = market.quote - out
      /\ market'.base * market'.quote >= (market.base + nr) * market.quote
      /\ market' # NoRow
  BY <1>1, <1>2, <1>3, <1>4, Existing, RowExists
<1>7. /\ tokens' \in [Holders -> Nat] /\ tokens'[RamAccount] = tokens[RamAccount] - out
  <2>1. tokens \in [Holders -> Nat] /\ account \in Holders /\ RamAccount \in Holders
        /\ FeeAccount \in Holders
    BY SystemAccounts DEF MarketInv, MarketAccounted, RamTypeOK, Holders
  <2>2. RamAccount # account /\ account # FeeAccount /\ RamAccount # FeeAccount
    BY SystemAccounts
  <2>3. out <= tokens[RamAccount]
    BY <1>3, <1>4
  <2>4. tokens' = [tokens EXCEPT ![RamAccount] = @ - out, ![account] = @ + (out - fee),
                                 ![FeeAccount] = @ + fee]
    BY <1>3, <1>4
  <2>5. out \in Nat /\ out - fee \in Nat /\ fee \in Nat
    BY <1>5
  <2> QED BY <2>1, <2>2, <2>3, <2>4, <2>5, Paid, Zenon
<1>8. /\ ram_bytes' \in [Accounts -> Nat]
      /\ ram_bytes'[account] = ram_bytes[account] + (- bytes)
      /\ \A a \in Accounts \ {account} : ram_bytes'[a] = ram_bytes[a]
  BY <1>3 DEF MarketInv, MarketAccounted, RamTypeOK
<1>9. /\ SumFunctionOnSet(ram_bytes', Accounts)
           = SumFunctionOnSet(ram_bytes, Accounts) + (- bytes)
      /\ bytes <= total_ram_bytes_reserved
  <2>1. ram_bytes \in [Accounts -> Int] /\ ram_bytes' \in [Accounts -> Int] /\ - bytes \in Int
    BY <1>8 DEF MarketInv, MarketAccounted, RamTypeOK
  <2>2. IsFiniteSet(Accounts)
    BY RamAssumption
  <2>3. SumFunctionOnSet(ram_bytes', Accounts)
           = SumFunctionOnSet(ram_bytes, Accounts) + (- bytes)
    BY <2>1, <2>2, <1>8, SumUpdate
  <2>4. ram_bytes \in [Accounts -> Nat]
    BY DEF MarketInv, MarketAccounted, RamTypeOK
  <2>5. ram_bytes[account] <= SumFunctionOnSet(ram_bytes, Accounts)
    BY <2>2, <2>4, SumBound
  <2>6. ram_bytes[account] <= total_ram_bytes_reserved /\ ram_bytes[account] \in Nat
    BY <2>4, <2>5 DEF MarketInv, MarketAccounted, BytesConserved
  <2> QED BY <2>3, <2>6, <1>1, <1>3, Existing
<1>10. /\ max_ram_size' = max_ram_size + nr
       /\ total_ram_bytes_reserved' = total_ram_bytes_reserved - bytes
       /\ total_ram_stake' = total_ram_stake - out /\ out <= total_ram_stake
  BY <1>1, <1>3, <1>4, <1>5, Existing
<1>11. RamTypeOK'
  <2>1. now \in Nat /\ new_ram_per_block \in Nat /\ rex_available \in BOOLEAN
    BY DEF MarketInv, MarketAccounted, RamTypeOK
  <2>2. max_ram_size' \in Nat /\ total_ram_bytes_reserved' \in Nat /\ total_ram_stake' \in Nat
    BY <1>1, <1>5, <1>9, <1>10, Existing
  <2> QED BY <1>3, <1>6, <1>7, <1>8, <2>1, <2>2 DEF RamTypeOK
<1>12. BytesConserved'
  <2>1. total_ram_bytes_reserved' = SumFunctionOnSet(ram_bytes', Accounts)
    <3>1. total_ram_bytes_reserved = SumFunctionOnSet(ram_bytes, Accounts)
      BY DEF MarketInv, MarketAccounted, BytesConserved
    <3> QED BY <3>1, <1>1, <1>9, <1>10, Existing
  <2>2. market'.base + total_ram_bytes_reserved' = max_ram_size'
    BY <1>1, <1>5, <1>6, <1>10, Existing
  <2> QED BY <2>1, <2>2 DEF BytesConserved
<1>13. RamBacked'
  <2>1. tokens'[RamAccount] = total_ram_stake'
    BY <1>7, <1>10 DEF MarketInv, MarketAccounted, RamBacked
  <2>2. market'.quote = Virtual + total_ram_stake'
    BY <1>1, <1>5, <1>6, <1>10, Existing
  <2> QED BY <2>1, <2>2, <1>6 DEF RamBacked, Virtual
<1>14. (market.base + nr) * market.quote >= (max_ram_size + nr) * Virtual
  <2>1. market.quote >= Virtual
    BY <1>1, Existing
  <2> QED BY <1>1, <1>5, <2>1, Existing, MoreRam
<1>15. market'.base * market'.quote >= max_ram_size' * Virtual
  <2>1. market'.base \in Int /\ market'.quote \in Int
    BY <1>6 DEF Market
  <2>2. market'.base * market'.quote \in Int /\ (market.base + nr) * market.quote \in Int
        /\ (max_ram_size + nr) * Virtual \in Int
    BY <2>1, <1>1, <1>5, Existing, SMT
  <2> QED BY <2>2, <1>6, <1>10, <1>14
<1>16. PriceBacked'
  BY <1>6, <1>15 DEF PriceBacked, Virtual
<1>17. market'.base * market'.quote >= market.base * market.quote
  <2>1. market.base \in Nat /\ market.quote \in Nat
    BY <1>1, Existing
  <2>2. (market.base + nr) * market.quote = market.base * market.quote + nr * market.quote
    BY <2>1, <1>5, SMT
  <2>3. market.base * market.quote \in Nat /\ nr * market.quote \in Nat
    BY <2>1, <1>5, SMT
  <2>4. market'.base * market'.quote \in Int
    <3>1. market'.base \in Int /\ market'.quote \in Int
      BY <1>6 DEF Market
    <3> QED BY <3>1, SMT
  <2> QED BY <1>6, <2>2, <2>3, <2>4
<1> QED BY <1>11, <1>12, <1>13, <1>16, <1>17 DEF MarketInv, MarketAccounted

\* What buyrambytes asks buyram to spend is a natural number.
LEMMA CostIsNat ==
  ASSUME MarketInv, market # NoRow, NEW bytes \in Nat
  PROVE  CostOfBytes(bytes) \in Nat
<1>1. market \in Market /\ market.supply > 0
  BY Existing, RamAssumption
<1> QED BY <1>1, TradeBound DEF CostOfBytes

\* Every step keeps the invariant, and lets no value leave the market.
LEMMA StepOK ==
  ASSUME MarketInv, [Next]_vars
  PROVE  /\ MarketInv'
         /\ market # NoRow => market'.base * market'.quote >= market.base * market.quote
<1> DEFINE Kept == /\ MarketInv'
                   /\ market # NoRow => market'.base * market'.quote >= market.base * market.quote
<1>0. market # NoRow => market.base * market.quote \in Int
  BY Existing, SMT
<1>1. ASSUME init PROVE Kept
  BY <1>1, InitStep DEF init
<1>2. ASSUME NEW size \in RamSizes, setram(size) PROVE Kept
  <2>1. size \in Nat /\ size - max_ram_size \in Nat /\ market # NoRow
    BY <1>2, RamAssumption DEF setram, MarketInv, MarketAccounted, RamTypeOK
  <2>2. max_ram_size' = max_ram_size + (size - max_ram_size)
    BY <1>2, <2>1 DEF setram, MarketInv, MarketAccounted, RamTypeOK
  <2>3. last_ram_increase \in Nat /\ last_ram_increase <= now /\ new_ram_per_block \in Nat
    BY DEF MarketInv, MarketAccounted, RamTypeOK
  <2>4. PICK d : d = size - max_ram_size
    OBVIOUS
  <2>5. d \in Nat /\ market' = [market EXCEPT !.base = @ + d] /\ max_ram_size' = max_ram_size + d
        /\ UNCHANGED <<now, total_ram_bytes_reserved, total_ram_stake, new_ram_per_block,
                       last_ram_increase, ram_bytes, tokens, rex_available>>
    BY <1>2, <2>1, <2>2, <2>4 DEF setram
  <2> QED BY <2>1, <2>3, <2>5, MoreForSale
<1>3. ASSUME NEW rate \in RamRates, setramrate(rate) PROVE Kept
  <2>1. market # NoRow
    BY <1>3 DEF setramrate
  <2>2. NewRam \in Nat /\ now \in Nat /\ rate \in Nat
    BY <2>1, RamGrows, RamAssumption DEF MarketInv, MarketAccounted, RamTypeOK
  <2>3. /\ market' = [market EXCEPT !.base = @ + NewRam]
        /\ max_ram_size' = max_ram_size + NewRam /\ last_ram_increase' = now
        /\ new_ram_per_block' = rate
        /\ UNCHANGED <<now, total_ram_bytes_reserved, total_ram_stake, ram_bytes, tokens,
                       rex_available>>
    BY <1>3 DEF setramrate, WithNewRam, UpdateRamTotals
  <2>4. PICK d : d = NewRam
    OBVIOUS
  <2>5. d \in Nat /\ market' = [market EXCEPT !.base = @ + d] /\ max_ram_size' = max_ram_size + d
    BY <2>2, <2>3, <2>4
  <2>6. last_ram_increase' \in Nat /\ last_ram_increase' <= now /\ new_ram_per_block' \in Nat
    BY <2>2, <2>3
  <2> QED BY <2>1, <2>3, <2>5, <2>6, MoreForSale
<1>4. ASSUME NEW payer \in Accounts, NEW receiver \in Accounts, NEW quant \in TokenAmounts,
             buyram(payer, receiver, quant)
      PROVE  Kept
  <2>1. quant \in Nat
    BY RamAssumption
  <2> QED BY <1>4, <2>1, BuyStep
<1>5. ASSUME NEW payer \in Accounts, NEW receiver \in Accounts, NEW bytes \in ByteAmounts,
             buyrambytes(payer, receiver, bytes)
      PROVE  Kept
  <2>1. bytes \in Nat /\ market # NoRow
    BY <1>5, RamAssumption DEF buyrambytes
  <2>2. PICK quant : quant = CostOfBytes(bytes)
    OBVIOUS
  <2>3. quant \in Nat /\ buyram(payer, receiver, quant)
    BY <1>5, <2>1, <2>2, CostIsNat DEF buyrambytes
  <2> QED BY <2>3, BuyStep
<1>6. ASSUME NEW account \in Accounts, NEW bytes \in ByteAmounts, sellram(account, bytes)
      PROVE  Kept
  <2>1. bytes \in Nat \ {0}
    BY RamAssumption
  <2> QED BY <1>6, <2>1, SellStep
<1>7. ASSUME RexChanges PROVE Kept
  <2>1. (~ rex_available) \in BOOLEAN
    OBVIOUS
  <2> QED
    BY <1>7, <2>1, <1>0 DEF RexChanges, MarketInv, MarketAccounted, RamTypeOK, BytesConserved,
                            RamBacked, PriceBacked
<1>8. ASSUME NextBlock PROVE Kept
  BY <1>8, <1>0 DEF NextBlock, MarketInv, MarketAccounted, RamTypeOK, BytesConserved, RamBacked,
                    PriceBacked
<1>9. ASSUME UNCHANGED vars PROVE Kept
  BY <1>9, <1>0 DEF vars, MarketInv, MarketAccounted, RamTypeOK, BytesConserved, RamBacked,
                    PriceBacked
<1> HIDE DEF Kept
<1>10. Kept
  BY <1>1, <1>2, <1>3, <1>4, <1>5, <1>6, <1>7, <1>8, <1>9 DEF Next
<1> QED BY <1>10 DEF Kept

-----------------------------------------------------------------------------
(***************************************************************************)
(* The theorems                                                            *)
(***************************************************************************)
\* The inductive invariant holds at all times.
THEOREM MarketInvHolds == Spec => []MarketInv
<1>1. MarketInv /\ [Next]_vars => MarketInv'
  BY StepOK
<1> QED BY InitOK, <1>1, PTL DEF Spec

\* Every byte is owned or for sale, every token paid for RAM is in eosio.ram and
\* in the quote connector, and no amount is ever negative, whatever RAM setram,
\* setramrate and the blocks add meanwhile.
THEOREM MarketIsAccounted == Spec => []MarketAccounted
<1>1. MarketInv => MarketAccounted
  BY DEF MarketInv
<1> QED BY MarketInvHolds, <1>1, PTL

\* No trade, and nothing else, makes the product of the connectors fall, for all
\* amounts the two truncations may meet.
THEOREM ValueNeverLeaves == Spec => NoValueLeaves
<1>1. MarketInv /\ [Next]_vars =>
        [market # NoRow => market'.base * market'.quote >= market.base * market.quote]_vars
  BY StepOK
<1> QED BY MarketInvHolds, <1>1, PTL DEF Spec, NoValueLeaves

\* Whatever an account owns fetches no more than was paid in.
LEMMA SaleBelowStake ==
  ASSUME MarketInv, market # NoRow, NEW a \in Accounts, NEW bytes \in 1 .. ram_bytes[a],
         NEW b \in Nat, NEW d \in Nat, b = market.base + d, NEW out \in Nat,
         (b + bytes) * out <= market.quote * bytes
  PROVE  out <= total_ram_stake
<1>1. ram_bytes \in [Accounts -> Nat] /\ IsFiniteSet(Accounts)
  BY RamAssumption DEF MarketInv, MarketAccounted, RamTypeOK
<1>2. ram_bytes[a] \in Nat /\ ram_bytes[a] <= total_ram_bytes_reserved
  BY <1>1, SumBound DEF MarketInv, MarketAccounted, BytesConserved
<1>3. bytes \in Nat \ {0} /\ bytes <= total_ram_bytes_reserved
  BY <1>2, Existing
<1>4. b * market.quote >= (b + total_ram_bytes_reserved) * Virtual
  <2>1. market.quote >= Virtual
    BY Existing
  <2>2. (market.base + d) * market.quote >= (max_ram_size + d) * Virtual
    BY <2>1, Existing, MoreRam
  <2>3. b + total_ram_bytes_reserved = max_ram_size + d
    BY Existing
  <2> QED BY <2>2, <2>3
<1>5. market.quote - out >= Virtual
  BY <1>3, <1>4, Existing, SaleCovered
<1> QED BY <1>5, Existing

\* The check that buying and selling never pays out more than was paid in, which
\* "shouldn't happen" according to the code, never fails: at the market's price as
\* it is stored.
THEOREM UnstakeIsCovered == Spec => []UnstakeCovered
<1>1. MarketInv => UnstakeCovered
  <2> SUFFICES ASSUME MarketInv, market # NoRow, NEW a \in Accounts,
                      NEW bytes \in 1 .. ram_bytes[a]
               PROVE  convert(market, "base", "quote", bytes).out <= total_ram_stake
    BY DEF UnstakeCovered
  <2>1. bytes \in Nat /\ market \in Market /\ market.supply > 0
    <3>1. ram_bytes[a] \in Nat
      BY DEF MarketInv, MarketAccounted, RamTypeOK
    <3> QED BY <3>1, Existing, RamAssumption
  <2>2. /\ convert(market, "base", "quote", bytes).out \in Nat
        /\ (market["base"] + bytes) * convert(market, "base", "quote", bytes).out
             <= market["quote"] * bytes
    BY <2>1, TradeBound
  <2>3. PICK out : out = convert(market, "base", "quote", bytes).out
    OBVIOUS
  <2>4. market.base \in Nat /\ market.base = market.base + 0
    BY Existing
  <2> QED BY <2>2, <2>3, <2>4, SaleBelowStake
<1> QED BY MarketInvHolds, <1>1, PTL

\* What sellram would pay, at the price it computes itself.
SalesCovered ==
  market # NoRow =>
    \A a \in Accounts : \A bytes \in 1 .. ram_bytes[a] :
      StakeAfterSale(convert(WithNewRam, "base", "quote", bytes).out) >= 0

\* And at the price sellram computes, after the RAM of the blocks since the last
\* trade was put up for sale: nobody's sale is refused for want of what others
\* paid in.
THEOREM SalesAreCovered == Spec => []SalesCovered
<1>1. MarketInv => SalesCovered
  <2> SUFFICES ASSUME MarketInv, market # NoRow, NEW a \in Accounts,
                      NEW bytes \in 1 .. ram_bytes[a]
               PROVE  StakeAfterSale(convert(WithNewRam, "base", "quote", bytes).out) >= 0
    BY DEF SalesCovered
  <2>1. bytes \in Nat
    BY DEF MarketInv, MarketAccounted, RamTypeOK
  <2>2. /\ NewRam \in Nat /\ WithNewRam \in Market /\ WithNewRam.supply > 0
        /\ WithNewRam.base = market.base + NewRam /\ WithNewRam.quote = market.quote
    BY RamGrows, Existing, RamAssumption DEF MarketInv, MarketAccounted
  <2>3. /\ convert(WithNewRam, "base", "quote", bytes).out \in Nat
        /\ (WithNewRam["base"] + bytes) * convert(WithNewRam, "base", "quote", bytes).out
             <= WithNewRam["quote"] * bytes
    BY <2>1, <2>2, TradeBound
  <2>4. PICK out, b, d : /\ out = convert(WithNewRam, "base", "quote", bytes).out
                         /\ b = WithNewRam.base /\ d = NewRam
    OBVIOUS
  <2>5. /\ b \in Nat /\ d \in Nat /\ b = market.base + d /\ out \in Nat
        /\ (b + bytes) * out <= market.quote * bytes
    BY <2>2, <2>3, <2>4 DEF Market
  <2>6. out <= total_ram_stake
    BY <2>5, SaleBelowStake
  <2> QED BY <2>4, <2>5, <2>6, Existing DEF StakeAfterSale
<1> QED BY MarketInvHolds, <1>1, PTL

=============================================================================
