---------------------------- MODULE RunrexProofs -----------------------------
(***************************************************************************)
(* What runrex, and every helper it and the actions of REX are made of,    *)
(* preserve, for all accounts, amounts and times.  The parts: the          *)
(* arithmetic of the pool; the buckets of an owner's shares; the record of *)
(* all tables and the helpers that change it; and runrex itself.  The      *)
(* actions are the subject of RexProofs.                                   *)
(***************************************************************************)
EXTENDS Rex, SumProofs, SequenceTheorems

-----------------------------------------------------------------------------
(***************************************************************************)
(* Rounding                                                                *)
(***************************************************************************)
\* add_to_rex_pool: the shares outstanding after p tokens join l tokens that s
\* shares stand for.  They do not shrink, and are no more than the price allows.
LEMMA BuyRounding ==
  ASSUME NEW l \in Nat, NEW s \in Nat, NEW p \in Nat, l > 0
  PROVE  /\ ((l + p) * s) \div l \in Nat
         /\ ((l + p) * s) \div l >= s
         /\ l * (((l + p) * s) \div l) <= (l + p) * s
<1> DEFINE t == ((l + p) * s) \div l
<1>1. (l + p) * s \in Nat /\ l * s <= (l + p) * s
  BY SMT
<1>2. t \in Nat /\ l * t <= (l + p) * s /\ (l + p) * s < l * t + l
  BY <1>1, DivBounds
<1> HIDE DEF t
<1>3. s < t + 1
  <2>1. l * s < l * (t + 1)
    BY <1>1, <1>2
  <2> QED
    BY <2>1, <1>2, SMT
<1>4. t >= s
  BY <1>2, <1>3
<1> QED
  BY <1>2, <1>4 DEF t

\* fill_rex_order: r of s shares are worth v of l tokens.  What is paid is no
\* more than there is, and is everything exactly when all shares go.
LEMMA SellRounding ==
  ASSUME NEW l \in Nat, NEW s \in Nat, NEW r \in Nat, l > 0, s > 0, r <= s
  PROVE  /\ (r * l) \div s \in Nat
         /\ (r * l) \div s <= l
         /\ s * ((r * l) \div s) <= r * l
         /\ r = s <=> (r * l) \div s = l
<1> DEFINE v == (r * l) \div s
<1>1. r * l \in Nat /\ r * l <= s * l
  BY SMT
<1>2. v \in Nat /\ s * v <= r * l /\ r * l < s * v + s
  BY <1>1, DivBounds
<1> HIDE DEF v
<1>3. v <= l
  BY <1>1, <1>2, CancelFactor
<1>4. ASSUME r = s PROVE v = l
  <2>1. s * l < s * (v + 1)
    BY <1>2, <1>4
  <2>2. l < v + 1
    BY <2>1, <1>2, SMT
  <2> QED
    BY <2>2, <1>2, <1>3
<1>5. ASSUME v = l PROVE r = s
  <2>1. l * s <= l * r
    BY <1>2, <1>5
  <2>2. s <= r
    BY <2>1, CancelFactor
  <2> QED
    BY <2>2
<1> QED
  BY <1>2, <1>3, <1>4, <1>5 DEF v

\* get_bancor_output gives out no more than the connector it draws from holds.
LEMMA BancorBounded ==
  ASSUME NEW conin \in Nat, NEW conout \in Nat, NEW in \in Nat, in + conin > 0
  PROVE  get_bancor_output(conin, conout, in) \in 0 .. conout
<1> DEFINE out == (in * conout) \div (in + conin)
<1>1. in * conout \in Nat /\ in * conout <= (in + conin) * conout
  BY SMT
<1>2. out \in Nat /\ (in + conin) * out <= in * conout
  BY <1>1, DivBounds
<1> HIDE DEF out
<1>3. out <= conout
  BY <1>1, <1>2, CancelFactor
<1> QED
  BY <1>2, <1>3 DEF out, get_bancor_output

-----------------------------------------------------------------------------
(***************************************************************************)
(* The fields of the updated row                                           *)
(***************************************************************************)
\* What a pool row holds are numbers.
LEMMA PoolFields ==
  ASSUME NEW p \in Pool
  PROVE  /\ p.total_lent \in Int /\ p.total_unlent \in Int /\ p.total_rent \in Int
         /\ p.total_lendable \in Int /\ p.total_rex \in Int /\ p.loan_num \in Int
  BY DEF Pool

\* The lendable total set, and the unlent part with it.
LEMMA SetLendable ==
  ASSUME NEW p \in Pool, NEW lendable \in Int
  PROVE  LET after == WithLendable(p, lendable)
         IN  /\ after \in Pool
             /\ after.total_lendable = lendable
             /\ after.total_unlent = lendable - p.total_lent
             /\ after.total_lent = p.total_lent
             /\ after.total_rent = p.total_rent
             /\ after.total_rex = p.total_rex
<1> DEFINE u == lendable - p.total_lent
<1>1. u \in Int
  BY PoolFields
<1> HIDE DEF u
<1>2. WithLendable(p, lendable) = [p EXCEPT !.total_lendable = lendable, !.total_unlent = u]
  BY DEF WithLendable, u
<1>3. [p EXCEPT !.total_lendable = lendable, !.total_unlent = u] \in Pool
  BY <1>1 DEF Pool
<1> QED
  BY <1>1, <1>2, <1>3 DEF Pool, u

\* The unlent and lent parts set, and their total with them.
LEMMA SetUnlent ==
  ASSUME NEW p \in Pool, NEW unlent \in Int, NEW lent \in Int
  PROVE  LET after == WithUnlent(p, unlent, lent)
         IN  /\ after \in Pool
             /\ after.total_lendable = unlent + lent
             /\ after.total_unlent = unlent
             /\ after.total_lent = lent
             /\ after.total_rent = p.total_rent
             /\ after.total_rex = p.total_rex
             /\ after.loan_num = p.loan_num
<1> DEFINE l == unlent + lent
<1>1. l \in Int
  OBVIOUS
<1> HIDE DEF l
<1>2. WithUnlent(p, unlent, lent)
        = [p EXCEPT !.total_unlent = unlent, !.total_lent = lent, !.total_lendable = l]
  BY DEF WithUnlent, l
<1>3. [p EXCEPT !.total_unlent = unlent, !.total_lent = lent, !.total_lendable = l] \in Pool
  BY <1>1 DEF Pool
<1> QED
  BY <1>1, <1>2, <1>3 DEF Pool, l

\* Only the shares outstanding set.
LEMMA SetRex ==
  ASSUME NEW p \in Pool, NEW rex \in Int
  PROVE  LET after == [p EXCEPT !.total_rex = rex]
         IN  /\ after \in Pool
             /\ after.total_lendable = p.total_lendable
             /\ after.total_unlent = p.total_unlent
             /\ after.total_lent = p.total_lent
             /\ after.total_rent = p.total_rent
             /\ after.total_rex = rex
  BY DEF Pool

\* Every field set that a refill sets.
LEMMA SetAll ==
  ASSUME NEW p \in Pool, NEW lendable \in Int, NEW lent \in Int, NEW unlent \in Int,
         NEW rt \in Int, NEW rex \in Int
  PROVE  [p EXCEPT !.total_lendable = lendable, !.total_lent = lent,
                      !.total_unlent = unlent, !.total_rent = rt, !.total_rex = rex] \in Pool
  BY DEF Pool

\* The rent connector set, with or without the loan counter.
LEMMA SetRent ==
  ASSUME NEW p \in Pool, NEW rt \in Int, NEW num \in Int
  PROVE  /\ [p EXCEPT !.total_rent = rt] \in Pool
         /\ [p EXCEPT !.total_rent = rt, !.loan_num = num] \in Pool
  BY DEF Pool

-----------------------------------------------------------------------------
(***************************************************************************)
(* The operations on the pool.  Each keeps PoolOK, under the conditions    *)
(* its callers in rex.cpp check, and none of them makes a share cheaper.   *)
(***************************************************************************)
\* add_to_rex_pool (buyrex, unstaketorex): a positive payment into a pool that
\* is empty or priced.
THEOREM BuyingKeepsPool ==
  ASSUME NEW p, PoolOK(p), NEW payment \in Nat, payment > 0
  PROVE  PoolOK(AddedTo(p, payment)) /\ NotCheaper(p, AddedTo(p, payment))
<1>1. CASE p.total_rex = 0
  <2>1. payment * RexRatio \in Nat /\ payment * RexRatio > 0
    BY RexPoolAssumption, SMT
  <2> DEFINE b == payment * RexRatio
             after == [p EXCEPT !.total_lendable = payment, !.total_lent = 0,
                                   !.total_unlent = payment, !.total_rent = InitTotalRent,
                                   !.total_rex = b]
  <2>2. after = AddedTo(p, payment)
    BY <1>1 DEF AddedTo, Refilled
  <2> HIDE DEF b
  <2>3. after \in Pool
    <3>1. b \in Int /\ payment \in Int /\ 0 \in Int /\ InitTotalRent \in Int /\ p \in Pool
      BY <2>1, RexPoolAssumption DEF PoolOK, b
    <3> QED
      BY <3>1, SetAll
  <2>4. /\ after.total_lendable = payment
        /\ after.total_unlent = payment
        /\ after.total_lent = 0
        /\ after.total_rent = InitTotalRent
        /\ after.total_rex = b
    BY DEF PoolOK, Pool
  <2> HIDE DEF after
  <2>5. PoolOK(after)
    BY <2>1, <2>3, <2>4, RexPoolAssumption DEF PoolOK, b
  <2>6. NotCheaper(p, after)
    BY <1>1, <2>1, <2>4 DEF NotCheaper, PoolOK, b
  <2> QED
    BY <2>2, <2>5, <2>6
<1>2. CASE p.total_rex # 0
  <2> DEFINE l == p.total_lendable
             s == p.total_rex
             t == SharesAfterBuy(p, payment)
             after == AddedTo(p, payment)
  <2>1. l \in Nat /\ l > 0 /\ s \in Nat /\ s > 0
    BY <1>2 DEF PoolOK, Pool
  <2>2. t \in Nat /\ t >= s /\ l * t <= (l + payment) * s
    BY <2>1, BuyRounding DEF SharesAfterBuy
  <2>3. /\ after \in Pool
        /\ after.total_lendable = l + payment
        /\ after.total_unlent = (l + payment) - p.total_lent
        /\ after.total_lent = p.total_lent
        /\ after.total_rent = p.total_rent
        /\ after.total_rex = t
    <3> DEFINE w == WithLendable(p, l + payment)
    <3>1. after = [w EXCEPT !.total_rex = t]
      BY <1>2 DEF AddedTo
    <3>2. l + payment \in Int
      BY <2>1
    <3>3. /\ w \in Pool
          /\ w.total_lendable = l + payment
          /\ w.total_unlent = (l + payment) - p.total_lent
          /\ w.total_lent = p.total_lent
          /\ w.total_rent = p.total_rent
      BY <3>2, SetLendable DEF PoolOK
    <3> HIDE DEF w, t, after
    <3> QED
      BY <2>2, <3>1, <3>3, SetRex
  <2> HIDE DEF after, t
  <2>4. PoolOK(after)
    BY <2>1, <2>2, <2>3 DEF PoolOK, Pool
  <2>5. NotCheaper(p, after)
    BY <2>2, <2>3 DEF NotCheaper
  <2> QED
    BY <2>4, <2>5 DEF after
<1> QED
  BY <1>1, <1>2

\* fill_rex_order (sellrex, runrex): a sale of some or all of the shares, for
\* which there is enough unlent.
THEOREM SellingKeepsPool ==
  ASSUME NEW p, PoolOK(p), NEW rex \in Nat, rex > 0, rex <= p.total_rex,
         CanFill(p, rex)
  PROVE  PoolOK(Filled(p, rex)) /\ NotCheaper(p, Filled(p, rex))
<1> DEFINE l == p.total_lendable
           s == p.total_rex
           v == Value(p, rex)
           after == Filled(p, rex)
<1>1. l \in Nat /\ l > 0 /\ s \in Nat /\ s > 0
  BY DEF PoolOK, Pool
<1>2. v \in Nat /\ v <= l /\ s * v <= rex * l /\ (rex = s <=> v = l)
  BY <1>1, SellRounding DEF Value
<1>3. v <= p.total_unlent
  BY <1>2 DEF CanFill, AvailableUnlent, PoolOK, Pool
<1>4. /\ after \in Pool
      /\ after.total_lendable = l - v
      /\ after.total_unlent = l - v - p.total_lent
      /\ after.total_lent = p.total_lent
      /\ after.total_rent = p.total_rent
      /\ after.total_rex = s - rex
  <2> DEFINE w == WithLendable(p, l - v)
  <2>1. after = [w EXCEPT !.total_rex = s - rex]
    BY DEF Filled
  <2>2. /\ w \in Pool
        /\ w.total_lendable = l - v
        /\ w.total_unlent = l - v - p.total_lent
        /\ w.total_lent = p.total_lent
        /\ w.total_rent = p.total_rent
    <3> HIDE DEF v
    <3>1. l - v \in Int
      BY <1>1, <1>2
    <3> QED
      BY <3>1, SetLendable DEF PoolOK
  <2> HIDE DEF w, v, after
  <2>3. s - rex \in Int
    BY <1>1
  <2> QED
    BY <2>1, <2>2, <2>3, SetRex
<1> HIDE DEF after, v
<1>5. PoolOK(after)
  <2>1. /\ p.total_unlent \in Int /\ p.total_lent \in Int /\ p.total_rent \in Int
        /\ l = p.total_unlent + p.total_lent /\ p.total_lent >= 0
        /\ p.total_rent >= 0
    BY PoolFields DEF PoolOK
  <2>2. s - rex = 0 <=> l - v = 0
    BY <1>1, <1>2
  <2>3. /\ l - v = l - v - p.total_lent + p.total_lent
        /\ l - v - p.total_lent >= 0
        /\ s - rex >= 0
    BY <1>1, <1>2, <1>3, <2>1
  <2> HIDE DEF l, s
  <2> QED
    BY <1>4, <2>1, <2>2, <2>3 DEF PoolOK
<1>6. NotCheaper(p, after)
  <2>1. (l - v) * s >= l * (s - rex)
    BY <1>1, <1>2
  <2> QED
    BY <2>1, <1>4 DEF NotCheaper
<1> QED
  BY <1>5, <1>6 DEF after

\* add_loan_to_rex_pool (rentcpu, rentnet, renewals): a loan of what its payment
\* buys, from a pool that somebody has a share in.
THEOREM LendingKeepsPool ==
  ASSUME NEW p, PoolOK(p), p.total_rex > 0, NEW payment \in Nat, payment > 0,
         NEW new_loan \in BOOLEAN
  PROVE  LET after == LoanAdded(p, payment, RentedTokens(p, payment), new_loan)
         IN  PoolOK(after) /\ NotCheaper(p, after)
<1> DEFINE rented == RentedTokens(p, payment)
           after == LoanAdded(p, payment, rented, new_loan)
<1>1. rented \in 0 .. p.total_unlent
  <2>1. p.total_rent \in Nat /\ p.total_unlent \in Nat /\ payment + p.total_rent > 0
    BY PoolFields DEF PoolOK
  <2> QED
    BY <2>1, BancorBounded DEF RentedTokens
<1>2. /\ after \in Pool
      /\ after.total_lendable = p.total_lendable + payment
      /\ after.total_unlent = p.total_unlent - rented + payment
      /\ after.total_lent = p.total_lent + rented
      /\ after.total_rent = p.total_rent + payment
      /\ after.total_rex = p.total_rex
  <2> DEFINE w == WithUnlent(p, p.total_unlent - rented + payment, p.total_lent + rented)
             rt == w.total_rent + payment
             num == w.loan_num + (IF new_loan THEN 1 ELSE 0)
  <2>1. after = [w EXCEPT !.total_rent = rt, !.loan_num = num]
    BY DEF LoanAdded
  <2> HIDE DEF rented, after
  <2>2. /\ p.total_unlent - rented + payment \in Int
        /\ p.total_lent + rented \in Int
    BY <1>1, PoolFields DEF PoolOK
  <2>3. /\ w \in Pool
        /\ w.total_lendable = p.total_unlent - rented + payment + (p.total_lent + rented)
        /\ w.total_unlent = p.total_unlent - rented + payment
        /\ w.total_lent = p.total_lent + rented
        /\ w.total_rent = p.total_rent
        /\ w.total_rex = p.total_rex
    BY <2>2, SetUnlent DEF PoolOK
  <2> HIDE DEF w
  <2>4. rt \in Int /\ num \in Int
    BY <2>3, PoolFields
  <2> HIDE DEF rt, num
  <2>5. after \in Pool
    BY <2>1, <2>3, <2>4, SetRent
  <2>6. after.total_lendable = w.total_lendable /\ after.total_unlent = w.total_unlent
        /\ after.total_lent = w.total_lent /\ after.total_rent = rt
        /\ after.total_rex = w.total_rex
    BY <2>1, <2>3 DEF Pool
  <2> QED
    BY <1>1, <2>3, <2>5, <2>6, PoolFields DEF rt, PoolOK
<1> HIDE DEF after, rented
<1>3. PoolOK(after)
  BY <1>1, <1>2 DEF PoolOK, Pool
<1>4. NotCheaper(p, after)
  BY <1>2, SMT DEF NotCheaper, PoolOK, Pool
<1> QED
  BY <1>3, <1>4 DEF after, rented

\* remove_loan_from_rex_pool (loans that end or are renewed): tokens that were
\* lent come back.  This never fails for want of rent, and shares keep their value.
THEOREM ReturningKeepsPool ==
  ASSUME NEW p, PoolOK(p), NEW staked \in Nat, staked > 0, staked <= p.total_lent
  PROVE  PoolOK(LoanRemoved(p, staked)) /\ NotCheaper(p, LoanRemoved(p, staked))
<1> DEFINE rt == get_bancor_output(p.total_unlent, p.total_rent, staked)
           after == LoanRemoved(p, staked)
<1>1. rt \in 0 .. p.total_rent
  BY BancorBounded DEF PoolOK, Pool
<1>2. /\ after \in Pool
      /\ after.total_lendable = p.total_lendable
      /\ after.total_unlent = p.total_unlent + staked
      /\ after.total_lent = p.total_lent - staked
      /\ after.total_rent = p.total_rent - rt
      /\ after.total_rex = p.total_rex
  <2> DEFINE w == WithUnlent(p, p.total_unlent + staked, p.total_lent - staked)
             left == w.total_rent - rt
  <2>1. after = [w EXCEPT !.total_rent = left]
    BY DEF LoanRemoved
  <2> HIDE DEF rt, after
  <2>2. p.total_unlent + staked \in Int /\ p.total_lent - staked \in Int
    BY PoolFields DEF PoolOK
  <2>3. /\ w \in Pool
        /\ w.total_lendable = p.total_unlent + staked + (p.total_lent - staked)
        /\ w.total_unlent = p.total_unlent + staked
        /\ w.total_lent = p.total_lent - staked
        /\ w.total_rent = p.total_rent
        /\ w.total_rex = p.total_rex
    BY <2>2, SetUnlent DEF PoolOK
  <2> HIDE DEF w
  <2>4. left \in Int
    BY <1>1, <2>3, PoolFields
  <2> HIDE DEF left
  <2>5. after \in Pool
    BY <2>1, <2>3, <2>4, SetRent
  <2>6. after.total_lendable = w.total_lendable /\ after.total_unlent = w.total_unlent
        /\ after.total_lent = w.total_lent /\ after.total_rent = left
        /\ after.total_rex = w.total_rex
    BY <2>1, <2>3 DEF Pool
  <2> QED
    BY <1>1, <2>3, <2>5, <2>6, PoolFields DEF left, PoolOK
<1> HIDE DEF after, rt
<1>3. PoolOK(after)
  BY <1>1, <1>2 DEF PoolOK, Pool
<1>4. NotCheaper(p, after)
  BY <1>2, SMT DEF NotCheaper, PoolOK, Pool
<1> QED
  BY <1>3, <1>4 DEF after

\* channel_to_rex (fees, name bid proceeds): only into a pool with shares, since
\* tokens nobody has a share in could never be bought into again.
THEOREM ChannellingKeepsPool ==
  ASSUME NEW p, PoolOK(p), p.total_rex > 0, NEW amount \in Nat
  PROVE  PoolOK(Channelled(p, amount)) /\ NotCheaper(p, Channelled(p, amount))
<1> DEFINE after == Channelled(p, amount)
<1>1. /\ after \in Pool
      /\ after.total_lendable = p.total_lendable + amount
      /\ after.total_unlent = p.total_unlent + amount
      /\ after.total_lent = p.total_lent
      /\ after.total_rent = p.total_rent
      /\ after.total_rex = p.total_rex
  <2> DEFINE unlent == p.total_unlent + amount
             lendable == p.total_lendable + amount
  <2>1. after = [p EXCEPT !.total_unlent = unlent, !.total_lendable = lendable]
    BY DEF Channelled
  <2>2. unlent \in Int /\ lendable \in Int
    BY PoolFields DEF PoolOK
  <2> HIDE DEF unlent, lendable, after
  <2>3. after \in Pool
    BY <2>1, <2>2 DEF PoolOK, Pool
  <2>4. after.total_lendable = lendable /\ after.total_unlent = unlent
        /\ after.total_lent = p.total_lent /\ after.total_rent = p.total_rent
        /\ after.total_rex = p.total_rex
    BY <2>1 DEF PoolOK, Pool
  <2> QED
    BY <2>3, <2>4 DEF unlent, lendable
<1> HIDE DEF after
<1>2. PoolOK(after)
  BY <1>1 DEF PoolOK, Pool
<1>3. NotCheaper(p, after)
  BY <1>1, SMT DEF NotCheaper, PoolOK, Pool
<1> QED
  BY <1>2, <1>3 DEF after

(***************************************************************************)
(* The buckets of an owner's shares.                                       *)
(***************************************************************************)
\* A queue of buckets in strictly increasing order, none of them negative, that
\* mature at some of the times.
BucketsIn(b, Times) ==
  /\ b \in Seq(Bucket)
  /\ \A i \in 1 .. Len(b) : b[i].amount >= 0 /\ b[i].time \in Times
  /\ \A i \in 1 .. Len(b) - 1 : b[i].time < b[i + 1].time

\* What a bucket holds.
LEMMA BucketFields ==
  ASSUME NEW b \in Seq(Bucket)
  PROVE  /\ Len(b) \in Nat /\ DOMAIN b = 1 .. Len(b) /\ b \in [1 .. Len(b) -> Bucket]
         /\ \A i \in 1 .. Len(b) : b[i] \in Bucket /\ b[i].time \in Nat /\ b[i].amount \in Int
<1>1. Len(b) \in Nat /\ DOMAIN b = 1 .. Len(b) /\ b \in [1 .. Len(b) -> Bucket]
  BY LenProperties
<1>2. \A i \in 1 .. Len(b) : b[i] \in Bucket
  BY <1>1
<1> QED
  BY <1>1, <1>2 DEF Bucket

\* The shares in a queue are a sum over its positions.
LEMMA InBucketsIsSum ==
  ASSUME NEW b \in Seq(Bucket)
  PROVE  /\ InBuckets(b) = SumFunctionOnSet([i \in 1 .. Len(b) |-> b[i].amount], 1 .. Len(b))
         /\ [i \in 1 .. Len(b) |-> b[i].amount] \in [1 .. Len(b) -> Int]
         /\ IsFiniteSet(1 .. Len(b))
         /\ InBuckets(b) \in Int
<1> DEFINE f == [i \in 1 .. Len(b) |-> b[i].amount]
<1>1. Len(b) \in Nat /\ DOMAIN b = 1 .. Len(b) /\ f \in [1 .. Len(b) -> Int]
  BY BucketFields
<1>2. IsFiniteSet(1 .. Len(b))
  BY <1>1, FS_Interval
<1>3. f = [i \in DOMAIN b |-> b[i].amount] /\ DOMAIN f = 1 .. Len(b)
  BY <1>1
<1>4. InBuckets(b) = SumFunctionOnSet(f, DOMAIN f)
  BY <1>3 DEF InBuckets, SumFunction, SumFunctionOnSet, FoldFunction
<1> HIDE DEF f
<1>5. SumFunctionOnSet(f, 1 .. Len(b)) \in Int
  BY <1>1, <1>2, SumIsInt
<1>6. InBuckets(b) = SumFunctionOnSet(f, 1 .. Len(b))
  BY <1>3, <1>4
<1> QED
  BY <1>1, <1>2, <1>5, <1>6 DEF f

\* Buckets that are not negative do not hold less than nothing.
LEMMA InBucketsNat ==
  ASSUME NEW Times, NEW b, BucketsIn(b, Times)
  PROVE  InBuckets(b) \in Nat
<1> DEFINE f == [i \in 1 .. Len(b) |-> b[i].amount]
<1>1. b \in Seq(Bucket)
  BY DEF BucketsIn
<1>2. InBuckets(b) = SumFunctionOnSet(f, 1 .. Len(b)) /\ IsFiniteSet(1 .. Len(b))
      /\ InBuckets(b) \in Int
  BY <1>1, InBucketsIsSum
<1>3. f \in [1 .. Len(b) -> Nat]
  BY <1>1, BucketFields DEF BucketsIn
<1> HIDE DEF f
<1>4. InBuckets(b) >= 0
  BY <1>2, <1>3, SumBound
<1> QED
  BY <1>2, <1>4

\* A queue without buckets holds nothing.
LEMMA NoBuckets ==
  ASSUME NEW Times
  PROVE  BucketsIn(<< >>, Times) /\ InBuckets(<< >>) = 0
<1>1. << >> \in Seq(Bucket) /\ Len(<< >>) = 0
  BY EmptySeq
<1>2. BucketsIn(<< >>, Times)
  BY <1>1 DEF BucketsIn
<1> DEFINE f == [i \in 1 .. Len(<< >>) |-> << >>[i].amount]
<1>3. InBuckets(<< >>) = SumFunctionOnSet(f, 1 .. Len(<< >>))
      /\ f \in [1 .. Len(<< >>) -> Int] /\ IsFiniteSet(1 .. Len(<< >>))
  BY <1>1, InBucketsIsSum
<1>4. \A i \in 1 .. Len(<< >>) : f[i] = 0
  BY <1>1
<1> HIDE DEF f
<1> QED
  BY <1>2, <1>3, <1>4, SumZero

\* A part of a queue, c, that starts behind the first k buckets of b.
LEMMA PartOfQueue ==
  ASSUME NEW Times, NEW b, BucketsIn(b, Times), NEW k \in 0 .. Len(b), NEW c \in Seq(Bucket),
         Len(c) <= Len(b) - k, \A i \in 1 .. Len(c) : c[i] = b[i + k]
  PROVE  BucketsIn(c, Times) /\ InBuckets(c) <= InBuckets(b)
<1>1. /\ b \in Seq(Bucket) /\ Len(b) \in Nat /\ Len(c) \in Nat
      /\ \A i \in 1 .. Len(b) : b[i].amount \in Nat
  BY BucketFields, LenProperties DEF BucketsIn
<1>2. BucketsIn(c, Times)
  <2>1. \A i \in 1 .. Len(c) : i + k \in 1 .. Len(b)
    BY <1>1
  <2>2. \A i \in 1 .. Len(c) : c[i].amount >= 0 /\ c[i].time \in Times
    BY <2>1 DEF BucketsIn
  <2>3. ASSUME NEW i \in 1 .. Len(c) - 1 PROVE c[i].time < c[i + 1].time
    <3>1. i \in 1 .. Len(c) /\ i + 1 \in 1 .. Len(c) /\ i + k \in 1 .. Len(b) - 1
      BY <1>1
    <3>2. c[i] = b[i + k] /\ c[i + 1] = b[(i + k) + 1]
      BY <3>1
    <3>3. b[i + k].time < b[(i + k) + 1].time
      BY <3>1 DEF BucketsIn
    <3> QED
      BY <3>2, <3>3
  <2> QED
    BY <2>2, <2>3 DEF BucketsIn
<1>3. InBuckets(c) <= InBuckets(b)
  <2> DEFINE S == 1 .. Len(c)
             T == 1 .. Len(b)
             f == [i \in T |-> b[i].amount]
             g == [i \in S |-> c[i].amount]
             e == [i \in S |-> i + k]
             rest == [t \in T |-> IF \E x \in S : e[x] = t THEN 0 ELSE f[t]]
  <2>1. /\ InBuckets(b) = SumFunctionOnSet(f, T) /\ f \in [T -> Int] /\ IsFiniteSet(T)
        /\ InBuckets(c) = SumFunctionOnSet(g, S) /\ g \in [S -> Int] /\ IsFiniteSet(S)
        /\ InBuckets(c) \in Int
    BY <1>1, InBucketsIsSum
  <2>2. e \in [S -> T]
    BY <1>1
  <2>a. \A x, y \in S : e[x] = e[y] => x = y
    BY <1>1
  <2>3. \A x \in S : g[x] = f[e[x]]
    BY <1>1, <2>2
  <2>4. rest \in [T -> Nat] /\ rest \in [T -> Int]
    BY <1>1
  <2>5. (\A x \in S : rest[e[x]] = 0) /\ \A t \in T : (\A x \in S : e[x] # t) => rest[t] = f[t]
    BY <2>2
  <2>b. Splits(f, T, g, S, rest, e)
    BY <2>1, <2>2, <2>a, <2>3, <2>4, <2>5 DEF Splits
  <2> HIDE DEF S, T, f, g, e, rest
  <2>6. SumFunctionOnSet(f, T) = SumFunctionOnSet(g, S) + SumFunctionOnSet(rest, T)
    BY <2>b, SumSplit
  <2>7. SumFunctionOnSet(rest, T) >= 0 /\ SumFunctionOnSet(rest, T) \in Int
    BY <2>1, <2>4, SumBound, SumIsInt
  <2> QED
    BY <2>1, <2>6, <2>7
<1> QED
  BY <1>2, <1>3

\* A queue that another one continues by a single bucket.
LEMMA OneMoreBucket ==
  ASSUME NEW b \in Seq(Bucket), NEW c \in Seq(Bucket), Len(c) = Len(b) + 1,
         \A i \in 1 .. Len(b) : c[i] = b[i]
  PROVE  InBuckets(c) = InBuckets(b) + c[Len(c)].amount
<1> DEFINE S == 1 .. Len(b)
           T == 1 .. Len(c)
           f == [i \in T |-> c[i].amount]
           g == [i \in S |-> b[i].amount]
           e == [i \in S |-> i]
           n == Len(c)
           rest == [t \in T |-> IF \E x \in S : e[x] = t THEN 0 ELSE f[t]]
           zero == [t \in T |-> 0]
<1>1. Len(b) \in Nat /\ n \in T /\ n \notin S /\ T = S \cup {n} /\ c[n].amount \in Int
  BY BucketFields
<1>2. /\ InBuckets(c) = SumFunctionOnSet(f, T) /\ f \in [T -> Int] /\ IsFiniteSet(T)
      /\ InBuckets(b) = SumFunctionOnSet(g, S) /\ g \in [S -> Int] /\ IsFiniteSet(S)
      /\ InBuckets(b) \in Int
  BY InBucketsIsSum
<1>3. e \in [S -> T] /\ \A x, y \in S : e[x] = e[y] => x = y
  BY <1>1
<1>a. \A x \in S : g[x] = f[e[x]]
  <2>1. ASSUME NEW x \in S PROVE g[x] = f[e[x]]
    <3>1. x \in T /\ c[x] = b[x] /\ e[x] = x
      BY <1>1
    <3> QED BY <3>1
  <2> QED BY <2>1
<1>4. rest \in [T -> Int] /\ zero \in [T -> Int] /\ \A t \in T : zero[t] = 0
  BY <1>2
<1>d. (\A x \in S : rest[e[x]] = 0) /\ \A t \in T : (\A x \in S : e[x] # t) => rest[t] = f[t]
  BY <1>3
<1>b. rest[n] = zero[n] + c[n].amount
  <2>1. ~ \E x \in S : e[x] = n
    BY <1>1
  <2>2. rest[n] = f[n] /\ f[n] = c[n].amount /\ zero[n] = 0
    BY <1>1, <2>1
  <2> QED BY <1>1, <2>2
<1>c. \A t \in T \ {n} : rest[t] = zero[t]
  <2>1. ASSUME NEW t \in T \ {n} PROVE rest[t] = 0
    <3>1. t \in S /\ e[t] = t
      BY <1>1
    <3> QED BY <3>1
  <2> QED BY <2>1
<1>e. Splits(f, T, g, S, rest, e)
  BY <1>2, <1>3, <1>4, <1>a, <1>d DEF Splits
<1> DEFINE d == c[n].amount
<1>f. rest[n] = zero[n] + d /\ d \in Int /\ d = c[Len(c)].amount
  BY <1>1, <1>b
<1> HIDE DEF S, T, f, g, e, rest, zero, n, d
<1>5. SumFunctionOnSet(f, T) = SumFunctionOnSet(g, S) + SumFunctionOnSet(rest, T)
  BY <1>e, SumSplit
<1>6. SumFunctionOnSet(rest, T) = SumFunctionOnSet(zero, T) + d
  <2>1. IsFiniteSet(T) /\ n \in T /\ d \in Int /\ rest[n] = zero[n] + d
    BY <1>1, <1>2, <1>f
  <2>2. zero \in [T -> Int] /\ rest \in [T -> Int] /\ \A t \in T \ {n} : rest[t] = zero[t]
    BY <1>4, <1>c
  <2> QED
    BY <2>1, <2>2, SumUpdate
<1>7. SumFunctionOnSet(zero, T) = 0
  BY <1>2, <1>4, SumZero
<1> QED
  BY <1>2, <1>5, <1>6, <1>7, <1>f

\* The last bucket of a queue is the latest.
LEMMA LastIsLatest ==
  ASSUME NEW T \in Nat, NEW b, BucketsIn(b, 0 .. T \cup {EndOfDays}), T < EndOfDays, b # << >>
  PROVE  \A i \in 1 .. Len(b) - 1 : b[i].time <= T
<1>1. b \in Seq(Bucket) /\ Len(b) \in Nat /\ Len(b) # 0
  BY BucketFields, EmptySeq DEF BucketsIn
<1>2. ASSUME NEW i \in 1 .. Len(b) - 1 PROVE b[i].time <= T
  <2>1. i \in 1 .. Len(b) /\ i + 1 \in 1 .. Len(b)
    BY <1>1
  <2>2. b[i].time < b[i + 1].time /\ b[i].time \in 0 .. T \cup {EndOfDays}
        /\ b[i + 1].time \in 0 .. T \cup {EndOfDays}
    BY <2>1 DEF BucketsIn
  <2> QED
    BY <2>2, RexBalanceAssumption
<1> QED
  BY <1>2

\* read_rex_savings: the savings are the last bucket, and the rest of the queue
\* matures.
LEMMA SavingsSplit ==
  ASSUME NEW T \in Nat, NEW b, BucketsIn(b, 0 .. T \cup {EndOfDays}), T < EndOfDays
  PROVE  /\ BucketsIn(WithoutSavings(b), 0 .. T)
         /\ Savings(b) \in Nat
         /\ InBuckets(WithoutSavings(b)) \in Nat
         /\ InBuckets(b) = InBuckets(WithoutSavings(b)) + Savings(b)
<1> DEFINE w == WithoutSavings(b)
           n == Len(b)
<1>1. b \in Seq(Bucket) /\ n \in Nat /\ EndOfDays \in Nat
  BY BucketFields, RexBalanceAssumption DEF BucketsIn
<1>2. CASE HasSavings(b)
  <2>1. b # << >> /\ b[n].time = EndOfDays /\ n # 0
    BY <1>1, <1>2, EmptySeq DEF HasSavings
  <2>2. w = SubSeq(b, 1, n - 1) /\ Savings(b) = b[n].amount
    BY <1>2 DEF WithoutSavings, Savings
  <2>3. /\ w \in Seq(Bucket) /\ Len(w) = n - 1
        /\ \A i \in 1 .. n - 1 : w[i] = b[i]
    <3>1. \A i \in 1 .. n - 1 : b[i] \in Bucket
      BY <1>1, BucketFields
    <3>2. n - 1 \in Int /\ n - 1 >= 0
      BY <1>1, <2>1
    <3> HIDE DEF n
    <3>3. /\ SubSeq(b, 1, n - 1) \in Seq(Bucket)
          /\ Len(SubSeq(b, 1, n - 1)) = IF 1 <= n - 1 THEN (n - 1) - 1 + 1 ELSE 0
          /\ \A i \in 1 .. (n - 1) - 1 + 1 : SubSeq(b, 1, n - 1)[i] = b[1 + i - 1]
      BY <3>1, <3>2, SubSeqProperties
    <3>4. (n - 1) - 1 + 1 = n - 1 /\ \A i \in 1 .. n - 1 : 1 + i - 1 = i
      BY <1>1
    <3> HIDE DEF w
    <3> QED
      BY <2>2, <3>2, <3>3, <3>4
  <2>4. \A i \in 1 .. n - 1 : b[i].time <= T
    BY <2>1, LastIsLatest
  <2>5. \A i \in 1 .. n : b[i].amount >= 0 /\ b[i].time \in Nat /\ b[i].amount \in Int
    BY <1>1, BucketFields DEF BucketsIn
  <2>6. \A i \in 1 .. n - 1 : b[i].time < b[i + 1].time
    BY DEF BucketsIn
  <2> HIDE DEF w
  <2>7. BucketsIn(w, 0 .. T)
    <3>1. \A i \in 1 .. Len(w) : w[i].amount >= 0 /\ w[i].time \in 0 .. T
      BY <1>1, <2>3, <2>4, <2>5
    <3>2. ASSUME NEW i \in 1 .. Len(w) - 1 PROVE w[i].time < w[i + 1].time
      <4>1. i \in 1 .. n - 1 /\ i + 1 \in 1 .. n - 1
        BY <1>1, <2>3
      <4> QED
        BY <2>3, <2>6, <4>1
    <3> QED
      BY <2>3, <3>1, <3>2 DEF BucketsIn
  <2>8. InBuckets(b) = InBuckets(w) + b[n].amount
    <3>1. Len(b) = Len(w) + 1 /\ \A i \in 1 .. Len(w) : b[i] = w[i]
      BY <1>1, <2>3
    <3> QED
      BY <1>1, <2>3, <3>1, OneMoreBucket
  <2>9. n \in 1 .. n
    BY <1>1, <2>1
  <2> QED
    BY <2>2, <2>5, <2>7, <2>8, <2>9, InBucketsNat DEF w
<1>3. CASE ~ HasSavings(b)
  <2>1. w = b /\ Savings(b) = 0
    BY <1>3 DEF WithoutSavings, Savings
  <2>2. InBuckets(b) \in Nat
    BY InBucketsNat
  <2>3. \A i \in 1 .. Len(b) : b[i].time \in 0 .. T
    <3>1. CASE b = << >>
      BY <3>1, EmptySeq
    <3>2. CASE b # << >>
      <4>1. b[n].time # EndOfDays /\ n # 0
        BY <1>1, <1>3, <3>2, EmptySeq DEF HasSavings
      <4>2. n \in 1 .. n /\ b[n].time \in 0 .. T
        BY <1>1, <4>1 DEF BucketsIn
      <4>3. \A i \in 1 .. n - 1 : b[i].time <= T
        BY <3>2, LastIsLatest
      <4>4. \A i \in 1 .. n : b[i].time \in Nat
        BY <1>1, BucketFields
      <4>5. \A i \in 1 .. n : i = n \/ i \in 1 .. n - 1
        BY <1>1
      <4> QED
        BY <4>2, <4>3, <4>4, <4>5
    <3> QED
      BY <3>1, <3>2
  <2>4. BucketsIn(b, 0 .. T)
    BY <2>3 DEF BucketsIn
  <2> QED
    BY <2>1, <2>2, <2>4
<1> QED
  BY <1>2, <1>3

\* Shares added at the end of the queue, to mature no earlier than the others.
LEMMA BucketAdded ==
  ASSUME NEW T \in Nat, NEW t \in Nat, NEW b, BucketsIn(b, 0 .. T), T <= t, NEW x \in Nat
  PROVE  /\ BucketsIn(AddBucket(b, t, x), 0 .. T \cup {t})
         /\ InBuckets(AddBucket(b, t, x)) = InBuckets(b) + x
<1> DEFINE c == AddBucket(b, t, x)
           n == Len(b)
<1>1. b \in Seq(Bucket) /\ n \in Nat /\ InBuckets(b) \in Nat
  BY BucketFields, InBucketsNat DEF BucketsIn
<1>2. \A i \in 1 .. n : /\ b[i] \in Bucket /\ b[i].amount \in Nat /\ b[i].time \in 0 .. T
  BY <1>1, BucketFields DEF BucketsIn
<1>3. \A i \in 1 .. n - 1 : b[i].time < b[i + 1].time
  BY DEF BucketsIn
<1>4. CASE b # << >> /\ b[n].time = t
  <2> DEFINE last == [b[n] EXCEPT !.amount = @ + x]
  <2>1. n \in 1 .. n /\ n # 0
    BY <1>1, <1>4, EmptySeq
  <2>2. last \in Bucket /\ last.time = t /\ last.amount = b[n].amount + x
    BY <1>2, <1>4, <2>1 DEF Bucket
  <2>3. c = [b EXCEPT ![n] = last]
    BY <1>4 DEF AddBucket
  <2> HIDE DEF last, c
  <2>4. c \in Seq(Bucket) /\ Len(c) = n /\ \A j \in 1 .. n : c[j] = IF j = n THEN last ELSE b[j]
    <3> HIDE DEF n
    <3>1. n \in 1 .. Len(b)
      BY <2>1 DEF n
    <3>2. /\ [b EXCEPT ![n] = last] \in Seq(Bucket)
          /\ Len([b EXCEPT ![n] = last]) = Len(b)
          /\ \A j \in 1 .. Len(b) : [b EXCEPT ![n] = last][j] = IF j = n THEN last ELSE b[j]
      BY <1>1, <2>2, <3>1, ExceptSeq
    <3> QED
      BY <2>3, <3>2 DEF n
  <2>5. \A i \in 1 .. n : c[i].time = b[i].time /\ c[i].amount >= 0
    BY <1>2, <1>4, <2>1, <2>2, <2>4
  <2>6. BucketsIn(c, 0 .. T \cup {t})
    <3>1. \A i \in 1 .. n : c[i].amount >= 0 /\ c[i].time \in 0 .. T \cup {t}
      BY <1>2, <2>5
    <3>2. \A i \in 1 .. n - 1 : c[i].time < c[i + 1].time
      BY <1>1, <1>3, <2>5
    <3> QED
      BY <2>4, <3>1, <3>2 DEF BucketsIn
  <2>7. InBuckets(c) = InBuckets(b) + x
    <3> DEFINE S == 1 .. n
               f == [i \in S |-> b[i].amount]
               g == [i \in S |-> c[i].amount]
    <3>1. /\ InBuckets(b) = SumFunctionOnSet(f, S) /\ f \in [S -> Int] /\ IsFiniteSet(S)
          /\ InBuckets(c) = SumFunctionOnSet(g, S) /\ g \in [S -> Int]
      BY <1>1, <2>4, InBucketsIsSum
    <3>2. n \in S /\ g[n] = f[n] + x
      BY <2>1, <2>2, <2>4
    <3>3. \A i \in S \ {n} : g[i] = f[i]
      BY <2>4
    <3> HIDE DEF S, f, g, n
    <3> QED
      BY <3>1, <3>2, <3>3, SumUpdate
  <2> QED
    BY <2>6, <2>7 DEF c
<1>5. CASE ~ (b # << >> /\ b[n].time = t)
  <2> DEFINE last == [time |-> t, amount |-> x]
  <2>1. last \in Bucket /\ last.time = t /\ last.amount = x
    BY DEF Bucket
  <2>2. c = Append(b, last)
    BY <1>5 DEF AddBucket
  <2> HIDE DEF last, c
  <2>3. c \in Seq(Bucket) /\ Len(c) = n + 1 /\ (\A j \in 1 .. n : c[j] = b[j]) /\ c[n + 1] = last
    BY <1>1, <2>1, <2>2, AppendProperties
  <2>4. \A i \in 1 .. n : b[i].time < t
    <3>1. \A i \in 1 .. n - 1 : b[i].time < t
      <4>1. ASSUME NEW i \in 1 .. n - 1 PROVE b[i].time < t
        <5>1. i \in 1 .. n /\ i + 1 \in 1 .. n
          BY <1>1
        <5> QED
          BY <1>2, <1>3, <5>1
      <4> QED
        BY <4>1
    <3>2. n # 0 => b[n].time < t
      <4>1. n # 0 => b # << >> /\ n \in 1 .. n
        BY <1>1, EmptySeq
      <4> QED
        BY <1>2, <1>5, <4>1
    <3>3. \A i \in 1 .. n : i \in 1 .. n - 1 \/ (i = n /\ n # 0)
      BY <1>1
    <3> QED
      BY <3>1, <3>2, <3>3
  <2>5. BucketsIn(c, 0 .. T \cup {t})
    <3>1. \A i \in 1 .. n + 1 : i \in 1 .. n \/ i = n + 1
      BY <1>1
    <3>2. \A i \in 1 .. n + 1 : c[i].amount >= 0 /\ c[i].time \in 0 .. T \cup {t}
      BY <1>2, <2>1, <2>3, <3>1
    <3>3. ASSUME NEW i \in 1 .. n PROVE c[i].time < c[i + 1].time
      <4>1. CASE i = n
        BY <2>1, <2>3, <2>4, <4>1
      <4>2. CASE i # n
        <5>1. i \in 1 .. n - 1 /\ i + 1 \in 1 .. n
          BY <1>1, <4>2
        <5> QED
          BY <1>3, <2>3, <5>1
      <4> QED
        BY <4>1, <4>2
    <3>4. Len(c) = n + 1 /\ Len(c) - 1 = n
      BY <1>1, <2>3
    <3> QED
      BY <2>3, <3>2, <3>3, <3>4 DEF BucketsIn
  <2>6. InBuckets(c) = InBuckets(b) + x
    BY <1>1, <2>1, <2>3, OneMoreBucket
  <2> QED
    BY <2>5, <2>6 DEF c
<1> QED
  BY <1>4, <1>5

\* The day on which shares bought now mature is before the end of days, and does
\* not get earlier as time passes.
LEMMA Maturity ==
  ASSUME NEW t \in 0 .. MaxTime
  PROVE  /\ get_rex_maturity(t) \in Nat /\ get_rex_maturity(t) < EndOfDays
         /\ get_rex_maturity(t) <= get_rex_maturity(t + 1)
<1>1. DayLength \in Nat \ {0} /\ NumBuckets \in Nat \ {0} /\ EndOfDays \in Nat /\ MaxTime \in Nat
  BY RexBalanceAssumption, StakingAssumption DEF StakingAssumption, RexBalanceAssumption
<1>2. MaxTime + NumBuckets * DayLength < EndOfDays
  BY RexAssumption DEF RexAssumption
<1> DEFINE D == DayLength
           q == t \div D
           r == (t + 1) \div D
           p == NumBuckets * DayLength
<1>3. p \in Nat
  BY <1>1, SMT
<1>4. q \in Nat /\ D * q <= t /\ t < D * q + D /\ r \in Nat /\ D * r <= t + 1 /\ t + 1 < D * r + D
  BY <1>1, DivBounds
<1>5. t - (t % D) = D * q /\ t + 1 - ((t + 1) % D) = D * r
  BY <1>1, SMT
<1>6. get_rex_maturity(t) = D * q + p /\ get_rex_maturity(t + 1) = D * r + p
  <2>1. get_rex_maturity(t) = (t - (t % D)) + p
    BY DEF get_rex_maturity
  <2>2. get_rex_maturity(t + 1) = (t + 1 - ((t + 1) % D)) + p
    <3>1. get_rex_maturity(t + 1) = ((t + 1) - ((t + 1) % D)) + p
      BY DEF get_rex_maturity
    <3>2. t \in Int /\ (t + 1) % D \in Int
      BY <1>1, SMT
    <3> QED
      BY <3>1, <3>2
  <2> QED
    BY <1>5, <2>1, <2>2
<1>7. D * q \in Nat /\ D * r \in Nat
  BY <1>1, <1>4, SMT
<1> HIDE DEF p, q, r
<1>8. q <= r
  <2>1. SUFFICES ASSUME q > r PROVE FALSE
    BY <1>4
  <2>2. r + 1 <= q
    BY <1>4, <2>1
  <2>3. D * (r + 1) <= D * q
    BY <1>1, <1>4, <2>2, Grows
  <2>4. D * (r + 1) = D * r + D
    BY <1>1, <1>4, SMT
  <2> QED
    BY <1>1, <1>4, <1>7, <2>3, <2>4
<1>9. D * q <= D * r
  BY <1>1, <1>4, <1>8, Grows
<1> QED
  BY <1>1, <1>2, <1>3, <1>4, <1>6, <1>7, <1>9 DEF p

\* The times at which shares bought up to now mature.
UpTo(t) == 0 .. get_rex_maturity(t)

\* A row whose shares are each in one place, in a queue that can be processed
\* from the front and continued at the back.
RowGood(row, t) ==
  /\ row \in RexBalance
  /\ row.matured_rex >= 0
  /\ BucketsIn(row.rex_maturities, UpTo(t) \cup {EndOfDays})
  /\ row.rex_balance = row.matured_rex + InBuckets(row.rex_maturities)

\* A row whose savings were taken out, with as many shares in it.
OpenRow(row, t) ==
  /\ row \in RexBalance
  /\ row.matured_rex >= 0
  /\ BucketsIn(row.rex_maturities, UpTo(t))

\* Such rows are what RowOK says.
LEMMA GoodRowOK ==
  ASSUME NEW row, NEW t \in Nat, RowGood(row, t)
  PROVE  RowOK(row) /\ row.rex_balance >= row.matured_rex
<1>1. row.rex_maturities \in Seq(Bucket)
  BY DEF RowGood, BucketsIn
<1>2. DOMAIN row.rex_maturities = 1 .. Len(row.rex_maturities) /\ InBuckets(row.rex_maturities) \in Nat
  BY <1>1, BucketFields, InBucketsNat DEF RowGood
<1>3. row.matured_rex \in Int
  BY DEF RowGood, RexBalance
<1> QED
  BY <1>2, <1>3 DEF RowGood, RowOK, BucketsIn

\* Later more times are allowed.
LEMMA GoodRowLater ==
  ASSUME NEW row, NEW t \in 0 .. MaxTime, RowGood(row, t)
  PROVE  RowGood(row, t + 1)
<1>1. \A x \in UpTo(t) : x \in UpTo(t + 1)
  <2>1. t \in Nat
    BY StakingAssumption DEF StakingAssumption
  <2>2. get_rex_maturity(t) \in Nat /\ get_rex_maturity(t) <= get_rex_maturity(t + 1)
    BY Maturity
  <2>3. get_rex_maturity(t + 1) \in Int
    BY <2>1, RexBalanceAssumption, SMT DEF get_rex_maturity
  <2> QED
    BY <2>2, <2>3 DEF UpTo
<1> QED
  BY <1>1 DEF RowGood, BucketsIn

\* process_rex_maturities, for rows with or without savings.
LEMMA Processed ==
  ASSUME NEW Times, NEW row \in RexBalance, BucketsIn(row.rex_maturities, Times), NEW t
  PROVE  /\ process_rex_maturities(row, t) \in RexBalance
         /\ process_rex_maturities(row, t).vote_stake = row.vote_stake
         /\ process_rex_maturities(row, t).rex_balance = row.rex_balance
         /\ BucketsIn(process_rex_maturities(row, t).rex_maturities, Times)
         /\ process_rex_maturities(row, t).matured_rex >= row.matured_rex
         /\ process_rex_maturities(row, t).matured_rex
              + InBuckets(process_rex_maturities(row, t).rex_maturities)
            = row.matured_rex + InBuckets(row.rex_maturities)
<1> DEFINE b == row.rex_maturities
           due == {i \in DOMAIN b : \A j \in 1 .. i : b[j].time <= t}
           k == Cardinality(due)
           c == [i \in 1 .. (Len(b) - k) |-> b[i + k]]
           m == row.matured_rex + (InBuckets(b) - InBuckets(c))
           after == [row EXCEPT !.matured_rex = m, !.rex_maturities = c]
<1>1. process_rex_maturities(row, t) = after
  BY DEF process_rex_maturities
<1>2. b \in Seq(Bucket) /\ Len(b) \in Nat /\ DOMAIN b = 1 .. Len(b)
      /\ \A i \in 1 .. Len(b) : b[i] \in Bucket
  BY BucketFields DEF BucketsIn
<1>3. k \in 0 .. Len(b)
  <2>1. IsFiniteSet(1 .. Len(b)) /\ Cardinality(1 .. Len(b)) = Len(b)
    BY <1>2, FS_Interval
  <2>2. due \in SUBSET (1 .. Len(b))
    BY <1>2
  <2> HIDE DEF due
  <2>3. IsFiniteSet(due) /\ Cardinality(due) <= Len(b)
    BY <2>1, <2>2, FS_Subset
  <2>4. Cardinality(due) \in Nat
    BY <2>3, FS_CardinalityType
  <2> QED
    BY <1>2, <2>3, <2>4
<1> HIDE DEF k
<1>4. Len(b) - k \in Nat /\ \A i \in 1 .. (Len(b) - k) : i + k \in 1 .. Len(b)
  BY <1>2, <1>3
<1>5. c \in Seq(Bucket) /\ Len(c) = Len(b) - k /\ \A i \in 1 .. Len(c) : c[i] = b[i + k]
  <2>1. c \in [1 .. (Len(b) - k) -> Bucket]
    BY <1>2, <1>4
  <2> HIDE DEF b
  <2> QED
    BY <1>4, <2>1
<1>6. BucketsIn(c, Times) /\ InBuckets(c) <= InBuckets(b)
  <2> HIDE DEF b, c
  <2>1. BucketsIn(b, Times)
    BY DEF b
  <2>2. Len(c) <= Len(b) - k
    BY <1>4, <1>5
  <2> QED
    BY <1>3, <1>5, <2>1, <2>2, PartOfQueue
<1>7. InBuckets(b) \in Int /\ InBuckets(c) \in Int
  <2> HIDE DEF b, c
  <2> QED
    BY <1>2, <1>5, InBucketsIsSum
<1>8. row.matured_rex \in Int
  BY DEF RexBalance
<1>9. m \in Int /\ m >= row.matured_rex /\ m + InBuckets(c) = row.matured_rex + InBuckets(b)
  <2> HIDE DEF b, c
  <2> QED
    BY <1>6, <1>7, <1>8
<1>10. /\ after \in RexBalance /\ after.vote_stake = row.vote_stake
       /\ after.rex_balance = row.rex_balance /\ after.matured_rex = m /\ after.rex_maturities = c
  <2> HIDE DEF m, c
  <2> QED
    BY <1>5, <1>9 DEF RexBalance
<1> HIDE DEF after, m, c
<1> QED
  BY <1>1, <1>6, <1>9, <1>10

\* What process_rex_maturities does to a whole row.
LEMMA RowProcessed ==
  ASSUME NEW row, NEW t \in 0 .. MaxTime, RowGood(row, t)
  PROVE  /\ RowGood(process_rex_maturities(row, t), t)
         /\ process_rex_maturities(row, t).vote_stake = row.vote_stake
         /\ process_rex_maturities(row, t).rex_balance = row.rex_balance
         /\ process_rex_maturities(row, t).matured_rex >= row.matured_rex
<1> DEFINE after == process_rex_maturities(row, t)
           Times == UpTo(t) \cup {EndOfDays}
<1>1. row \in RexBalance /\ BucketsIn(row.rex_maturities, Times) /\ row.matured_rex >= 0
      /\ row.rex_balance = row.matured_rex + InBuckets(row.rex_maturities)
  BY DEF RowGood
<1> HIDE DEF Times
<1>2. /\ after \in RexBalance /\ after.vote_stake = row.vote_stake
      /\ after.rex_balance = row.rex_balance /\ BucketsIn(after.rex_maturities, Times)
      /\ after.matured_rex >= row.matured_rex
      /\ after.matured_rex + InBuckets(after.rex_maturities)
           = row.matured_rex + InBuckets(row.rex_maturities)
  BY <1>1, Processed
<1> HIDE DEF after
<1>3. after.matured_rex \in Int /\ row.matured_rex \in Int
  BY <1>1, <1>2 DEF RexBalance
<1>4. RowGood(after, t)
  BY <1>1, <1>2, <1>3 DEF RowGood, Times
<1> QED
  BY <1>2, <1>4 DEF after

\* What the three operations on savings begin with: the savings are taken out and
\* the rest is processed.
LEMMA RowOpened ==
  ASSUME NEW row \in RexBalance, NEW t \in 0 .. MaxTime, row.matured_rex >= 0,
         BucketsIn(row.rex_maturities, UpTo(t) \cup {EndOfDays}),
         NEW open,
         open = process_rex_maturities(
                  [row EXCEPT !.rex_maturities = WithoutSavings(@)], t)
  PROVE  /\ OpenRow(open, t)
         /\ open.vote_stake = row.vote_stake
         /\ open.rex_balance = row.rex_balance
         /\ open.matured_rex >= row.matured_rex
         /\ Savings(row.rex_maturities) \in Nat
         /\ open.matured_rex + InBuckets(open.rex_maturities) + Savings(row.rex_maturities)
              = row.matured_rex + InBuckets(row.rex_maturities)
<1> DEFINE b == row.rex_maturities
           w == WithoutSavings(b)
           start == [row EXCEPT !.rex_maturities = w]
           T == get_rex_maturity(t)
<1>1. T \in Nat /\ T < EndOfDays
  BY Maturity
<1>2. BucketsIn(b, 0 .. T \cup {EndOfDays})
  BY DEF UpTo
<1> HIDE DEF T, b
<1>3. /\ BucketsIn(w, 0 .. T) /\ Savings(b) \in Nat /\ InBuckets(w) \in Nat
      /\ InBuckets(b) = InBuckets(w) + Savings(b)
  BY <1>1, <1>2, SavingsSplit
<1>4. w \in Seq(Bucket)
  BY <1>3 DEF BucketsIn
<1>5. /\ start \in RexBalance /\ start.vote_stake = row.vote_stake
      /\ start.rex_balance = row.rex_balance /\ start.matured_rex = row.matured_rex
      /\ start.rex_maturities = w
  <2> HIDE DEF w
  <2> QED
    BY <1>4 DEF RexBalance
<1>6. open = process_rex_maturities(start, t)
  BY DEF b
<1> HIDE DEF start, w
<1> DEFINE Times == 0 .. T
           rest == process_rex_maturities(start, t)
<1>7. start \in RexBalance /\ BucketsIn(start.rex_maturities, Times)
  BY <1>3, <1>5
<1> HIDE DEF Times
<1>a. /\ rest \in RexBalance /\ rest.vote_stake = start.vote_stake
      /\ rest.rex_balance = start.rex_balance /\ BucketsIn(rest.rex_maturities, Times)
      /\ rest.matured_rex >= start.matured_rex
      /\ rest.matured_rex + InBuckets(rest.rex_maturities)
           = start.matured_rex + InBuckets(start.rex_maturities)
  BY <1>7, Processed
<1>b. open = rest
  BY <1>6
<1> HIDE DEF rest
<1>8. /\ open \in RexBalance /\ open.vote_stake = start.vote_stake
      /\ open.rex_balance = start.rex_balance /\ BucketsIn(open.rex_maturities, 0 .. T)
      /\ open.matured_rex >= start.matured_rex
      /\ open.matured_rex + InBuckets(open.rex_maturities)
           = start.matured_rex + InBuckets(start.rex_maturities)
  BY <1>a, <1>b DEF Times
<1>9. open.matured_rex \in Int /\ row.matured_rex \in Int
  BY <1>8 DEF RexBalance
<1>10. OpenRow(open, t)
  BY <1>5, <1>8, <1>9 DEF OpenRow, UpTo, T
<1>11. InBuckets(open.rex_maturities) \in Int
  BY <1>8, InBucketsNat
<1>12. open.matured_rex + InBuckets(open.rex_maturities) + Savings(b)
         = row.matured_rex + InBuckets(b)
  BY <1>3, <1>5, <1>8, <1>9, <1>11
<1> QED
  BY <1>3, <1>5, <1>8, <1>10, <1>12 DEF b

\* The row after x shares were saved.
SavedRow(after, row, t, x) ==
  /\ after \in RexBalance
  /\ BucketsIn(after.rex_maturities, UpTo(t) \cup {EndOfDays})
  /\ after.vote_stake = row.vote_stake
  /\ after.rex_balance = row.rex_balance
  /\ after.matured_rex = row.matured_rex
  /\ InBuckets(after.rex_maturities) = InBuckets(row.rex_maturities) + x

\* put_rex_savings, for a row without savings.
LEMMA SavingsPut ==
  ASSUME NEW t \in 0 .. MaxTime, NEW row, OpenRow(row, t), NEW x \in Nat
  PROVE  SavedRow(put_rex_savings(row, x), row, t, x)
<1>a. PICK after : after = put_rex_savings(row, x)
  OBVIOUS
<1> DEFINE b == row.rex_maturities
           c == AddBucket(b, EndOfDays, x)
           T == get_rex_maturity(t)
<1>1. T \in Nat /\ T < EndOfDays /\ EndOfDays \in Nat
  BY Maturity, RexBalanceAssumption
<1>2. row \in RexBalance /\ BucketsIn(b, 0 .. T) /\ b \in Seq(Bucket)
  BY DEF OpenRow, UpTo, BucketsIn
<1>3. InBuckets(b) \in Int
  <2> HIDE DEF b
  <2> QED
    BY <1>2, InBucketsNat
<1>4. CASE x = 0
  <2>1. after = row
    BY <1>a, <1>4 DEF put_rex_savings
  <2>2. BucketsIn(b, UpTo(t) \cup {EndOfDays})
    BY <1>2 DEF BucketsIn, UpTo
  <2> QED
    BY <1>2, <1>3, <1>4, <1>a, <2>1, <2>2 DEF SavedRow
<1>5. CASE x # 0
  <2>1. after = [row EXCEPT !.rex_maturities = c]
    BY <1>a, <1>5 DEF put_rex_savings
  <2> HIDE DEF b, T
  <2>2. BucketsIn(c, 0 .. T \cup {EndOfDays}) /\ InBuckets(c) = InBuckets(b) + x
    BY <1>1, <1>2, BucketAdded
  <2> HIDE DEF c
  <2>3. c \in Seq(Bucket)
    BY <2>2 DEF BucketsIn
  <2>4. /\ after \in RexBalance /\ after.vote_stake = row.vote_stake
        /\ after.rex_balance = row.rex_balance /\ after.matured_rex = row.matured_rex
        /\ after.rex_maturities = c
    BY <1>2, <2>1, <2>3 DEF RexBalance
  <2> QED
    BY <1>a, <2>2, <2>4 DEF UpTo, T, b, SavedRow
<1> QED
  BY <1>4, <1>5

\* A row after shares were added to the bucket of the day.
Today(row, t, x) == [row EXCEPT !.rex_maturities = AddBucket(@, get_rex_maturity(t), x)]

\* Shares added to the bucket of the day, in a row without savings.
LEMMA AddedToday ==
  ASSUME NEW t \in 0 .. MaxTime, NEW row, OpenRow(row, t), NEW x \in Nat,
         NEW after, after = Today(row, t, x)
  PROVE  /\ OpenRow(after, t)
         /\ after.vote_stake = row.vote_stake
         /\ after.rex_balance = row.rex_balance
         /\ after.matured_rex = row.matured_rex
         /\ InBuckets(after.rex_maturities) = InBuckets(row.rex_maturities) + x
<1> DEFINE b == row.rex_maturities
           T == get_rex_maturity(t)
           c == AddBucket(b, T, x)
<1>1. T \in Nat
  BY Maturity
<1>2. row \in RexBalance /\ BucketsIn(b, 0 .. T) /\ row.matured_rex >= 0
  BY DEF OpenRow, UpTo
<1>3. after = [row EXCEPT !.rex_maturities = c]
  BY DEF Today
<1> HIDE DEF b, T
<1>a. T <= T /\ BucketsIn(b, 0 .. T)
  BY <1>1, <1>2
<1>4. BucketsIn(c, 0 .. T \cup {T}) /\ InBuckets(c) = InBuckets(b) + x
  BY <1>1, <1>a, BucketAdded
<1> HIDE DEF c
<1>5. c \in Seq(Bucket) /\ 0 .. T \cup {T} = 0 .. T
  BY <1>1, <1>4 DEF BucketsIn
<1>6. /\ after \in RexBalance /\ after.vote_stake = row.vote_stake
      /\ after.rex_balance = row.rex_balance /\ after.matured_rex = row.matured_rex
      /\ after.rex_maturities = c
  BY <1>2, <1>3, <1>5 DEF RexBalance
<1> QED
  BY <1>2, <1>4, <1>5, <1>6 DEF OpenRow, UpTo, T, b

\* A row with other shares matured and other buckets.
WithShares(row, matured, b) == [row EXCEPT !.matured_rex = matured, !.rex_maturities = b]

\* What becomes of its fields.
LEMMA SharesSet ==
  ASSUME NEW row \in RexBalance, NEW m \in Int, NEW b \in Seq(Bucket),
         NEW after, after = WithShares(row, m, b)
  PROVE  /\ after \in RexBalance /\ after.vote_stake = row.vote_stake
         /\ after.rex_balance = row.rex_balance
         /\ after.matured_rex = m /\ after.rex_maturities = b
  BY DEF RexBalance, WithShares

\* A row that counts x shares more than it has put anywhere.
Unplaced(row, t, x) ==
  /\ row \in RexBalance
  /\ row.matured_rex >= 0
  /\ BucketsIn(row.rex_maturities, UpTo(t) \cup {EndOfDays})
  /\ row.rex_balance = row.matured_rex + InBuckets(row.rex_maturities) + x

\* add_to_rex_balance: what was bought matures in its time.
THEOREM BoughtKeepsRow ==
  ASSUME NEW t \in 0 .. MaxTime, NEW x \in Nat, NEW row, Unplaced(row, t, x)
  PROVE  /\ RowGood(WithBought(row, t, x), t)
         /\ WithBought(row, t, x).vote_stake = row.vote_stake
         /\ WithBought(row, t, x).rex_balance = row.rex_balance
         /\ WithBought(row, t, x).matured_rex >= row.matured_rex
<1>1. PICK open : open = process_rex_maturities(
                           [row EXCEPT !.rex_maturities = WithoutSavings(@)], t)
  OBVIOUS
<1>2. PICK filled : filled = Today(open, t, x)
  OBVIOUS
<1>5. /\ OpenRow(open, t) /\ open.vote_stake = row.vote_stake
      /\ open.rex_balance = row.rex_balance /\ open.matured_rex >= row.matured_rex
      /\ Savings(row.rex_maturities) \in Nat
      /\ open.matured_rex + InBuckets(open.rex_maturities) + Savings(row.rex_maturities)
           = row.matured_rex + InBuckets(row.rex_maturities)
  <2>1. row \in RexBalance /\ row.matured_rex >= 0
        /\ BucketsIn(row.rex_maturities, UpTo(t) \cup {EndOfDays})
    BY DEF Unplaced
  <2> QED
    BY <1>1, <2>1, RowOpened
<1>a. PICK savings \in Nat : savings = Savings(row.rex_maturities)
  BY <1>5
<1>3. PICK after : after = put_rex_savings(filled, savings)
  OBVIOUS
<1>4. WithBought(row, t, x) = after
  BY <1>1, <1>2, <1>3, <1>a DEF WithBought, Today
<1>b. OpenRow(open, t)
  BY <1>5
<1>6. /\ OpenRow(filled, t) /\ filled.vote_stake = open.vote_stake
      /\ filled.rex_balance = open.rex_balance /\ filled.matured_rex = open.matured_rex
      /\ InBuckets(filled.rex_maturities) = InBuckets(open.rex_maturities) + x
  BY <1>2, <1>b, AddedToday
<1>7. /\ after \in RexBalance /\ BucketsIn(after.rex_maturities, UpTo(t) \cup {EndOfDays})
      /\ after.vote_stake = filled.vote_stake
      /\ after.rex_balance = filled.rex_balance /\ after.matured_rex = filled.matured_rex
      /\ InBuckets(after.rex_maturities) = InBuckets(filled.rex_maturities) + savings
  <2>1. OpenRow(filled, t)
    BY <1>6
  <2> QED
    BY <1>3, <2>1, SavingsPut DEF SavedRow
<1>8. /\ row.matured_rex \in Int /\ open.matured_rex \in Int
      /\ InBuckets(open.rex_maturities) \in Int
  BY <1>5, InBucketsNat DEF OpenRow, RexBalance, Unplaced
<1>9. RowGood(after, t) /\ after.matured_rex >= row.matured_rex
  BY <1>a, <1>5, <1>6, <1>7, <1>8 DEF RowGood, Unplaced
<1> QED
  BY <1>4, <1>5, <1>6, <1>7, <1>9

\* consolidate: all but the savings and what is for sale matures a day's term
\* from now.
THEOREM ConsolidationKeepsRow ==
  ASSUME NEW t \in 0 .. MaxTime, NEW row, RowGood(row, t), NEW x \in Nat, x <= row.matured_rex
  PROVE  /\ RowGood(consolidate_rex_balance(row, t, x), t)
         /\ consolidate_rex_balance(row, t, x).vote_stake = row.vote_stake
         /\ consolidate_rex_balance(row, t, x).rex_balance = row.rex_balance
         /\ consolidate_rex_balance(row, t, x).matured_rex = x
<1> DEFINE b == row.rex_maturities
           T == get_rex_maturity(t)
<1>1. row \in RexBalance /\ BucketsIn(b, 0 .. T \cup {EndOfDays}) /\ T \in Nat /\ T < EndOfDays
      /\ row.rex_balance = row.matured_rex + InBuckets(b) /\ row.matured_rex \in Int
  BY Maturity DEF RowGood, UpTo, RexBalance
<1>2. /\ Savings(b) \in Nat /\ InBuckets(WithoutSavings(b)) \in Nat
      /\ InBuckets(b) = InBuckets(WithoutSavings(b)) + Savings(b)
  <2> HIDE DEF b, T
  <2> QED
    BY <1>1, SavingsSplit
<1>a. PICK savings \in Nat : savings = Savings(b)
  BY <1>2
<1>b. PICK total \in Nat : total = row.matured_rex - x + InBuckets(WithoutSavings(b))
  BY <1>1, <1>2
<1>3. x + total + savings = row.rex_balance
  BY <1>1, <1>2, <1>a, <1>b
<1>4. PICK empty : empty = [row EXCEPT !.matured_rex = x, !.rex_maturities = << >>]
  OBVIOUS
<1>5. PICK filled : filled = IF total > 0 THEN Today(empty, t, total) ELSE empty
  OBVIOUS
<1>6. PICK after : after = put_rex_savings(filled, savings)
  OBVIOUS
<1>7. consolidate_rex_balance(row, t, x) = after
  BY <1>4, <1>5, <1>6, <1>a, <1>b DEF consolidate_rex_balance, Today
<1>8. BucketsIn(<< >>, UpTo(t)) /\ InBuckets(<< >>) = 0 /\ << >> \in Seq(Bucket)
  BY NoBuckets DEF BucketsIn
<1>9. /\ empty \in RexBalance /\ empty.vote_stake = row.vote_stake
      /\ empty.rex_balance = row.rex_balance /\ empty.matured_rex = x
      /\ empty.rex_maturities = << >>
  <2>1. PICK none \in Seq(Bucket) : none = << >>
    BY <1>8
  <2>2. empty = WithShares(row, x, none)
    BY <1>4, <2>1 DEF WithShares
  <2>3. row \in RexBalance /\ x \in Int
    BY <1>1
  <2>4. /\ empty \in RexBalance /\ empty.vote_stake = row.vote_stake
        /\ empty.rex_balance = row.rex_balance /\ empty.matured_rex = x
        /\ empty.rex_maturities = none
    BY <2>2, <2>3, SharesSet
  <2> QED
    BY <2>1, <2>4
<1>10. OpenRow(empty, t)
  BY <1>8, <1>9 DEF OpenRow
<1> HIDE DEF b, T
<1>11. /\ OpenRow(filled, t) /\ filled.vote_stake = row.vote_stake
       /\ filled.rex_balance = row.rex_balance /\ filled.matured_rex = x
       /\ InBuckets(filled.rex_maturities) = total
  <2>1. CASE total > 0
    <3>1. filled = Today(empty, t, total)
      BY <1>5, <2>1
    <3>2. /\ OpenRow(filled, t) /\ filled.vote_stake = empty.vote_stake
          /\ filled.rex_balance = empty.rex_balance /\ filled.matured_rex = empty.matured_rex
          /\ InBuckets(filled.rex_maturities) = InBuckets(empty.rex_maturities) + total
      BY <1>3, <1>10, <3>1, AddedToday
    <3>3. InBuckets(empty.rex_maturities) + total = total
      BY <1>3, <1>8, <1>9
    <3> QED
      BY <1>9, <3>2, <3>3
  <2>2. CASE ~ total > 0
    BY <1>3, <1>5, <1>8, <1>9, <1>10, <2>2
  <2> QED
    BY <2>1, <2>2
<1>12. /\ after \in RexBalance /\ BucketsIn(after.rex_maturities, UpTo(t) \cup {EndOfDays})
       /\ after.vote_stake = filled.vote_stake
       /\ after.rex_balance = filled.rex_balance /\ after.matured_rex = filled.matured_rex
       /\ InBuckets(after.rex_maturities) = InBuckets(filled.rex_maturities) + savings
  <2>1. OpenRow(filled, t)
    BY <1>11
  <2> QED
    BY <1>6, <2>1, SavingsPut DEF SavedRow
<1>13. RowGood(after, t)
  BY <1>2, <1>3, <1>11, <1>12 DEF RowGood
<1> QED
  BY <1>7, <1>11, <1>12, <1>13

\* Whatever is taken from the back of a queue, the rest is a queue.
LEMMA TakenFromBack ==
  ASSUME NEW Times, NEW b, BucketsIn(b, Times), NEW x \in Nat
  PROVE  BucketsIn(TakeFromBack(b, x), Times)
<1> DEFINE n == Len(b)
           f == [j \in DOMAIN b |-> b[j].amount]
           left == [i \in DOMAIN b |->
                      LET wanted == x - Behind(b, i)
                      IN  IF wanted <= 0 THEN b[i].amount
                          ELSE IF wanted < b[i].amount THEN b[i].amount - wanted ELSE 0]
           kept == {i \in DOMAIN b : Behind(b, i) >= x \/ left[i] > 0}
           k == Cardinality(kept)
           c == [i \in 1 .. k |-> [b[i] EXCEPT !.amount = left[i]]]
<1>1. TakeFromBack(b, x) = c
  BY DEF TakeFromBack
<1>2. b \in Seq(Bucket) /\ n \in Nat /\ DOMAIN b = 1 .. n
  BY BucketFields DEF BucketsIn
<1>3. \A i \in 1 .. n : b[i] \in Bucket /\ b[i].amount \in Nat /\ b[i].time \in Times
  BY <1>2, BucketFields DEF BucketsIn
<1>4. \A i \in 1 .. n - 1 : b[i].time < b[i + 1].time
  BY DEF BucketsIn
<1>5. ASSUME NEW i \in 1 .. n PROVE Behind(b, i) \in Int
  <2> DEFINE S == 1 .. n
             R == (i + 1) .. n
  <2>a. IsFiniteSet(S)
    BY <1>2, FS_Interval
  <2>b. f \in [S -> Int]
    BY <1>2, <1>3
  <2>c. R \in SUBSET S
    BY <1>2
  <2>1. IsFiniteSet(S) /\ f \in [S -> Int] /\ R \in SUBSET S
    BY <2>a, <2>b, <2>c
  <2>2. Behind(b, i) = SumFunctionOnSet(f, R)
    BY DEF Behind
  <2> HIDE DEF S, R, f
  <2> QED
    BY <2>1, <2>2, PartSumIsInt
<1>6. ASSUME NEW i \in 1 .. n PROVE left[i] \in Nat
  <2>1. PICK behind \in Int : behind = Behind(b, i)
    BY <1>5
  <2>2. left[i] = IF x - behind <= 0 THEN b[i].amount
                  ELSE IF x - behind < b[i].amount THEN b[i].amount - (x - behind) ELSE 0
    BY <1>2, <2>1
  <2> HIDE DEF left
  <2>3. b[i].amount \in Nat
    BY <1>3
  <2> QED
    BY <2>2, <2>3
<1> HIDE DEF left
<1>7. k \in 0 .. n
  <2>1. IsFiniteSet(1 .. n) /\ Cardinality(1 .. n) = n
    BY <1>2, FS_Interval
  <2>2. kept \in SUBSET (1 .. n)
    BY <1>2
  <2> HIDE DEF kept
  <2>3. IsFiniteSet(kept) /\ Cardinality(kept) <= n
    BY <2>1, <2>2, FS_Subset
  <2>4. Cardinality(kept) \in Nat
    BY <2>3, FS_CardinalityType
  <2> QED
    BY <1>2, <2>3, <2>4
<1> HIDE DEF kept, k
<1>8. \A i \in 1 .. k : i \in 1 .. n
  BY <1>2, <1>7
<1>9. ASSUME NEW i \in 1 .. k
      PROVE  c[i] \in Bucket /\ c[i].time = b[i].time /\ c[i].amount = left[i]
  <2>1. b[i] \in Bucket /\ left[i] \in Int
    BY <1>3, <1>6, <1>8
  <2>2. c[i] = [b[i] EXCEPT !.amount = left[i]]
    OBVIOUS
  <2> HIDE DEF c
  <2> QED
    BY <2>1, <2>2 DEF Bucket
<1>10. c \in Seq(Bucket) /\ Len(c) = k
  <2>1. c = [i \in 1 .. k |-> c[i]] /\ k \in Nat
    BY <1>2, <1>7
  <2> HIDE DEF c
  <2>2. c \in [1 .. k -> Bucket]
    BY <1>9, <2>1
  <2> QED
    BY <2>1, <2>2
<1> HIDE DEF c
<1>11. \A i \in 1 .. k : c[i].amount >= 0 /\ c[i].time \in Times
  BY <1>3, <1>6, <1>8, <1>9
<1>12. ASSUME NEW i \in 1 .. k - 1 PROVE c[i].time < c[i + 1].time
  <2>1. i \in 1 .. k /\ i + 1 \in 1 .. k /\ i \in 1 .. n - 1
    BY <1>2, <1>7
  <2> QED
    BY <1>4, <1>9, <2>1
<1> QED
  BY <1>1, <1>10, <1>11, <1>12 DEF BucketsIn

\* mvtosavings: the shares moved come from the youngest buckets and then from
\* the matured ones, and none is lost on the way.
THEOREM SavingKeepsRow ==
  ASSUME NEW t \in 0 .. MaxTime, NEW row, RowGood(row, t), NEW x \in Nat,
         NEW for_sale \in Nat, for_sale <= MovedToSavings(row, t, x).matured_rex
  PROVE  /\ RowGood(MovedToSavings(row, t, x), t)
         /\ MovedToSavings(row, t, x).vote_stake = row.vote_stake
         /\ MovedToSavings(row, t, x).rex_balance = row.rex_balance
<1>1. PICK open : open = process_rex_maturities(
                           [row EXCEPT !.rex_maturities = WithoutSavings(@)], t)
  OBVIOUS
<1>2. /\ OpenRow(open, t) /\ open.vote_stake = row.vote_stake
      /\ open.rex_balance = row.rex_balance
      /\ Savings(row.rex_maturities) \in Nat
      /\ open.matured_rex + InBuckets(open.rex_maturities) + Savings(row.rex_maturities)
           = row.matured_rex + InBuckets(row.rex_maturities)
  <2>1. row \in RexBalance /\ row.matured_rex >= 0
        /\ BucketsIn(row.rex_maturities, UpTo(t) \cup {EndOfDays})
    BY DEF RowGood
  <2> QED
    BY <1>1, <2>1, RowOpened
<1>3. open \in RexBalance /\ BucketsIn(open.rex_maturities, UpTo(t))
  BY <1>2 DEF OpenRow
<1>4. InBuckets(open.rex_maturities) \in Int /\ open.matured_rex \in Int
  BY <1>3, InBucketsNat DEF RexBalance
<1>5. BucketsIn(TakeFromBack(open.rex_maturities, x), UpTo(t))
  BY <1>3, TakenFromBack
<1>6. PICK taken \in Seq(Bucket) : taken = TakeFromBack(open.rex_maturities, x)
  BY <1>5 DEF BucketsIn
<1>7. BucketsIn(taken, UpTo(t)) /\ InBuckets(taken) \in Int
  BY <1>5, <1>6, InBucketsNat
<1>8. PICK left \in Int :
         left = open.matured_rex
                - (x - (InBuckets(open.rex_maturities) - InBuckets(taken)))
  BY <1>4, <1>7
<1>9. PICK filled : filled = WithShares(open, left, taken)
  OBVIOUS
<1>10. PICK savings \in Nat : savings = Savings(row.rex_maturities) + x
  BY <1>2
<1>11. PICK after : after = put_rex_savings(filled, savings)
  OBVIOUS
<1>12. MovedToSavings(row, t, x) = after
  <2>1. filled = [open EXCEPT !.rex_maturities = taken, !.matured_rex = left]
    BY <1>3, <1>9 DEF WithShares, RexBalance
  <2>2. MovedToSavings(row, t, x)
          = put_rex_savings([open EXCEPT !.rex_maturities = taken,
              !.matured_rex = open.matured_rex
                - (x - (InBuckets(open.rex_maturities) - InBuckets(taken)))], savings)
    BY <1>1, <1>6, <1>10 DEF MovedToSavings
  <2> QED
    BY <1>8, <1>11, <2>1, <2>2
<1>13. /\ filled \in RexBalance /\ filled.vote_stake = open.vote_stake
       /\ filled.rex_balance = open.rex_balance
       /\ filled.matured_rex = left /\ filled.rex_maturities = taken
  BY <1>3, <1>9, SharesSet
<1>14. after.matured_rex = filled.matured_rex
  BY <1>11, <1>13 DEF put_rex_savings, RexBalance
<1>15. OpenRow(filled, t)
  <2>1. for_sale <= left
    <3>1. after.matured_rex = left /\ for_sale <= after.matured_rex
      BY <1>12, <1>13, <1>14
    <3> QED
      BY <3>1
  <2> QED
    BY <1>7, <1>8, <1>13, <2>1 DEF OpenRow
<1>16. /\ after \in RexBalance /\ BucketsIn(after.rex_maturities, UpTo(t) \cup {EndOfDays})
       /\ after.vote_stake = filled.vote_stake
       /\ after.rex_balance = filled.rex_balance /\ after.matured_rex = filled.matured_rex
       /\ InBuckets(after.rex_maturities) = InBuckets(filled.rex_maturities) + savings
  <2>1. SavedRow(after, filled, t, savings)
    BY <1>11, <1>15, SavingsPut
  <2> QED
    BY <2>1 DEF SavedRow
<1>17. row.rex_balance = row.matured_rex + InBuckets(row.rex_maturities)
  BY DEF RowGood
<1>18. after.rex_balance = after.matured_rex + InBuckets(after.rex_maturities)
  <2>1. /\ after.rex_balance = open.rex_balance /\ after.matured_rex = left
        /\ InBuckets(after.rex_maturities) = InBuckets(taken) + savings
    BY <1>13, <1>16
  <2>2. open.rex_balance
          = open.matured_rex + InBuckets(open.rex_maturities) + Savings(row.rex_maturities)
    BY <1>2, <1>17
  <2>3. PICK m \in Int, b \in Int, s \in Int, k \in Int :
          /\ m = open.matured_rex /\ b = InBuckets(open.rex_maturities)
          /\ s = Savings(row.rex_maturities) /\ k = InBuckets(taken)
    BY <1>2, <1>4, <1>7
  <2>4. left = m - (x - (b - k)) /\ savings = s + x
    BY <1>8, <1>10, <2>3
  <2>5. m + b + s = left + (k + savings)
    BY <2>4
  <2> QED
    BY <2>1, <2>2, <2>3, <2>5
<1>19. RowGood(after, t)
  BY <1>15, <1>16, <1>18 DEF RowGood, OpenRow
<1>20. after.vote_stake = row.vote_stake /\ after.rex_balance = row.rex_balance
  BY <1>2, <1>13, <1>16
<1> QED
  BY <1>12, <1>19, <1>20, Zenon

\* mvfrsavings: shares taken out of the savings mature a day's term from now.
THEOREM UnsavingKeepsRow ==
  ASSUME NEW t \in 0 .. MaxTime, NEW row, RowGood(row, t), NEW x \in Nat,
         x <= Savings(row.rex_maturities)
  PROVE  /\ RowGood(MovedFromSavings(row, t, x), t)
         /\ MovedFromSavings(row, t, x).vote_stake = row.vote_stake
         /\ MovedFromSavings(row, t, x).rex_balance = row.rex_balance
         /\ MovedFromSavings(row, t, x).matured_rex >= row.matured_rex
<1>1. PICK open : open = process_rex_maturities(
                           [row EXCEPT !.rex_maturities = WithoutSavings(@)], t)
  OBVIOUS
<1>2. /\ OpenRow(open, t) /\ open.vote_stake = row.vote_stake
      /\ open.rex_balance = row.rex_balance /\ open.matured_rex >= row.matured_rex
      /\ Savings(row.rex_maturities) \in Nat
      /\ open.matured_rex + InBuckets(open.rex_maturities) + Savings(row.rex_maturities)
           = row.matured_rex + InBuckets(row.rex_maturities)
  <2>1. row \in RexBalance /\ row.matured_rex >= 0
        /\ BucketsIn(row.rex_maturities, UpTo(t) \cup {EndOfDays})
    BY DEF RowGood
  <2> QED
    BY <1>1, <2>1, RowOpened
<1>3. PICK savings \in Nat : savings = Savings(row.rex_maturities) - x
  BY <1>2
<1>4. PICK filled : filled = Today(open, t, x)
  OBVIOUS
<1>5. PICK after : after = put_rex_savings(filled, savings)
  OBVIOUS
<1>6. MovedFromSavings(row, t, x) = after
  BY <1>1, <1>3, <1>4, <1>5 DEF MovedFromSavings, Today
<1>7. OpenRow(open, t)
  BY <1>2
<1>8. /\ OpenRow(filled, t) /\ filled.vote_stake = open.vote_stake
      /\ filled.rex_balance = open.rex_balance /\ filled.matured_rex = open.matured_rex
      /\ InBuckets(filled.rex_maturities) = InBuckets(open.rex_maturities) + x
  BY <1>4, <1>7, AddedToday
<1>9. /\ after \in RexBalance /\ BucketsIn(after.rex_maturities, UpTo(t) \cup {EndOfDays})
      /\ after.vote_stake = filled.vote_stake
      /\ after.rex_balance = filled.rex_balance /\ after.matured_rex = filled.matured_rex
      /\ InBuckets(after.rex_maturities) = InBuckets(filled.rex_maturities) + savings
  <2>1. OpenRow(filled, t)
    BY <1>8
  <2> QED
    BY <1>5, <2>1, SavingsPut DEF SavedRow
<1>10. /\ row.matured_rex \in Int /\ open.matured_rex \in Int
       /\ InBuckets(open.rex_maturities) \in Int
       /\ row.rex_balance = row.matured_rex + InBuckets(row.rex_maturities)
       /\ row.matured_rex >= 0
  BY <1>2, InBucketsNat DEF OpenRow, RexBalance, RowGood
<1>11. RowGood(after, t) /\ after.matured_rex >= row.matured_rex
  BY <1>2, <1>3, <1>8, <1>9, <1>10 DEF RowGood
<1> QED
  BY <1>2, <1>6, <1>8, <1>9, <1>11

(***************************************************************************)
(* The record of all tables, and what the helpers do to it.                *)
(***************************************************************************)
\* The tables, with rows of their types.
Db == [tokens : [Holders -> Int], userres : [Accounts -> Weight],
       voters : [Accounts -> VoterInfo \cup {NoRow}], pool : Pool \cup {NoRow},
       fund : [Accounts -> Nat \cup {NoRow}], bal : [Accounts -> RexBalance \cup {NoRow}],
       order : [Accounts -> RexOrder \cup {NoRow}], loan : [LoanIds -> RexLoan \cup {NoRow}],
       ok : BOOLEAN]

\* The entries of the sums.
SharesOf(db, a) == IF db.bal[a] = NoRow THEN 0 ELSE db.bal[a].rex_balance

ClaimOf(db, a) == FundOf(db, a) + (IF IsFilled(db, a) THEN db.order[a].proceeds ELSE 0)

LoanFund(db, i) == IF db.loan[i] = NoRow THEN 0 ELSE db.loan[i].balance

LoanStake(db, i) == IF db.loan[i] = NoRow THEN 0 ELSE db.loan[i].total_staked

StakeTo(db, i, a, r) ==
  IF db.loan[i] # NoRow /\ db.loan[i].receiver = a /\ db.loan[i].kind = r
  THEN db.loan[i].total_staked ELSE 0

\* Each part of a db.
LEMMA DbFields ==
  ASSUME NEW db \in Db
  PROVE  /\ db.tokens \in [Holders -> Int]
         /\ db.userres \in [Accounts -> Weight]
         /\ db.voters \in [Accounts -> VoterInfo \cup {NoRow}]
         /\ db.pool \in Pool \cup {NoRow}
         /\ db.fund \in [Accounts -> Nat \cup {NoRow}]
         /\ db.bal \in [Accounts -> RexBalance \cup {NoRow}]
         /\ db.order \in [Accounts -> RexOrder \cup {NoRow}]
         /\ db.loan \in [LoanIds -> RexLoan \cup {NoRow}]
         /\ db.ok \in BOOLEAN
  BY DEF Db

\* The row that does not exist is not one of the rows that do.
LEMMA NoRowIsNone ==
  /\ NoRow \notin Nat
  /\ NoRow \notin Pool
  /\ NoRow \notin RexBalance
  /\ NoRow \notin RexOrder
  /\ NoRow \notin RexLoan
  /\ NoRow \notin VoterInfo
  BY RexAssumption, StakingAssumption DEF RexAssumption, StakingAssumption

\* The entries are numbers, and the index sets are finite.
LEMMA EntriesAreInts ==
  ASSUME NEW db \in Db
  PROVE  /\ \A a \in Accounts : SharesOf(db, a) \in Int /\ ClaimOf(db, a) \in Int
         /\ \A a \in Accounts : FundOf(db, a) \in Nat
         /\ \A i \in LoanIds : LoanFund(db, i) \in Int /\ LoanStake(db, i) \in Int
         /\ \A i \in LoanIds : \A a \in Accounts : \A r \in Resource : StakeTo(db, i, a, r) \in Int
         /\ IsFiniteSet(Accounts) /\ IsFiniteSet(LoanIds)
<1>1. \A a \in Accounts : SharesOf(db, a) \in Int
  BY DbFields DEF SharesOf, RexBalance
<1>2. \A a \in Accounts : FundOf(db, a) \in Nat
  BY DbFields DEF FundOf
<1>3. \A a \in Accounts : ClaimOf(db, a) \in Int
  BY <1>2, DbFields DEF ClaimOf, IsFilled, RexOrder
<1>4. \A i \in LoanIds : LoanFund(db, i) \in Int /\ LoanStake(db, i) \in Int
  BY DbFields DEF LoanFund, LoanStake, RexLoan
<1>5. \A i \in LoanIds : \A a \in Accounts : \A r \in Resource : StakeTo(db, i, a, r) \in Int
  BY DbFields DEF StakeTo, RexLoan
<1>6. IsFiniteSet(Accounts) /\ MaxLoans \in Nat
  BY StakingAssumption, RexAssumption DEF StakingAssumption, RexAssumption
<1>7. IsFiniteSet(LoanIds)
  BY <1>6, FS_Interval DEF LoanIds
<1> QED
  BY <1>1, <1>2, <1>3, <1>4, <1>5, <1>6, <1>7

\* The sums are sums of the entries.
LEMMA SumsOfEntries ==
  ASSUME NEW db \in Db
  PROVE  /\ SharesOut(db) = SumFunctionOnSet([a \in Accounts |-> SharesOf(db, a)], Accounts)
         /\ Claims(db) = SumFunctionOnSet([a \in Accounts |-> ClaimOf(db, a)], Accounts)
         /\ LoanFunds(db) = SumFunctionOnSet([i \in LoanIds |-> LoanFund(db, i)], LoanIds)
         /\ LoanStakes(db) = SumFunctionOnSet([i \in LoanIds |-> LoanStake(db, i)], LoanIds)
         /\ \A a, r : LentTo(db, a, r)
                        = SumFunctionOnSet([i \in LoanIds |-> StakeTo(db, i, a, r)], LoanIds)
  BY DEF SharesOut, Claims, LoanFunds, LoanStakes, LentTo,
         SharesOf, ClaimOf, LoanFund, LoanStake, StakeTo

\* They are numbers.
LEMMA SumsAreInts ==
  ASSUME NEW db \in Db
  PROVE  /\ SharesOut(db) \in Int
         /\ Claims(db) \in Int
         /\ LoanFunds(db) \in Int
         /\ LoanStakes(db) \in Int
         /\ \A a \in Accounts : \A r \in Resource : LentTo(db, a, r) \in Int
<1> DEFINE s == [a \in Accounts |-> SharesOf(db, a)]
           c == [a \in Accounts |-> ClaimOf(db, a)]
           f == [i \in LoanIds |-> LoanFund(db, i)]
           k == [i \in LoanIds |-> LoanStake(db, i)]
           e(a, r) == [i \in LoanIds |-> StakeTo(db, i, a, r)]
<1>1. /\ s \in [Accounts -> Int] /\ c \in [Accounts -> Int]
      /\ f \in [LoanIds -> Int] /\ k \in [LoanIds -> Int]
      /\ \A a \in Accounts : \A r \in Resource : e(a, r) \in [LoanIds -> Int]
      /\ IsFiniteSet(Accounts) /\ IsFiniteSet(LoanIds)
  BY EntriesAreInts
<1>2. /\ SharesOut(db) = SumFunctionOnSet(s, Accounts) /\ Claims(db) = SumFunctionOnSet(c, Accounts)
      /\ LoanFunds(db) = SumFunctionOnSet(f, LoanIds) /\ LoanStakes(db) = SumFunctionOnSet(k, LoanIds)
      /\ \A a, r : LentTo(db, a, r) = SumFunctionOnSet(e(a, r), LoanIds)
  BY SumsOfEntries
<1> HIDE DEF s, c, f, k, e
<1> QED
  BY <1>1, <1>2, SumIsInt

\* One owner's shares change.
LEMMA SharesChange ==
  ASSUME NEW db \in Db, NEW d \in Db, NEW a \in Accounts,
         \A b \in Accounts \ {a} : d.bal[b] = db.bal[b]
  PROVE  SharesOut(d) = SharesOut(db) + (SharesOf(d, a) - SharesOf(db, a))
<1> DEFINE f == [b \in Accounts |-> SharesOf(db, b)]
           h == [b \in Accounts |-> SharesOf(d, b)]
<1>1. PICK x \in Int : x = SharesOf(d, a) - SharesOf(db, a)
  BY EntriesAreInts
<1>2. f \in [Accounts -> Int] /\ h \in [Accounts -> Int] /\ IsFiniteSet(Accounts)
  BY EntriesAreInts
<1>3. h[a] = f[a] + x
  BY <1>1, EntriesAreInts
<1>4. \A b \in Accounts \ {a} : h[b] = f[b]
  BY DEF SharesOf
<1>5. SharesOut(db) = SumFunctionOnSet(f, Accounts) /\ SharesOut(d) = SumFunctionOnSet(h, Accounts)
  BY SumsOfEntries
<1> HIDE DEF f, h
<1>6. SumFunctionOnSet(h, Accounts) = SumFunctionOnSet(f, Accounts) + x
  BY <1>2, <1>3, <1>4, SumUpdate
<1> QED
  BY <1>1, <1>5, <1>6

\* One owner's claim changes.
LEMMA ClaimsChange ==
  ASSUME NEW db \in Db, NEW d \in Db, NEW a \in Accounts,
         \A b \in Accounts \ {a} : d.fund[b] = db.fund[b] /\ d.order[b] = db.order[b]
  PROVE  Claims(d) = Claims(db) + (ClaimOf(d, a) - ClaimOf(db, a))
<1> DEFINE f == [b \in Accounts |-> ClaimOf(db, b)]
           h == [b \in Accounts |-> ClaimOf(d, b)]
<1>1. PICK x \in Int : x = ClaimOf(d, a) - ClaimOf(db, a)
  BY EntriesAreInts
<1>2. f \in [Accounts -> Int] /\ h \in [Accounts -> Int] /\ IsFiniteSet(Accounts)
  BY EntriesAreInts
<1>3. h[a] = f[a] + x
  BY <1>1, EntriesAreInts
<1>4. \A b \in Accounts \ {a} : h[b] = f[b]
  BY DEF ClaimOf, FundOf, IsFilled
<1>5. Claims(db) = SumFunctionOnSet(f, Accounts) /\ Claims(d) = SumFunctionOnSet(h, Accounts)
  BY SumsOfEntries
<1> HIDE DEF f, h
<1>6. SumFunctionOnSet(h, Accounts) = SumFunctionOnSet(f, Accounts) + x
  BY <1>2, <1>3, <1>4, SumUpdate
<1> QED
  BY <1>1, <1>5, <1>6

\* One loan changes.
LEMMA LoansChange ==
  ASSUME NEW db \in Db, NEW d \in Db, NEW j \in LoanIds,
         \A i \in LoanIds \ {j} : d.loan[i] = db.loan[i]
  PROVE  /\ LoanFunds(d) = LoanFunds(db) + (LoanFund(d, j) - LoanFund(db, j))
         /\ LoanStakes(d) = LoanStakes(db) + (LoanStake(d, j) - LoanStake(db, j))
         /\ \A a \in Accounts : \A r \in Resource :
              LentTo(d, a, r) = LentTo(db, a, r) + (StakeTo(d, j, a, r) - StakeTo(db, j, a, r))
<1>1. LoanFunds(d) = LoanFunds(db) + (LoanFund(d, j) - LoanFund(db, j))
  <2> DEFINE f == [i \in LoanIds |-> LoanFund(db, i)]
             h == [i \in LoanIds |-> LoanFund(d, i)]
  <2>1. PICK x \in Int : x = LoanFund(d, j) - LoanFund(db, j)
    BY EntriesAreInts
  <2>2. f \in [LoanIds -> Int] /\ h \in [LoanIds -> Int] /\ IsFiniteSet(LoanIds)
    BY EntriesAreInts
  <2>3. h[j] = f[j] + x
    BY <2>1, EntriesAreInts
  <2>4. \A i \in LoanIds \ {j} : h[i] = f[i]
    BY DEF LoanFund
  <2>5. LoanFunds(db) = SumFunctionOnSet(f, LoanIds) /\ LoanFunds(d) = SumFunctionOnSet(h, LoanIds)
    BY SumsOfEntries
  <2> HIDE DEF f, h
  <2>6. SumFunctionOnSet(h, LoanIds) = SumFunctionOnSet(f, LoanIds) + x
    BY <2>2, <2>3, <2>4, SumUpdate
  <2> QED
    BY <2>1, <2>5, <2>6
<1>2. LoanStakes(d) = LoanStakes(db) + (LoanStake(d, j) - LoanStake(db, j))
  <2> DEFINE f == [i \in LoanIds |-> LoanStake(db, i)]
             h == [i \in LoanIds |-> LoanStake(d, i)]
  <2>1. PICK x \in Int : x = LoanStake(d, j) - LoanStake(db, j)
    BY EntriesAreInts
  <2>2. f \in [LoanIds -> Int] /\ h \in [LoanIds -> Int] /\ IsFiniteSet(LoanIds)
    BY EntriesAreInts
  <2>3. h[j] = f[j] + x
    BY <2>1, EntriesAreInts
  <2>4. \A i \in LoanIds \ {j} : h[i] = f[i]
    BY DEF LoanStake
  <2>5. LoanStakes(db) = SumFunctionOnSet(f, LoanIds) /\ LoanStakes(d) = SumFunctionOnSet(h, LoanIds)
    BY SumsOfEntries
  <2> HIDE DEF f, h
  <2>6. SumFunctionOnSet(h, LoanIds) = SumFunctionOnSet(f, LoanIds) + x
    BY <2>2, <2>3, <2>4, SumUpdate
  <2> QED
    BY <2>1, <2>5, <2>6
<1>3. ASSUME NEW a \in Accounts, NEW r \in Resource
      PROVE  LentTo(d, a, r) = LentTo(db, a, r) + (StakeTo(d, j, a, r) - StakeTo(db, j, a, r))
  <2> DEFINE f == [i \in LoanIds |-> StakeTo(db, i, a, r)]
             h == [i \in LoanIds |-> StakeTo(d, i, a, r)]
  <2>1. PICK x \in Int : x = StakeTo(d, j, a, r) - StakeTo(db, j, a, r)
    BY EntriesAreInts
  <2>2. f \in [LoanIds -> Int] /\ h \in [LoanIds -> Int] /\ IsFiniteSet(LoanIds)
    BY EntriesAreInts
  <2>3. h[j] = f[j] + x
    BY <2>1, EntriesAreInts
  <2>4. \A i \in LoanIds \ {j} : h[i] = f[i]
    BY DEF StakeTo
  <2>5. LentTo(db, a, r) = SumFunctionOnSet(f, LoanIds) /\ LentTo(d, a, r) = SumFunctionOnSet(h, LoanIds)
    BY DEF LentTo, StakeTo
  <2> HIDE DEF f, h
  <2>6. SumFunctionOnSet(h, LoanIds) = SumFunctionOnSet(f, LoanIds) + x
    BY <2>2, <2>3, <2>4, SumUpdate
  <2> QED
    BY <2>1, <2>5, <2>6
<1> QED
  BY <1>1, <1>2, <1>3

\* The pool is consistent, and agrees with the shares held and with the loans.
PoolGood(db) ==
  /\ PoolOK(PoolOf(db))
  /\ PoolOf(db).loan_num >= 0
  /\ SharesOut(db) = PoolOf(db).total_rex
  /\ LoanStakes(db) = PoolOf(db).total_lent

\* Every owner's shares are each in one place.
RowsGood(db, t) == \A a \in Accounts : db.bal[a] # NoRow => RowGood(db.bal[a], t)

\* What filled orders will pay.
ProceedsGood(db) == \A a \in Accounts : IsFilled(db, a) => db.order[a].proceeds >= 0

\* An open loan, and that numbers of loans are not used twice.
LoanGood(db, i) ==
  db.loan[i] # NoRow =>
    /\ db.loan[i].balance >= 0
    /\ db.loan[i].payment > 0
    /\ db.loan[i].total_staked > 0
    /\ i <= PoolOf(db).loan_num

\* An open loan has an owner with a row to pay its balance to, and runs out within
\* a term: from now, and from when any of the orders that wait was queued.
TimelyLoan(db, i, t) ==
  db.loan[i] # NoRow =>
    /\ db.fund[db.loan[i].from] # NoRow
    /\ db.loan[i].expiration <= t + LoanTerm
    /\ \A a \in Accounts :
         IsOpen(db, a) => db.loan[i].expiration <= db.order[a].order_time + LoanTerm

Timely(db, t) == \A i \in LoanIds : TimelyLoan(db, i, t)

\* What holds of the tables before and after each helper.
Good(db, t) ==
  /\ db \in Db
  /\ PoolGood(db)
  /\ RowsGood(db, t)
  /\ ProceedsGood(db)
  /\ \A i \in LoanIds : LoanGood(db, i)
  /\ Timely(db, t)

\* The owner's order, while open, asks for no more than has matured.
Covers(db, a) ==
  IsOpen(db, a) => /\ db.bal[a] # NoRow
                   /\ 0 < db.order[a].rex_requested
                   /\ db.order[a].rex_requested <= db.bal[a].matured_rex

Voting(db, a) == db.voters[a] # NoRow /\ db.voters[a].votes

Holding(db, a) == db.bal[a] # NoRow /\ db.bal[a].rex_balance > 0

VotesOK(db) == \A a \in Accounts : Holding(db, a) => Voting(db, a)

NamesOK(db) ==
  PoolOf(db).namebid_proceeds > 0 =>
    PoolOf(db).total_rex > 0 /\ db.tokens[NamesAccount] >= PoolOf(db).namebid_proceeds

\* The tokens of eosio.rex that nobody has a claim to: none, between actions.
Surplus(db) == db.tokens[RexAccount] - (Claims(db) + LoanFunds(db) + PoolOf(db).total_lendable)

\* An account's totals, less what was lent to it.
Unlent(db, a, r) == db.userres[a][r] - LentTo(db, a, r)

\* What helpers keep: all but x of the tokens stay accounted for, what accounts
\* have beside loans, the tokens of eosio.stake, the votes of owners, the proceeds
\* of names that are pending, and the value of a share.
Keeps(db, d, x) ==
  /\ Surplus(d) = Surplus(db) + x
  /\ \A a \in Accounts : \A r \in Resource : Unlent(d, a, r) = Unlent(db, a, r)
  /\ d.tokens[StakeAccount] = db.tokens[StakeAccount]
  /\ VotesOK(db) => VotesOK(d)
  /\ NamesOK(db) => NamesOK(d)
  /\ PoolOf(d).total_rex > 0 => NotCheaper(PoolOf(db), PoolOf(d))

\* No shares appear in an empty pool.
StaysEmpty(db, d) == PoolOf(db).total_rex = 0 => PoolOf(d).total_rex = 0

\* The pool's row has numbers.
LEMMA PoolOfType ==
  ASSUME NEW db \in Db
  PROVE  PoolOf(db) \in Pool
<1>1. EmptyPool \in Pool
  BY DEF EmptyPool, Pool
<1> QED
  BY <1>1, DbFields DEF PoolOf

\* The surplus and the rest are numbers.
LEMMA SurplusIsInt ==
  ASSUME NEW db \in Db
  PROVE  /\ Surplus(db) \in Int
         /\ \A h \in Holders : db.tokens[h] \in Int
         /\ RexAccount \in Holders /\ NamesAccount \in Holders /\ StakeAccount \in Holders
         /\ Accounts \subseteq Holders
<1>1. /\ RexAccount \in Holders /\ NamesAccount \in Holders /\ StakeAccount \in Holders
      /\ Accounts \subseteq Holders
  BY RexAssumption DEF RexAssumption, Holders
<1>2. \A h \in Holders : db.tokens[h] \in Int
  BY DbFields
<1>3. PoolOf(db).total_lendable \in Int
  BY PoolOfType DEF Pool
<1> QED
  BY <1>1, <1>2, <1>3, SumsAreInts DEF Surplus

\* The system accounts differ from each other and from the users.
LEMMA HoldersDiffer ==
  /\ RexAccount # NamesAccount /\ RexAccount # StakeAccount /\ NamesAccount # StakeAccount
  /\ RexAccount \notin Accounts /\ NamesAccount \notin Accounts /\ StakeAccount \notin Accounts
  BY RexAssumption, StakingAssumption DEF RexAssumption, StakingAssumption

\* The value of a share compares transitively, while there are shares.
LEMMA CheaperChain ==
  ASSUME NEW p, NEW q, NEW s, PoolOK(p), PoolOK(q), PoolOK(s), q.total_rex > 0,
         NotCheaper(p, q), NotCheaper(q, s)
  PROVE  NotCheaper(p, s)
<1>1. /\ p.total_lendable \in Nat /\ q.total_lendable \in Nat /\ s.total_lendable \in Nat
      /\ p.total_rex \in Nat /\ q.total_rex \in Nat /\ s.total_rex \in Nat
  BY PoolFields DEF PoolOK
<1>2. PICK lp \in Nat, lq \in Nat, ls \in Nat, rp \in Nat, rq \in Nat, rs \in Nat :
        /\ lp = p.total_lendable /\ lq = q.total_lendable /\ ls = s.total_lendable
        /\ rp = p.total_rex /\ rq = q.total_rex /\ rs = s.total_rex
  BY <1>1
<1>3. lq * rp >= lp * rq /\ ls * rq >= lq * rs /\ rq > 0
  BY <1>2 DEF NotCheaper
<1>4. rs * (lp * rq) <= rs * (lq * rp)
  <2>1. lp * rq \in Int /\ lq * rp \in Int
    BY SMT
  <2> QED
    BY <1>3, <2>1, Grows
<1>5. rp * (lq * rs) <= rp * (ls * rq)
  <2>1. lq * rs \in Int /\ ls * rq \in Int
    BY SMT
  <2> QED
    BY <1>3, <2>1, Grows
<1>6. /\ rs * (lp * rq) = rq * (lp * rs)
      /\ rs * (lq * rp) = rp * (lq * rs)
      /\ rp * (ls * rq) = rq * (ls * rp)
  BY SMT
<1>7. /\ rq * (lp * rs) \in Int /\ rp * (lq * rs) \in Int /\ rq * (ls * rp) \in Int
      /\ lp * rs \in Int /\ ls * rp \in Int
  BY SMT
<1>8. rq * (lp * rs) <= rq * (ls * rp)
  BY <1>4, <1>5, <1>6, <1>7
<1>9. lp * rs <= ls * rp
  BY <1>3, <1>7, <1>8, CancelFactor
<1> QED
  BY <1>2, <1>7, <1>9 DEF NotCheaper

\* A share is worth what it is worth.
LEMMA CheaperSame ==
  ASSUME NEW p, PoolOK(p)
  PROVE  NotCheaper(p, p)
<1>1. p.total_lendable \in Int /\ p.total_rex \in Int
  BY PoolFields DEF PoolOK
<1> QED
  BY <1>1, SMT DEF NotCheaper

\* One helper after another.
LEMMA KeepsChain ==
  ASSUME NEW t, NEW db, NEW d, NEW e, Good(db, t), Good(d, t), Good(e, t), NEW x \in Int, NEW y \in Int,
         Keeps(db, d, x), Keeps(d, e, y), StaysEmpty(d, e)
  PROVE  Keeps(db, e, x + y)
<1>1. db \in Db /\ d \in Db /\ e \in Db
  BY DEF Good
<1>2. Surplus(db) \in Int /\ Surplus(d) \in Int /\ Surplus(e) \in Int
  BY <1>1, SurplusIsInt
<1>3. Surplus(e) = Surplus(db) + (x + y)
  BY <1>2 DEF Keeps
<1>4. /\ \A a \in Accounts : \A r \in Resource : Unlent(e, a, r) = Unlent(db, a, r)
      /\ e.tokens[StakeAccount] = db.tokens[StakeAccount]
      /\ VotesOK(db) => VotesOK(e)
      /\ NamesOK(db) => NamesOK(e)
  BY DEF Keeps
<1>5. PoolOf(e).total_rex > 0 => NotCheaper(PoolOf(db), PoolOf(e))
  <2>1. PoolOK(PoolOf(db)) /\ PoolOK(PoolOf(d)) /\ PoolOK(PoolOf(e))
    BY DEF Good, PoolGood
  <2>2. PoolOf(d).total_rex \in Nat /\ PoolOf(e).total_rex \in Nat
    BY <2>1, PoolFields DEF PoolOK
  <2>3. PoolOf(e).total_rex > 0 => PoolOf(d).total_rex > 0
    BY <2>2 DEF StaysEmpty
  <2> QED
    BY <2>1, <2>3, CheaperChain DEF Keeps
<1> QED
  BY <1>3, <1>4, <1>5 DEF Keeps

\* Orders that are open were open, and were queued when they were.
OrdersStay(db, d) ==
  \A a \in Accounts :
    IsOpen(d, a) => IsOpen(db, a) /\ d.order[a].order_time = db.order[a].order_time

\* No row of a fund goes.
FundsStay(db, d) == \A a \in Accounts : db.fund[a] # NoRow => d.fund[a] # NoRow

\* As when nothing is done to them.
LEMMA SameStay ==
  ASSUME NEW db, NEW d
  PROVE  /\ d.order = db.order => OrdersStay(db, d)
         /\ d.fund = db.fund => FundsStay(db, d)
  BY DEF OrdersStay, FundsStay, IsOpen

\* Then open loans stay in time, if no more of them are open.
LEMMA TimelyStays ==
  ASSUME NEW t, NEW db \in Db, Timely(db, t), NEW d, OrdersStay(db, d), FundsStay(db, d),
         \A i \in LoanIds : d.loan[i] # NoRow =>
           /\ db.loan[i] # NoRow /\ d.loan[i].from = db.loan[i].from
           /\ d.loan[i].expiration = db.loan[i].expiration
  PROVE  Timely(d, t)
<1>1. ASSUME NEW i \in LoanIds, d.loan[i] # NoRow
      PROVE  /\ d.fund[d.loan[i].from] # NoRow /\ d.loan[i].expiration <= t + LoanTerm
             /\ \A a \in Accounts :
                  IsOpen(d, a) => d.loan[i].expiration <= d.order[a].order_time + LoanTerm
  <2>1. /\ db.loan[i] # NoRow /\ d.loan[i].from = db.loan[i].from
        /\ d.loan[i].expiration = db.loan[i].expiration
    BY <1>1
  <2>2. db.loan[i].from \in Accounts
    BY <2>1, DbFields DEF RexLoan
  <2> QED
    BY <2>1, <2>2 DEF Timely, TimelyLoan, OrdersStay, FundsStay
<1> QED
  BY <1>1 DEF Timely, TimelyLoan

\* Only funds, orders, balances of tokens and rows of voters differ, and the claims
\* grew by x less than the tokens.
Aside(db, d, x) ==
  /\ d \in Db
  /\ d.pool = db.pool /\ d.bal = db.bal /\ d.loan = db.loan /\ d.userres = db.userres
  /\ d.tokens[StakeAccount] = db.tokens[StakeAccount]
  /\ d.tokens[NamesAccount] = db.tokens[NamesAccount]
  /\ \A a \in Accounts : Voting(db, a) => Voting(d, a)
  /\ ProceedsGood(d)
  /\ d.tokens[RexAccount] - Claims(d) = (db.tokens[RexAccount] - Claims(db)) + x
  /\ FundsStay(db, d)

\* And no order was opened.
Apart(db, d, x) == Aside(db, d, x) /\ OrdersStay(db, d)

\* Such a step keeps everything, while loans stay in time.
LEMMA AsideKeeps ==
  ASSUME NEW t, NEW db, NEW d, Good(db, t), NEW x \in Int, Aside(db, d, x), Timely(d, t)
  PROVE  Good(d, t) /\ Keeps(db, d, x) /\ StaysEmpty(db, d)
<1>1. /\ db \in Db /\ d \in Db
      /\ d.pool = db.pool /\ d.bal = db.bal /\ d.loan = db.loan /\ d.userres = db.userres
  BY DEF Good, Aside
<1>2. /\ PoolOf(d) = PoolOf(db)
      /\ SharesOut(d) = SharesOut(db)
      /\ LoanFunds(d) = LoanFunds(db) /\ LoanStakes(d) = LoanStakes(db)
      /\ \A a \in Accounts : \A r \in Resource : LentTo(d, a, r) = LentTo(db, a, r)
  BY <1>1 DEF PoolOf, SharesOut, LoanFunds, LoanStakes, LentTo
<1>3. Good(d, t)
  <2>1. PoolGood(d)
    BY <1>2 DEF Good, PoolGood
  <2>2. RowsGood(d, t)
    BY <1>1 DEF Good, RowsGood
  <2>3. \A i \in LoanIds : LoanGood(d, i)
    BY <1>1, <1>2 DEF Good, LoanGood
  <2> QED
    BY <1>1, <2>1, <2>2, <2>3 DEF Good, Aside
<1>4. Surplus(d) = Surplus(db) + x
  <2>1. /\ d.tokens[RexAccount] \in Int /\ db.tokens[RexAccount] \in Int
        /\ Claims(d) \in Int /\ Claims(db) \in Int /\ LoanFunds(db) \in Int
    BY <1>1, SurplusIsInt, SumsAreInts
  <2>2. PoolOf(db).total_lendable \in Int
    BY <1>1, PoolOfType DEF Pool
  <2>3. d.tokens[RexAccount] - Claims(d) = (db.tokens[RexAccount] - Claims(db)) + x
    BY DEF Aside
  <2>4. PICK td \in Int, tb \in Int, cd \in Int, cb \in Int, f \in Int, l \in Int :
          /\ td = d.tokens[RexAccount] /\ tb = db.tokens[RexAccount]
          /\ cd = Claims(d) /\ cb = Claims(db)
          /\ f = LoanFunds(db) /\ l = PoolOf(db).total_lendable
    BY <2>1, <2>2
  <2>5. Surplus(d) = td - (cd + f + l) /\ Surplus(db) = tb - (cb + f + l)
    BY <1>2, <2>4 DEF Surplus
  <2>6. td - cd = (tb - cb) + x
    BY <2>3, <2>4
  <2> QED
    BY <2>5, <2>6
<1>5. \A a \in Accounts : \A r \in Resource : Unlent(d, a, r) = Unlent(db, a, r)
  BY <1>1, <1>2 DEF Unlent
<1>6. d.tokens[StakeAccount] = db.tokens[StakeAccount]
  BY DEF Aside
<1>7. VotesOK(db) => VotesOK(d)
  <2>1. \A a \in Accounts : Holding(d, a) => Holding(db, a)
    BY <1>1 DEF Holding
  <2>2. \A a \in Accounts : Voting(db, a) => Voting(d, a)
    BY DEF Aside
  <2> QED
    BY <2>1, <2>2 DEF VotesOK
<1>8. NamesOK(db) => NamesOK(d)
  BY <1>2 DEF NamesOK, Aside
<1>9. NotCheaper(PoolOf(db), PoolOf(d))
  BY <1>2, CheaperSame DEF Good, PoolGood
<1> QED
  BY <1>2, <1>3, <1>4, <1>5, <1>6, <1>7, <1>8, <1>9 DEF Keeps, StaysEmpty

\* As they do when no order is opened.
LEMMA ApartKeeps ==
  ASSUME NEW t, NEW db, NEW d, Good(db, t), NEW x \in Int, Apart(db, d, x)
  PROVE  Good(d, t) /\ Keeps(db, d, x) /\ StaysEmpty(db, d)
<1>1. db \in Db /\ Timely(db, t)
  BY DEF Good
<1>2. OrdersStay(db, d) /\ FundsStay(db, d) /\ d.loan = db.loan /\ Aside(db, d, x)
  BY DEF Apart, Aside
<1>3. Timely(d, t)
  BY <1>1, <1>2, TimelyStays
<1> QED
  BY <1>2, <1>3, AsideKeeps

\* A check inside a helper: what failed before has failed, and d has the tables.
Carries(db, d) == "ok" \in DOMAIN d /\ (d.ok => db.ok)

HasOk(db) == "ok" \in DOMAIN db

\* Tables say whether a check has failed.
LEMMA DbHasOk ==
  ASSUME NEW db \in Db
  PROVE  HasOk(db)
  BY DEF Db, HasOk

\* No helper makes a failed check good.
LEMMA HelpersCarry ==
  ASSUME NEW db, HasOk(db)
  PROVE  /\ \A c : Carries(db, Require(db, c))
         /\ \A from, to, x : Carries(db, TokensMoved(db, from, to, x))
         /\ \A a, x : Carries(db, transfer_from_fund(db, a, x))
         /\ \A a, x : Carries(db, transfer_to_fund(db, a, x))
         /\ \A a, k, x : Carries(db, update_resource_limits(db, a, k, x))
         /\ \A a, x : Carries(db, update_voting_power(db, a, x))
         /\ \A a : Carries(db, EraseOrder(db, a))
<1>1. \A c : Carries(db, Require(db, c))
  BY DEF Carries, HasOk, Require
<1>2. \A from, to, x : Carries(db, TokensMoved(db, from, to, x))
  <2> TAKE from, to, x
  <2>1. PICK r : r = Require(db, db.tokens[from] >= x)
    OBVIOUS
  <2>2. "ok" \in DOMAIN r /\ (r.ok => db.ok)
    BY <2>1 DEF Require, HasOk
  <2>3. TokensMoved(db, from, to, x) =
          [r EXCEPT !.tokens[from] = r.tokens[from] - x, !.tokens[to] = r.tokens[to] + x]
    BY <2>1, Zenon DEF TokensMoved
  <2> QED
    BY <2>2, <2>3 DEF Carries
<1>3. \A a, x : Carries(db, transfer_from_fund(db, a, x))
  BY DEF Carries, HasOk, Require, transfer_from_fund
<1>4. \A a, x : Carries(db, transfer_to_fund(db, a, x))
  BY DEF Carries, HasOk, Require, transfer_to_fund
<1>5. \A a, k, x : Carries(db, update_resource_limits(db, a, k, x))
  BY DEF Carries, HasOk, Require, update_resource_limits
<1>6. \A a, x : Carries(db, update_voting_power(db, a, x))
  BY DEF Carries, HasOk, Require, update_voting_power
<1>7. \A a : Carries(db, EraseOrder(db, a))
  BY DEF Carries, HasOk, EraseOrder
<1> QED
  BY <1>1, <1>2, <1>3, <1>4, <1>5, <1>6, <1>7

\* Nor does update_rex_account.
LEMMA AccountCarries ==
  ASSUME NEW db, HasOk(db), NEW owner, NEW proceeds, NEW delta, NEW force
  PROVE  Carries(db, update_rex_account(db, owner, proceeds, delta, force))
<1> DEFINE filled == IsFilled(db, owner)
           to_fund == proceeds + (IF filled THEN db.order[owner].proceeds ELSE 0)
           to_stake == delta + (IF filled THEN db.order[owner].stake_change ELSE 0)
<1>1. PICK erased : erased = IF filled THEN EraseOrder(db, owner) ELSE db
  OBVIOUS
<1>2. PICK funded : funded = IF to_fund > 0 THEN transfer_to_fund(erased, owner, to_fund) ELSE erased
  OBVIOUS
<1>3. PICK d : d = IF force \/ to_stake # 0
                   THEN update_voting_power(funded, owner, to_stake) ELSE funded
  OBVIOUS
<1>4. update_rex_account(db, owner, proceeds, delta, force) = d
  BY <1>1, <1>2, <1>3 DEF update_rex_account
<1> HIDE DEF filled, to_fund, to_stake
<1>5. HasOk(erased) /\ (erased.ok => db.ok)
  BY <1>1, HelpersCarry DEF Carries, HasOk
<1>6. HasOk(funded) /\ (funded.ok => erased.ok)
  BY <1>2, <1>5, HelpersCarry DEF Carries, HasOk
<1>7. HasOk(d) /\ (d.ok => funded.ok)
  BY <1>3, <1>6, HelpersCarry DEF Carries, HasOk
<1> QED
  BY <1>4, <1>5, <1>6, <1>7 DEF Carries, HasOk

\* The tables besides tokens, funds, orders and voters.
SameRest(db, d) ==
  /\ d.pool = db.pool
  /\ d.bal = db.bal
  /\ d.loan = db.loan
  /\ d.userres = db.userres

\* TokensMoved.
LEMMA TokensAfter ==
  ASSUME NEW db \in Db, NEW from \in Holders, NEW to \in Holders, from # to, NEW x \in Int,
         NEW d, d = TokensMoved(db, from, to, x), d.ok
  PROVE  /\ d \in Db
         /\ d.tokens[from] = db.tokens[from] - x
         /\ d.tokens[to] = db.tokens[to] + x
         /\ \A h \in Holders \ {from, to} : d.tokens[h] = db.tokens[h]
         /\ db.tokens[from] >= x
         /\ SameRest(db, d) /\ d.fund = db.fund /\ d.order = db.order /\ d.voters = db.voters
<1>1. db.tokens \in [Holders -> Int] /\ db.ok \in BOOLEAN
  BY DbFields
<1>2. db.ok /\ db.tokens[from] >= x
  BY DEF TokensMoved, Require, Db
<1>3. Require(db, db.tokens[from] >= x) = db
  BY <1>2 DEF Require, Db
<1>4. d = [db EXCEPT !.tokens[from] = @ - x, !.tokens[to] = @ + x]
  BY <1>3 DEF TokensMoved
<1>5. /\ d.tokens \in [Holders -> Int]
      /\ d.tokens[from] = db.tokens[from] - x
      /\ d.tokens[to] = db.tokens[to] + x
      /\ \A h \in Holders \ {from, to} : d.tokens[h] = db.tokens[h]
  BY <1>1, <1>4 DEF Db
<1>6. SameRest(db, d) /\ d.fund = db.fund /\ d.order = db.order /\ d.voters = db.voters
  BY <1>4 DEF Db, SameRest
<1>7. d \in Db
  BY <1>1, <1>4, <1>5 DEF Db
<1> QED
  BY <1>2, <1>5, <1>6, <1>7

\* An owner pays into eosio.rex.
LEMMA PaidToRex ==
  ASSUME NEW t, NEW db, Good(db, t), NEW owner \in Accounts, NEW x \in Int,
         NEW d, d = TokensMoved(db, owner, RexAccount, x), d.ok
  PROVE  /\ Good(d, t) /\ Keeps(db, d, x) /\ StaysEmpty(db, d)
         /\ SameRest(db, d) /\ d.fund = db.fund /\ d.order = db.order /\ d.voters = db.voters
<1>1. db \in Db /\ owner \in Holders /\ RexAccount \in Holders /\ owner # RexAccount
      /\ StakeAccount \in Holders \ {owner, RexAccount} /\ NamesAccount \in Holders \ {owner, RexAccount}
  BY SurplusIsInt, HoldersDiffer DEF Good
<1>2. /\ d \in Db
      /\ d.tokens[RexAccount] = db.tokens[RexAccount] + x
      /\ \A h \in Holders \ {owner, RexAccount} : d.tokens[h] = db.tokens[h]
      /\ SameRest(db, d) /\ d.fund = db.fund /\ d.order = db.order /\ d.voters = db.voters
  BY <1>1, TokensAfter
<1>3. Claims(d) = Claims(db) /\ Claims(db) \in Int /\ db.tokens[RexAccount] \in Int
  BY <1>1, <1>2, SumsAreInts, SurplusIsInt DEF Claims, FundOf, IsFilled
<1>4. d.tokens[RexAccount] - Claims(d) = (db.tokens[RexAccount] - Claims(db)) + x
  BY <1>2, <1>3
<1>5. ProceedsGood(d) /\ \A a \in Accounts : Voting(db, a) => Voting(d, a)
  BY <1>2 DEF Good, ProceedsGood, IsFilled, Voting
<1>6. Apart(db, d, x)
  BY <1>1, <1>2, <1>4, <1>5, SameStay DEF Apart, Aside, SameRest
<1> QED
  BY <1>2, <1>6, ApartKeeps

\* eosio.rex pays an owner.
LEMMA PaidFromRex ==
  ASSUME NEW t, NEW db, Good(db, t), NEW owner \in Accounts, NEW x \in Int,
         NEW d, d = TokensMoved(db, RexAccount, owner, x), d.ok
  PROVE  /\ Good(d, t) /\ Keeps(db, d, - x) /\ StaysEmpty(db, d)
         /\ SameRest(db, d) /\ d.fund = db.fund /\ d.order = db.order /\ d.voters = db.voters
<1>1. db \in Db /\ owner \in Holders /\ RexAccount \in Holders /\ owner # RexAccount
      /\ StakeAccount \in Holders \ {owner, RexAccount} /\ NamesAccount \in Holders \ {owner, RexAccount}
  BY SurplusIsInt, HoldersDiffer DEF Good
<1>2. /\ d \in Db
      /\ d.tokens[RexAccount] = db.tokens[RexAccount] - x
      /\ \A h \in Holders \ {owner, RexAccount} : d.tokens[h] = db.tokens[h]
      /\ SameRest(db, d) /\ d.fund = db.fund /\ d.order = db.order /\ d.voters = db.voters
  BY <1>1, TokensAfter
<1>3. Claims(d) = Claims(db) /\ Claims(db) \in Int /\ db.tokens[RexAccount] \in Int
  BY <1>1, <1>2, SumsAreInts, SurplusIsInt DEF Claims, FundOf, IsFilled
<1>4. d.tokens[RexAccount] - Claims(d) = (db.tokens[RexAccount] - Claims(db)) + (- x)
  BY <1>2, <1>3
<1>5. ProceedsGood(d) /\ \A a \in Accounts : Voting(db, a) => Voting(d, a)
  BY <1>2 DEF Good, ProceedsGood, IsFilled, Voting
<1>6. Apart(db, d, - x)
  BY <1>1, <1>2, <1>4, <1>5, SameStay DEF Apart, Aside, SameRest
<1>7. - x \in Int
  OBVIOUS
<1> QED
  BY <1>2, <1>6, <1>7, ApartKeeps

\* One such step after another.
LEMMA ApartChain ==
  ASSUME NEW db \in Db, NEW d, NEW e, NEW x \in Int, NEW y \in Int, Apart(db, d, x), Apart(d, e, y)
  PROVE  Apart(db, e, x + y)
<1>1. d \in Db /\ e \in Db
  BY DEF Apart, Aside
<1>2. PICK t0 \in Int, t1 \in Int, t2 \in Int, c0 \in Int, c1 \in Int, c2 \in Int :
        /\ t0 = db.tokens[RexAccount] /\ t1 = d.tokens[RexAccount] /\ t2 = e.tokens[RexAccount]
        /\ c0 = Claims(db) /\ c1 = Claims(d) /\ c2 = Claims(e)
  BY <1>1, SurplusIsInt, SumsAreInts
<1>3. t1 - c1 = (t0 - c0) + x /\ t2 - c2 = (t1 - c1) + y
  BY <1>2 DEF Apart, Aside
<1>4. t2 - c2 = (t0 - c0) + (x + y)
  BY <1>3
<1>5. e.tokens[RexAccount] - Claims(e) = (db.tokens[RexAccount] - Claims(db)) + (x + y)
  BY <1>2, <1>4
<1>6. OrdersStay(db, e) /\ FundsStay(db, e)
  BY DEF Apart, Aside, OrdersStay, FundsStay
<1> QED
  BY <1>5, <1>6 DEF Apart, Aside

\* Without a change of tokens, funds or orders, claims do not change either.
LEMMA ApartNothing ==
  ASSUME NEW db \in Db, ProceedsGood(db)
  PROVE  Apart(db, db, 0)
<1>1. db.tokens[RexAccount] \in Int /\ Claims(db) \in Int
  BY SurplusIsInt, SumsAreInts
<1>2. db.tokens[RexAccount] - Claims(db) = (db.tokens[RexAccount] - Claims(db)) + 0
  BY <1>1
<1> QED
  BY <1>2, SameStay DEF Apart, Aside

FundSet(db, owner, n) == [db EXCEPT !.fund[owner] = n]

\* An owner's fund becomes x less, or more.
LEMMA FundChanges ==
  ASSUME NEW db \in Db, ProceedsGood(db), NEW owner \in Accounts, NEW x \in Int,
         NEW n \in Nat, n = FundOf(db, owner) - x, NEW d, d = FundSet(db, owner, n)
  PROVE  /\ Apart(db, d, x) /\ d.fund[owner] # NoRow
         /\ SameRest(db, d) /\ d.tokens = db.tokens /\ d.order = db.order /\ d.voters = db.voters
         /\ \A a \in Accounts : db.fund[a] # NoRow => d.fund[a] # NoRow
<1>1. FundOf(db, owner) \in Nat /\ db.fund \in [Accounts -> Nat \cup {NoRow}] /\ NoRow \notin Nat
  BY EntriesAreInts, DbFields, NoRowIsNone
<1>3. d = [db EXCEPT !.fund = [db.fund EXCEPT ![owner] = n]]
  BY DEF FundSet
<1>4. /\ d.fund = [db.fund EXCEPT ![owner] = n] /\ d.fund \in [Accounts -> Nat \cup {NoRow}]
      /\ SameRest(db, d) /\ d.tokens = db.tokens /\ d.order = db.order /\ d.voters = db.voters
  BY <1>1, <1>3 DEF Db, SameRest
<1>5. d \in Db
  BY <1>3, <1>4 DEF Db
<1>6. /\ d.fund[owner] = n /\ d.fund[owner] # NoRow
      /\ \A a \in Accounts \ {owner} : d.fund[a] = db.fund[a]
  BY <1>1, <1>4
<1>7. Claims(d) = Claims(db) - x
  <2>1. Claims(d) = Claims(db) + (ClaimOf(d, owner) - ClaimOf(db, owner))
    <3>1. \A b \in Accounts \ {owner} : d.fund[b] = db.fund[b] /\ d.order[b] = db.order[b]
      BY <1>4, <1>6
    <3> QED
      BY <1>5, <3>1, ClaimsChange
  <2>2. FundOf(d, owner) = n
    BY <1>6 DEF FundOf
  <2>3. PICK p : p = IF IsFilled(db, owner) THEN db.order[owner].proceeds ELSE 0
    OBVIOUS
  <2>4. ClaimOf(db, owner) = FundOf(db, owner) + p /\ ClaimOf(d, owner) = n + p
    BY <1>4, <2>2, <2>3 DEF ClaimOf, IsFilled
  <2>5. p \in Int
    BY <2>3, DbFields DEF IsFilled, RexOrder
  <2>6. Claims(db) \in Int
    BY SumsAreInts
  <2> QED
    BY <1>1, <2>1, <2>4, <2>5, <2>6
<1>8. d.tokens[RexAccount] - Claims(d) = (db.tokens[RexAccount] - Claims(db)) + x
  <2>1. Claims(db) \in Int /\ db.tokens[RexAccount] \in Int
    BY SumsAreInts, SurplusIsInt
  <2> QED
    BY <1>4, <1>7, <2>1
<1>9. ProceedsGood(d) /\ \A a \in Accounts : Voting(db, a) => Voting(d, a)
  BY <1>4 DEF ProceedsGood, IsFilled, Voting
<1>11. \A a \in Accounts : db.fund[a] # NoRow => d.fund[a] # NoRow
  BY <1>6
<1>12. OrdersStay(db, d) /\ FundsStay(db, d)
  BY <1>4, <1>11, SameStay DEF FundsStay
<1>10. Apart(db, d, x)
  BY <1>4, <1>5, <1>8, <1>9, <1>12 DEF Apart, Aside, SameRest
<1> QED
  BY <1>4, <1>6, <1>10, <1>11

\* transfer_from_fund.
LEMMA FundTaken ==
  ASSUME NEW db \in Db, ProceedsGood(db), NEW owner \in Accounts, NEW x \in Int,
         NEW d, d = transfer_from_fund(db, owner, x), d.ok
  PROVE  /\ Apart(db, d, x) /\ x > 0
         /\ SameRest(db, d) /\ d.tokens = db.tokens /\ d.order = db.order /\ d.voters = db.voters
         /\ \A a \in Accounts : db.fund[a] # NoRow => d.fund[a] # NoRow
<1>1. db.ok /\ x > 0 /\ db.fund[owner] # NoRow /\ FundOf(db, owner) >= x
  BY DEF transfer_from_fund, Require, Db
<1>2. Require(db, x > 0 /\ db.fund[owner] # NoRow /\ FundOf(db, owner) >= x) = db
  BY <1>1 DEF Require, Db
<1>2a. PICK y \in Int : y = x
  OBVIOUS
<1>3. PICK n \in Nat : n = FundOf(db, owner) - x /\ n = FundOf(db, owner) - y
  BY <1>1, <1>2a, EntriesAreInts
<1>4. d = FundSet(db, owner, n)
  BY <1>2, <1>3 DEF transfer_from_fund, FundSet
<1>5. /\ Apart(db, d, x)
      /\ SameRest(db, d) /\ d.tokens = db.tokens /\ d.order = db.order /\ d.voters = db.voters
      /\ \A a \in Accounts : db.fund[a] # NoRow => d.fund[a] # NoRow
  <2>1. /\ Apart(db, d, y)
        /\ SameRest(db, d) /\ d.tokens = db.tokens /\ d.order = db.order /\ d.voters = db.voters
        /\ \A a \in Accounts : db.fund[a] # NoRow => d.fund[a] # NoRow
    BY <1>3, <1>4, FundChanges
  <2> QED
    BY <2>1, <1>2a
<1> QED
  BY <1>1, <1>5

\* transfer_to_fund.
LEMMA FundPaid ==
  ASSUME NEW db \in Db, ProceedsGood(db), NEW owner \in Accounts, NEW x \in Int,
         NEW d, d = transfer_to_fund(db, owner, x), d.ok
  PROVE  /\ Apart(db, d, - x) /\ x > 0 /\ d.fund[owner] # NoRow
         /\ SameRest(db, d) /\ d.tokens = db.tokens /\ d.order = db.order /\ d.voters = db.voters
         /\ \A a \in Accounts : db.fund[a] # NoRow => d.fund[a] # NoRow
<1>1. db.ok /\ x > 0
  BY DEF transfer_to_fund, Require, Db
<1>2. Require(db, x > 0) = db
  BY <1>1 DEF Require, Db
<1>3. FundOf(db, owner) \in Nat
  BY EntriesAreInts
<1>4. PICK y \in Int : y = - x
  OBVIOUS
<1>5. PICK n \in Nat : n = FundOf(db, owner) - y /\ n = FundOf(db, owner) + x
  BY <1>1, <1>3, <1>4
<1>6. d = FundSet(db, owner, n)
  BY <1>2, <1>5 DEF transfer_to_fund, FundSet
<1> QED
  BY <1>1, <1>4, <1>5, <1>6, FundChanges

\* update_voting_power.
LEMMA VoterUpdated ==
  ASSUME NEW db \in Db, ProceedsGood(db), NEW voter \in Accounts, NEW delta \in Int,
         NEW d, d = update_voting_power(db, voter, delta), d.ok
  PROVE  /\ Apart(db, d, 0)
         /\ SameRest(db, d) /\ d.tokens = db.tokens /\ d.order = db.order /\ d.fund = db.fund
<1>1. PICK stake \in Int : stake = (IF db.voters[voter] = NoRow THEN 0 ELSE db.voters[voter].staked) + delta
  BY DbFields DEF VoterInfo
<1>2. PICK row : row = VoterWith(db.voters[voter], stake)
  OBVIOUS
<1>3. row \in VoterInfo /\ (Voting(db, voter) => row.votes)
  BY <1>1, <1>2, DbFields DEF VoterInfo, Voting, VoterWith
<1>4. db.ok /\ stake >= 0
  BY <1>1 DEF update_voting_power, Require, Db
<1>5. Require(db, stake >= 0) = db
  BY <1>4 DEF Require, Db
<1>6. d = [db EXCEPT !.voters = [db.voters EXCEPT ![voter] = row]]
  BY <1>1, <1>2, <1>5 DEF update_voting_power
<1>7. /\ d.voters = [db.voters EXCEPT ![voter] = row]
      /\ SameRest(db, d) /\ d.tokens = db.tokens /\ d.order = db.order /\ d.fund = db.fund
  BY <1>6 DEF Db, SameRest
<1>8. d.voters \in [Accounts -> VoterInfo \cup {NoRow}]
  BY <1>3, <1>7, DbFields
<1>9. d \in Db
  BY <1>6, <1>8 DEF Db
<1>10. Claims(d) = Claims(db)
  BY <1>7 DEF Claims, FundOf, IsFilled
<1>11. Claims(db) \in Int /\ db.tokens[RexAccount] \in Int
  BY SumsAreInts, SurplusIsInt
<1>12. d.tokens[RexAccount] - Claims(d) = (db.tokens[RexAccount] - Claims(db)) + 0
  BY <1>7, <1>10, <1>11
<1>13. \A a \in Accounts : Voting(db, a) => Voting(d, a)
  BY <1>3, <1>7, DbFields, NoRowIsNone DEF Voting
<1>14. ProceedsGood(d)
  BY <1>7 DEF ProceedsGood, IsFilled
<1>15. Apart(db, d, 0)
  BY <1>7, <1>9, <1>12, <1>13, <1>14, SameStay DEF Apart, Aside, SameRest
<1> QED
  BY <1>7, <1>15

\* EraseOrder: a claim to proceeds goes with a filled order.
LEMMA OrderErased ==
  ASSUME NEW db \in Db, ProceedsGood(db), NEW owner \in Accounts, NEW x,
         x = IF IsFilled(db, owner) THEN db.order[owner].proceeds ELSE 0,
         NEW d, d = EraseOrder(db, owner)
  PROVE  /\ Apart(db, d, x) /\ x \in Int /\ x >= 0
         /\ SameRest(db, d) /\ d.tokens = db.tokens /\ d.fund = db.fund /\ d.voters = db.voters
         /\ d.order = [db.order EXCEPT ![owner] = NoRow]
<1>1. d = [db EXCEPT !.order = [db.order EXCEPT ![owner] = NoRow]]
  BY DEF EraseOrder
<1>2. /\ d.order = [db.order EXCEPT ![owner] = NoRow]
      /\ SameRest(db, d) /\ d.tokens = db.tokens /\ d.fund = db.fund /\ d.voters = db.voters
  BY <1>1 DEF Db, SameRest
<1>3. /\ d.order \in [Accounts -> RexOrder \cup {NoRow}] /\ d.order[owner] = NoRow
      /\ \A a \in Accounts \ {owner} : d.order[a] = db.order[a]
  BY <1>2, DbFields
<1>4. d \in Db
  BY <1>1, <1>3 DEF Db
<1>5. x \in Int /\ x >= 0
  BY DbFields DEF IsFilled, RexOrder, ProceedsGood
<1>6. Claims(d) = Claims(db) - x
  <2>1. Claims(d) = Claims(db) + (ClaimOf(d, owner) - ClaimOf(db, owner))
    BY <1>2, <1>3, <1>4, ClaimsChange
  <2>2. ClaimOf(db, owner) = FundOf(db, owner) + x /\ ClaimOf(d, owner) = FundOf(db, owner) + 0
    BY <1>2, <1>3 DEF ClaimOf, IsFilled, FundOf
  <2>3. Claims(db) \in Int /\ FundOf(db, owner) \in Nat
    BY SumsAreInts, EntriesAreInts
  <2> QED
    BY <1>5, <2>1, <2>2, <2>3
<1>7. d.tokens[RexAccount] - Claims(d) = (db.tokens[RexAccount] - Claims(db)) + x
  <2>1. Claims(db) \in Int /\ db.tokens[RexAccount] \in Int
    BY SumsAreInts, SurplusIsInt
  <2> QED
    BY <1>2, <1>5, <1>6, <2>1
<1>8. ProceedsGood(d) /\ \A a \in Accounts : Voting(db, a) => Voting(d, a)
  <2>1. \A a \in Accounts : Voting(db, a) => Voting(d, a)
    BY <1>2 DEF Voting
  <2>2. \A a \in Accounts : IsFilled(d, a) => IsFilled(db, a) /\ d.order[a] = db.order[a]
    BY <1>3 DEF IsFilled
  <2> QED
    BY <2>1, <2>2 DEF ProceedsGood
<1>10. OrdersStay(db, d) /\ FundsStay(db, d)
  BY <1>2, <1>3, SameStay DEF OrdersStay, IsOpen
<1>9. Apart(db, d, x)
  BY <1>2, <1>4, <1>7, <1>8, <1>10 DEF Apart, Aside, SameRest
<1> QED
  BY <1>2, <1>5, <1>9

\* What update_rex_account leaves alone: orders but the owner's, if it is filled.
Collected(db, d, owner) ==
  /\ SameRest(db, d) /\ d.tokens = db.tokens
  /\ \A a \in Accounts : d.order[a] = IF a = owner /\ IsFilled(db, owner) THEN NoRow ELSE db.order[a]

\* update_rex_account: proceeds become a claim.
LEMMA AccountUpdated ==
  ASSUME NEW db \in Db, ProceedsGood(db), NEW owner \in Accounts, NEW proceeds \in Int, proceeds >= 0,
         NEW delta \in Int, NEW force,
         NEW d, d = update_rex_account(db, owner, proceeds, delta, force), d.ok
  PROVE  Apart(db, d, - proceeds) /\ Collected(db, d, owner) /\ db.ok
<1>1. PICK x : x = IF IsFilled(db, owner) THEN db.order[owner].proceeds ELSE 0
  OBVIOUS
<1>2. PICK s : s = IF IsFilled(db, owner) THEN db.order[owner].stake_change ELSE 0
  OBVIOUS
<1>3. s \in Int
  BY <1>2, DbFields DEF IsFilled, RexOrder
<1>4. PICK erased : erased = IF IsFilled(db, owner) THEN EraseOrder(db, owner) ELSE db
  OBVIOUS
<1>5. /\ Apart(db, erased, x) /\ x \in Int /\ x >= 0 /\ Collected(db, erased, owner)
      /\ erased.fund = db.fund /\ erased.voters = db.voters
  <2>1. CASE IsFilled(db, owner)
    <3>1. erased = EraseOrder(db, owner)
      BY <1>4, <2>1
    <3>2. /\ Apart(db, erased, x) /\ x \in Int /\ x >= 0
          /\ SameRest(db, erased) /\ erased.tokens = db.tokens /\ erased.fund = db.fund
          /\ erased.voters = db.voters /\ erased.order = [db.order EXCEPT ![owner] = NoRow]
      BY <1>1, <3>1, OrderErased
    <3>3. Collected(db, erased, owner)
      BY <2>1, <3>2, DbFields DEF Collected
    <3> QED
      BY <3>2, <3>3
  <2>2. CASE ~ IsFilled(db, owner)
    <3>1. erased = db /\ x = 0
      BY <1>1, <1>4, <2>2
    <3>2. Apart(db, db, 0)
      BY ApartNothing
    <3> QED
      BY <2>2, <3>1, <3>2 DEF Collected, SameRest
  <2> QED
    BY <2>1, <2>2
<1>6. PICK total \in Int : total = proceeds + x
  BY <1>5
<1>7. PICK funded : funded = IF total > 0 THEN transfer_to_fund(erased, owner, total) ELSE erased
  OBVIOUS
<1>8. PICK stake \in Int : stake = delta + s
  BY <1>3
<1>9. d = IF force \/ stake # 0 THEN update_voting_power(funded, owner, stake) ELSE funded
  BY <1>1, <1>2, <1>4, <1>6, <1>7, <1>8 DEF update_rex_account
<1>10. erased \in Db /\ ProceedsGood(erased) /\ HasOk(erased)
  BY <1>5, DbHasOk DEF Apart, Aside
<1>11. HasOk(funded)
  BY <1>7, <1>10, HelpersCarry DEF Carries, HasOk
<1>12. funded.ok
  BY <1>9, <1>11, HelpersCarry DEF Carries
<1>13. Apart(db, funded, - proceeds) /\ Collected(db, funded, owner)
  <2>1. CASE total > 0
    <3>1. funded = transfer_to_fund(erased, owner, total)
      BY <1>7, <2>1
    <3>2. Apart(erased, funded, - total) /\ SameRest(erased, funded)
          /\ funded.tokens = erased.tokens /\ funded.order = erased.order
      BY <1>10, <1>12, <3>1, FundPaid
    <3>3. PICK y \in Int : y = - total
      OBVIOUS
    <3>4. Apart(db, funded, x + y)
      BY <1>5, <3>2, <3>3, ApartChain
    <3>5. x + y = - proceeds
      BY <1>5, <1>6, <3>3
    <3> QED
      BY <1>5, <3>2, <3>4, <3>5 DEF Collected, SameRest
  <2>2. CASE ~ (total > 0)
    <3>1. funded = erased /\ x = - proceeds
      BY <1>5, <1>6, <1>7, <2>2
    <3> QED
      BY <1>5, <3>1
  <2> QED
    BY <2>1, <2>2
<1>14. Apart(db, d, - proceeds) /\ Collected(db, d, owner)
  <2>1. CASE force \/ stake # 0
    <3>1. d = update_voting_power(funded, owner, stake) /\ funded \in Db /\ ProceedsGood(funded)
      BY <1>9, <1>13, <2>1 DEF Apart, Aside
    <3>2. Apart(funded, d, 0) /\ SameRest(funded, d) /\ d.tokens = funded.tokens
          /\ d.order = funded.order
      BY <3>1, VoterUpdated
    <3>3. PICK y \in Int : y = - proceeds
      OBVIOUS
    <3>4. Apart(db, d, y + 0)
      BY <1>13, <3>2, <3>3, ApartChain
    <3>5. y + 0 = y
      OBVIOUS
    <3> QED
      BY <1>13, <3>2, <3>3, <3>4, <3>5 DEF Collected, SameRest
  <2>2. CASE ~ (force \/ stake # 0)
    BY <1>9, <1>13, <2>2
  <2> QED
    BY <2>1, <2>2
<1>15. db.ok
  BY DbHasOk, AccountCarries DEF Carries
<1> QED
  BY <1>14, <1>15

\* A row of shares is replaced by one with as many shares.
Rerowed(db, d, owner) ==
  /\ d.pool = db.pool /\ d.loan = db.loan /\ d.userres = db.userres /\ d.tokens = db.tokens
  /\ d.fund = db.fund /\ d.order = db.order /\ d.voters = db.voters
  /\ \A a \in Accounts \ {owner} : d.bal[a] = db.bal[a]
  /\ d.bal[owner] # NoRow /\ d.bal[owner].rex_balance = db.bal[owner].rex_balance

RowSet(db, owner, row) == [db EXCEPT !.bal[owner] = row]

\* Another row for the same shares changes nothing else.
LEMMA RowReplaced ==
  ASSUME NEW t, NEW db, Good(db, t), NEW owner \in Accounts, db.bal[owner] # NoRow,
         NEW row, RowGood(row, t), row \in RexBalance, row.rex_balance = db.bal[owner].rex_balance,
         NEW d, d = RowSet(db, owner, row)
  PROVE  /\ Good(d, t) /\ Keeps(db, d, 0) /\ StaysEmpty(db, d) /\ Rerowed(db, d, owner)
         /\ d.bal[owner] = row /\ d.ok = db.ok
<1>1. db \in Db
  BY DEF Good
<1>2. d = [db EXCEPT !.bal = [db.bal EXCEPT ![owner] = row]]
  BY DEF RowSet
<1>3. /\ d.bal = [db.bal EXCEPT ![owner] = row] /\ d.ok = db.ok
      /\ d.pool = db.pool /\ d.loan = db.loan /\ d.userres = db.userres /\ d.tokens = db.tokens
      /\ d.fund = db.fund /\ d.order = db.order /\ d.voters = db.voters
  BY <1>1, <1>2 DEF Db
<1>4. /\ d.bal \in [Accounts -> RexBalance \cup {NoRow}] /\ d.bal[owner] = row
      /\ \A a \in Accounts \ {owner} : d.bal[a] = db.bal[a]
  BY <1>1, <1>3, DbFields
<1>5. d \in Db
  BY <1>1, <1>2, <1>4 DEF Db
<1>6. row # NoRow
  BY NoRowIsNone
<1>7. Rerowed(db, d, owner)
  BY <1>3, <1>4, <1>6 DEF Rerowed
<1>8. SharesOut(d) = SharesOut(db)
  <2>1. SharesOut(d) = SharesOut(db) + (SharesOf(d, owner) - SharesOf(db, owner))
    BY <1>1, <1>4, <1>5, SharesChange
  <2>2. SharesOf(d, owner) = SharesOf(db, owner)
    BY <1>4, <1>6 DEF SharesOf
  <2>3. SharesOut(db) \in Int /\ SharesOf(db, owner) \in Int
    BY <1>1, SumsAreInts, EntriesAreInts
  <2> QED
    BY <2>1, <2>2, <2>3
<1>9. /\ PoolOf(d) = PoolOf(db) /\ Claims(d) = Claims(db)
      /\ LoanFunds(d) = LoanFunds(db) /\ LoanStakes(d) = LoanStakes(db)
      /\ \A a \in Accounts : \A r \in Resource : LentTo(d, a, r) = LentTo(db, a, r)
  BY <1>3 DEF PoolOf, Claims, FundOf, IsFilled, LoanFunds, LoanStakes, LentTo
<1>10. Good(d, t)
  <2>1. PoolGood(d)
    BY <1>8, <1>9 DEF Good, PoolGood
  <2>2. RowsGood(d, t)
    BY <1>4 DEF Good, RowsGood
  <2>3. \A i \in LoanIds : LoanGood(d, i)
    BY <1>3, <1>9 DEF Good, LoanGood
  <2>4. ProceedsGood(d)
    BY <1>3 DEF Good, ProceedsGood, IsFilled
  <2>5. Timely(d, t)
    BY <1>1, <1>3, SameStay, TimelyStays DEF Good
  <2> QED
    BY <1>5, <2>1, <2>2, <2>3, <2>4, <2>5 DEF Good
<1>11. Surplus(d) = Surplus(db) + 0
  <2>1. Surplus(d) = Surplus(db)
    BY <1>3, <1>9 DEF Surplus
  <2> QED
    BY <1>1, <2>1, SurplusIsInt
<1>12. \A a \in Accounts : \A r \in Resource : Unlent(d, a, r) = Unlent(db, a, r)
  BY <1>3, <1>9 DEF Unlent
<1>13. VotesOK(db) => VotesOK(d)
  <2>1. \A a \in Accounts : Holding(d, a) => Holding(db, a)
    BY <1>4 DEF Holding
  <2> QED
    BY <1>3, <2>1 DEF VotesOK, Voting
<1>14. NamesOK(db) => NamesOK(d)
  BY <1>3, <1>9 DEF NamesOK
<1>15. NotCheaper(PoolOf(db), PoolOf(d))
  BY <1>9, CheaperSame DEF Good, PoolGood
<1> QED
  BY <1>3, <1>4, <1>7, <1>9, <1>10, <1>11, <1>12, <1>13, <1>14, <1>15 DEF Keeps, StaysEmpty

\* What an operation on the pool adds to its totals; the promised proceeds of
\* names stay.
PoolMoves(p, q, lendable, lent, rex, num) ==
  /\ q \in Pool
  /\ q.total_lendable = p.total_lendable + lendable
  /\ q.total_lent = p.total_lent + lent
  /\ q.total_rex = p.total_rex + rex
  /\ q.loan_num = p.loan_num + num
  /\ q.namebid_proceeds = p.namebid_proceeds

\* A sale.
LEMMA FilledMoves ==
  ASSUME NEW p \in Pool, NEW rex \in Int, NEW v \in Int, v = Value(p, rex)
  PROVE  PoolMoves(p, Filled(p, rex), - v, 0, - rex, 0)
<1>1. PICK l \in Int, u \in Int, x \in Int :
        l = p.total_lendable - v /\ u = l - p.total_lent /\ x = p.total_rex - rex
  BY PoolFields
<1>2. WithLendable(p, l) = [p EXCEPT !.total_lendable = l, !.total_unlent = u]
  BY <1>1 DEF WithLendable
<1>3. Filled(p, rex) = [[p EXCEPT !.total_lendable = l, !.total_unlent = u] EXCEPT !.total_rex = x]
  BY <1>1, <1>2 DEF Filled
<1>4. /\ p.total_lent \in Int /\ p.loan_num \in Int /\ p.total_lendable \in Int /\ p.total_rex \in Int
  BY PoolFields
<1>5. PICK w : w = [p EXCEPT !.total_lendable = l, !.total_unlent = u]
  OBVIOUS
<1>6. PICK q : q = [w EXCEPT !.total_rex = x]
  OBVIOUS
<1>7. q \in Pool /\ q.total_lendable = l /\ q.total_lent = p.total_lent /\ q.total_rex = x
      /\ q.loan_num = p.loan_num /\ q.namebid_proceeds = p.namebid_proceeds
  <2>1. w \in Pool /\ w.total_lendable = l /\ w.total_lent = p.total_lent
        /\ w.loan_num = p.loan_num /\ w.namebid_proceeds = p.namebid_proceeds
    BY <1>5 DEF Pool
  <2> QED
    BY <1>6, <2>1 DEF Pool
<1>8. PoolMoves(p, q, - v, 0, - rex, 0)
  BY <1>1, <1>4, <1>7 DEF PoolMoves
<1> QED
  BY <1>3, <1>5, <1>6, <1>8

\* A loan.
LEMMA LentMoves ==
  ASSUME NEW p, PoolOK(p), NEW payment \in Int, NEW rented \in Int, NEW new_loan \in BOOLEAN,
         NEW n \in Int, n = IF new_loan THEN 1 ELSE 0
  PROVE  PoolMoves(p, LoanAdded(p, payment, rented, new_loan), payment, rented, 0, n)
<1>1. /\ p.total_lent \in Int /\ p.loan_num \in Int /\ p.total_lendable \in Int /\ p.total_rex \in Int
      /\ p.total_rent \in Int /\ p.total_unlent \in Int
      /\ p \in Pool /\ p.total_lendable = p.total_unlent + p.total_lent
  BY PoolFields DEF PoolOK
<1>2. PICK u \in Int, k \in Int, l \in Int, r \in Int, m \in Int :
        /\ u = p.total_unlent - rented + payment /\ k = p.total_lent + rented /\ l = u + k
        /\ r = p.total_rent + payment /\ m = p.loan_num + n
  <2>1. PICK u \in Int : u = p.total_unlent - rented + payment
    BY <1>1
  <2>2. PICK k \in Int : k = p.total_lent + rented
    BY <1>1
  <2>3. PICK l \in Int : l = u + k
    OBVIOUS
  <2>4. PICK r \in Int : r = p.total_rent + payment
    BY <1>1
  <2>5. PICK m \in Int : m = p.loan_num + n
    BY <1>1
  <2> QED
    BY <2>1, <2>2, <2>3, <2>4, <2>5, Zenon
<1>3. PICK w : w = WithUnlent(p, u, k)
  OBVIOUS
<1>4. w = [p EXCEPT !.total_unlent = u, !.total_lent = k, !.total_lendable = l]
  BY <1>2, <1>3 DEF WithUnlent
<1>5. w \in Pool /\ w.total_lendable = l /\ w.total_lent = k /\ w.total_rex = p.total_rex
      /\ w.loan_num = p.loan_num /\ w.namebid_proceeds = p.namebid_proceeds
      /\ w.total_rent = p.total_rent
  BY <1>1, <1>4 DEF Pool
<1>6. PICK q : q = [w EXCEPT !.total_rent = r, !.loan_num = m]
  OBVIOUS
<1>7. q \in Pool /\ q.total_lendable = l /\ q.total_lent = k /\ q.total_rex = p.total_rex
      /\ q.loan_num = m /\ q.namebid_proceeds = p.namebid_proceeds
  BY <1>5, <1>6 DEF Pool
<1>8. q = LoanAdded(p, payment, rented, new_loan)
  BY <1>2, <1>3, <1>5, <1>6 DEF LoanAdded
<1>9. l = p.total_lendable + payment
  BY <1>1, <1>2
<1>10. PoolMoves(p, q, payment, rented, 0, n)
  BY <1>1, <1>2, <1>7, <1>9 DEF PoolMoves
<1> QED
  BY <1>8, <1>10

\* A loan that ends.
LEMMA RemovedMoves ==
  ASSUME NEW p, PoolOK(p), NEW staked \in Int, NEW rt \in Int,
         rt = get_bancor_output(p.total_unlent, p.total_rent, staked)
  PROVE  PoolMoves(p, LoanRemoved(p, staked), 0, - staked, 0, 0)
<1>1. /\ p.total_lent \in Int /\ p.loan_num \in Int /\ p.total_lendable \in Int /\ p.total_rex \in Int
      /\ p.total_rent \in Int /\ p.total_unlent \in Int
      /\ p \in Pool /\ p.total_lendable = p.total_unlent + p.total_lent
  BY PoolFields DEF PoolOK
<1>2. PICK u \in Int, k \in Int, l \in Int, r \in Int :
        /\ u = p.total_unlent + staked /\ k = p.total_lent - staked /\ l = u + k
        /\ r = p.total_rent - rt
  BY <1>1
<1>3. PICK w : w = WithUnlent(p, u, k)
  OBVIOUS
<1>4. w = [p EXCEPT !.total_unlent = u, !.total_lent = k, !.total_lendable = l]
  BY <1>2, <1>3 DEF WithUnlent
<1>5. w \in Pool /\ w.total_lendable = l /\ w.total_lent = k /\ w.total_rex = p.total_rex
      /\ w.loan_num = p.loan_num /\ w.namebid_proceeds = p.namebid_proceeds
      /\ w.total_rent = p.total_rent
  BY <1>1, <1>4 DEF Pool
<1>6. PICK q : q = [w EXCEPT !.total_rent = r]
  OBVIOUS
<1>7. q \in Pool /\ q.total_lendable = l /\ q.total_lent = k /\ q.total_rex = p.total_rex
      /\ q.loan_num = p.loan_num /\ q.namebid_proceeds = p.namebid_proceeds
  BY <1>5, <1>6 DEF Pool
<1>8. q = LoanRemoved(p, staked)
  BY <1>2, <1>3, <1>5, <1>6 DEF LoanRemoved
<1>9. l = p.total_lendable
  BY <1>1, <1>2
<1>10. PoolMoves(p, q, 0, - staked, 0, 0)
  BY <1>1, <1>2, <1>7, <1>9 DEF PoolMoves
<1> QED
  BY <1>8, <1>10

\* Fees and proceeds of names.
LEMMA ChannelledMoves ==
  ASSUME NEW p \in Pool, NEW amount \in Int
  PROVE  PoolMoves(p, Channelled(p, amount), amount, 0, 0, 0)
<1>1. /\ p.total_lent \in Int /\ p.loan_num \in Int /\ p.total_lendable \in Int /\ p.total_rex \in Int
      /\ p.total_unlent \in Int
  BY PoolFields
<1>2. PICK u \in Int, l \in Int : u = p.total_unlent + amount /\ l = p.total_lendable + amount
  BY <1>1
<1>3. PICK q : q = [p EXCEPT !.total_unlent = u, !.total_lendable = l]
  OBVIOUS
<1>4. q = Channelled(p, amount)
  BY <1>2, <1>3 DEF Channelled
<1>5. q \in Pool /\ q.total_lendable = l /\ q.total_lent = p.total_lent /\ q.total_rex = p.total_rex
      /\ q.loan_num = p.loan_num /\ q.namebid_proceeds = p.namebid_proceeds
  BY <1>3 DEF Pool
<1>6. PoolMoves(p, q, amount, 0, 0, 0)
  BY <1>1, <1>2, <1>5 DEF PoolMoves
<1> QED
  BY <1>4, <1>6

\* A purchase, of what total_rex then is more.
LEMMA BoughtMoves ==
  ASSUME NEW p, PoolOK(p), NEW payment \in Nat, payment > 0,
         NEW rex, rex = AddedTo(p, payment).total_rex - p.total_rex
  PROVE  PoolMoves(p, AddedTo(p, payment), payment, 0, rex, 0) /\ rex \in Nat
<1>1. /\ p.total_lent \in Int /\ p.loan_num \in Int /\ p.total_lendable \in Int /\ p.total_rex \in Nat
      /\ p.total_rent \in Int /\ p.total_unlent \in Int
      /\ p \in Pool /\ p.total_lendable = p.total_unlent + p.total_lent
      /\ p.total_unlent >= 0 /\ p.total_lent >= 0
      /\ (p.total_rex = 0 <=> p.total_lendable = 0)
  BY PoolFields DEF PoolOK
<1>2. CASE p.total_rex = 0
  <2>1. PICK x \in Nat : x = payment * RexRatio
    BY RexPoolAssumption, SMT
  <2>2. AddedTo(p, payment)
          = [p EXCEPT !.total_lendable = payment, !.total_lent = 0, !.total_unlent = payment,
                      !.total_rent = InitTotalRent, !.total_rex = x]
    BY <1>2, <2>1 DEF AddedTo, Refilled
  <2>3. InitTotalRent \in Int
    BY RexPoolAssumption
  <2>4. PICK q : q = [p EXCEPT !.total_lendable = payment, !.total_lent = 0, !.total_unlent = payment,
                               !.total_rent = InitTotalRent, !.total_rex = x]
    OBVIOUS
  <2>5. q \in Pool /\ q.total_lendable = payment /\ q.total_lent = 0 /\ q.total_rex = x
        /\ q.loan_num = p.loan_num /\ q.namebid_proceeds = p.namebid_proceeds
    <3>0. /\ p \in Pool /\ payment \in Int /\ 0 \in Int /\ InitTotalRent \in Int /\ x \in Int
      BY <1>1, <2>3
    <3>1. q \in Pool
      BY <2>4, <3>0, SetAll
    <3> QED
      BY <2>4, <3>0, <3>1 DEF Pool
  <2>6. p.total_lendable = 0 /\ p.total_lent = 0 /\ rex = x
    BY <1>1, <1>2, <2>2, <2>4, <2>5
  <2>7. PoolMoves(p, q, payment, 0, rex, 0)
    BY <1>1, <1>2, <2>5, <2>6 DEF PoolMoves
  <2> QED
    BY <2>1, <2>2, <2>4, <2>6, <2>7
<1>3. CASE p.total_rex # 0
  <2>1. p.total_lendable \in Nat /\ p.total_lendable > 0
    BY <1>1, <1>3
  <2>2. PICK x : x = SharesAfterBuy(p, payment)
    OBVIOUS
  <2>3. x \in Nat /\ x >= p.total_rex
    BY <1>1, <2>1, <2>2, BuyRounding DEF SharesAfterBuy
  <2>4. PICK l \in Int, u \in Int : l = p.total_lendable + payment /\ u = l - p.total_lent
    BY <1>1
  <2>5. PICK w : w = [p EXCEPT !.total_lendable = l, !.total_unlent = u]
    OBVIOUS
  <2>6. w = WithLendable(p, p.total_lendable + payment)
    BY <2>4, <2>5 DEF WithLendable
  <2>7. PICK q : q = [w EXCEPT !.total_rex = x]
    OBVIOUS
  <2>8. q = AddedTo(p, payment)
    BY <1>3, <2>2, <2>6, <2>7 DEF AddedTo
  <2>9. q \in Pool /\ q.total_lendable = l /\ q.total_lent = p.total_lent /\ q.total_rex = x
        /\ q.loan_num = p.loan_num /\ q.namebid_proceeds = p.namebid_proceeds
    <3>1. w \in Pool /\ w.total_lendable = l /\ w.total_lent = p.total_lent
          /\ w.loan_num = p.loan_num /\ w.namebid_proceeds = p.namebid_proceeds
      BY <1>1, <2>5 DEF Pool
    <3> QED
      BY <2>3, <2>7, <3>1 DEF Pool
  <2>10. rex = x - p.total_rex
    BY <2>8, <2>9
  <2>11. PoolMoves(p, q, payment, 0, rex, 0) /\ rex \in Nat
    BY <1>1, <2>3, <2>4, <2>9, <2>10 DEF PoolMoves
  <2> QED
    BY <2>8, <2>11
<1> QED
  BY <1>2, <1>3

\* Nobody holds less than nothing, or more than all.
LEMMA SharesBounded ==
  ASSUME NEW t \in Nat, NEW db, Good(db, t), NEW a \in Accounts
  PROVE  SharesOf(db, a) >= 0 /\ SharesOf(db, a) <= PoolOf(db).total_rex
<1> DEFINE f == [b \in Accounts |-> SharesOf(db, b)]
<1>1. db \in Db /\ SharesOut(db) = PoolOf(db).total_rex
  BY DEF Good, PoolGood
<1>2. \A b \in Accounts : SharesOf(db, b) \in Nat
  <2>1. ASSUME NEW b \in Accounts, db.bal[b] # NoRow PROVE db.bal[b].rex_balance \in Nat
    <3>1. RowGood(db.bal[b], t)
      BY <2>1 DEF Good, RowsGood
    <3>2. db.bal[b].rex_balance >= db.bal[b].matured_rex
      BY <3>1, GoodRowOK
    <3> QED
      BY <3>1, <3>2 DEF RowGood, RexBalance
  <2> QED
    BY <2>1 DEF SharesOf
<1>3. f \in [Accounts -> Nat] /\ IsFiniteSet(Accounts) /\ f[a] = SharesOf(db, a)
  BY <1>1, <1>2, EntriesAreInts
<1>4. SharesOut(db) = SumFunctionOnSet(f, Accounts)
  BY <1>1, SumsOfEntries
<1> HIDE DEF f
<1>5. f[a] <= SumFunctionOnSet(f, Accounts)
  BY <1>3, SumBound
<1> QED
  BY <1>1, <1>2, <1>3, <1>4, <1>5

\* What a sale does not touch.
SaleOnly(db, d, owner) ==
  /\ d.tokens = db.tokens /\ d.userres = db.userres /\ d.loan = db.loan
  /\ d.fund = db.fund /\ d.order = db.order /\ d.voters = db.voters
  /\ d.ok = db.ok
  /\ \A a \in Accounts \ {owner} : d.bal[a] = db.bal[a]
  /\ d.bal[owner] # NoRow
  /\ d.pool # NoRow
  /\ PoolOf(d).total_lent = PoolOf(db).total_lent
  /\ PoolOf(d).namebid_proceeds = PoolOf(db).namebid_proceeds

\* fill_rex_order: what the shares were worth leaves the pool with them.
LEMMA FillKeeps ==
  ASSUME NEW t \in Nat, NEW db, Good(db, t), NEW owner \in Accounts, db.bal[owner] # NoRow,
         NEW rex \in Int, 0 < rex, rex <= db.bal[owner].matured_rex, db.pool # NoRow,
         PoolOf(db).namebid_proceeds <= 0,
         NEW r, r = fill_rex_order(db, owner, rex), r.success, NEW d, d = r.db
  PROVE  /\ Good(d, t) /\ Keeps(db, d, r.proceeds) /\ StaysEmpty(db, d)
         /\ r.proceeds \in Nat /\ r.stake_change \in Int
         /\ SaleOnly(db, d, owner)
         /\ d.bal[owner].matured_rex = db.bal[owner].matured_rex - rex
<1>1. /\ db \in Db /\ PoolOK(PoolOf(db)) /\ PoolOf(db) = db.pool
      /\ RowGood(db.bal[owner], t) /\ db.bal[owner] \in RexBalance
  BY DEF Good, PoolGood, PoolOf, RowsGood, RowGood
<1>2. PICK p : p = db.pool
  OBVIOUS
<1>3. PICK row : row = db.bal[owner]
  OBVIOUS
<1>4. PoolOK(p) /\ p \in Pool
  BY <1>1, <1>2 DEF PoolOK
<1>5. /\ row.matured_rex \in Int /\ row.rex_balance \in Int /\ row.vote_stake \in Int
      /\ row.rex_balance >= row.matured_rex /\ row \in RexBalance
  BY <1>1, <1>3, GoodRowOK DEF RexBalance
<1>6. row.rex_balance <= p.total_rex /\ p.total_rex \in Nat
  <2>1. SharesOf(db, owner) = row.rex_balance
    BY <1>3 DEF SharesOf
  <2>2. row.rex_balance <= p.total_rex
    BY <1>1, <1>2, <2>1, SharesBounded
  <2> QED
    BY <1>4, <2>2 DEF PoolOK, Pool
<1>7. rex \in Nat /\ rex > 0 /\ rex <= p.total_rex /\ p.total_rex > 0
  BY <1>3, <1>5, <1>6
<1>8. \A n \in Nat : Value(p, n) \in Nat
  <2>1. p.total_lendable \in Nat /\ p.total_rex \in Nat
    BY <1>4 DEF PoolOK, Pool
  <2>2. PICK l \in Nat, s \in Nat \ {0} : l = p.total_lendable /\ s = p.total_rex
    BY <1>7, <2>1
  <2>3. ASSUME NEW n \in Nat PROVE (n * l) \div s \in Nat
    <3>1. n * l \in Nat
      BY SMT
    <3> QED
      BY <3>1, DivBounds
  <2> QED
    BY <2>2, <2>3 DEF Value
<1>9. PICK v \in Nat : v = Value(p, rex)
  BY <1>7, <1>8
<1>10. PICK w \in Nat : w = Value(p, row.rex_balance)
  BY <1>5, <1>7, <1>8, <1>3
<1>11. PICK stake \in Int : stake = w - v
  OBVIOUS
<1>12. CanFill(p, rex)
  BY <1>1, <1>2 DEF fill_rex_order
<1>13. PICK q : q = Filled(p, rex)
  OBVIOUS
<1>14. PICK sold : sold = Sold(row, rex, stake)
  OBVIOUS
<1>15. /\ r.proceeds = v
       /\ r.stake_change = stake - row.vote_stake
       /\ d = [db EXCEPT !.pool = q, !.bal = [db.bal EXCEPT ![owner] = sold]]
  BY <1>2, <1>3, <1>9, <1>10, <1>11, <1>12, <1>13, <1>14 DEF fill_rex_order
<1>16. PoolOK(q) /\ NotCheaper(p, q)
  BY <1>4, <1>7, <1>12, <1>13, SellingKeepsPool
<1>17. PoolMoves(p, q, - v, 0, - rex, 0)
  BY <1>4, <1>9, <1>13, FilledMoves
<1>18. /\ sold \in RexBalance /\ sold.vote_stake = stake /\ sold.rex_balance = row.rex_balance - rex
       /\ sold.matured_rex = row.matured_rex - rex /\ sold.rex_maturities = row.rex_maturities
  <2>1. PICK x \in Int, y \in Int : x = row.rex_balance - rex /\ y = row.matured_rex - rex
    BY <1>5
  <2>2. sold = [row EXCEPT !.vote_stake = stake, !.rex_balance = x, !.matured_rex = y]
    BY <1>14, <2>1 DEF Sold
  <2> QED
    BY <1>5, <2>1, <2>2 DEF RexBalance
<1>19. RowGood(sold, t)
  <2>1. InBuckets(row.rex_maturities) \in Int
    BY <1>5, InBucketsIsSum DEF RexBalance
  <2>2. RowGood(row, t) /\ rex <= row.matured_rex
    BY <1>1, <1>3
  <2>3. row.rex_balance = row.matured_rex + InBuckets(row.rex_maturities)
    BY <2>2 DEF RowGood
  <2>4. sold.matured_rex >= 0
        /\ sold.rex_balance = sold.matured_rex + InBuckets(sold.rex_maturities)
    <3>1. PICK n \in Int, m \in Int, b \in Int :
             n = row.rex_balance /\ m = row.matured_rex /\ b = InBuckets(row.rex_maturities)
      BY <1>5, <2>1
    <3>2. /\ sold.matured_rex = m - rex /\ sold.rex_balance = n - rex
          /\ InBuckets(sold.rex_maturities) = b
      BY <1>18, <3>1
    <3>3. n = m + b /\ rex <= m /\ rex \in Int
      BY <1>5, <2>2, <2>3, <3>1
    <3>4. m - rex >= 0 /\ n - rex = (m - rex) + b
      BY <3>3
    <3> QED
      BY <3>2, <3>4
  <2> QED
    BY <1>18, <2>2, <2>4 DEF RowGood
<1>20. /\ d.tokens = db.tokens /\ d.userres = db.userres /\ d.loan = db.loan
       /\ d.fund = db.fund /\ d.order = db.order /\ d.voters = db.voters
       /\ d.pool = q /\ d.bal = [db.bal EXCEPT ![owner] = sold] /\ d.ok = db.ok
  BY <1>1, <1>15 DEF Db
<1>21. q \in Pool /\ q # NoRow /\ sold # NoRow /\ PoolOf(d) = q
  BY <1>17, <1>18, <1>20, NoRowIsNone DEF PoolMoves, PoolOf
<1>22. /\ d.bal \in [Accounts -> RexBalance \cup {NoRow}] /\ d.bal[owner] = sold
       /\ \A a \in Accounts \ {owner} : d.bal[a] = db.bal[a]
  BY <1>1, <1>18, <1>20, DbFields
<1>23. d \in Db
  <2>1. PICK b : b = [db.bal EXCEPT ![owner] = sold]
    OBVIOUS
  <2>2. b \in [Accounts -> RexBalance \cup {NoRow}]
    BY <1>20, <1>22, <2>1
  <2>3. PICK e : e = [db EXCEPT !.pool = q]
    OBVIOUS
  <2>4. d = [e EXCEPT !.bal = b]
    BY <1>1, <1>15, <2>1, <2>3 DEF Db
  <2>5. e \in Db
    BY <1>1, <1>21, <2>3 DEF Db
  <2> QED
    BY <2>2, <2>4, <2>5 DEF Db
<1>24. SharesOut(d) = SharesOut(db) - rex
  <2>1. SharesOut(d) = SharesOut(db) + (SharesOf(d, owner) - SharesOf(db, owner))
    BY <1>1, <1>22, <1>23, SharesChange
  <2>2. SharesOf(d, owner) = row.rex_balance - rex /\ SharesOf(db, owner) = row.rex_balance
    BY <1>3, <1>18, <1>21, <1>22 DEF SharesOf
  <2>3. SharesOut(db) \in Int
    BY <1>1, SumsAreInts
  <2> QED
    BY <1>5, <2>1, <2>2, <2>3
<1>25. /\ Claims(d) = Claims(db) /\ LoanFunds(d) = LoanFunds(db) /\ LoanStakes(d) = LoanStakes(db)
       /\ \A a \in Accounts : \A k \in Resource : LentTo(d, a, k) = LentTo(db, a, k)
  BY <1>20 DEF Claims, FundOf, IsFilled, LoanFunds, LoanStakes, LentTo
<1>26. /\ q.total_lendable = p.total_lendable - v /\ q.total_lent = p.total_lent
       /\ q.total_rex = p.total_rex - rex /\ q.loan_num = p.loan_num
       /\ q.namebid_proceeds = p.namebid_proceeds
       /\ p.total_lendable \in Int /\ p.total_lent \in Int /\ p.total_rex \in Int /\ p.loan_num \in Int
  <2>1. p.total_lendable \in Int /\ p.total_lent \in Int /\ p.total_rex \in Int /\ p.loan_num \in Int
    BY <1>4, PoolFields
  <2>2. /\ q.total_lendable = p.total_lendable + (- v) /\ q.total_lent = p.total_lent + 0
        /\ q.total_rex = p.total_rex + (- rex) /\ q.loan_num = p.loan_num + 0
        /\ q.namebid_proceeds = p.namebid_proceeds
    BY <1>17 DEF PoolMoves
  <2> QED
    BY <2>1, <2>2
<1>27. Good(d, t)
  <2>1. PoolGood(d)
    BY <1>1, <1>2, <1>16, <1>21, <1>24, <1>25, <1>26 DEF Good, PoolGood
  <2>2. RowsGood(d, t)
    BY <1>19, <1>22 DEF Good, RowsGood
  <2>3. \A i \in LoanIds : LoanGood(d, i)
    BY <1>1, <1>2, <1>20, <1>21, <1>26 DEF Good, LoanGood
  <2>4. ProceedsGood(d)
    BY <1>20 DEF Good, ProceedsGood, IsFilled
  <2>5. Timely(d, t)
    BY <1>1, <1>20, SameStay, TimelyStays DEF Good
  <2> QED
    BY <1>23, <2>1, <2>2, <2>3, <2>4, <2>5 DEF Good
<1>28. Surplus(d) = Surplus(db) + v
  <2>1. PICK tk \in Int, c \in Int, f \in Int, l \in Int :
          tk = db.tokens[RexAccount] /\ c = Claims(db) /\ f = LoanFunds(db) /\ l = p.total_lendable
    BY <1>1, <1>26, SurplusIsInt, SumsAreInts
  <2>2. Surplus(db) = tk - (c + f + l) /\ Surplus(d) = tk - (c + f + (l - v))
    BY <1>1, <1>2, <1>20, <1>21, <1>25, <1>26, <2>1 DEF Surplus
  <2> QED
    BY <2>2
<1>29. \A a \in Accounts : \A k \in Resource : Unlent(d, a, k) = Unlent(db, a, k)
  BY <1>20, <1>25 DEF Unlent
<1>30. VotesOK(db) => VotesOK(d)
  <2>1. \A a \in Accounts : Holding(d, a) => Holding(db, a)
    <3>1. Holding(d, owner) => Holding(db, owner)
      BY <1>3, <1>5, <1>7, <1>18, <1>22 DEF Holding
    <3> QED
      BY <1>22, <3>1 DEF Holding
  <2> QED
    BY <1>20, <2>1 DEF VotesOK, Voting
<1>31. NamesOK(d)
  BY <1>1, <1>2, <1>21, <1>26, <1>4 DEF NamesOK, Pool
<1>32. Keeps(db, d, r.proceeds)
  BY <1>1, <1>2, <1>15, <1>16, <1>20, <1>21, <1>28, <1>29, <1>30, <1>31 DEF Keeps
<1>33. StaysEmpty(db, d)
  BY <1>1, <1>2, <1>7 DEF StaysEmpty
<1>34. SaleOnly(db, d, owner)
  BY <1>1, <1>2, <1>20, <1>21, <1>22, <1>26 DEF SaleOnly
<1>35. r.proceeds \in Nat /\ r.stake_change \in Int
  BY <1>5, <1>15
<1>36. d.bal[owner].matured_rex = db.bal[owner].matured_rex - rex
  BY <1>3, <1>18, <1>22
<1> QED
  BY <1>27, <1>32, <1>33, <1>34, <1>35, <1>36

OrderSet(db, owner, row) == [db EXCEPT !.order[owner] = row]

\* An order that was not filled becomes another row; its proceeds are a claim.
LEMMA OrderChanged ==
  ASSUME NEW db \in Db, ProceedsGood(db), NEW owner \in Accounts, ~ IsFilled(db, owner),
         NEW row \in RexOrder, NEW x \in Nat, x = (IF row.is_open THEN 0 ELSE row.proceeds),
         NEW d, d = OrderSet(db, owner, row)
  PROVE  /\ Aside(db, d, - x)
         /\ SameRest(db, d) /\ d.tokens = db.tokens /\ d.fund = db.fund /\ d.voters = db.voters
         /\ d.ok = db.ok /\ d.order[owner] = row
         /\ \A a \in Accounts \ {owner} : d.order[a] = db.order[a]
<1>1. d = [db EXCEPT !.order = [db.order EXCEPT ![owner] = row]]
  BY DEF OrderSet
<1>2. /\ d.order = [db.order EXCEPT ![owner] = row]
      /\ SameRest(db, d) /\ d.tokens = db.tokens /\ d.fund = db.fund /\ d.voters = db.voters
      /\ d.ok = db.ok
  BY <1>1 DEF Db, SameRest
<1>3. /\ d.order \in [Accounts -> RexOrder \cup {NoRow}] /\ d.order[owner] = row
      /\ \A a \in Accounts \ {owner} : d.order[a] = db.order[a]
  BY <1>2, DbFields
<1>4. d \in Db
  BY <1>1, <1>3 DEF Db
<1>5. row # NoRow /\ (IsFilled(d, owner) <=> ~ row.is_open)
  BY <1>3, NoRowIsNone DEF IsFilled
<1>6. Claims(d) = Claims(db) + x
  <2>1. Claims(d) = Claims(db) + (ClaimOf(d, owner) - ClaimOf(db, owner))
    <3>1. \A b \in Accounts \ {owner} : d.fund[b] = db.fund[b] /\ d.order[b] = db.order[b]
      BY <1>2, <1>3
    <3> QED
      BY <1>4, <3>1, ClaimsChange
  <2>2. FundOf(d, owner) = FundOf(db, owner)
    BY <1>2 DEF FundOf
  <2>3. ClaimOf(db, owner) = FundOf(db, owner) + 0 /\ ClaimOf(d, owner) = FundOf(db, owner) + x
    BY <1>3, <1>5, <2>2 DEF ClaimOf
  <2>4. Claims(db) \in Int /\ FundOf(db, owner) \in Nat
    BY SumsAreInts, EntriesAreInts
  <2> QED
    BY <2>1, <2>3, <2>4
<1>7. d.tokens[RexAccount] - Claims(d) = (db.tokens[RexAccount] - Claims(db)) + (- x)
  <2>1. Claims(db) \in Int /\ db.tokens[RexAccount] \in Int
    BY SumsAreInts, SurplusIsInt
  <2> QED
    BY <1>2, <1>6, <2>1
<1>8. ProceedsGood(d) /\ \A a \in Accounts : Voting(db, a) => Voting(d, a)
  <2>1. \A a \in Accounts : Voting(db, a) => Voting(d, a)
    BY <1>2 DEF Voting
  <2>2. \A a \in Accounts \ {owner} : IsFilled(d, a) => IsFilled(db, a) /\ d.order[a] = db.order[a]
    BY <1>3 DEF IsFilled
  <2>3. IsFilled(d, owner) => d.order[owner].proceeds >= 0
    BY <1>3, <1>5
  <2> QED
    BY <2>1, <2>2, <2>3 DEF ProceedsGood
<1>9. Aside(db, d, - x)
  BY <1>2, <1>4, <1>7, <1>8, SameStay DEF Aside, SameRest
<1> QED
  BY <1>2, <1>3, <1>9

\* What an attempt to fill one order leaves: the order and the shares of others,
\* and this order too if it is still open.
Tried(db, d, owner) ==
  /\ d.tokens = db.tokens /\ d.userres = db.userres /\ d.loan = db.loan
  /\ d.fund = db.fund /\ d.voters = db.voters /\ d.ok = db.ok
  /\ \A a \in Accounts \ {owner} : d.bal[a] = db.bal[a] /\ d.order[a] = db.order[a]
  /\ d.bal[owner] # NoRow
  /\ \/ d.order[owner] = db.order[owner] /\ d.bal[owner] = db.bal[owner]
     \/ IsFilled(d, owner)
  /\ d.pool # NoRow
  /\ PoolOf(d).total_lent = PoolOf(db).total_lent
  /\ PoolOf(d).namebid_proceeds = PoolOf(db).namebid_proceeds

\* Nothing is tried.
LEMMA KeepsSame ==
  ASSUME NEW t, NEW db, Good(db, t)
  PROVE  Keeps(db, db, 0) /\ StaysEmpty(db, db)
<1>1. Surplus(db) = Surplus(db) + 0
  BY SurplusIsInt DEF Good
<1>2. NotCheaper(PoolOf(db), PoolOf(db))
  BY CheaperSame DEF Good, PoolGood
<1> QED
  BY <1>1, <1>2 DEF Keeps, StaysEmpty

\* TryOrder.
LEMMA TryKeeps ==
  ASSUME NEW t \in Nat, NEW db, Good(db, t), NEW owner \in Accounts, IsOpen(db, owner),
         Covers(db, owner), db.pool # NoRow, PoolOf(db).namebid_proceeds <= 0,
         NEW d, d = TryOrder(db, owner)
  PROVE  Good(d, t) /\ Keeps(db, d, 0) /\ StaysEmpty(db, d) /\ Tried(db, d, owner)
<1>1. /\ db \in Db /\ db.bal[owner] # NoRow
      /\ db.order[owner] \in RexOrder /\ db.order[owner].is_open
  BY DbFields DEF Good, Covers, IsOpen
<1>2. PICK rex : rex = db.order[owner].rex_requested
  OBVIOUS
<1>3. rex \in Int /\ 0 < rex /\ rex <= db.bal[owner].matured_rex
  BY <1>1, <1>2 DEF Covers, RexOrder
<1>4. PICK r : r = fill_rex_order(db, owner, rex)
  OBVIOUS
<1>5. CASE ~ r.success
  <2>1. d = db
    BY <1>2, <1>4, <1>5 DEF TryOrder
  <2> QED
    BY <1>1, <2>1, KeepsSame DEF Tried
<1>6. CASE r.success
  <2>1. PICK m : m = r.db
    OBVIOUS
  <2>2. /\ Good(m, t) /\ Keeps(db, m, r.proceeds) /\ StaysEmpty(db, m)
        /\ r.proceeds \in Nat /\ r.stake_change \in Int /\ SaleOnly(db, m, owner)
    BY <1>1, <1>3, <1>4, <1>6, <2>1, FillKeeps
  <2>3. PICK v \in Nat, s \in Int : v = r.proceeds /\ s = r.stake_change
    BY <2>2
  <2>4. PICK row : row = OrderFilled(m.order[owner], v, s)
    OBVIOUS
  <2>5. row \in RexOrder /\ row.proceeds = v /\ ~ row.is_open
    <3>1. PICK o \in RexOrder : o = m.order[owner]
      BY <1>1, <2>2 DEF SaleOnly
    <3>2. row = [o EXCEPT !.proceeds = v, !.stake_change = s, !.is_open = FALSE]
      BY <2>4, <3>1 DEF OrderFilled
    <3>3. row.proceeds = v /\ row.is_open = FALSE
      BY <3>2 DEF RexOrder
    <3>4. v \in Int /\ s \in Int /\ FALSE \in BOOLEAN
      OBVIOUS
    <3>5. row \in RexOrder
      BY <3>2, <3>4 DEF RexOrder
    <3> QED
      BY <3>3, <3>5
  <2>6. d = OrderSet(m, owner, row)
    BY <1>2, <1>4, <1>6, <2>1, <2>3, <2>4 DEF TryOrder, OrderSet
  <2>7. m \in Db /\ ProceedsGood(m) /\ ~ IsFilled(m, owner)
    BY <1>1, <2>2 DEF Good, SaleOnly, IsFilled
  <2>8. /\ Aside(m, d, - v)
        /\ SameRest(m, d) /\ d.tokens = m.tokens /\ d.fund = m.fund /\ d.voters = m.voters
        /\ d.ok = m.ok /\ d.order[owner] = row
        /\ \A a \in Accounts \ {owner} : d.order[a] = m.order[a]
    BY <2>5, <2>6, <2>7, OrderChanged
  <2>9. PICK y \in Int : y = - v
    OBVIOUS
  <2>16. OrdersStay(m, d)
    <3>1. ~ IsOpen(d, owner)
      BY <2>5, <2>8 DEF IsOpen
    <3>2. \A a \in Accounts \ {owner} : IsOpen(d, a) => IsOpen(m, a) /\ d.order[a] = m.order[a]
      BY <2>8 DEF IsOpen
    <3> QED
      BY <3>1, <3>2 DEF OrdersStay
  <2>10. Good(d, t) /\ Keeps(m, d, y) /\ StaysEmpty(m, d)
    BY <2>2, <2>8, <2>9, <2>16, ApartKeeps DEF Apart
  <2>11. Keeps(db, d, v + y)
    BY <2>2, <2>3, <2>9, <2>10, KeepsChain
  <2>12. v + y = 0
    BY <2>9
  <2>13. StaysEmpty(db, d)
    BY <2>2, <2>10 DEF StaysEmpty
  <2>14. IsFilled(d, owner)
    BY <2>5, <2>8, NoRowIsNone DEF IsFilled
  <2>15. Tried(db, d, owner)
    BY <2>2, <2>8, <2>14 DEF Tried, SaleOnly, SameRest, PoolOf
  <2> QED
    BY <2>10, <2>11, <2>12, <2>13, <2>15
<1> QED
  BY <1>5, <1>6

(***************************************************************************)
(* runrex: the loops over loans and orders, one turn of each, and all of it. *)
(***************************************************************************)
\* What the numbers up to max take a start to, step by step.
LoanSteps(f, start, kind, max) ==
  f = [i \in 0 .. max |-> IF i = 0 THEN start ELSE ProcessLoan(f[i - 1], kind)]

OrderSteps(f, start, max) ==
  f = [i \in 0 .. max |-> IF i = 0 THEN start ELSE NextOrder(f[i - 1])]

\* There are such steps.
LEMMA LoanStepsExist ==
  ASSUME NEW start, NEW kind, NEW max \in Nat
  PROVE  \E f : LoanSteps(f, start, kind, max)
<1> DEFINE Bad == {n \in Nat : ~ \E f : LoanSteps(f, start, kind, n)}
<1>1. SUFFICES ASSUME Bad # {} PROVE FALSE
  OBVIOUS
<1>2. PICK m \in Bad : \A k \in Bad : m <= k
  <2>1. Bad \in SUBSET Nat
    OBVIOUS
  <2> HIDE DEF Bad
  <2> QED
    BY <1>1, <2>1, SmallestNumber
<1>3. m \in Nat /\ ~ \E f : LoanSteps(f, start, kind, m)
  OBVIOUS
<1>4. m # 0
  <2>1. SUFFICES ASSUME m = 0 PROVE FALSE
    OBVIOUS
  <2>2. PICK f : f = [i \in 0 .. 0 |-> start]
    OBVIOUS
  <2>3. f = [i \in 0 .. 0 |-> IF i = 0 THEN start ELSE ProcessLoan(f[i - 1], kind)]
    BY <2>2
  <2> QED
    BY <1>3, <2>1, <2>3 DEF LoanSteps
<1>5. m - 1 \in Nat /\ m - 1 \notin Bad
  BY <1>2, <1>3, <1>4
<1>6. PICK f : LoanSteps(f, start, kind, m - 1)
  BY <1>5
<1>7. PICK g : g = [i \in 0 .. m |-> IF i = m THEN ProcessLoan(f[m - 1], kind) ELSE f[i]]
  OBVIOUS
<1>8. \A i \in 0 .. m - 1 : f[i] = IF i = 0 THEN start ELSE ProcessLoan(f[i - 1], kind)
  BY <1>6 DEF LoanSteps
<1>9. \A i \in 0 .. m - 1 : g[i] = f[i]
  BY <1>3, <1>7
<1>10. ASSUME NEW i \in 0 .. m
       PROVE  g[i] = IF i = 0 THEN start ELSE ProcessLoan(g[i - 1], kind)
  <2>1. CASE i = m
    <3>1. g[i] = ProcessLoan(f[m - 1], kind) /\ i # 0 /\ i - 1 \in 0 .. m - 1
      BY <1>3, <1>4, <1>7, <2>1
    <3> QED
      BY <1>9, <2>1, <3>1
  <2>2. CASE i = 0
    <3>1. i \in 0 .. m - 1
      BY <1>3, <1>4, <2>2
    <3> QED
      BY <1>8, <1>9, <2>2, <3>1
  <2>3. CASE i # 0 /\ i # m
    <3>1. i \in 0 .. m - 1 /\ i - 1 \in 0 .. m - 1
      BY <1>3, <2>3
    <3> QED
      BY <1>8, <1>9, <2>3, <3>1
  <2> QED
    BY <2>1, <2>2, <2>3
<1>11. g = [i \in 0 .. m |-> IF i = 0 THEN start ELSE ProcessLoan(g[i - 1], kind)]
  BY <1>7, <1>10
<1> QED
  BY <1>3, <1>11 DEF LoanSteps

\* The walk over the queue of sell orders exists.
LEMMA OrderStepsExist ==
  ASSUME NEW start, NEW max \in Nat
  PROVE  \E f : OrderSteps(f, start, max)
<1> DEFINE Bad == {n \in Nat : ~ \E f : OrderSteps(f, start, n)}
<1>1. SUFFICES ASSUME Bad # {} PROVE FALSE
  OBVIOUS
<1>2. PICK m \in Bad : \A k \in Bad : m <= k
  <2>1. Bad \in SUBSET Nat
    OBVIOUS
  <2> HIDE DEF Bad
  <2> QED
    BY <1>1, <2>1, SmallestNumber
<1>3. m \in Nat /\ ~ \E f : OrderSteps(f, start, m)
  OBVIOUS
<1>4. m # 0
  <2>1. SUFFICES ASSUME m = 0 PROVE FALSE
    OBVIOUS
  <2>2. PICK f : f = [i \in 0 .. 0 |-> start]
    OBVIOUS
  <2>3. f = [i \in 0 .. 0 |-> IF i = 0 THEN start ELSE NextOrder(f[i - 1])]
    BY <2>2
  <2> QED
    BY <1>3, <2>1, <2>3 DEF OrderSteps
<1>5. m - 1 \in Nat /\ m - 1 \notin Bad
  BY <1>2, <1>3, <1>4
<1>6. PICK f : OrderSteps(f, start, m - 1)
  BY <1>5
<1>7. PICK g : g = [i \in 0 .. m |-> IF i = m THEN NextOrder(f[m - 1]) ELSE f[i]]
  OBVIOUS
<1>8. \A i \in 0 .. m - 1 : f[i] = IF i = 0 THEN start ELSE NextOrder(f[i - 1])
  BY <1>6 DEF OrderSteps
<1>9. \A i \in 0 .. m - 1 : g[i] = f[i]
  BY <1>3, <1>7
<1>10. ASSUME NEW i \in 0 .. m
       PROVE  g[i] = IF i = 0 THEN start ELSE NextOrder(g[i - 1])
  <2>1. CASE i = m
    <3>1. g[i] = NextOrder(f[m - 1]) /\ i # 0 /\ i - 1 \in 0 .. m - 1
      BY <1>3, <1>4, <1>7, <2>1
    <3> QED
      BY <1>9, <2>1, <3>1
  <2>2. CASE i = 0
    <3>1. i \in 0 .. m - 1
      BY <1>3, <1>4, <2>2
    <3> QED
      BY <1>8, <1>9, <2>2, <3>1
  <2>3. CASE i # 0 /\ i # m
    <3>1. i \in 0 .. m - 1 /\ i - 1 \in 0 .. m - 1
      BY <1>3, <2>3
    <3> QED
      BY <1>8, <1>9, <2>3, <3>1
  <2> QED
    BY <2>1, <2>2, <2>3
<1>11. g = [i \in 0 .. m |-> IF i = 0 THEN start ELSE NextOrder(g[i - 1])]
  BY <1>7, <1>10
<1> QED
  BY <1>3, <1>11 DEF OrderSteps

\* ProcessLoans and ProcessOrders are where the steps lead.
LEMMA LoansInSteps ==
  ASSUME NEW db, NEW kind, NEW max \in Nat
  PROVE  \E f : LoanSteps(f, db, kind, max) /\ ProcessLoans(db, kind, max) = f[max]
<1> DEFINE after == CHOOSE f : f = [i \in 0 .. max |-> IF i = 0 THEN db ELSE ProcessLoan(f[i - 1], kind)]
<1>1. ProcessLoans(db, kind, max) = after[max]
  BY DEF ProcessLoans
<1>2. \E f : f = [i \in 0 .. max |-> IF i = 0 THEN db ELSE ProcessLoan(f[i - 1], kind)]
  <2>1. \E f : LoanSteps(f, db, kind, max)
    BY LoanStepsExist
  <2> QED
    BY <2>1, Zenon DEF LoanSteps
<1>3. after = [i \in 0 .. max |-> IF i = 0 THEN db ELSE ProcessLoan(after[i - 1], kind)]
  BY <1>2, Zenon
<1> HIDE DEF after
<1> QED
  BY <1>1, <1>3 DEF LoanSteps

\* ProcessOrders returns where that walk ends.
LEMMA OrdersInSteps ==
  ASSUME NEW db, NEW max \in Nat
  PROVE  \E f : /\ OrderSteps(f, [db |-> db, left |-> Queue(db)], max)
                /\ ProcessOrders(db, max) = f[max].db
<1> DEFINE start == [db |-> db, left |-> Queue(db)]
           after == CHOOSE f : f = [i \in 0 .. max |-> IF i = 0 THEN start ELSE NextOrder(f[i - 1])]
<1>1. ProcessOrders(db, max) = after[max].db
  BY DEF ProcessOrders
<1>2. \E f : f = [i \in 0 .. max |-> IF i = 0 THEN start ELSE NextOrder(f[i - 1])]
  <2> HIDE DEF start
  <2> QED
    BY OrderStepsExist DEF OrderSteps
<1>3. after = [i \in 0 .. max |-> IF i = 0 THEN start ELSE NextOrder(after[i - 1])]
  BY <1>2, Zenon
<1> HIDE DEF after
<1> QED
  BY <1>1, <1>3 DEF OrderSteps

\* A queue that is not empty has a front.
LEMMA FirstExists ==
  ASSUME NEW db \in Db, NEW S \in SUBSET Accounts, S # {}, \A a \in S : IsOpen(db, a)
  PROVE  FirstOf(db, S) \in S
<1>1. \A a \in S : db.order[a].order_time \in Nat
  BY DbFields DEF IsOpen, RexOrder
<1>2. \A a \in S : NameValue[a] \in Nat
  BY RexAssumption DEF RexAssumption
<1> DEFINE T == {n \in Nat : \E a \in S : db.order[a].order_time = n}
<1>3. T \in SUBSET Nat /\ T # {}
  BY <1>1
<1>4. PICK m \in T : \A n \in T : m <= n
  <2> HIDE DEF T
  <2> QED
    BY <1>3, SmallestNumber
<1> DEFINE Q == {a \in S : db.order[a].order_time = m}
           V == {n \in Nat : \E a \in Q : NameValue[a] = n}
<1>5. V \in SUBSET Nat /\ V # {}
  BY <1>2, <1>4
<1>6. PICK v \in V : \A n \in V : v <= n
  <2> HIDE DEF V
  <2> QED
    BY <1>5, SmallestNumber
<1>7. PICK a \in Q : NameValue[a] = v
  BY <1>6
<1>8. ASSUME NEW b \in S PROVE Earlier(db, a, b)
  <2>1. db.order[b].order_time \in T /\ m <= db.order[b].order_time /\ m \in Nat
    BY <1>1, <1>4
  <2>2. CASE db.order[b].order_time = m
    <3>1. NameValue[b] \in V
      BY <1>2, <2>2
    <3>2. NameValue[a] <= NameValue[b]
      BY <1>6, <1>7, <3>1
    <3> QED
      BY <1>7, <2>2, <3>2 DEF Earlier
  <2>3. CASE db.order[b].order_time # m
    <3>1. m < db.order[b].order_time
      BY <1>1, <2>1, <2>3
    <3> QED
      BY <1>7, <3>1 DEF Earlier
  <2> QED
    BY <2>2, <2>3
<1>9. \E c \in S : \A b \in S : Earlier(db, c, b)
  BY <1>7, <1>8
<1> QED
  BY <1>9 DEF FirstOf

\* What the walk along the queue leaves of orders and shares.
OrdersRun(db, d) ==
  /\ d.tokens = db.tokens /\ d.userres = db.userres /\ d.loan = db.loan
  /\ d.fund = db.fund /\ d.voters = db.voters /\ d.ok = db.ok
  /\ \A a \in Accounts :
       \/ d.order[a] = db.order[a] /\ d.bal[a] = db.bal[a]
       \/ IsOpen(db, a) /\ IsFilled(d, a) /\ d.bal[a] # NoRow
  /\ d.pool # NoRow
  /\ PoolOf(d).total_lent = PoolOf(db).total_lent
  /\ PoolOf(d).namebid_proceeds = PoolOf(db).namebid_proceeds

\* What holds while it is under way: those left are as they were.
WalkGood(db, t, w) ==
  /\ Good(w.db, t) /\ Keeps(db, w.db, 0) /\ StaysEmpty(db, w.db) /\ OrdersRun(db, w.db)
  /\ \A a \in w.left : /\ a \in Accounts /\ IsOpen(db, a)
                       /\ w.db.order[a] = db.order[a] /\ w.db.bal[a] = db.bal[a]

AllCovered(db) == \A a \in Accounts : Covers(db, a)

\* One order of the queue (rex.cpp runrex): the walk keeps what it has kept so far.
LEMMA WalkStep ==
  ASSUME NEW t \in Nat, NEW db, Good(db, t), AllCovered(db), PoolOf(db).namebid_proceeds <= 0,
         NEW w, WalkGood(db, t, w)
  PROVE  WalkGood(db, t, NextOrder(w))
<1>1. CASE w.left = {}
  BY <1>1 DEF NextOrder
<1>2. CASE w.left # {}
  <2>1. PICK owner : owner = FirstOf(w.db, w.left)
    OBVIOUS
  <2>2. PICK m : m = w.db
    OBVIOUS
  <2>3. /\ Good(m, t) /\ Keeps(db, m, 0) /\ StaysEmpty(db, m) /\ OrdersRun(db, m)
        /\ \A a \in w.left : /\ a \in Accounts /\ IsOpen(db, a)
                             /\ m.order[a] = db.order[a] /\ m.bal[a] = db.bal[a]
    BY <2>2 DEF WalkGood
  <2>4. \A a \in w.left : IsOpen(m, a)
    BY <2>3 DEF IsOpen
  <2>5. owner \in w.left
    <3>1. m \in Db /\ w.left \in SUBSET Accounts
      BY <2>3 DEF Good
    <3> QED
      BY <1>2, <2>1, <2>2, <2>4, <3>1, FirstExists
  <2>6. owner \in Accounts /\ IsOpen(m, owner) /\ Covers(m, owner)
    BY <2>3, <2>4, <2>5 DEF AllCovered, Covers
  <2>7. m.pool # NoRow /\ PoolOf(m).namebid_proceeds <= 0
    BY <2>3 DEF OrdersRun
  <2>8. PICK d : d = TryOrder(m, owner)
    OBVIOUS
  <2>9. Good(d, t) /\ Keeps(m, d, 0) /\ StaysEmpty(m, d) /\ Tried(m, d, owner)
    BY <2>3, <2>6, <2>7, <2>8, TryKeeps
  <2>10. Keeps(db, d, 0)
    <3>1. Keeps(db, d, 0 + 0)
      BY <2>3, <2>9, KeepsChain
    <3> QED
      BY <3>1
  <2>11. StaysEmpty(db, d)
    BY <2>3, <2>9 DEF StaysEmpty
  <2>12. OrdersRun(db, d)
    <3>1. ASSUME NEW a \in Accounts
          PROVE  \/ d.order[a] = db.order[a] /\ d.bal[a] = db.bal[a]
                 \/ IsOpen(db, a) /\ IsFilled(d, a) /\ d.bal[a] # NoRow
      <4>1. CASE a = owner
        BY <2>3, <2>5, <2>9, <4>1 DEF Tried
      <4>2. CASE a # owner
        BY <2>3, <2>9, <4>2 DEF Tried, OrdersRun, IsFilled
      <4> QED
        BY <4>1, <4>2
    <3> QED
      BY <2>3, <2>9, <3>1 DEF Tried, OrdersRun
  <2>13. PICK n : n = NextOrder(w)
    OBVIOUS
  <2>14. n.db = d /\ n.left = w.left \ {owner}
    BY <1>2, <2>1, <2>2, <2>8, <2>13 DEF NextOrder
  <2>15. \A a \in n.left : /\ a \in Accounts /\ IsOpen(db, a)
                           /\ d.order[a] = db.order[a] /\ d.bal[a] = db.bal[a]
    BY <2>3, <2>9, <2>14 DEF Tried
  <2> QED
    BY <2>9, <2>10, <2>11, <2>12, <2>13, <2>14, <2>15 DEF WalkGood
<1> QED
  BY <1>1, <1>2

\* ProcessOrders.
LEMMA OrdersKeep ==
  ASSUME NEW t \in Nat, NEW db, Good(db, t), AllCovered(db), PoolOf(db).namebid_proceeds <= 0,
         db.pool # NoRow, NEW max \in Nat, NEW d, d = ProcessOrders(db, max)
  PROVE  Good(d, t) /\ Keeps(db, d, 0) /\ StaysEmpty(db, d) /\ OrdersRun(db, d)
<1>1. PICK start : start = [db |-> db, left |-> Queue(db)]
  OBVIOUS
<1>2. PICK f : OrderSteps(f, start, max) /\ d = f[max].db
  BY <1>1, OrdersInSteps
<1>3. WalkGood(db, t, start)
  <2>1. start.db = db /\ start.left = Queue(db)
    BY <1>1
  <2>2. OrdersRun(db, db)
    BY DEF OrdersRun
  <2> QED
    BY <2>1, <2>2, KeepsSame DEF WalkGood, Queue
<1> DEFINE Bad == {i \in 0 .. max : ~ WalkGood(db, t, f[i])}
<1>4. \A i \in 0 .. max : f[i] = IF i = 0 THEN start ELSE NextOrder(f[i - 1])
  BY <1>2 DEF OrderSteps
<1>5. Bad = {}
  <2>1. SUFFICES ASSUME Bad # {} PROVE FALSE
    OBVIOUS
  <2>2. PICK i \in Bad : \A k \in Bad : i <= k
    <3>1. Bad \in SUBSET Nat
      OBVIOUS
    <3> HIDE DEF Bad
    <3> QED
      BY <2>1, <3>1, SmallestNumber
  <2>3. i \in 0 .. max /\ ~ WalkGood(db, t, f[i])
    OBVIOUS
  <2>4. i # 0
    BY <1>3, <1>4, <2>3
  <2>5. i - 1 \in 0 .. max /\ i - 1 \notin Bad
    BY <2>2, <2>3, <2>4
  <2>6. WalkGood(db, t, f[i - 1])
    BY <2>5
  <2>7. f[i] = NextOrder(f[i - 1])
    BY <1>4, <2>3, <2>4
  <2> QED
    BY <2>3, <2>6, <2>7, WalkStep
<1>6. WalkGood(db, t, f[max])
  BY <1>5
<1> QED
  BY <1>2, <1>6 DEF WalkGood

\* update_resource_limits.
LEMMA LimitsUpdated ==
  ASSUME NEW db \in Db, NEW receiver \in Accounts, NEW kind \in Resource, NEW delta \in Int,
         NEW d, d = update_resource_limits(db, receiver, kind, delta), d.ok
  PROVE  /\ d \in Db /\ db.ok
         /\ \A a \in Accounts : \A r \in Resource :
              d.userres[a][r] = db.userres[a][r] + (IF a = receiver /\ r = kind THEN delta ELSE 0)
         /\ d.tokens = db.tokens /\ d.voters = db.voters /\ d.pool = db.pool /\ d.fund = db.fund
         /\ d.bal = db.bal /\ d.order = db.order /\ d.loan = db.loan
<1>1. db.ok /\ db.userres[receiver][kind] + delta >= 0
  BY DEF update_resource_limits, Require, Db
<1>2. Require(db, db.userres[receiver][kind] + delta >= 0) = db
  BY <1>1 DEF Require, Db
<1>3. db.userres \in [Accounts -> Weight] /\ db.userres[receiver] \in [Resource -> Int]
  BY DbFields DEF Weight
<1>4. PICK n \in Int : n = db.userres[receiver][kind] + delta
  BY <1>3
<1>5. PICK w : w = [db.userres[receiver] EXCEPT ![kind] = n]
  OBVIOUS
<1>6. d = [db EXCEPT !.userres = [db.userres EXCEPT ![receiver] = w]]
  BY <1>2, <1>4, <1>5 DEF update_resource_limits
<1>7. w \in [Resource -> Int] /\ w[kind] = n /\ \A r \in Resource \ {kind} : w[r] = db.userres[receiver][r]
  BY <1>3, <1>5
<1>8. /\ d.userres = [db.userres EXCEPT ![receiver] = w]
      /\ d.tokens = db.tokens /\ d.voters = db.voters /\ d.pool = db.pool /\ d.fund = db.fund
      /\ d.bal = db.bal /\ d.order = db.order /\ d.loan = db.loan
  BY <1>6 DEF Db
<1>9. d.userres \in [Accounts -> Weight] /\ d.userres[receiver] = w
      /\ \A a \in Accounts \ {receiver} : d.userres[a] = db.userres[a]
  BY <1>3, <1>7, <1>8 DEF Weight
<1>10. d \in Db
  BY <1>6, <1>8, <1>9 DEF Db
<1>11. ASSUME NEW a \in Accounts, NEW r \in Resource
       PROVE  d.userres[a][r] = db.userres[a][r] + (IF a = receiver /\ r = kind THEN delta ELSE 0)
  <2>1. db.userres[a][r] \in Int
    BY <1>3 DEF Weight
  <2>2. CASE a = receiver /\ r = kind
    BY <1>4, <1>7, <1>9, <2>2
  <2>3. CASE ~ (a = receiver /\ r = kind)
    <3>1. d.userres[a][r] = db.userres[a][r]
      BY <1>7, <1>9, <2>3
    <3> QED
      BY <2>1, <2>3, <3>1
  <2> QED
    BY <2>2, <2>3
<1> QED
  BY <1>1, <1>8, <1>10, <1>11

\* One loan, the pool and the limits change together.
LoanTurns(db, d, id, c, f, l, s, n) ==
  /\ d \in Db /\ d.pool # NoRow
  /\ PoolOK(PoolOf(d)) /\ NotCheaper(PoolOf(db), PoolOf(d))
  /\ PoolMoves(PoolOf(db), PoolOf(d), l, s, 0, n) /\ n >= 0
  /\ d.tokens = db.tokens /\ d.bal = db.bal /\ d.order = db.order /\ d.voters = db.voters
  /\ \A i \in LoanIds \ {id} : d.loan[i] = db.loan[i]
  /\ LoanGood(d, id)
  /\ Claims(d) = Claims(db) + c
  /\ LoanFund(d, id) = LoanFund(db, id) + f
  /\ LoanStake(d, id) = LoanStake(db, id) + s
  /\ \A a \in Accounts : \A r \in Resource :
       d.userres[a][r] = db.userres[a][r] + (StakeTo(d, id, a, r) - StakeTo(db, id, a, r))

\* A loan that turns keeps the tables good; what it takes in or gives out is the surplus.
LEMMA LoanTurned ==
  ASSUME NEW t, NEW db, Good(db, t), NEW id \in LoanIds,
         NEW c \in Int, NEW f \in Int, NEW l \in Int, NEW s \in Int, NEW n \in Int,
         NEW d, LoanTurns(db, d, id, c, f, l, s, n), Timely(d, t),
         NEW x \in Int, x = - (c + f + l)
  PROVE  Good(d, t) /\ Keeps(db, d, x) /\ StaysEmpty(db, d)
<1>1. /\ db \in Db /\ d \in Db /\ d.pool # NoRow /\ PoolOf(d) = d.pool
      /\ d.tokens = db.tokens /\ d.bal = db.bal /\ d.order = db.order /\ d.voters = db.voters
      /\ \A i \in LoanIds \ {id} : d.loan[i] = db.loan[i]
  BY DEF Good, LoanTurns, PoolOf
<1>2. PICK p \in Pool, q \in Pool : p = PoolOf(db) /\ q = PoolOf(d)
  BY <1>1, PoolOfType
<1>3. /\ q.total_lendable = p.total_lendable + l /\ q.total_lent = p.total_lent + s
      /\ q.total_rex = p.total_rex + 0 /\ q.loan_num = p.loan_num + n
      /\ q.namebid_proceeds = p.namebid_proceeds /\ n >= 0
  BY <1>2 DEF LoanTurns, PoolMoves
<1>4. /\ p.total_lendable \in Int /\ p.total_lent \in Int /\ p.total_rex \in Int /\ p.loan_num \in Int
  BY <1>2, PoolFields
<1>5. q.total_rex = p.total_rex /\ q.loan_num >= p.loan_num
  BY <1>3, <1>4
<1>6. /\ LoanFunds(d) = LoanFunds(db) + (LoanFund(d, id) - LoanFund(db, id))
      /\ LoanStakes(d) = LoanStakes(db) + (LoanStake(d, id) - LoanStake(db, id))
      /\ \A a \in Accounts : \A r \in Resource :
           LentTo(d, a, r) = LentTo(db, a, r) + (StakeTo(d, id, a, r) - StakeTo(db, id, a, r))
  BY <1>1, LoansChange
<1>7. LoanFunds(d) = LoanFunds(db) + f /\ LoanStakes(d) = LoanStakes(db) + s
  <2>1. LoanFund(db, id) \in Int /\ LoanStake(db, id) \in Int
    BY <1>1, EntriesAreInts
  <2>2. LoanFunds(db) \in Int /\ LoanStakes(db) \in Int
    BY <1>1, SumsAreInts
  <2>3. LoanFund(d, id) = LoanFund(db, id) + f /\ LoanStake(d, id) = LoanStake(db, id) + s
    BY DEF LoanTurns
  <2> QED
    BY <1>6, <2>1, <2>2, <2>3
<1>8. SharesOut(d) = SharesOut(db)
  BY <1>1 DEF SharesOut
<1>9. Good(d, t)
  <2>1. PoolGood(d)
    <3>1. /\ SharesOut(db) = p.total_rex /\ LoanStakes(db) = p.total_lent /\ p.loan_num >= 0
      BY <1>2 DEF Good, PoolGood
    <3>2. q.loan_num \in Int
      BY <1>3, <1>4
    <3>3. PoolOK(q)
      BY <1>2 DEF LoanTurns
    <3> QED
      BY <1>2, <1>3, <1>4, <1>5, <1>7, <1>8, <3>1, <3>2, <3>3 DEF PoolGood
  <2>2. RowsGood(d, t)
    BY <1>1 DEF Good, RowsGood
  <2>3. ASSUME NEW i \in LoanIds PROVE LoanGood(d, i)
    <3>1. CASE i = id
      BY <3>1 DEF LoanTurns
    <3>2. CASE i # id
      <4>1. LoanGood(db, i) /\ d.loan[i] = db.loan[i]
        BY <1>1, <3>2 DEF Good
      <4>2. i \in Int /\ q.loan_num \in Int
        BY <1>3, <1>4 DEF LoanIds
      <4> QED
        BY <1>2, <1>4, <1>5, <4>1, <4>2 DEF LoanGood
    <3> QED
      BY <3>1, <3>2
  <2>4. ProceedsGood(d)
    BY <1>1 DEF Good, ProceedsGood, IsFilled
  <2> QED
    BY <1>1, <2>1, <2>2, <2>3, <2>4 DEF Good
<1>10. Surplus(d) = Surplus(db) + x
  <2>1. PICK tk \in Int, cl \in Int, fu \in Int, le \in Int :
          tk = db.tokens[RexAccount] /\ cl = Claims(db) /\ fu = LoanFunds(db) /\ le = p.total_lendable
    BY <1>1, <1>4, SurplusIsInt, SumsAreInts
  <2>2. Claims(d) = cl + c /\ LoanFunds(d) = fu + f /\ q.total_lendable = le + l
    BY <1>3, <1>7, <2>1 DEF LoanTurns
  <2>3. Surplus(db) = tk - (cl + fu + le) /\ Surplus(d) = tk - ((cl + c) + (fu + f) + (le + l))
    BY <1>1, <1>2, <2>1, <2>2 DEF Surplus
  <2> QED
    BY <2>3
<1>11. ASSUME NEW a \in Accounts, NEW r \in Resource PROVE Unlent(d, a, r) = Unlent(db, a, r)
  <2>1. /\ d.userres[a][r] = db.userres[a][r] + (StakeTo(d, id, a, r) - StakeTo(db, id, a, r))
        /\ LentTo(d, a, r) = LentTo(db, a, r) + (StakeTo(d, id, a, r) - StakeTo(db, id, a, r))
    BY <1>6 DEF LoanTurns
  <2>2. db.userres[a][r] \in Int /\ LentTo(db, a, r) \in Int
        /\ StakeTo(d, id, a, r) \in Int /\ StakeTo(db, id, a, r) \in Int
    BY <1>1, DbFields, SumsAreInts, EntriesAreInts DEF Weight
  <2> QED
    BY <2>1, <2>2 DEF Unlent
<1>12. VotesOK(db) => VotesOK(d)
  BY <1>1 DEF VotesOK, Holding, Voting
<1>13. NamesOK(db) => NamesOK(d)
  BY <1>1, <1>2, <1>3, <1>5 DEF NamesOK
<1>14. NotCheaper(PoolOf(db), PoolOf(d))
  BY DEF LoanTurns
<1>15. StaysEmpty(db, d)
  BY <1>2, <1>5 DEF StaysEmpty
<1> QED
  BY <1>1, <1>9, <1>10, <1>11, <1>12, <1>13, <1>14, <1>15 DEF Keeps

\* No loan has more staked than all loans.
LEMMA StakeBounded ==
  ASSUME NEW t, NEW db, Good(db, t), NEW id \in LoanIds
  PROVE  LoanStake(db, id) <= PoolOf(db).total_lent
<1> DEFINE f == [i \in LoanIds |-> LoanStake(db, i)]
<1>1. db \in Db /\ LoanStakes(db) = PoolOf(db).total_lent
  BY DEF Good, PoolGood
<1>2. \A i \in LoanIds : LoanStake(db, i) \in Nat
  BY <1>1, EntriesAreInts DEF Good, LoanGood, LoanStake
<1>3. f \in [LoanIds -> Nat] /\ IsFiniteSet(LoanIds) /\ f[id] = LoanStake(db, id)
  BY <1>1, <1>2, EntriesAreInts
<1>4. LoanStakes(db) = SumFunctionOnSet(f, LoanIds)
  BY <1>1, SumsOfEntries
<1> HIDE DEF f
<1>5. f[id] <= SumFunctionOnSet(f, LoanIds)
  BY <1>3, SumBound
<1> QED
  BY <1>1, <1>3, <1>4, <1>5

\* What a loan that ends or goes on leaves: shares and orders, and no more lent
\* while a seller waits.
LoansRun(db, d) ==
  /\ d.order = db.order /\ d.bal = db.bal /\ d.pool # NoRow
  /\ PoolOf(d).namebid_proceeds = PoolOf(db).namebid_proceeds
  /\ (\E a \in Accounts : IsOpen(db, a)) => PoolOf(d).total_lent <= PoolOf(db).total_lent
  /\ db.ok

\* The loan before it is processed.
LoanIs(db, id, row, pay, balance, staked) ==
  /\ db.loan[id] = row /\ row # NoRow /\ row \in RexLoan
  /\ row.payment = pay /\ row.balance = balance /\ row.total_staked = staked
  /\ row.receiver \in Accounts /\ row.kind \in Resource /\ row.from \in Accounts

\* What a loan of good tables is made of.
LEMMA LoanFields ==
  ASSUME NEW t, NEW db, Good(db, t), NEW id \in LoanIds, db.loan[id] # NoRow
  PROVE  \E row \in RexLoan, pay \in Nat, balance \in Nat, staked \in Nat :
           LoanIs(db, id, row, pay, balance, staked) /\ pay > 0 /\ staked > 0
           /\ staked <= PoolOf(db).total_lent
<1>1. db.loan[id] \in RexLoan /\ LoanGood(db, id)
  BY DbFields DEF Good
<1>2. PICK row \in RexLoan : row = db.loan[id]
  BY <1>1
<1>3. row # NoRow /\ row.balance >= 0 /\ row.payment > 0 /\ row.total_staked > 0
  BY <1>1, <1>2 DEF LoanGood
<1>4. /\ row.balance \in Int /\ row.payment \in Int /\ row.total_staked \in Int
      /\ row.receiver \in Accounts /\ row.kind \in Resource /\ row.from \in Accounts
  BY DEF RexLoan
<1>5. PICK pay \in Nat, balance \in Nat, staked \in Nat :
        pay = row.payment /\ balance = row.balance /\ staked = row.total_staked
  BY <1>3, <1>4
<1>6. LoanStake(db, id) = staked
  BY <1>2, <1>3, <1>5 DEF LoanStake
<1>7. LoanIs(db, id, row, pay, balance, staked)
  BY <1>2, <1>3, <1>4, <1>5 DEF LoanIs
<1> QED
  BY <1>3, <1>5, <1>6, <1>7, StakeBounded

LoanSet(db, id, row) == [db EXCEPT !.loan[id] = row]

PoolSet(db, p) == [db EXCEPT !.pool = p]

\* The pool, or a loan, replaced.
LEMMA PoolReplaced ==
  ASSUME NEW db \in Db, NEW p \in Pool, NEW d, d = PoolSet(db, p)
  PROVE  /\ d \in Db /\ d.pool = p /\ d.pool # NoRow /\ PoolOf(d) = p /\ d.ok = db.ok
         /\ d.tokens = db.tokens /\ d.userres = db.userres /\ d.voters = db.voters
         /\ d.fund = db.fund /\ d.bal = db.bal /\ d.order = db.order /\ d.loan = db.loan
<1>1. d = [db EXCEPT !.pool = p]
  BY DEF PoolSet
<1>2. /\ d.pool = p /\ d.ok = db.ok
      /\ d.tokens = db.tokens /\ d.userres = db.userres /\ d.voters = db.voters
      /\ d.fund = db.fund /\ d.bal = db.bal /\ d.order = db.order /\ d.loan = db.loan
  BY <1>1 DEF Db
<1>3. d \in Db
  BY <1>1 DEF Db
<1> QED
  BY <1>2, <1>3, NoRowIsNone DEF PoolOf

\* A loan's row is replaced: nothing else changes.
LEMMA LoanReplaced ==
  ASSUME NEW db \in Db, NEW id \in LoanIds, NEW row \in RexLoan \cup {NoRow},
         NEW d, d = LoanSet(db, id, row)
  PROVE  /\ d \in Db /\ d.loan[id] = row /\ \A i \in LoanIds \ {id} : d.loan[i] = db.loan[i]
         /\ d.ok = db.ok /\ d.tokens = db.tokens /\ d.userres = db.userres /\ d.voters = db.voters
         /\ d.fund = db.fund /\ d.bal = db.bal /\ d.order = db.order /\ d.pool = db.pool
<1>1. d = [db EXCEPT !.loan = [db.loan EXCEPT ![id] = row]]
  BY DEF LoanSet
<1>2. /\ d.loan = [db.loan EXCEPT ![id] = row]
      /\ d.ok = db.ok /\ d.tokens = db.tokens /\ d.userres = db.userres /\ d.voters = db.voters
      /\ d.fund = db.fund /\ d.bal = db.bal /\ d.order = db.order /\ d.pool = db.pool
  BY <1>1 DEF Db
<1>3. /\ d.loan \in [LoanIds -> RexLoan \cup {NoRow}] /\ d.loan[id] = row
      /\ \A i \in LoanIds \ {id} : d.loan[i] = db.loan[i]
  BY <1>2, DbFields
<1>4. d \in Db
  BY <1>1, <1>3 DEF Db
<1> QED
  BY <1>2, <1>3, <1>4

\* The pool when a loan has been taken out of it.
LEMMA PoolWithout ==
  ASSUME NEW p, PoolOK(p), NEW staked \in Nat, staked > 0, staked <= p.total_lent,
         NEW q, q = LoanRemoved(p, staked)
  PROVE  PoolOK(q) /\ NotCheaper(p, q) /\ PoolMoves(p, q, 0, - staked, 0, 0)
<1>1. p.total_unlent \in Nat /\ p.total_rent \in Nat /\ staked + p.total_unlent > 0
  BY DEF PoolOK, Pool
<1>2. PICK rt \in Int : rt = get_bancor_output(p.total_unlent, p.total_rent, staked)
  <2>1. get_bancor_output(p.total_unlent, p.total_rent, staked) \in 0 .. p.total_rent
    BY <1>1, BancorBounded
  <2> QED
    BY <1>1, <2>1
<1>3. PoolMoves(p, LoanRemoved(p, staked), 0, - staked, 0, 0)
  <2>1. staked \in Int
    OBVIOUS
  <2> QED
    BY <1>2, <2>1, RemovedMoves
<1>4. PoolOK(LoanRemoved(p, staked)) /\ NotCheaper(p, LoanRemoved(p, staked))
  BY ReturningKeepsPool
<1> QED
  BY <1>3, <1>4

\* An expired loan that is not renewed: its balance goes back to its owner.
LEMMA LoanCloses ==
  ASSUME NEW t, NEW db, Good(db, t), db.pool # NoRow, NEW id \in LoanIds,
         NEW row \in RexLoan, NEW pay \in Nat, NEW balance \in Nat, NEW staked \in Nat,
         LoanIs(db, id, row, pay, balance, staked), staked > 0, staked <= PoolOf(db).total_lent,
         NEW removed, removed = PoolSet(db, LoanRemoved(db.pool, staked)),
         NEW returned, returned = BalanceReturned(removed, row),
         NEW closed, closed = LoanSet(returned, id, NoRow),
         NEW d, d = update_resource_limits(closed, row.receiver, row.kind, - staked), d.ok
  PROVE  Good(d, t) /\ Keeps(db, d, 0) /\ StaysEmpty(db, d) /\ LoansRun(db, d)
<1>1. /\ db \in Db /\ PoolOf(db) = db.pool /\ PoolOK(db.pool) /\ ProceedsGood(db)
  BY DEF Good, PoolGood, PoolOf
<1>2. PICK q : q = LoanRemoved(db.pool, staked)
  OBVIOUS
<1>3. PoolOK(q) /\ NotCheaper(db.pool, q) /\ PoolMoves(db.pool, q, 0, - staked, 0, 0)
  BY <1>1, <1>2, PoolWithout
<1>4. /\ removed \in Db /\ removed.pool = q /\ removed.pool # NoRow /\ removed.ok = db.ok
      /\ removed.tokens = db.tokens /\ removed.userres = db.userres /\ removed.voters = db.voters
      /\ removed.fund = db.fund /\ removed.bal = db.bal /\ removed.order = db.order
      /\ removed.loan = db.loan
  <2>1. q \in Pool
    BY <1>3 DEF PoolMoves
  <2> QED
    BY <1>1, <1>2, <2>1, PoolReplaced
<1>5. ProceedsGood(removed) /\ Claims(removed) = Claims(db)
  BY <1>1, <1>4 DEF ProceedsGood, IsFilled, Claims, FundOf
<1>6. row.from \in Accounts /\ row.receiver \in Accounts /\ row.kind \in Resource /\ row.balance = balance
  BY DEF LoanIs
<1>7. HasOk(returned)
  <2>1. HasOk(removed)
    BY <1>4, DbHasOk
  <2> QED
    BY <2>1, HelpersCarry DEF BalanceReturned, Carries, HasOk
<1>8. returned.ok
  <2>1. HasOk(closed) /\ closed.ok = returned.ok
    BY <1>7 DEF LoanSet, HasOk
  <2>2. closed.ok
    BY <2>1, HelpersCarry DEF Carries
  <2> QED
    BY <2>1, <2>2
<1>9. /\ returned \in Db /\ returned.pool = q /\ returned.bal = db.bal /\ returned.loan = db.loan
      /\ returned.userres = db.userres /\ returned.tokens = db.tokens
      /\ returned.order = db.order /\ returned.voters = db.voters
      /\ Claims(returned) = Claims(db) + balance /\ db.ok /\ FundsStay(db, returned)
  <2>1. CASE balance > 0
    <3>1. returned = transfer_to_fund(removed, row.from, balance)
      BY <1>6, <2>1 DEF BalanceReturned
    <3>2. balance \in Int
      OBVIOUS
    <3>3. /\ Apart(removed, returned, - balance)
          /\ SameRest(removed, returned) /\ returned.tokens = removed.tokens
          /\ returned.order = removed.order /\ returned.voters = removed.voters
      BY <1>4, <1>5, <1>6, <1>8, <3>1, <3>2, FundPaid
    <3>4. removed.ok
      BY <1>4, <1>8, <3>1, DbHasOk, HelpersCarry DEF Carries
    <3>5. Claims(returned) = Claims(db) + balance
      <4>1. returned.tokens[RexAccount] - Claims(returned)
              = (removed.tokens[RexAccount] - Claims(removed)) + (- balance)
        BY <3>3 DEF Apart, Aside
      <4>2. returned \in Db
        BY <3>3 DEF Apart, Aside
      <4>3. PICK tk \in Int, c \in Int, e \in Int :
              tk = db.tokens[RexAccount] /\ c = Claims(db) /\ e = Claims(returned)
        BY <1>1, <4>2, SurplusIsInt, SumsAreInts
      <4>4. tk - e = (tk - c) + (- balance)
        BY <1>4, <1>5, <3>3, <4>1, <4>3
      <4>5. e = c + balance
        BY <4>4
      <4> QED
        BY <4>3, <4>5
    <3> QED
      BY <1>4, <3>3, <3>4, <3>5 DEF SameRest, Apart, Aside, FundsStay
  <2>2. CASE ~ (balance > 0)
    <3>1. returned = removed /\ balance = 0
      BY <1>6, <2>2 DEF BalanceReturned
    <3>2. Claims(returned) = Claims(db) + balance
      <4>1. PICK c \in Int : c = Claims(db)
        BY <1>1, SumsAreInts
      <4>2. c = c + balance
        BY <3>1
      <4>3. Claims(returned) = c
        BY <1>5, <3>1, <4>1
      <4> QED
        BY <4>1, <4>2, <4>3
    <3>3. FundsStay(db, returned)
      BY <1>4, <3>1, SameStay
    <3>4. db.ok
      BY <1>4, <1>8, <3>1
    <3> QED
      BY <1>4, <3>1, <3>2, <3>3, <3>4
  <2> QED
    BY <2>1, <2>2
<1>10. /\ closed \in Db /\ closed.loan[id] = NoRow
       /\ \A i \in LoanIds \ {id} : closed.loan[i] = db.loan[i]
       /\ closed.tokens = db.tokens /\ closed.userres = db.userres /\ closed.voters = db.voters
       /\ closed.fund = returned.fund /\ closed.bal = db.bal /\ closed.order = db.order
       /\ closed.pool = q
  BY <1>9, LoanReplaced
<1>11. PICK x \in Int : x = - staked
  OBVIOUS
<1>12. /\ d \in Db
       /\ \A a \in Accounts : \A r \in Resource :
            d.userres[a][r] = db.userres[a][r] + (IF a = row.receiver /\ r = row.kind THEN x ELSE 0)
       /\ d.tokens = db.tokens /\ d.voters = db.voters /\ d.pool = q /\ d.fund = returned.fund
       /\ d.bal = db.bal /\ d.order = db.order /\ d.loan = closed.loan
  BY <1>6, <1>10, <1>11, LimitsUpdated
<1>13. d.pool # NoRow /\ PoolOf(d) = q
  BY <1>4, <1>12 DEF PoolOf
<1>14. Claims(d) = Claims(db) + balance
  <2>1. Claims(d) = Claims(returned)
    BY <1>9, <1>12 DEF Claims, FundOf, IsFilled
  <2> QED
    BY <1>9, <2>1
<1>15. /\ LoanFund(d, id) = 0 /\ LoanFund(db, id) = balance
       /\ LoanStake(d, id) = 0 /\ LoanStake(db, id) = staked
       /\ \A a \in Accounts : \A r \in Resource :
            /\ StakeTo(d, id, a, r) = 0
            /\ StakeTo(db, id, a, r) = (IF a = row.receiver /\ r = row.kind THEN staked ELSE 0)
  BY <1>10, <1>12 DEF LoanFund, LoanStake, StakeTo, LoanIs
<1>16. PICK f \in Int : f = - balance
  OBVIOUS
<1>17. LoanTurns(db, d, id, balance, f, 0, x, 0)
  <2>1. LoanFund(d, id) = LoanFund(db, id) + f /\ LoanStake(d, id) = LoanStake(db, id) + x
    BY <1>11, <1>15, <1>16
  <2>2. ASSUME NEW a \in Accounts, NEW r \in Resource
        PROVE  d.userres[a][r] = db.userres[a][r] + (StakeTo(d, id, a, r) - StakeTo(db, id, a, r))
    <3>1. d.userres[a][r] = db.userres[a][r] + (IF a = row.receiver /\ r = row.kind THEN x ELSE 0)
      BY <1>12
    <3>2. StakeTo(d, id, a, r) = 0
          /\ StakeTo(db, id, a, r) = (IF a = row.receiver /\ r = row.kind THEN staked ELSE 0)
      BY <1>15
    <3>3. db.userres[a][r] \in Int
      BY <1>1, DbFields DEF Weight
    <3> QED
      BY <1>11, <3>1, <3>2, <3>3
  <2>3. LoanGood(d, id)
    BY <1>10, <1>12 DEF LoanGood
  <2>4. PoolOK(PoolOf(d)) /\ NotCheaper(PoolOf(db), PoolOf(d))
        /\ PoolMoves(PoolOf(db), PoolOf(d), 0, x, 0, 0)
    BY <1>1, <1>3, <1>11, <1>13
  <2>5. \A i \in LoanIds \ {id} : d.loan[i] = db.loan[i]
    BY <1>10, <1>12
  <2> QED
    BY <1>12, <1>13, <1>14, <2>1, <2>2, <2>3, <2>4, <2>5 DEF LoanTurns
<1>18. Good(d, t) /\ Keeps(db, d, 0) /\ StaysEmpty(db, d)
  <2>1. 0 = - (balance + f + 0)
    BY <1>16
  <2>2. OrdersStay(db, d) /\ FundsStay(db, d)
    BY <1>9, <1>12, SameStay DEF FundsStay
  <2>3. \A i \in LoanIds : d.loan[i] # NoRow => d.loan[i] = db.loan[i]
    BY <1>10, <1>12
  <2>4. Timely(d, t)
    BY <1>1, <2>2, <2>3, TimelyStays DEF Good
  <2> QED
    BY <1>11, <1>16, <1>17, <2>1, <2>4, LoanTurned
<1>19. LoansRun(db, d)
  <2>1. q.namebid_proceeds = db.pool.namebid_proceeds /\ q.total_lent = db.pool.total_lent + x
    BY <1>3, <1>11 DEF PoolMoves
  <2>2. db.pool.total_lent \in Int
    BY <1>1, PoolFields DEF PoolOK
  <2>3. q.total_lent <= db.pool.total_lent
    BY <1>11, <2>1, <2>2
  <2> QED
    BY <1>1, <1>9, <1>12, <1>13, <2>1, <2>3 DEF LoansRun
<1> QED
  BY <1>18, <1>19

\* The pool when a loan has been made of it.
LEMMA PoolWith ==
  ASSUME NEW p, PoolOK(p), p.total_rex > 0, NEW pay \in Nat, pay > 0, NEW new_loan \in BOOLEAN,
         NEW n \in Int, n = IF new_loan THEN 1 ELSE 0,
         NEW rented, rented = RentedTokens(p, pay), NEW q, q = LoanAdded(p, pay, rented, new_loan)
  PROVE  /\ PoolOK(q) /\ NotCheaper(p, q) /\ PoolMoves(p, q, pay, rented, 0, n)
         /\ rented \in Nat
<1>1. p.total_unlent \in Nat /\ p.total_rent \in Nat /\ pay + p.total_rent > 0
  BY DEF PoolOK, Pool
<1>2. rented \in Nat
  <2>1. get_bancor_output(p.total_rent, p.total_unlent, pay) \in 0 .. p.total_unlent
    BY <1>1, BancorBounded
  <2> QED
    BY <1>1, <2>1 DEF RentedTokens
<1>3. PoolMoves(p, LoanAdded(p, pay, rented, new_loan), pay, rented, 0, n)
  <2>1. pay \in Int /\ rented \in Int
    BY <1>2
  <2> QED
    BY <2>1, LentMoves
<1>4. PoolOK(LoanAdded(p, pay, rented, new_loan)) /\ NotCheaper(p, LoanAdded(p, pay, rented, new_loan))
  BY LendingKeepsPool
<1> QED
  BY <1>2, <1>3, <1>4

\* The loan after it was renewed.
Extended(row, rented, next) ==
  /\ next \in RexLoan /\ next.from = row.from /\ next.receiver = row.receiver
  /\ next.kind = row.kind /\ next.expiration = row.expiration + LoanTerm
  /\ row.expiration \in Nat /\ next.payment = row.payment
  /\ next.total_staked = rented /\ next.balance = row.balance - row.payment

\* That is what update_renewed_loan makes of it.
LEMMA LoanExtended ==
  ASSUME NEW row \in RexLoan, NEW rented \in Int, NEW next, next = update_renewed_loan(row, rented)
  PROVE  Extended(row, rented, next)
<1>1. row.expiration \in Nat /\ LoanTerm \in Nat /\ row.balance \in Int /\ row.payment \in Int
  BY RexAssumption DEF RexLoan, RexAssumption
<1>2. PICK e \in Nat, b \in Int : e = row.expiration + LoanTerm /\ b = row.balance - row.payment
  BY <1>1
<1>3. next = [row EXCEPT !.total_staked = rented, !.expiration = e, !.balance = b]
  BY <1>2 DEF update_renewed_loan
<1>4. PICK staying : staying = [row EXCEPT !.total_staked = rented, !.expiration = e]
  OBVIOUS
<1>5. staying \in RexLoan
  BY <1>2, <1>4 DEF RexLoan
<1>6. next = [staying EXCEPT !.balance = b]
  BY <1>3, <1>4 DEF RexLoan
<1>7. next \in RexLoan
  BY <1>2, <1>5, <1>6 DEF RexLoan
<1>8. next.from = row.from /\ next.receiver = row.receiver /\ next.kind = row.kind
  BY <1>3 DEF RexLoan
<1>9. next.expiration = e
  BY <1>3 DEF RexLoan
<1>10. next.payment = row.payment /\ next.total_staked = rented
  BY <1>3 DEF RexLoan
<1>11. next.balance = b
  BY <1>3 DEF RexLoan
<1> QED
  BY <1>1, <1>2, <1>7, <1>8, <1>9, <1>10, <1>11 DEF Extended

\* What a renewal reads and writes, one write after the other.
Renewal(db, id, row, pay, balance, staked, removed, rented, relent, renewed, d) ==
  /\ db.pool # NoRow /\ LoanIs(db, id, row, pay, balance, staked)
  /\ removed = PoolSet(db, LoanRemoved(db.pool, staked))
  /\ rex_loans_available(removed)
  /\ rented = RentedTokens(removed.pool, pay) /\ pay < rented
  /\ relent = PoolSet(removed, LoanAdded(removed.pool, pay, rented, FALSE))
  /\ renewed = LoanSet(relent, id, update_renewed_loan(row, rented))
  /\ d = update_resource_limits(renewed, row.receiver, row.kind, rented - staked)
  /\ d.ok

\* An expired loan that has paid for another term goes on, at another price.
LEMMA LoanRenews ==
  ASSUME NEW t, NEW db, Good(db, t), NEW id \in LoanIds,
         NEW row \in RexLoan, NEW pay \in Nat, NEW balance \in Nat, NEW staked \in Nat,
         staked > 0, staked <= PoolOf(db).total_lent, pay > 0, pay <= balance,
         NEW removed, NEW rented, NEW relent, NEW renewed, NEW d,
         Renewal(db, id, row, pay, balance, staked, removed, rented, relent, renewed, d),
         t \in Nat, row.expiration <= t
  PROVE  Good(d, t) /\ Keeps(db, d, 0) /\ StaysEmpty(db, d) /\ LoansRun(db, d)
<1>1. /\ db \in Db /\ PoolOf(db) = db.pool /\ PoolOK(db.pool) /\ ProceedsGood(db)
      /\ PoolOf(db).loan_num = db.pool.loan_num /\ LoanGood(db, id)
  BY DEF Good, PoolGood, PoolOf, Renewal
<1>2. PICK q : q = LoanRemoved(db.pool, staked)
  OBVIOUS
<1>3. PoolOK(q) /\ NotCheaper(db.pool, q) /\ PoolMoves(db.pool, q, 0, - staked, 0, 0) /\ q \in Pool
  BY <1>1, <1>2, PoolWithout DEF PoolMoves
<1>4. /\ removed \in Db /\ removed.pool = q /\ removed.pool # NoRow /\ removed.ok = db.ok
      /\ removed.tokens = db.tokens /\ removed.userres = db.userres /\ removed.voters = db.voters
      /\ removed.fund = db.fund /\ removed.bal = db.bal /\ removed.order = db.order
      /\ removed.loan = db.loan
  BY <1>1, <1>2, <1>3, PoolReplaced DEF Renewal
<1>5. q.total_rex > 0 /\ \A a \in Accounts : ~ IsOpen(removed, a)
  BY <1>4 DEF rex_loans_available, rex_available, Renewal
<1>6. PICK z : z = LoanAdded(q, pay, rented, FALSE)
  OBVIOUS
<1>7. PoolOK(z) /\ NotCheaper(q, z) /\ PoolMoves(q, z, pay, rented, 0, 0) /\ rented \in Nat /\ z \in Pool
  <2>1. rented = RentedTokens(q, pay)
    BY <1>4 DEF Renewal
  <2>2. PICK n \in Int : n = 0
    OBVIOUS
  <2>3. PICK new_loan \in BOOLEAN : new_loan = FALSE
    BY Zenon
  <2>6. n = IF new_loan THEN 1 ELSE 0
    BY <2>2, <2>3, Zenon
  <2>4. z = LoanAdded(q, pay, rented, new_loan)
    BY <1>6, <2>3, Zenon
  <2>5. PoolOK(z) /\ NotCheaper(q, z) /\ PoolMoves(q, z, pay, rented, 0, n) /\ rented \in Nat
    BY <1>3, <1>5, <2>1, <2>6, <2>4, PoolWith
  <2> QED
    BY <2>2, <2>5 DEF PoolMoves
<1>8. /\ relent \in Db /\ relent.pool = z /\ relent.pool # NoRow /\ relent.ok = db.ok
      /\ relent.tokens = db.tokens /\ relent.userres = db.userres /\ relent.voters = db.voters
      /\ relent.fund = db.fund /\ relent.bal = db.bal /\ relent.order = db.order
      /\ relent.loan = db.loan
  <2>1. relent = PoolSet(removed, z)
    BY <1>4, <1>6, Zenon DEF Renewal
  <2> QED
    BY <1>4, <1>7, <2>1, PoolReplaced
<1>9. PICK next : next = update_renewed_loan(row, rented)
  OBVIOUS
<1>10. /\ row.receiver \in Accounts /\ row.kind \in Resource /\ row.from \in Accounts
       /\ row.payment = pay /\ row.balance = balance /\ row.total_staked = staked
       /\ db.loan[id] = row /\ row # NoRow
  BY DEF LoanIs, Renewal
<1>11. /\ next \in RexLoan /\ next.receiver = row.receiver /\ next.kind = row.kind
       /\ next.payment = pay /\ next.balance = balance - pay /\ next.total_staked = rented
       /\ next.from = row.from /\ next.expiration = row.expiration + LoanTerm
       /\ row.expiration \in Nat
  <2>1. rented \in Int /\ row \in RexLoan
    BY <1>7
  <2>2. Extended(row, rented, next)
    BY <1>9, <2>1, LoanExtended
  <2> QED
    BY <1>10, <2>2 DEF Extended
<1>12. /\ renewed \in Db /\ renewed.loan[id] = next
       /\ \A i \in LoanIds \ {id} : renewed.loan[i] = db.loan[i]
       /\ renewed.tokens = db.tokens /\ renewed.userres = db.userres /\ renewed.voters = db.voters
       /\ renewed.fund = db.fund /\ renewed.bal = db.bal /\ renewed.order = db.order
       /\ renewed.pool = z /\ renewed.ok = db.ok
  <2>1. renewed = LoanSet(relent, id, next)
    BY <1>9, Zenon DEF Renewal
  <2>2. relent \in Db /\ next \in RexLoan \cup {NoRow}
    BY <1>8, <1>11
  <2>3. /\ renewed \in Db /\ renewed.loan[id] = next
        /\ \A i \in LoanIds \ {id} : renewed.loan[i] = relent.loan[i]
        /\ renewed.ok = relent.ok /\ renewed.pool = relent.pool
    BY <2>1, <2>2, LoanReplaced
  <2>4. /\ renewed.tokens = relent.tokens /\ renewed.userres = relent.userres
        /\ renewed.voters = relent.voters /\ renewed.fund = relent.fund
        /\ renewed.bal = relent.bal /\ renewed.order = relent.order
    BY <2>1, <2>2, LoanReplaced
  <2> QED
    BY <1>8, <2>3, <2>4
<1>13. PICK x \in Int : x = rented - staked
  BY <1>7
<1>14. /\ d \in Db /\ renewed.ok
       /\ \A a \in Accounts : \A r \in Resource :
            d.userres[a][r] = db.userres[a][r] + (IF a = row.receiver /\ r = row.kind THEN x ELSE 0)
       /\ d.tokens = db.tokens /\ d.voters = db.voters /\ d.pool = z /\ d.fund = db.fund
       /\ d.bal = db.bal /\ d.order = db.order /\ d.loan = renewed.loan
  <2>1. d = update_resource_limits(renewed, row.receiver, row.kind, x) /\ d.ok
    BY <1>13, Zenon DEF Renewal
  <2>2. PICK to \in Accounts, k \in Resource : to = row.receiver /\ k = row.kind
    BY <1>10
  <2> QED
    BY <1>12, <2>1, <2>2, LimitsUpdated
<1>15. d.pool # NoRow /\ PoolOf(d) = z
  BY <1>7, <1>14, NoRowIsNone DEF PoolOf
<1>16. Claims(d) = Claims(db) + 0
  <2>1. Claims(d) = Claims(db)
    BY <1>14 DEF Claims, FundOf, IsFilled
  <2> QED
    BY <1>1, <2>1, SumsAreInts
<1>17. next # NoRow
  BY <1>11, NoRowIsNone
<1>18. /\ LoanFund(d, id) = balance - pay /\ LoanFund(db, id) = balance
       /\ LoanStake(d, id) = rented /\ LoanStake(db, id) = staked
       /\ \A a \in Accounts : \A r \in Resource :
            /\ StakeTo(d, id, a, r) = (IF a = row.receiver /\ r = row.kind THEN rented ELSE 0)
            /\ StakeTo(db, id, a, r) = (IF a = row.receiver /\ r = row.kind THEN staked ELSE 0)
  BY <1>10, <1>11, <1>12, <1>14, <1>17 DEF LoanFund, LoanStake, StakeTo
<1>19. PICK f \in Int : f = - pay
  OBVIOUS
<1>20. /\ z.total_lendable = db.pool.total_lendable + pay /\ z.total_lent = db.pool.total_lent + x
       /\ z.total_rex = db.pool.total_rex /\ z.loan_num = db.pool.loan_num
       /\ z.namebid_proceeds = db.pool.namebid_proceeds
       /\ db.pool.total_rex \in Int /\ db.pool.loan_num \in Int /\ db.pool.total_lent \in Int
  <2>1. /\ q.total_lendable = db.pool.total_lendable + 0 /\ q.total_lent = db.pool.total_lent + (- staked)
        /\ q.total_rex = db.pool.total_rex + 0 /\ q.loan_num = db.pool.loan_num + 0
        /\ q.namebid_proceeds = db.pool.namebid_proceeds
    BY <1>3 DEF PoolMoves
  <2>2. /\ z.total_lendable = q.total_lendable + pay /\ z.total_lent = q.total_lent + rented
        /\ z.total_rex = q.total_rex + 0 /\ z.loan_num = q.loan_num + 0
        /\ z.namebid_proceeds = q.namebid_proceeds
    BY <1>7 DEF PoolMoves
  <2>3. /\ db.pool.total_lendable \in Int /\ db.pool.total_lent \in Int
        /\ db.pool.total_rex \in Int /\ db.pool.loan_num \in Int
    BY <1>1, PoolFields DEF PoolOK
  <2> QED
    BY <1>7, <1>13, <2>1, <2>2, <2>3
<1>21. LoanTurns(db, d, id, 0, f, pay, x, 0)
  <2>1. LoanFund(d, id) = LoanFund(db, id) + f /\ LoanStake(d, id) = LoanStake(db, id) + x
    BY <1>7, <1>13, <1>18, <1>19
  <2>2. ASSUME NEW a \in Accounts, NEW r \in Resource
        PROVE  d.userres[a][r] = db.userres[a][r] + (StakeTo(d, id, a, r) - StakeTo(db, id, a, r))
    <3>1. d.userres[a][r] = db.userres[a][r] + (IF a = row.receiver /\ r = row.kind THEN x ELSE 0)
      BY <1>14
    <3>2. /\ StakeTo(d, id, a, r) = (IF a = row.receiver /\ r = row.kind THEN rented ELSE 0)
          /\ StakeTo(db, id, a, r) = (IF a = row.receiver /\ r = row.kind THEN staked ELSE 0)
      BY <1>18
    <3>3. db.userres[a][r] \in Int
      BY <1>1, DbFields DEF Weight
    <3> QED
      BY <1>7, <1>13, <3>1, <3>2, <3>3
  <2>3. LoanGood(d, id)
    <3>1. id <= db.pool.loan_num
      BY <1>1, <1>10 DEF LoanGood
    <3>2. d.loan[id] = next
      BY <1>12, <1>14
    <3>3. rented > 0 /\ balance - pay >= 0 /\ pay < rented
      BY <1>7 DEF Renewal
    <3> QED
      BY <1>7, <1>11, <1>15, <1>20, <3>1, <3>2, <3>3 DEF LoanGood
  <2>4. PoolOK(PoolOf(d)) /\ NotCheaper(PoolOf(db), PoolOf(d))
    BY <1>1, <1>3, <1>5, <1>7, <1>15, CheaperChain
  <2>5. \A i \in LoanIds \ {id} : d.loan[i] = db.loan[i]
    BY <1>12, <1>14
  <2>6. PoolMoves(PoolOf(db), PoolOf(d), pay, x, 0, 0)
    BY <1>1, <1>7, <1>15, <1>20 DEF PoolMoves
  <2> QED
    BY <1>14, <1>15, <1>16, <2>1, <2>2, <2>3, <2>4, <2>5, <2>6 DEF LoanTurns
<1>24. Timely(d, t)
  <2>1. \A a \in Accounts : ~ IsOpen(d, a)
    BY <1>4, <1>5, <1>14 DEF IsOpen
  <2>2. TimelyLoan(d, id, t)
    <3>1. db.fund[row.from] # NoRow
      BY <1>10 DEF Good, Timely, TimelyLoan
    <3>2. row.expiration + LoanTerm <= t + LoanTerm
      BY <1>11, RexAssumption DEF RexAssumption
    <3>3. d.loan[id] = next
      BY <1>12, <1>14
    <3> QED
      BY <1>11, <1>14, <2>1, <3>1, <3>2, <3>3 DEF TimelyLoan
  <2>3. ASSUME NEW i \in LoanIds, i # id PROVE TimelyLoan(d, i, t)
    <3>1. d.loan[i] = db.loan[i]
      BY <1>12, <1>14, <2>3
    <3>2. TimelyLoan(db, i, t)
      BY DEF Good, Timely
    <3> QED
      BY <1>14, <2>1, <3>1, <3>2 DEF TimelyLoan
  <2> QED
    BY <2>2, <2>3 DEF Timely
<1>22. Good(d, t) /\ Keeps(db, d, 0) /\ StaysEmpty(db, d)
  <2>1. 0 = - (0 + f + pay)
    BY <1>19
  <2>2. pay \in Int
    OBVIOUS
  <2>3. Timely(d, t)
    BY <1>24
  <2> QED
    BY <1>13, <1>19, <1>21, <2>1, <2>2, <2>3, LoanTurned
<1>23. LoansRun(db, d)
  <2>1. \A a \in Accounts : ~ IsOpen(db, a)
    BY <1>4, <1>5 DEF IsOpen
  <2> QED
    BY <1>1, <1>12, <1>14, <1>15, <1>20, <2>1 DEF LoansRun
<1> QED
  BY <1>22, <1>23

\* An expired loan, renewed or closed.
LEMMA ExpiredKeeps ==
  ASSUME NEW t \in Nat, NEW db, Good(db, t), db.pool # NoRow, NEW id \in LoanIds,
         db.loan[id] # NoRow, db.loan[id].expiration <= t,
         NEW d, d = process_expired_loan(db, id), d.ok
  PROVE  Good(d, t) /\ Keeps(db, d, 0) /\ StaysEmpty(db, d) /\ LoansRun(db, d)
<1>1. PICK row \in RexLoan, pay \in Nat, balance \in Nat, staked \in Nat :
        LoanIs(db, id, row, pay, balance, staked) /\ pay > 0 /\ staked > 0
        /\ staked <= PoolOf(db).total_lent
  BY LoanFields
<1>2. /\ db.loan[id] = row /\ row.payment = pay /\ row.balance = balance
      /\ row.total_staked = staked
  BY <1>1 DEF LoanIs
<1>3. PICK removed : removed = PoolSet(db, LoanRemoved(db.pool, staked))
  OBVIOUS
<1>4. PICK rented : rented = RentedTokens(removed.pool, pay)
  OBVIOUS
<1>5. PICK relent : relent = PoolSet(removed, LoanAdded(removed.pool, pay, rented, FALSE))
  OBVIOUS
<1>6. PICK renewed : renewed = LoanSet(relent, id, update_renewed_loan(row, rented))
  OBVIOUS
<1>7. PICK closed : closed = LoanSet(BalanceReturned(removed, row), id, NoRow)
  OBVIOUS
<1>8. removed = [db EXCEPT !.pool = LoanRemoved(@, staked)]
  BY <1>3 DEF PoolSet
<1>9. renewed = [removed EXCEPT !.pool = LoanAdded(@, pay, rented, FALSE),
                                !.loan[id] = update_renewed_loan(row, rented)]
  BY <1>5, <1>6 DEF LoanSet, PoolSet
<1>10. closed = [BalanceReturned(removed, row) EXCEPT !.loan[id] = NoRow]
  BY <1>7 DEF LoanSet
<1>14. d = LET l       == row
               gone    == [db EXCEPT !.pool = LoanRemoved(@, l.total_staked)]
               price   == RentedTokens(gone.pool, l.payment)
               longer  == [gone EXCEPT
                             !.pool = LoanAdded(@, l.payment, price, FALSE),
                             !.loan[id] = update_renewed_loan(l, price)]
               without == [BalanceReturned(gone, l) EXCEPT !.loan[id] = NoRow]
           IN  IF /\ l.payment <= l.balance
                  /\ l.payment < price
                  /\ rex_loans_available(gone)
               THEN update_resource_limits(longer, l.receiver, l.kind, price - l.total_staked)
               ELSE update_resource_limits(without, l.receiver, l.kind, - l.total_staked)
  BY <1>2 DEF process_expired_loan
<1>11. d = IF pay <= balance /\ pay < rented /\ rex_loans_available(removed)
           THEN update_resource_limits(renewed, row.receiver, row.kind, rented - staked)
           ELSE update_resource_limits(closed, row.receiver, row.kind, - staked)
  BY <1>2, <1>4, <1>8, <1>9, <1>10, <1>14
<1>12. CASE pay <= balance /\ pay < rented /\ rex_loans_available(removed)
  <2>1. d = update_resource_limits(renewed, row.receiver, row.kind, rented - staked) /\ d.ok
    BY <1>11, <1>12, Zenon
  <2>2. Renewal(db, id, row, pay, balance, staked, removed, rented, relent, renewed, d)
    BY <1>1, <1>3, <1>4, <1>5, <1>6, <1>12, <2>1, Zenon DEF Renewal
  <2> QED
    BY <1>1, <1>2, <1>12, <2>2, LoanRenews
<1>13. CASE ~ (pay <= balance /\ pay < rented /\ rex_loans_available(removed))
  <2>1. d = update_resource_limits(closed, row.receiver, row.kind, - staked)
    BY <1>11, <1>13, Zenon
  <2>2. PICK returned : returned = BalanceReturned(removed, row)
    OBVIOUS
  <2>3. closed = LoanSet(returned, id, NoRow)
    BY <1>7, <2>2, Zenon
  <2> QED
    BY <1>1, <1>3, <2>1, <2>2, <2>3, LoanCloses
<1> QED
  BY <1>12, <1>13

\* Of the expired loans of a kind one is the first.
LEMMA FirstExpiredExists ==
  ASSUME NEW db \in Db, NEW kind, Expired(db, kind) # {}
  PROVE  FirstExpired(db, kind) \in Expired(db, kind)
<1> DEFINE E == Expired(db, kind)
<1>1. E \in SUBSET LoanIds /\ E # {} /\ \A i \in E : db.loan[i].expiration \in Nat
  BY DbFields DEF Expired, RexLoan
<1>2. \A i \in E : i \in Nat
  BY <1>1 DEF LoanIds
<1> DEFINE T == {n \in Nat : \E i \in E : db.loan[i].expiration = n}
<1> HIDE DEF E
<1>3. T \in SUBSET Nat /\ T # {}
  BY <1>1
<1>4. PICK m \in T : \A n \in T : m <= n
  <2> HIDE DEF T
  <2> QED
    BY <1>3, SmallestNumber
<1> DEFINE Q == {i \in E : db.loan[i].expiration = m}
<1>5. Q \in SUBSET Nat /\ Q # {}
  BY <1>2, <1>4
<1>6. PICK i \in Q : \A j \in Q : i <= j
  <2> HIDE DEF Q
  <2> QED
    BY <1>5, SmallestNumber
<1>7. ASSUME NEW j \in E
      PROVE  \/ db.loan[i].expiration < db.loan[j].expiration
             \/ db.loan[i].expiration = db.loan[j].expiration /\ i <= j
  <2>1. db.loan[j].expiration \in T /\ m <= db.loan[j].expiration /\ m \in Nat
    BY <1>1, <1>4
  <2>2. CASE db.loan[j].expiration = m
    BY <1>6, <2>2
  <2>3. CASE db.loan[j].expiration # m
    BY <1>1, <1>6, <2>1, <2>3
  <2> QED
    BY <2>2, <2>3
<1>8. \E k \in E : \A j \in E : \/ db.loan[k].expiration < db.loan[j].expiration
                                \/ db.loan[k].expiration = db.loan[j].expiration /\ k <= j
  BY <1>6, <1>7
<1> QED
  BY <1>8 DEF FirstExpired, E

\* No loan's turn makes a failed check good.
LEMMA LoanCarries ==
  ASSUME NEW db, HasOk(db), NEW id
  PROVE  Carries(db, process_expired_loan(db, id))
<1> DEFINE l == db.loan[id]
<1>1. PICK removed : removed = [db EXCEPT !.pool = LoanRemoved(@, l.total_staked)]
  OBVIOUS
<1>2. PICK rented : rented = RentedTokens(removed.pool, l.payment)
  OBVIOUS
<1>3. PICK renewed : renewed = [removed EXCEPT
                       !.pool = LoanAdded(@, l.payment, rented, FALSE),
                       !.loan[id] = update_renewed_loan(l, rented)]
  OBVIOUS
<1>4. PICK returned : returned = BalanceReturned(removed, l)
  OBVIOUS
<1>5. PICK closed : closed = [returned EXCEPT !.loan[id] = NoRow]
  OBVIOUS
<1>6. PICK d : d = process_expired_loan(db, id)
  OBVIOUS
<1>7. \/ d = update_resource_limits(renewed, l.receiver, l.kind, rented - l.total_staked)
      \/ d = update_resource_limits(closed, l.receiver, l.kind, - l.total_staked)
  BY <1>1, <1>2, <1>3, <1>4, <1>5, <1>6 DEF process_expired_loan
<1>8. HasOk(removed) /\ removed.ok = db.ok
  BY <1>1 DEF HasOk
<1>9. HasOk(renewed) /\ renewed.ok = db.ok
  BY <1>3, <1>8 DEF HasOk
<1>10. HasOk(returned) /\ (returned.ok => db.ok)
  <2> HIDE DEF l
  <2> QED
    BY <1>4, <1>8, HelpersCarry DEF BalanceReturned, Carries, HasOk
<1>11. HasOk(closed) /\ (closed.ok => db.ok)
  BY <1>5, <1>10 DEF HasOk
<1>12. HasOk(d) /\ (d.ok => db.ok)
  <2> HIDE DEF l
  <2> QED
    BY <1>7, <1>9, <1>11, HelpersCarry DEF Carries, HasOk
<1> QED
  BY <1>6, <1>12 DEF Carries, HasOk

\* Loans expire and are renewed now.
IsNow(t) == t \in Nat /\ t = now

\* What holds while expired loans are looked at.
LoansGood(db, t, e) ==
  /\ HasOk(e)
  /\ e.ok => db.ok
  /\ e.ok /\ Good(db, t) /\ db.pool # NoRow /\ IsNow(t) =>
       Good(e, t) /\ Keeps(db, e, 0) /\ StaysEmpty(db, e) /\ LoansRun(db, e)

\* One loan that ended (rex.cpp process_expired_loan): renewed or closed, the tables stay good.
LEMMA LoanTurn ==
  ASSUME NEW t, NEW db, NEW kind, NEW e, LoansGood(db, t, e)
  PROVE  LoansGood(db, t, ProcessLoan(e, kind))
<1>1. PICK d : d = ProcessLoan(e, kind)
  OBVIOUS
<1>2. CASE Expired(e, kind) = {}
  BY <1>1, <1>2 DEF ProcessLoan
<1>3. CASE Expired(e, kind) # {}
  <2>1. PICK id : id = FirstExpired(e, kind)
    OBVIOUS
  <2>2. d = process_expired_loan(e, id)
    BY <1>1, <1>3, <2>1 DEF ProcessLoan
  <2>3. HasOk(e)
    BY DEF LoansGood
  <2>4. HasOk(d) /\ (d.ok => e.ok)
    BY <2>2, <2>3, LoanCarries DEF Carries, HasOk
  <2>5. ASSUME d.ok, Good(db, t), db.pool # NoRow, IsNow(t)
        PROVE  Good(d, t) /\ Keeps(db, d, 0) /\ StaysEmpty(db, d) /\ LoansRun(db, d)
    <3>1. Good(e, t) /\ Keeps(db, e, 0) /\ StaysEmpty(db, e) /\ LoansRun(db, e)
      BY <2>4, <2>5 DEF LoansGood
    <3>2. id \in Expired(e, kind)
      BY <1>3, <2>1, <3>1, FirstExpiredExists DEF Good
    <3>3. /\ id \in LoanIds /\ e.loan[id] # NoRow /\ e.pool # NoRow
          /\ t \in Nat /\ e.loan[id].expiration <= t
      BY <2>5, <3>1, <3>2 DEF Expired, LoansRun, IsNow
    <3>4. Good(d, t) /\ Keeps(e, d, 0) /\ StaysEmpty(e, d) /\ LoansRun(e, d)
      BY <2>2, <2>5, <3>1, <3>3, ExpiredKeeps
    <3>5. Keeps(db, d, 0)
      <4>1. Keeps(db, d, 0 + 0)
        BY <2>5, <3>1, <3>4, KeepsChain
      <4> QED
        BY <4>1
    <3>6. StaysEmpty(db, d)
      BY <3>1, <3>4 DEF StaysEmpty
    <3>7. LoansRun(db, d)
      <4>1. \A a \in Accounts : IsOpen(e, a) = IsOpen(db, a)
        BY <3>1 DEF LoansRun, IsOpen
      <4>2. /\ PoolOf(db).total_lent \in Int /\ PoolOf(e).total_lent \in Int
            /\ PoolOf(d).total_lent \in Int
        BY <2>5, <3>1, <3>4, PoolOfType, PoolFields DEF Good
      <4> QED
        BY <3>1, <3>4, <4>1, <4>2 DEF LoansRun
    <3> QED
      BY <3>4, <3>5, <3>6, <3>7
  <2> QED
    BY <1>1, <2>4, <2>5 DEF LoansGood
<1> QED
  BY <1>2, <1>3

\* ProcessLoans.
LEMMA LoansKeep ==
  ASSUME NEW t, NEW db, NEW kind, NEW max \in Nat,
         NEW e, LoansGood(db, t, e), NEW d, d = ProcessLoans(e, kind, max)
  PROVE  LoansGood(db, t, d)
<1>1. PICK f : LoanSteps(f, e, kind, max) /\ d = f[max]
  BY LoansInSteps
<1> DEFINE Bad == {i \in 0 .. max : ~ LoansGood(db, t, f[i])}
<1>2. \A i \in 0 .. max : f[i] = IF i = 0 THEN e ELSE ProcessLoan(f[i - 1], kind)
  BY <1>1 DEF LoanSteps
<1>3. Bad = {}
  <2>1. SUFFICES ASSUME Bad # {} PROVE FALSE
    OBVIOUS
  <2>2. PICK i \in Bad : \A k \in Bad : i <= k
    <3>1. Bad \in SUBSET Nat
      OBVIOUS
    <3> HIDE DEF Bad
    <3> QED
      BY <2>1, <3>1, SmallestNumber
  <2>3. i \in 0 .. max /\ ~ LoansGood(db, t, f[i])
    OBVIOUS
  <2>4. i # 0
    BY <1>2, <2>3
  <2>5. i - 1 \in 0 .. max /\ i - 1 \notin Bad
    BY <2>2, <2>3, <2>4
  <2>6. LoansGood(db, t, f[i - 1])
    BY <2>5
  <2>7. f[i] = ProcessLoan(f[i - 1], kind)
    BY <1>2, <2>3, <2>4
  <2> QED
    BY <2>3, <2>6, <2>7, LoanTurn
<1>4. LoansGood(db, t, f[max])
  BY <1>3
<1> QED
  BY <1>1, <1>4

\* Before the first loan.
LEMMA LoansStart ==
  ASSUME NEW t, NEW db, HasOk(db)
  PROVE  LoansGood(db, t, db)
<1>1. ASSUME db.ok, Good(db, t), db.pool # NoRow
      PROVE  Keeps(db, db, 0) /\ StaysEmpty(db, db) /\ LoansRun(db, db)
  <2>1. PoolOf(db).total_lent \in Int
    BY <1>1, PoolOfType, PoolFields DEF Good
  <2> QED
    BY <1>1, <2>1, KeepsSame DEF LoansRun
<1> QED
  BY <1>1 DEF LoansGood

\* The pool gets l tokens, eosio.rex x.
PoolTurns(db, d, l, x) ==
  /\ d \in Db /\ d.pool # NoRow
  /\ d.fund = db.fund /\ d.bal = db.bal /\ d.order = db.order /\ d.loan = db.loan
  /\ d.userres = db.userres /\ d.voters = db.voters
  /\ PoolOK(PoolOf(d)) /\ NotCheaper(PoolOf(db), PoolOf(d))
  /\ PoolOf(d).total_lendable = PoolOf(db).total_lendable + l
  /\ PoolOf(d).total_lent = PoolOf(db).total_lent
  /\ PoolOf(d).total_rex = PoolOf(db).total_rex
  /\ PoolOf(d).loan_num = PoolOf(db).loan_num
  /\ d.tokens[RexAccount] = db.tokens[RexAccount] + x
  /\ d.tokens[StakeAccount] = db.tokens[StakeAccount]
  /\ NamesOK(db) => NamesOK(d)

\* A pool that turns keeps the tables good; what it lends is the change of the surplus.
LEMMA PoolTurned ==
  ASSUME NEW t, NEW db, Good(db, t), NEW l \in Int, NEW x \in Int, NEW d, PoolTurns(db, d, l, x)
  PROVE  Good(d, t) /\ Keeps(db, d, x - l) /\ StaysEmpty(db, d)
<1>1. /\ db \in Db /\ d \in Db
      /\ d.fund = db.fund /\ d.bal = db.bal /\ d.order = db.order /\ d.loan = db.loan
      /\ d.userres = db.userres /\ d.voters = db.voters
  BY DEF Good, PoolTurns
<1>2. /\ SharesOut(d) = SharesOut(db) /\ Claims(d) = Claims(db)
      /\ LoanFunds(d) = LoanFunds(db) /\ LoanStakes(d) = LoanStakes(db)
      /\ \A a \in Accounts : \A r \in Resource : LentTo(d, a, r) = LentTo(db, a, r)
  BY <1>1 DEF SharesOut, Claims, FundOf, IsFilled, LoanFunds, LoanStakes, LentTo
<1>3. Good(d, t)
  <2>1. PoolGood(d)
    BY <1>2 DEF Good, PoolGood, PoolTurns
  <2>2. RowsGood(d, t)
    BY <1>1 DEF Good, RowsGood
  <2>3. ProceedsGood(d)
    BY <1>1 DEF Good, ProceedsGood, IsFilled
  <2>4. \A i \in LoanIds : LoanGood(d, i)
    BY <1>1 DEF Good, LoanGood, PoolTurns
  <2>5. Timely(d, t)
    BY <1>1, SameStay, TimelyStays DEF Good
  <2> QED
    BY <1>1, <2>1, <2>2, <2>3, <2>4, <2>5 DEF Good
<1>4. Surplus(d) = Surplus(db) + (x - l)
  <2>1. PICK tk \in Int, cl \in Int, fu \in Int, le \in Int :
          /\ tk = db.tokens[RexAccount] /\ cl = Claims(db) /\ fu = LoanFunds(db)
          /\ le = PoolOf(db).total_lendable
    BY <1>1, PoolOfType, PoolFields, SurplusIsInt, SumsAreInts
  <2>2. Surplus(db) = tk - (cl + fu + le) /\ Surplus(d) = (tk + x) - (cl + fu + (le + l))
    BY <1>2, <2>1 DEF Surplus, PoolTurns
  <2> QED
    BY <2>2
<1>5. \A a \in Accounts : \A r \in Resource : Unlent(d, a, r) = Unlent(db, a, r)
  BY <1>1, <1>2 DEF Unlent
<1>6. VotesOK(db) => VotesOK(d)
  BY <1>1 DEF VotesOK, Holding, Voting
<1>7. StaysEmpty(db, d) /\ NotCheaper(PoolOf(db), PoolOf(d))
      /\ d.tokens[StakeAccount] = db.tokens[StakeAccount]
      /\ (NamesOK(db) => NamesOK(d))
  BY DEF StaysEmpty, PoolTurns
<1> QED
  BY <1>3, <1>4, <1>5, <1>6, <1>7 DEF Keeps

NamebidsSet(p, n) == [p EXCEPT !.namebid_proceeds = n]

\* The promise of the names set.
LEMMA SetNamebids ==
  ASSUME NEW p, PoolOK(p), NEW n \in Int, NEW q, q = NamebidsSet(p, n)
  PROVE  /\ PoolOK(q) /\ NotCheaper(p, q) /\ q.namebid_proceeds = n
         /\ q.total_lendable = p.total_lendable /\ q.total_lent = p.total_lent
         /\ q.total_rex = p.total_rex /\ q.loan_num = p.loan_num
<1>1. p \in Pool
  BY DEF PoolOK
<1>2. /\ q \in Pool /\ q.namebid_proceeds = n
      /\ q.total_lendable = p.total_lendable /\ q.total_lent = p.total_lent
      /\ q.total_rex = p.total_rex /\ q.loan_num = p.loan_num
      /\ q.total_unlent = p.total_unlent /\ q.total_rent = p.total_rent
  BY <1>1 DEF NamebidsSet, Pool
<1>3. PoolOK(q)
  BY <1>2 DEF PoolOK
<1>4. NotCheaper(p, q)
  <2>1. NotCheaper(p, p)
    BY CheaperSame
  <2> QED
    BY <1>2, <2>1 DEF NotCheaper
<1> QED
  BY <1>2, <1>3, <1>4

\* ChannelNamebids keeps the promise.
LEMMA NamebidsChannelled ==
  ASSUME NEW t, NEW db, Good(db, t), NamesOK(db), db.pool # NoRow,
         NEW d, d = ChannelNamebids(db)
  PROVE  /\ HasOk(d)
         /\ d.ok => /\ Good(d, t) /\ Keeps(db, d, 0) /\ StaysEmpty(db, d) /\ db.ok
                    /\ d.pool # NoRow /\ PoolOf(d).namebid_proceeds <= 0
                    /\ d.bal = db.bal /\ d.order = db.order
                    /\ PoolOf(d).total_lent = PoolOf(db).total_lent
<1>1. db \in Db /\ PoolOf(db) = db.pool /\ PoolOK(db.pool) /\ HasOk(db)
  BY DbHasOk DEF Good, PoolGood, PoolOf
<1>2. PICK amount \in Int : amount = db.pool.namebid_proceeds
  BY <1>1 DEF PoolOK, Pool
<1>3. CASE amount <= 0
  <2>1. d = db
    BY <1>2, <1>3 DEF ChannelNamebids
  <2> QED
    BY <1>1, <1>2, <1>3, <2>1, KeepsSame
<1>4. CASE amount > 0
  <2>1. db.pool.total_rex > 0 /\ rex_available(db)
    BY <1>1, <1>2, <1>4 DEF NamesOK, rex_available, rex_system_initialized
  <2>2. PICK m : m = TokensMoved(db, NamesAccount, RexAccount, amount)
    OBVIOUS
  <2>3. PICK paid : paid = [m EXCEPT !.pool = Channelled(@, amount)]
    OBVIOUS
  <2>4. d = [paid EXCEPT !.pool.namebid_proceeds = 0]
    BY <1>2, <1>4, <2>1, <2>2, <2>3 DEF ChannelNamebids
  <2>5. HasOk(m) /\ (m.ok => db.ok)
    BY <1>1, <2>2, HelpersCarry DEF Carries, HasOk
  <2>6. HasOk(d) /\ d.ok = m.ok
    BY <2>3, <2>4, <2>5 DEF HasOk
  <2>7. ASSUME d.ok
        PROVE  /\ Good(d, t) /\ Keeps(db, d, 0) /\ StaysEmpty(db, d) /\ db.ok
               /\ d.pool # NoRow /\ PoolOf(d).namebid_proceeds <= 0
               /\ d.bal = db.bal /\ d.order = db.order
               /\ PoolOf(d).total_lent = PoolOf(db).total_lent
    <3>1. NamesAccount \in Holders /\ RexAccount \in Holders /\ NamesAccount # RexAccount
          /\ StakeAccount \in Holders \ {NamesAccount, RexAccount}
      BY <1>1, SurplusIsInt, HoldersDiffer
    <3>2. /\ m \in Db /\ m.tokens[RexAccount] = db.tokens[RexAccount] + amount
          /\ m.tokens[StakeAccount] = db.tokens[StakeAccount]
          /\ SameRest(db, m) /\ m.fund = db.fund /\ m.order = db.order /\ m.voters = db.voters
      <4>1. m.ok /\ db \in Db
        BY <1>1, <2>6, <2>7
      <4>2. PICK from \in Holders, to \in Holders : from = NamesAccount /\ to = RexAccount /\ from # to
        BY <3>1
      <4>3. m = TokensMoved(db, from, to, amount)
        BY <2>2, <4>2
      <4> QED
        BY <3>1, <4>1, <4>2, <4>3, TokensAfter
    <3>3. PICK p : p = Channelled(db.pool, amount)
      OBVIOUS
    <3>4. PoolMoves(db.pool, p, amount, 0, 0, 0)
      BY <1>1, <3>3, ChannelledMoves DEF PoolOK
    <3>5. PoolOK(p) /\ NotCheaper(db.pool, p)
      BY <1>1, <1>4, <2>1, <3>3, ChannellingKeepsPool
    <3>6. PICK q : q = NamebidsSet(p, 0)
      OBVIOUS
    <3>7. /\ PoolOK(q) /\ NotCheaper(p, q) /\ q.namebid_proceeds = 0
          /\ q.total_lendable = p.total_lendable /\ q.total_lent = p.total_lent
          /\ q.total_rex = p.total_rex /\ q.loan_num = p.loan_num
      BY <3>5, <3>6, SetNamebids
    <3>8. q \in Pool /\ p \in Pool
      BY <3>5, <3>7 DEF PoolOK
    <3>9. /\ paid \in Db /\ paid.pool = p
          /\ paid.tokens = m.tokens /\ paid.userres = m.userres /\ paid.voters = m.voters
          /\ paid.fund = m.fund /\ paid.bal = m.bal /\ paid.order = m.order /\ paid.loan = m.loan
      <4>1. paid = PoolSet(m, p)
        BY <2>3, <3>2, <3>3 DEF SameRest, PoolSet
      <4> QED
        BY <3>2, <3>8, <4>1, PoolReplaced
    <3>10. /\ d \in Db /\ d.pool = q /\ d.pool # NoRow /\ PoolOf(d) = q
           /\ d.tokens = m.tokens /\ d.userres = m.userres /\ d.voters = m.voters
           /\ d.fund = m.fund /\ d.bal = m.bal /\ d.order = m.order /\ d.loan = m.loan
      <4>1. d = PoolSet(paid, NamebidsSet(paid.pool, 0))
        BY <2>4 DEF NamebidsSet, PoolSet
      <4>2. d = PoolSet(paid, q)
        BY <3>6, <3>9, <4>1
      <4> QED
        BY <3>8, <3>9, <4>2, PoolReplaced
    <3>11. /\ q.total_lendable = db.pool.total_lendable + amount
           /\ q.total_lent = db.pool.total_lent /\ q.total_rex = db.pool.total_rex
           /\ q.loan_num = db.pool.loan_num
      <4>1. /\ db.pool.total_lent \in Int /\ db.pool.total_rex \in Int /\ db.pool.loan_num \in Int
        BY <1>1, PoolFields DEF PoolOK
      <4> QED
        BY <3>4, <3>7, <4>1 DEF PoolMoves
    <3>12. NotCheaper(db.pool, q)
      <4>1. p.total_rex > 0
        BY <2>1, <3>7, <3>11
      <4> QED
        BY <1>1, <3>5, <3>7, <4>1, CheaperChain
    <3>13. PoolTurns(db, d, amount, amount)
      <4>1. NamesOK(d)
        BY <3>7, <3>10 DEF NamesOK
      <4> QED
        BY <1>1, <3>2, <3>7, <3>10, <3>11, <3>12, <4>1 DEF PoolTurns, SameRest
    <3>14. Good(d, t) /\ Keeps(db, d, amount - amount) /\ StaysEmpty(db, d)
      BY <3>13, PoolTurned
    <3>15. Keeps(db, d, 0)
      <4>1. amount - amount = 0
        OBVIOUS
      <4> QED
        BY <3>14, <4>1
    <3> QED
      BY <1>1, <2>5, <2>6, <2>7, <3>2, <3>7, <3>10, <3>11, <3>14, <3>15 DEF SameRest
  <2> QED
    BY <2>6, <2>7
<1> QED
  BY <1>2, <1>3, <1>4

\* The walk along the queue checks nothing.
LEMMA OrderCarries ==
  ASSUME NEW w, HasOk(w.db)
  PROVE  HasOk(NextOrder(w).db) /\ NextOrder(w).db.ok = w.db.ok
<1>1. PICK owner : owner = FirstOf(w.db, w.left)
  OBVIOUS
<1>2. PICK m : m = w.db
  OBVIOUS
<1>3. PICK r : r = fill_rex_order(m, owner, m.order[owner].rex_requested)
  OBVIOUS
<1>4. HasOk(r.db) /\ r.db.ok = m.ok
  <2>1. HasOk(m)
    BY <1>2
  <2>2. CASE CanFill(m.pool, m.order[owner].rex_requested)
    BY <1>3, <2>1, <2>2 DEF fill_rex_order, HasOk
  <2>3. CASE ~ CanFill(m.pool, m.order[owner].rex_requested)
    BY <1>3, <2>1, <2>3 DEF fill_rex_order, HasOk
  <2> QED
    BY <2>2, <2>3
<1>5. PICK d : d = TryOrder(m, owner)
  OBVIOUS
<1>6. HasOk(d) /\ d.ok = m.ok
  BY <1>2, <1>3, <1>4, <1>5 DEF TryOrder, HasOk
<1>7. CASE w.left = {}
  BY <1>7 DEF NextOrder
<1>8. CASE w.left # {}
  <2>1. NextOrder(w).db = d
    BY <1>1, <1>2, <1>5, <1>8 DEF NextOrder
  <2> QED
    BY <1>2, <1>6, <2>1
<1> QED
  BY <1>7, <1>8

\* The queue of orders makes no check fail, and none good.
LEMMA OrdersCarry ==
  ASSUME NEW db, HasOk(db), NEW max \in Nat, NEW d, d = ProcessOrders(db, max)
  PROVE  HasOk(d) /\ d.ok = db.ok
<1>1. PICK start : start = [db |-> db, left |-> Queue(db)]
  OBVIOUS
<1>2. PICK f : OrderSteps(f, start, max) /\ d = f[max].db
  BY <1>1, OrdersInSteps
<1>3. start.db = db
  BY <1>1
<1> DEFINE Same(w) == HasOk(w.db) /\ w.db.ok = db.ok
           Bad == {i \in 0 .. max : ~ Same(f[i])}
<1>4. \A i \in 0 .. max : f[i] = IF i = 0 THEN start ELSE NextOrder(f[i - 1])
  BY <1>2 DEF OrderSteps
<1>5. Same(start)
  BY <1>3
<1>6. \A w : Same(w) => Same(NextOrder(w))
  BY OrderCarries
<1> HIDE DEF Same
<1>7. Bad = {}
  <2>1. SUFFICES ASSUME Bad # {} PROVE FALSE
    OBVIOUS
  <2>2. PICK i \in Bad : \A k \in Bad : i <= k
    <3>1. Bad \in SUBSET Nat
      OBVIOUS
    <3> HIDE DEF Bad
    <3> QED
      BY <2>1, <3>1, SmallestNumber
  <2>3. i \in 0 .. max /\ ~ Same(f[i])
    OBVIOUS
  <2>4. i # 0
    BY <1>4, <1>5, <2>3
  <2>5. i - 1 \in 0 .. max /\ i - 1 \notin Bad
    BY <2>2, <2>3, <2>4
  <2>6. Same(f[i - 1])
    BY <2>5
  <2>7. f[i] = NextOrder(f[i - 1])
    BY <1>4, <2>3, <2>4
  <2> QED
    BY <1>6, <2>3, <2>6, <2>7
<1>8. Same(f[max])
  BY <1>7
<1> QED
  BY <1>2, <1>8 DEF Same

\* What runrex leaves: an order and its owner's shares as they were, or the
\* order filled; and no more lent while anybody waits.
RexRun(db, d) ==
  /\ db.ok /\ db.pool # NoRow /\ d.pool # NoRow /\ PoolOf(d).namebid_proceeds <= 0
  /\ \A a \in Accounts :
       \/ d.order[a] = db.order[a] /\ d.bal[a] = db.bal[a]
       \/ IsOpen(db, a) /\ IsFilled(d, a) /\ d.bal[a] # NoRow /\ db.bal[a] # NoRow
  /\ (\E a \in Accounts : IsOpen(db, a)) => PoolOf(d).total_lent <= PoolOf(db).total_lent

\* runrex keeps everything the tables promise: however many loans expired and
\* however many orders wait, each is renewed, closed, filled or passed over
\* without a token, a share, a vote or a limit getting out of step.
THEOREM RunrexKeeps ==
  ASSUME NEW t, IsNow(t), NEW db, Good(db, t), AllCovered(db), NamesOK(db), NEW max \in Nat,
         NEW d, d = runrex(db, max), d.ok
  PROVE  /\ Good(d, t) /\ Keeps(db, d, 0) /\ StaysEmpty(db, d) /\ RexRun(db, d)
         /\ AllCovered(d)
<1>1. db \in Db /\ db.ok \in BOOLEAN
  BY DbFields DEF Good, Db
<1>2. db.pool # NoRow
  <2>1. SUFFICES ASSUME db.pool = NoRow PROVE FALSE
    OBVIOUS
  <2>2. d = Require(db, FALSE)
    BY <2>1 DEF runrex, rex_system_initialized
  <2>3. ~ Require(db, FALSE).ok
    BY <1>1 DEF Require, Db
  <2> QED
    BY <2>2, <2>3
<1>3. PICK named : named = ChannelNamebids(db)
  OBVIOUS
<1>4. PICK cpu : cpu = ProcessLoans(named, "cpu", max)
  OBVIOUS
<1>5. PICK net : net = ProcessLoans(cpu, "net", max)
  OBVIOUS
<1>6. d = ProcessOrders(net, max)
  BY <1>2, <1>3, <1>4, <1>5 DEF runrex, rex_system_initialized
<1>7. HasOk(named)
  BY <1>2, <1>3, NamebidsChannelled
<1>8. LoansGood(named, t, cpu)
  BY <1>4, <1>7, LoansStart, LoansKeep
<1>9. LoansGood(named, t, net)
  BY <1>5, <1>8, LoansKeep
<1>10. net.ok
  BY <1>6, <1>9, OrdersCarry DEF LoansGood
<1>11. named.ok
  BY <1>9, <1>10 DEF LoansGood
<1>12. /\ Good(named, t) /\ Keeps(db, named, 0) /\ StaysEmpty(db, named) /\ db.ok
       /\ named.pool # NoRow /\ PoolOf(named).namebid_proceeds <= 0
       /\ named.bal = db.bal /\ named.order = db.order
       /\ PoolOf(named).total_lent = PoolOf(db).total_lent
  BY <1>2, <1>3, <1>11, NamebidsChannelled
<1>13. Good(net, t) /\ Keeps(named, net, 0) /\ StaysEmpty(named, net) /\ LoansRun(named, net)
  BY <1>9, <1>10, <1>12 DEF LoansGood
<1>14. /\ net.order = db.order /\ net.bal = db.bal /\ net.pool # NoRow
       /\ PoolOf(net).namebid_proceeds <= 0
       /\ (\E a \in Accounts : IsOpen(db, a)) => PoolOf(net).total_lent <= PoolOf(db).total_lent
  BY <1>12, <1>13 DEF LoansRun, IsOpen
<1>15. AllCovered(net)
  BY <1>14 DEF AllCovered, Covers, IsOpen
<1>16. Good(d, t) /\ Keeps(net, d, 0) /\ StaysEmpty(net, d) /\ OrdersRun(net, d)
  BY <1>6, <1>13, <1>14, <1>15, OrdersKeep DEF IsNow
<1>17. Keeps(db, d, 0)
  <2>1. Keeps(db, net, 0 + 0)
    BY <1>12, <1>13, KeepsChain
  <2>2. Keeps(db, net, 0)
    BY <2>1
  <2>3. Keeps(db, d, 0 + 0)
    BY <1>13, <1>16, <2>2, KeepsChain
  <2> QED
    BY <2>3
<1>18. StaysEmpty(db, d)
  BY <1>12, <1>13, <1>16 DEF StaysEmpty
<1>19. RexRun(db, d)
  <2>1. ASSUME NEW a \in Accounts
        PROVE  \/ d.order[a] = db.order[a] /\ d.bal[a] = db.bal[a]
               \/ IsOpen(db, a) /\ IsFilled(d, a) /\ d.bal[a] # NoRow /\ db.bal[a] # NoRow
    <3>1. CASE d.order[a] = net.order[a] /\ d.bal[a] = net.bal[a]
      BY <1>14, <3>1
    <3>2. CASE IsOpen(net, a) /\ IsFilled(d, a) /\ d.bal[a] # NoRow
      BY <1>14, <3>2 DEF IsOpen, AllCovered, Covers
    <3> QED
      BY <1>16, <3>1, <3>2 DEF OrdersRun
  <2> QED
    BY <1>2, <1>12, <1>14, <1>16, <2>1 DEF RexRun, OrdersRun
<1>20. AllCovered(d)
  <2>1. ASSUME NEW a \in Accounts PROVE Covers(d, a)
    BY <1>19 DEF RexRun, AllCovered, Covers, IsOpen, IsFilled
  <2> QED
    BY <2>1 DEF AllCovered
<1> QED
  BY <1>16, <1>17, <1>18, <1>19, <1>20

\* How an expired loan is taken out of the pool, and then renewed or closed.
Branches(db, id, row, pay, balance, staked, removed, rented, d) ==
  /\ LoanIs(db, id, row, pay, balance, staked)
  /\ removed = PoolSet(db, LoanRemoved(db.pool, staked))
  /\ rented = RentedTokens(removed.pool, pay)
  /\ \/ /\ pay <= balance /\ pay < rented /\ rex_loans_available(removed)
        /\ d = update_resource_limits(
                 LoanSet(PoolSet(removed, LoanAdded(removed.pool, pay, rented, FALSE)), id,
                         update_renewed_loan(row, rented)),
                 row.receiver, row.kind, rented - staked)
     \/ /\ ~ (pay <= balance /\ pay < rented /\ rex_loans_available(removed))
        /\ d = update_resource_limits(LoanSet(BalanceReturned(removed, row), id, NoRow),
                                      row.receiver, row.kind, - staked)

\* What process_expired_loan does.
LEMMA LoanBranches ==
  ASSUME NEW t, NEW db, Good(db, t), db.pool # NoRow, NEW id \in LoanIds, db.loan[id] # NoRow,
         NEW d, d = process_expired_loan(db, id)
  PROVE  \E row \in RexLoan, pay \in Nat, balance \in Nat, staked \in Nat :
           \E removed, rented :
             /\ Branches(db, id, row, pay, balance, staked, removed, rented, d)
             /\ pay > 0 /\ staked > 0 /\ staked <= PoolOf(db).total_lent
<1>1. PICK row \in RexLoan, pay \in Nat, balance \in Nat, staked \in Nat :
        LoanIs(db, id, row, pay, balance, staked) /\ pay > 0 /\ staked > 0
        /\ staked <= PoolOf(db).total_lent
  BY LoanFields
<1>2. /\ db.loan[id] = row /\ row.payment = pay /\ row.balance = balance
      /\ row.total_staked = staked
  BY <1>1 DEF LoanIs
<1>3. PICK removed : removed = PoolSet(db, LoanRemoved(db.pool, staked))
  OBVIOUS
<1>4. PICK rented : rented = RentedTokens(removed.pool, pay)
  OBVIOUS
<1>5. PICK relent : relent = PoolSet(removed, LoanAdded(removed.pool, pay, rented, FALSE))
  OBVIOUS
<1>6. PICK renewed : renewed = LoanSet(relent, id, update_renewed_loan(row, rented))
  OBVIOUS
<1>7. PICK closed : closed = LoanSet(BalanceReturned(removed, row), id, NoRow)
  OBVIOUS
<1>8. removed = [db EXCEPT !.pool = LoanRemoved(@, staked)]
  BY <1>3 DEF PoolSet
<1>9. renewed = [removed EXCEPT !.pool = LoanAdded(@, pay, rented, FALSE),
                                !.loan[id] = update_renewed_loan(row, rented)]
  BY <1>5, <1>6 DEF LoanSet, PoolSet
<1>10. closed = [BalanceReturned(removed, row) EXCEPT !.loan[id] = NoRow]
  BY <1>7 DEF LoanSet
<1>14. d = LET l       == row
               gone    == [db EXCEPT !.pool = LoanRemoved(@, l.total_staked)]
               price   == RentedTokens(gone.pool, l.payment)
               longer  == [gone EXCEPT
                             !.pool = LoanAdded(@, l.payment, price, FALSE),
                             !.loan[id] = update_renewed_loan(l, price)]
               without == [BalanceReturned(gone, l) EXCEPT !.loan[id] = NoRow]
           IN  IF /\ l.payment <= l.balance
                  /\ l.payment < price
                  /\ rex_loans_available(gone)
               THEN update_resource_limits(longer, l.receiver, l.kind, price - l.total_staked)
               ELSE update_resource_limits(without, l.receiver, l.kind, - l.total_staked)
  BY <1>2 DEF process_expired_loan
<1>11. d = IF pay <= balance /\ pay < rented /\ rex_loans_available(removed)
           THEN update_resource_limits(renewed, row.receiver, row.kind, rented - staked)
           ELSE update_resource_limits(closed, row.receiver, row.kind, - staked)
  BY <1>2, <1>4, <1>8, <1>9, <1>10, <1>14
<1>12. Branches(db, id, row, pay, balance, staked, removed, rented, d)
  <2>1. CASE pay <= balance /\ pay < rented /\ rex_loans_available(removed)
    <3>1. d = update_resource_limits(renewed, row.receiver, row.kind, rented - staked)
      BY <1>11, <2>1, Zenon
    <3> QED
      BY <1>1, <1>3, <1>4, <1>5, <1>6, <2>1, <3>1, Zenon DEF Branches
  <2>2. CASE ~ (pay <= balance /\ pay < rented /\ rex_loans_available(removed))
    <3>1. d = update_resource_limits(closed, row.receiver, row.kind, - staked)
      BY <1>11, <2>2, Zenon
    <3> QED
      BY <1>1, <1>3, <1>4, <1>7, <2>2, <3>1, Zenon DEF Branches
  <2> QED
    BY <2>1, <2>2
<1> QED
  BY <1>1, <1>12, Zenon

\* What accounts have besides loans is not negative.
Backs(db) == \A a \in Accounts : \A r \in Resource : Unlent(db, a, r) >= 0

\* The check of update_resource_limits.
LEMMA LimitsCheck ==
  ASSUME NEW db \in Db, NEW receiver \in Accounts, NEW kind \in Resource, NEW delta \in Int,
         db.ok, db.userres[receiver][kind] + delta >= 0,
         NEW d, d = update_resource_limits(db, receiver, kind, delta)
  PROVE  d.ok
<1>1. PICK bad : bad = Require(db, db.userres[receiver][kind] + delta >= 0)
  OBVIOUS
<1>2. bad.ok
  BY <1>1 DEF Require, Db
<1>4. HasOk(bad)
  BY <1>1 DEF Require, Db, HasOk
<1>3. d.ok = bad.ok
  BY <1>1, <1>4 DEF update_resource_limits, HasOk
<1> QED
  BY <1>2, <1>3

\* A fund's row replaced.
LEMMA FundReplaced ==
  ASSUME NEW db \in Db, NEW owner \in Accounts, NEW n \in Nat, NEW d, d = FundSet(db, owner, n)
  PROVE  /\ d \in Db /\ d.ok = db.ok /\ d.fund[owner] = n
         /\ \A a \in Accounts \ {owner} : d.fund[a] = db.fund[a]
         /\ SameRest(db, d) /\ d.tokens = db.tokens /\ d.order = db.order /\ d.voters = db.voters
<1>1. db.fund \in [Accounts -> Nat \cup {NoRow}]
  BY DbFields
<1>2. PICK f : f = [db.fund EXCEPT ![owner] = n]
  OBVIOUS
<1>3. f \in [Accounts -> Nat \cup {NoRow}]
  BY <1>1, <1>2
<1>4. d = [db EXCEPT !.fund = f]
  BY <1>2 DEF FundSet, Db
<1>5. d \in Db
  BY <1>3, <1>4 DEF Db
<1>6. /\ d.fund = f /\ d.ok = db.ok /\ d.tokens = db.tokens /\ d.order = db.order
      /\ d.voters = db.voters /\ d.pool = db.pool /\ d.bal = db.bal /\ d.loan = db.loan
      /\ d.userres = db.userres
  BY <1>4 DEF Db
<1> QED
  BY <1>1, <1>2, <1>5, <1>6 DEF SameRest

\* A payment into a fund that is not empty.
LEMMA FundCredited ==
  ASSUME NEW db \in Db, NEW owner \in Accounts, NEW x \in Nat, x > 0,
         NEW d, d = transfer_to_fund(db, owner, x)
  PROVE  /\ d \in Db /\ d.ok = db.ok /\ d.fund[owner] # NoRow
         /\ \A a \in Accounts \ {owner} : d.fund[a] = db.fund[a]
         /\ SameRest(db, d) /\ d.tokens = db.tokens /\ d.order = db.order /\ d.voters = db.voters
<1>1. PICK n \in Nat : n = FundOf(db, owner) + x
  BY EntriesAreInts
<1>2. Require(db, x > 0) = db
  BY DEF Require, Db
<1>3. d = FundSet(db, owner, n)
  BY <1>1, <1>2 DEF transfer_to_fund, FundSet
<1>4. d.fund[owner] = n
  BY <1>3, FundReplaced
<1>5. d.fund[owner] # NoRow
  BY <1>1, <1>4, NoRowIsNone
<1> QED
  BY <1>3, <1>5, FundReplaced

\* What a loan lends is part of what was lent to its receiver.
LEMMA StakeWithinLimits ==
  ASSUME NEW t, NEW db, Good(db, t), Backs(db), NEW id \in LoanIds,
         NEW row, NEW pay, NEW balance, NEW staked \in Nat,
         LoanIs(db, id, row, pay, balance, staked)
  PROVE  staked <= db.userres[row.receiver][row.kind]
<1>1. PICK a \in Accounts, r \in Resource : a = row.receiver /\ r = row.kind
  BY DEF LoanIs
<1> DEFINE f == [i \in LoanIds |-> StakeTo(db, i, a, r)]
<1>2. db \in Db
  BY DEF Good
<1>3. \A i \in LoanIds : StakeTo(db, i, a, r) \in Nat
  BY <1>2, EntriesAreInts DEF Good, LoanGood, StakeTo
<1>4. f \in [LoanIds -> Nat] /\ IsFiniteSet(LoanIds) /\ f[id] = StakeTo(db, id, a, r)
  BY <1>2, <1>3, EntriesAreInts
<1>5. LentTo(db, a, r) = SumFunctionOnSet(f, LoanIds)
  BY <1>2, SumsOfEntries
<1> HIDE DEF f
<1>6. f[id] <= LentTo(db, a, r)
  BY <1>3, <1>4, <1>5, SumBound
<1>7. f[id] = staked
  BY <1>1, <1>4 DEF StakeTo, LoanIs
<1>8. LentTo(db, a, r) \in Int /\ db.userres[a][r] \in Int
  BY <1>2, SumsAreInts, DbFields DEF Weight
<1>9. db.userres[a][r] - LentTo(db, a, r) >= 0
  BY DEF Backs, Unlent
<1> QED
  BY <1>1, <1>6, <1>7, <1>8, <1>9

\* process_expired_loan never fails: the limits it lowers hold what the loan lent,
\* and an empty balance is not returned.
LEMMA LoanSucceeds ==
  ASSUME NEW t, NEW db, Good(db, t), Backs(db), db.ok, db.pool # NoRow, NEW id \in LoanIds,
         db.loan[id] # NoRow, NEW d, d = process_expired_loan(db, id)
  PROVE  d.ok
<1>20. PICK row \in RexLoan, pay \in Nat, balance \in Nat, staked \in Nat :
          \E removed, rented :
            /\ Branches(db, id, row, pay, balance, staked, removed, rented, d)
            /\ pay > 0 /\ staked > 0 /\ staked <= PoolOf(db).total_lent
  BY LoanBranches
<1>1. PICK removed, rented :
        /\ Branches(db, id, row, pay, balance, staked, removed, rented, d)
        /\ pay > 0 /\ staked > 0 /\ staked <= PoolOf(db).total_lent
  BY <1>20
<1>2. /\ LoanIs(db, id, row, pay, balance, staked)
      /\ removed = PoolSet(db, LoanRemoved(db.pool, staked))
      /\ rented = RentedTokens(removed.pool, pay)
  BY <1>1 DEF Branches
<1>3. row.receiver \in Accounts /\ row.kind \in Resource /\ row.from \in Accounts
  BY <1>2 DEF LoanIs
<1>4. /\ db \in Db /\ PoolOf(db) = db.pool /\ PoolOK(db.pool)
  BY DEF Good, PoolGood, PoolOf
<1>5. PICK p : p = LoanRemoved(db.pool, staked)
  OBVIOUS
<1>6. PoolOK(p) /\ p \in Pool
  BY <1>1, <1>4, <1>5, PoolWithout DEF PoolOK
<1>7. /\ removed \in Db /\ removed.pool = p /\ removed.ok = db.ok
      /\ removed.userres = db.userres
  <2>1. removed = PoolSet(db, p)
    BY <1>2, <1>5
  <2>2. db \in Db /\ p \in Pool
    BY <1>4, <1>6
  <2>3. removed \in Db /\ removed.pool = p /\ removed.userres = db.userres
    BY <2>1, <2>2, PoolReplaced
  <2>4. removed.ok = db.ok
    BY <2>1, <2>2, PoolReplaced, Zenon
  <2> QED
    BY <2>3, <2>4
<1>8. staked <= db.userres[row.receiver][row.kind]
  BY <1>2, StakeWithinLimits
<1>9. db.userres[row.receiver][row.kind] \in Int
  BY <1>3, <1>4, DbFields DEF Weight
<1>10. CASE /\ pay <= balance /\ pay < rented /\ rex_loans_available(removed)
            /\ d = update_resource_limits(
                 LoanSet(PoolSet(removed, LoanAdded(removed.pool, pay, rented, FALSE)), id,
                         update_renewed_loan(row, rented)),
                 row.receiver, row.kind, rented - staked)
  <2>1. p.total_rex > 0
    BY <1>7, <1>10 DEF rex_loans_available, rex_available
  <2>2. PICK q : q = LoanAdded(p, pay, rented, FALSE)
    OBVIOUS
  <2>3. rented \in Nat /\ PoolOK(q) /\ q \in Pool
    <3>1. rented = RentedTokens(p, pay)
      BY <1>2, <1>7
    <3>2. PICK n \in Int : n = 0
      OBVIOUS
    <3>3. PICK new_loan \in BOOLEAN : new_loan = FALSE
      BY Zenon
    <3>4. n = IF new_loan THEN 1 ELSE 0
      BY <3>2, <3>3, Zenon
    <3>5. q = LoanAdded(p, pay, rented, new_loan)
      BY <2>2, <3>3, Zenon
    <3>6. PoolOK(q) /\ rented \in Nat
      BY <1>1, <1>6, <2>1, <3>1, <3>4, <3>5, PoolWith
    <3> QED
      BY <3>6 DEF PoolOK
  <2>4. PICK relent : relent = PoolSet(removed, q)
    OBVIOUS
  <2>5. /\ relent \in Db /\ relent.ok = db.ok /\ relent.userres = db.userres
    BY <1>7, <2>3, <2>4, PoolReplaced
  <2>6. PICK longer : longer = update_renewed_loan(row, rented)
    OBVIOUS
  <2>7. longer \in RexLoan
    BY <2>3, <2>6, LoanExtended DEF Extended
  <2>8. PICK renewed : renewed = LoanSet(relent, id, longer)
    OBVIOUS
  <2>9. renewed \in Db /\ renewed.ok = db.ok /\ renewed.userres = db.userres
    BY <2>5, <2>7, <2>8, LoanReplaced
  <2>10. d = update_resource_limits(renewed, row.receiver, row.kind, rented - staked)
    BY <1>7, <1>10, <2>2, <2>4, <2>6, <2>8
  <2>11. rented - staked \in Int
    BY <2>3
  <2>13. PICK limit \in Int : limit = renewed.userres[row.receiver][row.kind]
    BY <1>9, <2>9
  <2>14. limit >= staked
    BY <1>8, <2>9, <2>13
  <2>15. limit + (rented - staked) >= 0
    BY <2>3, <2>14
  <2>16. renewed.ok /\ renewed.userres[row.receiver][row.kind] + (rented - staked) >= 0
    BY <2>9, <2>13, <2>15
  <2> QED
    BY <1>3, <2>9, <2>10, <2>11, <2>16, LimitsCheck
<1>11. CASE d = update_resource_limits(LoanSet(BalanceReturned(removed, row), id, NoRow),
                                      row.receiver, row.kind, - staked)
  <2>1. PICK returned : returned = BalanceReturned(removed, row)
    OBVIOUS
  <2>2. returned \in Db /\ returned.ok = db.ok /\ returned.userres = db.userres
    <3>1. row.balance = balance
      BY <1>2 DEF LoanIs
    <3>2. CASE balance > 0
      <4>1. returned = transfer_to_fund(removed, row.from, balance)
        BY <2>1, <3>1, <3>2 DEF BalanceReturned
      <4> QED
        BY <1>3, <1>7, <3>2, <4>1, FundCredited DEF SameRest
    <3>3. CASE ~ (balance > 0)
      <4>1. returned = removed
        BY <2>1, <3>1, <3>3 DEF BalanceReturned
      <4> QED
        BY <1>7, <4>1
    <3> QED
      BY <3>2, <3>3
  <2>3. PICK closed : closed = LoanSet(returned, id, NoRow)
    OBVIOUS
  <2>4. closed \in Db /\ closed.ok = db.ok /\ closed.userres = db.userres
    BY <2>2, <2>3, LoanReplaced
  <2>5. d = update_resource_limits(closed, row.receiver, row.kind, - staked)
    BY <1>11, <2>1, <2>3
  <2>6. PICK down \in Int : down = - staked
    OBVIOUS
  <2>8. PICK limit \in Int : limit = closed.userres[row.receiver][row.kind]
    BY <1>9, <2>4
  <2>9. limit >= staked
    BY <1>8, <2>4, <2>8
  <2>10. limit + down >= 0
    BY <2>6, <2>9
  <2>11. closed.ok /\ closed.userres[row.receiver][row.kind] + down >= 0
    BY <2>4, <2>8, <2>10
  <2> QED
    BY <1>3, <2>4, <2>5, <2>6, <2>11, LimitsCheck
<1> QED
  BY <1>1, <1>10, <1>11, Zenon DEF Branches

\* What holds while expired loans are looked at, besides that.
LoansGo(db, t, e) ==
  e.ok /\ IsNow(t) /\ Good(e, t) /\ Keeps(db, e, 0) /\ StaysEmpty(db, e) /\ LoansRun(db, e)

\* One turn does not fail.
LEMMA LoanGoes ==
  ASSUME NEW t, NEW db, Good(db, t), db.pool # NoRow, Backs(db), NEW kind, NEW e, LoansGo(db, t, e)
  PROVE  LoansGo(db, t, ProcessLoan(e, kind))
<1>1. PICK d : d = ProcessLoan(e, kind)
  OBVIOUS
<1>2. Good(e, t) /\ Keeps(db, e, 0) /\ e.ok /\ LoansRun(db, e)
  BY DEF LoansGo
<1>3. HasOk(e)
  BY <1>2, DbHasOk DEF Good
<1>4. LoansGood(db, t, e)
  BY <1>2, <1>3 DEF LoansGo, LoansGood, LoansRun
<1>5. LoansGood(db, t, d)
  BY <1>1, <1>4, LoanTurn
<1>6. d.ok
  <2>1. CASE Expired(e, kind) = {}
    BY <1>1, <1>2, <2>1 DEF ProcessLoan
  <2>2. CASE Expired(e, kind) # {}
    <3>1. PICK id : id = FirstExpired(e, kind)
      OBVIOUS
    <3>2. d = process_expired_loan(e, id)
      BY <1>1, <2>2, <3>1 DEF ProcessLoan
    <3>3. id \in Expired(e, kind)
      BY <1>2, <2>2, <3>1, FirstExpiredExists DEF Good
    <3>4. id \in LoanIds /\ e.loan[id] # NoRow /\ e.pool # NoRow
      BY <1>2, <3>3 DEF Expired, LoansRun
    <3>5. Backs(e)
      BY <1>2 DEF Backs, Keeps
    <3> QED
      BY <1>2, <3>2, <3>4, <3>5, LoanSucceeds
  <2> QED
    BY <2>1, <2>2
<1> QED
  BY <1>1, <1>5, <1>6 DEF LoansGo, LoansGood

\* Nor do all of them.
LEMMA LoansAllGo ==
  ASSUME NEW t, NEW db, Good(db, t), db.pool # NoRow, Backs(db), NEW kind, NEW max \in Nat,
         NEW e, LoansGo(db, t, e), NEW d, d = ProcessLoans(e, kind, max)
  PROVE  LoansGo(db, t, d)
<1>1. PICK f : LoanSteps(f, e, kind, max) /\ d = f[max]
  BY LoansInSteps
<1> DEFINE Bad == {i \in 0 .. max : ~ LoansGo(db, t, f[i])}
<1>2. \A i \in 0 .. max : f[i] = IF i = 0 THEN e ELSE ProcessLoan(f[i - 1], kind)
  BY <1>1 DEF LoanSteps
<1>3. Bad = {}
  <2>1. SUFFICES ASSUME Bad # {} PROVE FALSE
    OBVIOUS
  <2>2. PICK i \in Bad : \A k \in Bad : i <= k
    <3>1. Bad \in SUBSET Nat
      OBVIOUS
    <3> HIDE DEF Bad
    <3> QED
      BY <2>1, <3>1, SmallestNumber
  <2>3. i \in 0 .. max /\ ~ LoansGo(db, t, f[i])
    OBVIOUS
  <2>4. i # 0
    BY <1>2, <2>3
  <2>5. i - 1 \in 0 .. max /\ i - 1 \notin Bad
    BY <2>2, <2>3, <2>4
  <2>6. LoansGo(db, t, f[i - 1])
    BY <2>5
  <2>7. f[i] = ProcessLoan(f[i - 1], kind)
    BY <1>2, <2>3, <2>4
  <2> QED
    BY <2>3, <2>6, <2>7, LoanGoes
<1>4. LoansGo(db, t, f[max])
  BY <1>3
<1> QED
  BY <1>1, <1>4

\* The proceeds of names that were promised can be paid.
LEMMA NamebidsPaid ==
  ASSUME NEW t, NEW db, Good(db, t), NamesOK(db), db.pool # NoRow, db.ok,
         NEW d, d = ChannelNamebids(db)
  PROVE  d.ok
<1>1. db \in Db /\ PoolOf(db) = db.pool /\ PoolOK(db.pool) /\ HasOk(db)
  BY DbHasOk DEF Good, PoolGood, PoolOf
<1>2. PICK amount \in Int : amount = db.pool.namebid_proceeds
  BY <1>1 DEF PoolOK, Pool
<1>3. CASE amount <= 0
  BY <1>2, <1>3 DEF ChannelNamebids
<1>4. CASE amount > 0
  <2>1. rex_available(db) /\ db.tokens[NamesAccount] >= amount
    BY <1>1, <1>2, <1>4 DEF NamesOK, rex_available, rex_system_initialized
  <2>2. PICK checked : checked = Require(db, db.tokens[NamesAccount] >= amount)
    OBVIOUS
  <2>3. HasOk(checked) /\ checked.ok
    BY <1>1, <2>1, <2>2 DEF Require, HasOk
  <2>4. PICK m : m = TokensMoved(db, NamesAccount, RexAccount, amount)
    OBVIOUS
  <2>5. HasOk(m) /\ m.ok
    BY <2>2, <2>3, <2>4 DEF TokensMoved, HasOk
  <2>6. PICK paid : paid = [m EXCEPT !.pool = Channelled(@, amount)]
    OBVIOUS
  <2>7. d = [paid EXCEPT !.pool.namebid_proceeds = 0]
    BY <1>2, <1>4, <2>1, <2>4, <2>6 DEF ChannelNamebids
  <2> QED
    BY <2>5, <2>6, <2>7 DEF HasOk
<1> QED
  BY <1>2, <1>3, <1>4

\* The parts of runrex, one after the other.
Maintained(db, max, named, cpu, net, d) ==
  /\ named = ChannelNamebids(db)
  /\ cpu = ProcessLoans(named, "cpu", max)
  /\ net = ProcessLoans(cpu, "net", max)
  /\ d = ProcessOrders(net, max)

\* While there is a pool, that is what runrex does.
LEMMA RunrexParts ==
  ASSUME NEW db, db.pool # NoRow, NEW max
  PROVE  \E named, cpu, net : Maintained(db, max, named, cpu, net, runrex(db, max))
<1>1. PICK named : named = ChannelNamebids(db)
  OBVIOUS
<1>2. PICK cpu : cpu = ProcessLoans(named, "cpu", max)
  OBVIOUS
<1>3. PICK net : net = ProcessLoans(cpu, "net", max)
  OBVIOUS
<1>4. runrex(db, max) = ProcessOrders(net, max)
  BY <1>1, <1>2, <1>3 DEF runrex, rex_system_initialized
<1> QED
  BY <1>1, <1>2, <1>3, <1>4 DEF Maintained

\* What the loans of both kinds leave.
LEMMA PartsGo ==
  ASSUME NEW t, IsNow(t), NEW db, Good(db, t), NamesOK(db), Backs(db), db.ok, db.pool # NoRow,
         NEW max \in Nat, NEW named, NEW cpu, NEW net, NEW d,
         Maintained(db, max, named, cpu, net, d)
  PROVE  /\ Good(named, t) /\ Keeps(db, named, 0) /\ named.order = db.order /\ named.ok
         /\ named.bal = db.bal /\ named.pool # NoRow /\ PoolOf(named).namebid_proceeds <= 0
         /\ LoansGo(named, t, cpu) /\ LoansGo(named, t, net) /\ Backs(named)
<1>1. named.ok
  BY NamebidsPaid DEF Maintained
<1>2. /\ Good(named, t) /\ Keeps(db, named, 0) /\ named.pool # NoRow /\ HasOk(named)
      /\ named.order = db.order /\ named.bal = db.bal /\ PoolOf(named).namebid_proceeds <= 0
  BY <1>1, NamebidsChannelled DEF Maintained
<1>3. Backs(named)
  BY <1>2 DEF Backs, Keeps
<1>4. LoansGo(named, t, named)
  <2>1. LoansGood(named, t, named)
    BY <1>2, LoansStart
  <2> QED
    BY <1>1, <1>2, <2>1 DEF LoansGood, LoansGo
<1>5. LoansGo(named, t, cpu)
  BY <1>2, <1>3, <1>4, LoansAllGo DEF Maintained
<1>6. LoansGo(named, t, net)
  BY <1>2, <1>3, <1>5, LoansAllGo DEF Maintained
<1> QED
  BY <1>1, <1>2, <1>3, <1>5, <1>6

\* Maintenance never fails: names can be paid, limits lowered and balances
\* returned, however many loans and orders there are.
THEOREM RunrexSucceeds ==
  ASSUME NEW t, IsNow(t), NEW db, Good(db, t), NamesOK(db), Backs(db), db.ok, db.pool # NoRow,
         NEW max \in Nat
  PROVE  runrex(db, max).ok
<1>1. PICK named, cpu, net : Maintained(db, max, named, cpu, net, runrex(db, max))
  BY RunrexParts
<1>2. LoansGo(named, t, net)
  BY <1>1, PartsGo
<1>3. HasOk(net) /\ net.ok
  BY <1>2, DbHasOk DEF LoansGo, Good
<1>4. PICK d : d = runrex(db, max)
  OBVIOUS
<1>5. d = ProcessOrders(net, max)
  BY <1>1, <1>4 DEF Maintained
<1>6. d.ok = net.ok
  BY <1>3, <1>5, OrdersCarry
<1> QED
  BY <1>3, <1>4, <1>6
==============================================================================
