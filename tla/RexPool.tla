------------------------------- MODULE RexPool -------------------------------
(***************************************************************************)
(* The arithmetic of the REX pool: what each operation of rex.cpp does to  *)
(* the one row of the rexpool table.  There is no state here; Rex threads  *)
(* the row through these operators and RexProofs proves about them.        *)
(*                                                                         *)
(* Amounts are integers.  The divisions of 128-bit products truncate; the  *)
(* connector formula, computed in doubles and truncated, is taken exact    *)
(* (the double is exact while products stay below 2^53).                   *)
(***************************************************************************)
EXTENDS Integers

CONSTANTS RexRatio,      \* rex_ratio: REX issued per token of an empty pool
          InitTotalRent  \* init_total_rent

ASSUME RexPoolAssumption == RexRatio \in Nat \ {0} /\ InitTotalRent \in Nat \ {0}

Pool == [total_lent : Int, total_unlent : Int, total_rent : Int, total_lendable : Int,
         total_rex : Int, namebid_proceeds : Int, loan_num : Int]

\* (in * out) / (in + conin), at least zero.
get_bancor_output(conin, conout, in) ==
  LET out == (in * conout) \div (in + conin) IN IF out < 0 THEN 0 ELSE out

\* The lendable total is always recomputed from its two parts, or the unlent
\* part from the total.
WithUnlent(pool, unlent, lent) ==
  [pool EXCEPT !.total_unlent = unlent, !.total_lent = lent, !.total_lendable = unlent + lent]

WithLendable(pool, lendable) ==
  [pool EXCEPT !.total_lendable = lendable, !.total_unlent = lendable - pool.total_lent]

-----------------------------------------------------------------------------
(***************************************************************************)
(* Buying and selling shares                                               *)
(***************************************************************************)
\* A pool that starts, or starts again, from nothing.
Refilled(pool, payment) ==
  [pool EXCEPT !.total_lendable = payment, !.total_lent = 0, !.total_unlent = payment,
               !.total_rent = InitTotalRent, !.total_rex = payment * RexRatio]

EmptyPool == [total_lent |-> 0, total_unlent |-> 0, total_rent |-> 0, total_lendable |-> 0,
              total_rex |-> 0, namebid_proceeds |-> 0, loan_num |-> 0]

\* MUTANT: the division is rounded up, in favor of the buyer.
SharesRoundedUp(pool, payment) ==
  ((pool.total_lendable + payment) * pool.total_rex + pool.total_lendable - 1)
    \div pool.total_lendable

\* total_rex after a purchase at the current price, rounded down.
SharesAfterBuy(pool, payment) ==
  ((pool.total_lendable + payment) * pool.total_rex) \div pool.total_lendable

AddedTo(pool, payment) ==
  IF pool.total_rex = 0
  THEN Refilled(pool, payment)
  ELSE [WithLendable(pool, pool.total_lendable + payment)
          EXCEPT !.total_rex = SharesAfterBuy(pool, payment)]

\* The check "lendable REX pool is empty".
CanAddTo(pool) == pool.total_rex = 0 \/ pool.total_lendable > 0

\* What an amount of shares is worth now, rounded down.
Value(pool, rex) == (rex * pool.total_lendable) \div pool.total_rex

\* MUTANT: a fifth is taken of what could be lent, as if all of it were lent.
AvailableOfLendable(pool) == pool.total_unlent - (2 * pool.total_lendable) \div 10

\* MUTANT: the lendable total is taken for the unlent part of it.
AvailableLendable(pool) == pool.total_lendable - (2 * pool.total_lent) \div 10

\* Unlent tokens a sale may use: a fifth of what is lent stays behind.
AvailableUnlent(pool) == pool.total_unlent - (2 * pool.total_lent) \div 10

CanFill(pool, rex) == Value(pool, rex) <= AvailableUnlent(pool)

\* MUTANT: the shares that are paid out are not taken away.
FilledSharesKept(pool, rex) == WithLendable(pool, pool.total_lendable - Value(pool, rex))

Filled(pool, rex) ==
  [WithLendable(pool, pool.total_lendable - Value(pool, rex))
     EXCEPT !.total_rex = pool.total_rex - rex]

-----------------------------------------------------------------------------
(***************************************************************************)
(* Lending                                                                 *)
(***************************************************************************)
RentedTokens(pool, payment) ==
  get_bancor_output(pool.total_rent, pool.total_unlent, payment)

LoanAdded(pool, payment, rented_tokens, new_loan) ==
  [WithUnlent(pool, pool.total_unlent - rented_tokens + payment,
              pool.total_lent + rented_tokens)
     EXCEPT !.total_rent = @ + payment,
            !.loan_num = @ + (IF new_loan THEN 1 ELSE 0)]

LoanRemoved(pool, staked) ==
  [WithUnlent(pool, pool.total_unlent + staked, pool.total_lent - staked)
     EXCEPT !.total_rent =
        @ - get_bancor_output(pool.total_unlent, pool.total_rent, staked)]

\* Fees and name bid proceeds that flow into the pool.
Channelled(pool, amount) ==
  [pool EXCEPT !.total_unlent = @ + amount, !.total_lendable = @ + amount]

-----------------------------------------------------------------------------
\* The parts add up, nothing is negative, and shares exist exactly when there
\* is something to share, which the divisions by total_rex and by
\* total_lendable rely on.
PoolOK(pool) ==
  /\ pool \in Pool
  /\ pool.total_lendable = pool.total_unlent + pool.total_lent
  /\ pool.total_unlent >= 0
  /\ pool.total_lent >= 0
  /\ pool.total_rent >= 0
  /\ pool.total_rex >= 0
  /\ pool.total_rex = 0 <=> pool.total_lendable = 0

\* The value of a share in "after" is at least its value in "before".
NotCheaper(before, after) ==
  after.total_lendable * before.total_rex >= before.total_lendable * after.total_rex
=============================================================================
