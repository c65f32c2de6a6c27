----------------------------- MODULE RexBalance -----------------------------
(***************************************************************************)
(* The rexbal row of one owner: the shares held, how many of them have     *)
(* matured, and the queue of buckets the others mature in.  A bucket of    *)
(* savings never matures; read_rex_savings takes it off the queue while    *)
(* the other buckets are processed and put_rex_savings puts it back last.  *)
(***************************************************************************)
EXTENDS Integers, Sequences, FiniteSets, Functions

CONSTANTS DayLength,   \* ticks in a day
          NumBuckets,  \* num_of_maturity_buckets
          EndOfDays    \* time_point_sec::maximum()

ASSUME RexBalanceAssumption ==
  /\ DayLength \in Nat \ {0}
  /\ NumBuckets \in Nat \ {0}
  /\ EndOfDays \in Nat

Bucket == [time : Nat, amount : Int]

\* Shares bought now mature a fixed number of days after the day began.
get_rex_maturity(now) == now - (now % DayLength) + NumBuckets * DayLength

InBuckets(buckets) == SumFunction([i \in DOMAIN buckets |-> buckets[i].amount])

\* What lies behind bucket i.
Behind(buckets, i) ==
  SumFunctionOnSet([j \in DOMAIN buckets |-> buckets[j].amount], (i + 1)..Len(buckets))

HasSavings(buckets) ==
  buckets # << >> /\ buckets[Len(buckets)].time = EndOfDays

Savings(buckets) == IF HasSavings(buckets) THEN buckets[Len(buckets)].amount ELSE 0

WithoutSavings(buckets) ==
  IF HasSavings(buckets) THEN SubSeq(buckets, 1, Len(buckets) - 1) ELSE buckets

\* Added to the last bucket when it matures at that time, else to a new one.
AddBucket(buckets, time, amount) ==
  IF buckets # << >> /\ buckets[Len(buckets)].time = time
  THEN [buckets EXCEPT ![Len(buckets)].amount = @ + amount]
  ELSE Append(buckets, [time |-> time, amount |-> amount])

put_rex_savings(row, rex) ==
  IF rex = 0 THEN row
  ELSE [row EXCEPT !.rex_maturities = AddBucket(@, EndOfDays, rex)]

\* The buckets at the front of the queue that are due become matured shares.
process_rex_maturities(row, now) ==
  LET buckets == row.rex_maturities
      due     == {i \in DOMAIN buckets : \A j \in 1..i : buckets[j].time <= now}
      rest    == [i \in 1..(Len(buckets) - Cardinality(due)) |-> buckets[i + Cardinality(due)]]
  IN  [row EXCEPT !.matured_rex = @ + (InBuckets(buckets) - InBuckets(rest)),
                  !.rex_maturities = rest]

\* Newly bought shares join the bucket of the day, in front of the savings.
WithBought(row, now, rex) ==
  LET savings == Savings(row.rex_maturities)
      open    == process_rex_maturities(
                   [row EXCEPT !.rex_maturities = WithoutSavings(@)], now)
  IN  put_rex_savings([open EXCEPT !.rex_maturities = AddBucket(@, get_rex_maturity(now), rex)],
                      savings)

\* Everything but the savings and the shares of an open sell order goes into
\* the bucket of the day, matured or not.
consolidate_rex_balance(row, now, rex_in_sell_order) ==
  LET savings == Savings(row.rex_maturities)
      total   == row.matured_rex - rex_in_sell_order + InBuckets(WithoutSavings(row.rex_maturities))
      empty   == [row EXCEPT !.matured_rex = rex_in_sell_order, !.rex_maturities = << >>]
  IN  put_rex_savings(
        IF total > 0
        THEN [empty EXCEPT !.rex_maturities = AddBucket(@, get_rex_maturity(now), total)]
        ELSE empty,
        savings)

\* Shares are taken from the youngest bucket first, and a bucket that is used
\* up is removed; what the buckets lack comes from the matured shares.
TakeFromBack(buckets, rex) ==
  LET left == [i \in DOMAIN buckets |->
                 LET wanted == rex - Behind(buckets, i)
                 IN  IF wanted <= 0 THEN buckets[i].amount
                     ELSE IF wanted < buckets[i].amount THEN buckets[i].amount - wanted ELSE 0]
      kept == {i \in DOMAIN buckets : Behind(buckets, i) >= rex \/ left[i] > 0}
  IN  [i \in 1..Cardinality(kept) |-> [buckets[i] EXCEPT !.amount = left[i]]]

MovedToSavings(row, now, rex) ==
  LET savings == Savings(row.rex_maturities)
      open    == process_rex_maturities(
                   [row EXCEPT !.rex_maturities = WithoutSavings(@)], now)
      taken   == TakeFromBack(open.rex_maturities, rex)
      moved   == InBuckets(open.rex_maturities) - InBuckets(taken)
  IN  put_rex_savings([open EXCEPT !.rex_maturities = taken,
                                   !.matured_rex = @ - (rex - moved)],
                      savings + rex)

MovedFromSavings(row, now, rex) ==
  LET savings == Savings(row.rex_maturities)
      open    == process_rex_maturities(
                   [row EXCEPT !.rex_maturities = WithoutSavings(@)], now)
  IN  put_rex_savings([open EXCEPT !.rex_maturities = AddBucket(@, get_rex_maturity(now), rex)],
                      savings - rex)

-----------------------------------------------------------------------------
\* The queue is in strictly increasing order of maturity, which processing it
\* from the front and adding to it at the back rely on; shares are matured, in
\* a bucket or in the savings, and none is in two places.
RowOK(row) ==
  /\ row.matured_rex >= 0
  /\ \A i \in DOMAIN row.rex_maturities : row.rex_maturities[i].amount >= 0
  /\ \A i \in 1..(Len(row.rex_maturities) - 1) :
        row.rex_maturities[i].time < row.rex_maturities[i + 1].time
  /\ row.rex_balance = row.matured_rex + InBuckets(row.rex_maturities)
=============================================================================
