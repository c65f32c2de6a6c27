----------------------------- MODULE NameAuction -----------------------------
(***************************************************************************)
(* The auction of account names in eosio.system: bids and the refunds of   *)
(* those who were outbid, paid by themselves or by a deferred transaction, *)
(* the closing of one auction a day in onblock, and newaccount, which only *)
(* lets the winner create a name that was sold.                            *)
(*                                                                         *)
(* Time is in ticks that are longer than the minute between two schedule   *)
(* updates, so that every tick has a block in which an auction can close.  *)
(* A deferred transaction that the chain drops is one that never runs.     *)
(***************************************************************************)
EXTENDS Integers, FiniteSets, Functions

CONSTANTS Bidders,       \* user accounts
          System,        \* eosio
          NamesAccount,  \* eosio.names, which holds the bids
          RexAccount,    \* eosio.rex
          TopNames,      \* names without dots that are up for auction
          SubNames,      \* names with a dot
          Suffix,        \* the part of a dotted name after its last dot
          Rank,          \* order of the names, as the primary key has it
          NoRow,         \* a row that does not exist
          InitTokens,    \* core tokens each holder starts with
          BidAmounts,    \* name -> amounts of the bids tried on it
          Day,           \* a day in ticks
          LaunchDelay,   \* 14 days in ticks
          LastBid,       \* bound: no bids and no activation after this time
          MaxTime        \* bound of the clock

Holders == Bidders \cup {NamesAccount, RexAccount}

AuctionNames == TopNames \cup SubNames

ASSUME AuctionAssumption ==
  /\ IsFiniteSet(Bidders) /\ IsFiniteSet(TopNames) /\ IsFiniteSet(SubNames)
  /\ NamesAccount \notin Bidders /\ RexAccount \notin Bidders \cup {NamesAccount}
  /\ System \notin Bidders \cup AuctionNames
  /\ Bidders \cap AuctionNames = {} /\ TopNames \cap SubNames = {}
  /\ Suffix \in [SubNames -> TopNames]
  /\ Rank \in [TopNames -> Nat]
  /\ \A m, n \in TopNames : Rank[m] = Rank[n] => m = n
  /\ InitTokens \in [Holders -> Nat] /\ InitTokens[NamesAccount] = 0
  /\ BidAmounts \in [TopNames -> SUBSET Nat]
  /\ Day \in Nat /\ LaunchDelay \in Nat /\ LastBid \in Nat /\ MaxTime \in Nat
  /\ NoRow \notin Nat
  /\ NoRow \notin [high_bidder : Bidders, high_bid : Int, last_bid_time : Nat]

VARIABLES now,
          tokens,           \* core token balances
          namebids,         \* name -> name_bid or NoRow
          bidrefunds,       \* name -> bidder -> refund or NoRow
          deferred,         \* <<name, bidder>> whose bidrefund is scheduled
          created,          \* names that are accounts
          thresh_activated_stake_time, \* 0 until the chain is activated
          last_name_close,
          rex_available,    \* REX has shares
          namebid_proceeds, \* promised to REX, still in eosio.names
          kept,             \* history: sold while REX had no shares
          spent             \* history: what each bidder paid for its names

auctionVars == <<now, tokens, namebids, bidrefunds, deferred, created,
          thresh_activated_stake_time, last_name_close, rex_available,
          namebid_proceeds, kept, spent>>

NameBid == [high_bidder : Bidders, high_bid : Int, last_bid_time : Nat]

AuctionInit ==
  /\ now = 1
  /\ tokens = InitTokens
  /\ namebids = [n \in TopNames |-> NoRow]
  /\ bidrefunds = [n \in TopNames |-> [b \in Bidders |-> NoRow]]
  /\ deferred = {}
  /\ created = {}
  /\ thresh_activated_stake_time = 0
  /\ last_name_close = 0
  /\ rex_available = FALSE
  /\ namebid_proceeds = 0
  /\ kept = 0
  /\ spent = [b \in Bidders |-> 0]

-----------------------------------------------------------------------------
\* A negative bid is that of a closed auction waiting to be claimed.
IsOpen(n) == namebids[n] # NoRow /\ namebids[n].high_bid > 0

IsClosed(n) == namebids[n] # NoRow /\ namebids[n].high_bid < 0

Pay(from, to, amount) ==
  /\ tokens[from] >= amount
  /\ tokens' = [tokens EXCEPT ![from] = @ - amount, ![to] = @ + amount]

\* MUTANT: a second refund for the same name overwrites the first.
RefundOverwritten(row, amount) == amount

\* What is refunded once another high bid of the same bidder is beaten.
RefundAfter(row, amount) == IF row = NoRow THEN amount ELSE row + amount

\* MUTANT: the check for closed auctions is missing.
BeatsAny(row, bidder, bid) ==
  /\ bid - row.high_bid > row.high_bid \div 10
  /\ row.high_bidder # bidder

Beats(row, bidder, bid) ==
  /\ row.high_bid > 0
  /\ bid - row.high_bid > row.high_bid \div 10
  /\ row.high_bidder # bidder

\* MUTANT: the scheduled transaction is cancelled but not sent again.
RescheduledNever(n, loser) == deferred \ {<<n, loser>>}

\* A transaction already scheduled under the same sender id is replaced.
Rescheduled(n, loser) == (deferred \ {<<n, loser>>}) \cup {<<n, loser>>}

bidname(bidder, n, bid) ==
  LET row == namebids[n]
  IN  /\ now <= LastBid
      /\ n \notin created
      /\ bid > 0
      /\ Pay(bidder, NamesAccount, bid)
      /\ namebids' = [namebids EXCEPT ![n] = [high_bidder |-> bidder, high_bid |-> bid,
                                              last_bid_time |-> now]]
      /\ \/ /\ row = NoRow
            /\ UNCHANGED <<bidrefunds, deferred>>
         \/ /\ row # NoRow
            /\ Beats(row, bidder, bid)
            /\ bidrefunds' = [bidrefunds EXCEPT ![n][row.high_bidder] =
                                RefundAfter(@, row.high_bid)]
            /\ deferred' = Rescheduled(n, row.high_bidder)
      /\ UNCHANGED <<now, created, thresh_activated_stake_time, last_name_close,
                     rex_available, namebid_proceeds, kept, spent>>

PayRefund(bidder, n) ==
  /\ bidrefunds[n][bidder] # NoRow
  /\ Pay(NamesAccount, bidder, bidrefunds[n][bidder])
  /\ bidrefunds' = [bidrefunds EXCEPT ![n][bidder] = NoRow]
  /\ UNCHANGED <<now, namebids, created, thresh_activated_stake_time, last_name_close,
                 rex_available, namebid_proceeds, kept, spent>>

\* Anybody can push bidrefund; it asks for no authority.
bidrefund(bidder, n) ==
  /\ PayRefund(bidder, n)
  /\ UNCHANGED deferred

\* The scheduled bidrefund runs once, and fails if the refund was taken.
DeferredBidrefund(n, bidder) ==
  /\ <<n, bidder>> \in deferred
  /\ deferred' = deferred \ {<<n, bidder>>}
  /\ \/ PayRefund(bidder, n)
     \/ /\ bidrefunds[n][bidder] = NoRow
        /\ UNCHANGED <<now, tokens, namebids, bidrefunds, created, thresh_activated_stake_time,
                       last_name_close, rex_available, namebid_proceeds, kept, spent>>

-----------------------------------------------------------------------------
(***************************************************************************)
(* onblock closes the auction with the highest bid                         *)
(***************************************************************************)
Higher(m, n) ==
  \/ namebids[m].high_bid > namebids[n].high_bid
  \/ namebids[m].high_bid = namebids[n].high_bid /\ Rank[m] < Rank[n]

\* MUTANT: closed auctions are not left out of the index.
IsHighestOfAll(n) ==
  /\ namebids[n] # NoRow
  /\ \A m \in {x \in TopNames : namebids[x] # NoRow} :
       namebids[m].high_bid <= namebids[n].high_bid /\ - namebids[m].high_bid <= namebids[n].high_bid

IsHighest(n) == IsOpen(n) /\ \A m \in TopNames \ {n} : IsOpen(m) => Higher(n, m)

\* Only the highest is looked at: while it is younger than a day, none closes.
CanClose(n) ==
  /\ IsHighest(n)
  /\ now - namebids[n].last_bid_time > Day
  /\ thresh_activated_stake_time > 0
  /\ now - thresh_activated_stake_time > LaunchDelay
  /\ now - last_name_close > Day

\* MUTANT: the proceeds are promised to REX whether it takes them or not.
ChannelAlways(bid) ==
  /\ namebid_proceeds' = namebid_proceeds + bid
  /\ kept' = kept + bid

\* channel_namebid_to_rex.
ChannelNamebid(bid) ==
  \/ /\ rex_available
     /\ namebid_proceeds' = namebid_proceeds + bid
     /\ UNCHANGED kept
  \/ /\ ~ rex_available
     /\ kept' = kept + bid
     /\ UNCHANGED namebid_proceeds

onblock ==
  \E n \in TopNames :
    /\ CanClose(n)
    /\ last_name_close' = now
    /\ ChannelNamebid(namebids[n].high_bid)
    /\ namebids' = [namebids EXCEPT ![n].high_bid = - @]
    /\ UNCHANGED <<now, tokens, bidrefunds, deferred, created, thresh_activated_stake_time,
                   rex_available, spent>>

\* runrex, in which REX collects the proceeds or forgets them.
CollectProceeds ==
  /\ namebid_proceeds > 0
  /\ namebid_proceeds' = 0
  /\ \/ /\ rex_available
        /\ Pay(NamesAccount, RexAccount, namebid_proceeds)
        /\ UNCHANGED kept
     \/ /\ ~ rex_available
        /\ kept' = kept + namebid_proceeds
        /\ UNCHANGED tokens
  /\ UNCHANGED <<now, namebids, bidrefunds, deferred, created, thresh_activated_stake_time,
                 last_name_close, rex_available, spent>>

-----------------------------------------------------------------------------
(***************************************************************************)
(* newaccount.  The chain refuses a name that is an account already.       *)
(***************************************************************************)
\* The winner of a closed auction.
Claims(creator, n) == IsClosed(n) /\ namebids[n].high_bidder = creator

newaccount(creator, n) ==
  /\ n \notin created
  /\ created' = created \cup {n}
  /\ \/ /\ creator = System
        /\ UNCHANGED <<namebids, spent>>
     \/ /\ creator # System /\ n \in TopNames
        /\ Claims(creator, n)
        /\ namebids' = [namebids EXCEPT ![n] = NoRow]
        /\ spent' = [spent EXCEPT ![creator] = @ - namebids[n].high_bid]
     \/ /\ creator # System /\ n \in SubNames
        /\ creator = Suffix[n]
        /\ UNCHANGED <<namebids, spent>>
  /\ UNCHANGED <<now, tokens, bidrefunds, deferred, thresh_activated_stake_time,
                 last_name_close, rex_available, namebid_proceeds, kept>>

\* The stake that votes passes the threshold.
Activate ==
  /\ thresh_activated_stake_time = 0
  /\ now <= LastBid
  /\ thresh_activated_stake_time' = now
  /\ UNCHANGED <<now, tokens, namebids, bidrefunds, deferred, created, last_name_close,
                 rex_available, namebid_proceeds, kept, spent>>

\* The first shares of REX are sold, or its last.
RexChanges ==
  /\ rex_available' = ~ rex_available
  /\ UNCHANGED <<now, tokens, namebids, bidrefunds, deferred, created,
                 thresh_activated_stake_time, last_name_close, namebid_proceeds, kept, spent>>

\* onblock runs in every block: time goes on when it has nothing to close.
AdvanceTime ==
  /\ now < MaxTime
  /\ \A n \in TopNames : ~ CanClose(n)
  /\ now' = now + 1
  /\ UNCHANGED <<tokens, namebids, bidrefunds, deferred, created, thresh_activated_stake_time,
                 last_name_close, rex_available, namebid_proceeds, kept, spent>>

AuctionNext ==
  \/ \E b \in Bidders, n \in TopNames : \E bid \in BidAmounts[n] : bidname(b, n, bid)
  \/ \E b \in Bidders, n \in TopNames : bidrefund(b, n) \/ DeferredBidrefund(n, b)
  \/ onblock
  \/ CollectProceeds
  \/ \E c \in Bidders \cup {System} \cup created, n \in AuctionNames : newaccount(c, n)
  \/ Activate
  \/ RexChanges
  \/ AdvanceTime

AuctionSpec == AuctionInit /\ [][AuctionNext]_auctionVars

\* The chain produces blocks and runs what is scheduled.
FairSpec ==
  /\ AuctionSpec
  /\ WF_auctionVars(AdvanceTime) /\ WF_auctionVars(onblock)
  /\ \A b \in Bidders, n \in TopNames : WF_auctionVars(DeferredBidrefund(n, b))

-----------------------------------------------------------------------------
(***************************************************************************)
(* Properties                                                              *)
(***************************************************************************)
OpenBid(n) == IF IsOpen(n) THEN namebids[n].high_bid ELSE 0

Refund(n, b) == IF bidrefunds[n][b] = NoRow THEN 0 ELSE bidrefunds[n][b]

SumOver(f, S) == SumFunctionOnSet(f, S)

Refunds(n) == SumOver([b \in Bidders |-> Refund(n, b)], Bidders)

\* The rows have their types; no refund and no open bid is zero or negative.
AuctionTypeOK ==
  /\ now \in Nat /\ last_name_close \in 0 .. now /\ thresh_activated_stake_time \in 0 .. now
  /\ tokens \in [Holders -> Nat]
  /\ namebids \in [TopNames -> NameBid \cup {NoRow}]
  /\ \A n \in TopNames : namebids[n] # NoRow => namebids[n].high_bid # 0
  /\ bidrefunds \in [TopNames -> [Bidders -> (Nat \ {0}) \cup {NoRow}]]
  /\ deferred \in SUBSET (TopNames \X Bidders)
  /\ created \in SUBSET AuctionNames
  /\ rex_available \in BOOLEAN
  /\ namebid_proceeds \in Nat /\ kept \in Nat
  /\ spent \in [Bidders -> Nat]

\* eosio.names holds exactly the open bids, the refunds that are due, what was
\* promised to REX and what was sold while REX had no shares.
NamesBacked ==
  tokens[NamesAccount] =
    SumOver([n \in TopNames |-> OpenBid(n)], TopNames)
    + SumOver([n \in TopNames |-> Refunds(n)], TopNames) + namebid_proceeds + kept

\* What a bidder has in open bids, in refunds and in auctions it has won.
Committed(b, n) ==
  (IF namebids[n] # NoRow /\ namebids[n].high_bidder = b
   THEN IF IsOpen(n) THEN namebids[n].high_bid ELSE - namebids[n].high_bid
   ELSE 0) + Refund(n, b)

\* No bidder loses or gains a token through bidding: what it started with is
\* in its balance, in its bids and refunds, or was paid for a name it created.
BidderWhole ==
  \A b \in Bidders :
    tokens[b] + SumOver([n \in TopNames |-> Committed(b, n)], TopNames) + spent[b]
      = InitTokens[b]

\* Every token is where it belongs, the bidders' and those of eosio.names, and
\* no refund or bid is empty.
EveryTokenPlaced == AuctionTypeOK /\ NamesBacked /\ BidderWhole

\* A name that was sold stays sold, at its price, until its buyer creates it.
SoldStaysSold ==
  [][\A n \in TopNames :
       IsClosed(n) /\ namebids'[n] # namebids[n] =>
         /\ namebids'[n] = NoRow
         /\ n \in created' \ created
         /\ spent'[namebids[n].high_bidder] = spent[namebids[n].high_bidder] - namebids[n].high_bid]_auctionVars

\* A refund is paid in the end.
OutbidRefunded ==
  \A n \in TopNames, b \in Bidders : bidrefunds[n][b] # NoRow ~> bidrefunds[n][b] = NoRow

\* Once the chain is activated, every auction closes in the end although only
\* one closes a day and only the highest bid is looked at: no name's auction
\* holds up the others for ever.
AuctionsClose ==
  \A n \in TopNames : thresh_activated_stake_time > 0 /\ IsOpen(n) ~> ~ IsOpen(n)
=============================================================================
