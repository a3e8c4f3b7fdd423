------------------------------- MODULE Market -------------------------------
(***************************************************************************)
(* The exchange between the core asset and one market-issued asset (USD)   *)
(* that is backed by it: limit orders, margin positions ("call orders"),   *)
(* forced settlement, the price feed, black swans and the revival of a     *)
(* settled asset (db_market.cpp, market_evaluator.cpp, asset_evaluator.cpp *)
(* and the market parts of db_update.cpp and db_maint.cpp).                *)
(*                                                                         *)
(* An operation runs inside an undo session, so it is one step: an         *)
(* assertion that fails leaves no trace.  Its loops thread a record of the *)
(* tables it changes; `ok' is FALSE in it once an FC_ASSERT has failed.    *)
(*                                                                         *)
(* Every price relates USD to CORE, so a price is [usd, core] whichever of *)
(* the two is its base, and ~ disappears: Above(p, q) says that p gives    *)
(* more USD for a CORE than q does.                                        *)
(***************************************************************************)
EXTENDS Integers, Sequences, FiniteSets, FiniteSetsExt, SequencesExt

CONSTANTS
  Accounts,        \* the accounts that trade
  Issuer,          \* the issuer of USD, one of them
  CoreBalance,     \* what each account starts with
  UsdSales,        \* <<amount_to_sell, min_to_receive>> of orders that sell USD
  CoreSales,       \* the same of orders that sell CORE
  PositionChanges, \* <<delta_debt, delta_collateral>> of call_order_update
  SettleAmounts,   \* amounts of asset_settle
  Bids,            \* <<debt_covered, additional_collateral>>
  Feeds,           \* the settlement prices that are published
  McrTenths,       \* maintenance_collateral_ratio, in tenths
  MssrTenths,      \* maximum_short_squeeze_ratio, in tenths
  MarketFeePct,    \* market_fee_percent of each asset
  OffsetPct,       \* force_settlement_offset_percent
  VolumePct,       \* maximum_force_settlement_volume
  CreateFee,       \* the part of the limit order fee that is paid in CORE
  MaxOrders,       \* bound on the limit orders on the book
  MaxSettles,      \* bound on the pending forced settlements
  MaxSupply,       \* bound on the USD in circulation
  MaxOps           \* bound on the operations of a history that change something

ASSUME MarketConstants ==
  /\ Issuer \in Accounts /\ IsFiniteSet(Accounts)
  /\ {CoreBalance, CreateFee, MaxOrders, MaxSettles, MaxSupply, MaxOps} \subseteq Nat
  /\ MssrTenths \in 10..320 /\ McrTenths \in MssrTenths..320
  /\ OffsetPct \in 0..100 /\ VolumePct \in 0..100
  /\ MarketFeePct \in [{"USD", "CORE"} -> 0..100]
  \* A remainder of USD is never worth less than one CORE: see FillLimit.
  /\ \A o \in UsdSales : o[1] \in Nat \ {0} /\ o[2] >= o[1]
  /\ \A f \in Feeds : f.usd \in Nat \ {0} /\ f.core >= f.usd

VARIABLES
  m,    \* the tables of the market, and `ok'
  ops   \* how many operations have changed them

vars == <<m, ops>>

NoPrice == [usd |-> 0, core |-> 0]

Min2(a, b) == IF a <= b THEN a ELSE b

---------------------------------------------------------------------------
(* Prices and amounts.                                                     *)

Above(p, q) == p.usd * q.core > q.usd * p.core
ToCore(a, p) == (a * p.core) \div p.usd
ToUsd(a, p) == (a * p.usd) \div p.core
Convert(asset, a, p) == IF asset = "USD" THEN ToCore(a, p) ELSE ToUsd(a, p)
Other(asset) == IF asset = "USD" THEN "CORE" ELSE "USD"

CallPrice(debt, collateral) ==
  [usd |-> debt * McrTenths, core |-> collateral * 10]
SqueezePrice(feed) == [usd |-> feed.usd * 10, core |-> feed.core * MssrTenths]

NextId(S) == 1 + (IF S = {} THEN 0 ELSE Max({x.id : x \in S}))

(* The head of the limit order index by_price: greatest sell_price first,  *)
(* then lowest id.                                                         *)
Better(o, p) ==
  LET above == IF o.sells = "USD" THEN Above(o.price, p.price)
                                  ELSE Above(p.price, o.price)
      below == IF o.sells = "USD" THEN Above(p.price, o.price)
                                  ELSE Above(o.price, p.price)
  IN above \/ (~below /\ o.id < p.id)
Book(s, asset) ==
  SetToSortSeq({o \in s.limit : o.sells = asset}, Better)

(* The call order index by_price holds the position that is called first   *)
(* at its head, by_collateral the one with the least collateral per debt.  *)
FirstCall(s) ==
  CHOOSE c \in s.call : \A d \in s.call \ {c} :
    \/ Above(c.price, d.price)
    \/ ~Above(d.price, c.price) /\ c.id < d.id
Swan(c) == [usd |-> c.debt, core |-> c.coll]
LeastCollateral(s) ==
  CHOOSE c \in s.call : \A d \in s.call \ {c} :
    \/ Above(Swan(c), Swan(d))
    \/ ~Above(Swan(d), Swan(c)) /\ c.id < d.id

HasSettlement(s) == s.swan # NoPrice

---------------------------------------------------------------------------
(* Changes of the tables.                                                  *)

Check(s, cond) == [s EXCEPT !.ok = @ /\ cond]
Adjust(s, a, asset, delta) ==
  Check([s EXCEPT !.bal[a][asset] = @ + delta], s.bal[a][asset] + delta >= 0)
InOrders(s, a, delta) == [s EXCEPT !.inOrders[a] = @ + delta]
InOrdersOf(s, a, asset, delta) ==
  IF asset = "CORE" THEN InOrders(s, a, delta) ELSE s

MarketFee(asset, a) == (a * MarketFeePct[asset]) \div 100
(* pay_market_fees and the credit of what is left.                         *)
Receive(s, a, asset, amount) ==
  LET fee == MarketFee(asset, amount)
  IN Adjust([s EXCEPT !.fees[asset] = @ + fee], a, asset, amount - fee)

(* cancel_order of a limit order also gives the deferred fee back.         *)
CancelLimit(s, o) ==
  LET refunded == Adjust(InOrdersOf(s, o.seller, o.sells, -o.amt),
                         o.seller, o.sells, o.amt)
  IN [Adjust(refunded, o.seller, "CORE", o.fee) EXCEPT !.limit = @ \ {o}]

Worthless(o) == Convert(o.sells, o.amt, o.price) = 0
MaybeCull(s, o) == IF Worthless(o) THEN CancelLimit(s, o) ELSE s

(* fill_order of a limit order.  check_call_orders keeps its iterator on   *)
(* an order that this culls, so the constants keep USD orders from being   *)
(* culled; orders that sell CORE are.                                      *)
FillLimit(s, o, pays, receives, cull) ==
  LET paid == Receive(InOrdersOf(s, o.seller, o.sells, -pays),
                      o.seller, Other(o.sells), receives)
      rest == [o EXCEPT !.amt = @ - pays]
      gone == [paid EXCEPT !.limit = @ \ {o}]
      left == [gone EXCEPT !.limit = @ \cup {rest}]
  IN IF pays = o.amt THEN gone
     ELSE IF cull THEN MaybeCull(left, rest) ELSE left

\* Mutant: the collateral that is freed stays in the borrower's statistics.
FillCallFreedKept(s, c, pays, receives) ==
  LET closed == c.debt = receives
      freed == IF closed THEN c.coll - pays ELSE 0
      rest == [c EXCEPT !.debt = @ - receives, !.coll = @ - pays]
      base == Adjust(InOrders(s, c.borrower, -pays), c.borrower, "CORE", freed)
  IN [base EXCEPT !.call = (@ \ {c}) \cup (IF closed THEN {} ELSE {rest}),
                  !.supply = @ - receives]

(* fill_order of a call order: the debt that is bought back leaves the     *)
(* supply, and the last of it frees the collateral that remains.           *)
FillCall(s, c, pays, receives) ==
  LET closed == c.debt = receives
      freed == IF closed THEN c.coll - pays ELSE 0
      rest == [c EXCEPT !.debt = @ - receives, !.coll = @ - pays]
      base == Adjust(InOrders(s, c.borrower, -(pays + freed)),
                     c.borrower, "CORE", freed)
  IN Check([base EXCEPT !.call = (@ \ {c}) \cup (IF closed THEN {} ELSE {rest}),
                        !.supply = @ - receives],
           pays <= c.coll)

---------------------------------------------------------------------------
(* Black swans and margin calls.                                           *)

(* globally_settle_asset: every position pays what it can at price p, the  *)
(* rest of its collateral goes back, and the supply stays as it was.       *)
GloballySettle(s, p) ==
  LET Pays(c) == Min2(ToCore(c.debt, p), c.coll)
      CallsOf(a) == {c \in s.call : c.borrower = a}
      gathered == MapThenSumSet(Pays, s.call)
      Freed(c) == c.coll - Pays(c)
      Coll(c) == c.coll
  IN Check([s EXCEPT
       !.bal = [a \in Accounts |-> [@[a] EXCEPT
                  !["CORE"] = @ + MapThenSumSet(Freed, CallsOf(a))]],
       !.inOrders = [a \in Accounts |-> @[a] - MapThenSumSet(Coll, CallsOf(a))],
       !.call = {},
       !.swan = [usd |-> s.supply, core |-> gathered],
       !.fund = gathered], ~HasSettlement(s))

(* A black swan: MAX(HB, SP) <= LC, where LC belongs to the position that  *)
(* is called first.                                                        *)
SwanNow(s) ==
  /\ s.feed # NoPrice
  /\ s.call # {}
  /\ LET lc == Swan(FirstCall(s))
     IN /\ ~Above(s.feed, lc)
        /\ \A o \in s.limit : o.sells = "USD" => ~Above(o.price, lc)

(* check_for_blackswan settles at the swan price of that position, or      *)
(* fails where no swan is allowed; its result is HasSettlement after it.   *)
CheckSwan(s, enable) ==
  IF ~HasSettlement(s) /\ SwanNow(s)
  THEN IF enable THEN GloballySettle(s, Swan(FirstCall(s))) ELSE Check(s, FALSE)
  ELSE s

(* The loop of check_call_orders over `orders', the limit orders that sell *)
(* USD for no more than the squeeze price.  filled_limit is set once and   *)
(* never reset, so after the first order that is used up the iterator      *)
(* advances in every round.                                                *)
RECURSIVE CallLoop(_, _, _, _, _)
CallLoop(s, enable, orders, filledLimit, called) ==
  LET stop == [s |-> s, called |-> called]
      c == FirstCall(s)
      o == CHOOSE x \in s.limit : x.id = Head(orders)
      usd == Min2(c.debt, o.amt)
      core == ToCore(usd, o.price)
      filled == filledLimit \/ c.debt >= o.amt
  IN IF ~s.ok \/ HasSettlement(s) \/ s.call = {} \/ orders = <<>> THEN stop
     ELSE IF Above(s.feed, c.price) \/ Above(o.price, c.price) THEN stop
     ELSE IF ToCore(c.debt, o.price) > c.coll
          THEN [s |-> IF enable THEN GloballySettle(s, s.feed)
                      ELSE Check(s, FALSE), called |-> TRUE]
          ELSE CallLoop(CheckSwan(FillLimit(FillCall(s, c, core, usd),
                                            o, usd, core, TRUE), enable),
                        enable, IF filled THEN Tail(orders) ELSE orders,
                        filled, TRUE)

CallEligible(s, enable) ==
  LET eligible == SelectSeq(Book(s, "USD"),
                    LAMBDA o : ~Above(SqueezePrice(s.feed), o.price))
  IN IF ~s.ok \/ HasSettlement(s) \/ s.feed = NoPrice \/ eligible = <<>>
     THEN [s |-> s, called |-> FALSE]
     ELSE CallLoop(CheckSwan(s, enable), enable,
                   [i \in DOMAIN eligible |-> eligible[i].id], FALSE, FALSE)

(* check_call_orders(USD); of the core asset it does nothing.              *)
CheckCalls(s, enable) == CallEligible(CheckSwan(s, enable), enable)
Called(s, enable) == CheckCalls(s, enable).s

---------------------------------------------------------------------------
(* Limit orders.                                                           *)

Find(s, id) == CHOOSE o \in s.limit : o.id = id
Exists(s, id) == \E o \in s.limit : o.id = id

(* match of a taker with a maker, at the price of the maker.  The taker's  *)
(* small remainder is left for the end of apply_order.                     *)
Match(s, taker, maker) ==
  LET worth == Convert(maker.sells, maker.amt, maker.price)
      takerAll == taker.amt <= worth
      takerPays == IF takerAll THEN taker.amt ELSE worth
      makerPays == IF takerAll THEN Convert(taker.sells, taker.amt, maker.price)
                               ELSE maker.amt
  IN FillLimit(FillLimit(s, taker, takerPays, makerPays, FALSE),
               maker, makerPays, takerPays, TRUE)

Crosses(taker, maker) ==
  IF taker.sells = "USD" THEN ~Above(maker.price, taker.price)
                         ELSE ~Above(taker.price, maker.price)

\* Mutant: a taker meets one maker only.
MatchOnce(s, id) ==
  LET taker == Find(s, id)
      makers == SelectSeq(Book(s, Other(taker.sells)),
                          LAMBDA o : Crosses(taker, o))
  IN IF ~Exists(s, id) \/ makers = <<>> THEN s ELSE Match(s, taker, Head(makers))

(* The loop of apply_order: go on while match returns 2, the maker is gone *)
(* and the taker is not.                                                   *)
RECURSIVE MatchLoop(_, _)
MatchLoop(s, id) ==
  LET taker == Find(s, id)
      makers == SelectSeq(Book(s, Other(taker.sells)),
                          LAMBDA o : Crosses(taker, o))
      next == Match(s, taker, Head(makers))
  IN IF ~s.ok \/ ~Exists(s, id) THEN s
     ELSE IF makers = <<>> THEN s
     ELSE IF Exists(next, Head(makers).id) THEN next
     ELSE MatchLoop(next, id)

(* apply_order: margin calls first, then the book, then margin calls       *)
(* again; what is left and worth nothing is returned.                      *)
CullRest(s, id) ==
  IF ~s.ok \/ ~Exists(s, id) THEN s ELSE MaybeCull(s, Find(s, id))
MatchRest(s, id) ==
  IF ~s.ok \/ ~Exists(s, id) THEN s
  ELSE CullRest(Called(MatchLoop(s, id), TRUE), id)
ApplyOrder(s, id) == MatchRest(Called(s, TRUE), id)

(* pay_fee adds the fee to the accumulated fees and writes it into the     *)
(* order, if that is left.                                                 *)
DeferFee(s, id) ==
  [s EXCEPT !.limit = { IF o.id = id THEN [o EXCEPT !.fee = CreateFee] ELSE o : o \in @ }]
PayFee(s, a, id) ==
  DeferFee(Adjust([s EXCEPT !.fees["CORE"] = @ + CreateFee], a, "CORE", -CreateFee), id)

(* limit_order_create.  An order marked fill_or_kill does the same or, if  *)
(* it is left, fails.                                                      *)
CreateOrder(s, a, asset, sale) ==
  LET id == NextId(s.limit)
      price == IF asset = "USD" THEN [usd |-> sale[1], core |-> sale[2]]
                                ELSE [usd |-> sale[2], core |-> sale[1]]
      order == [id |-> id, seller |-> a, sells |-> asset, amt |-> sale[1],
                price |-> price, fee |-> 0]
      s1 == Adjust(InOrdersOf(s, a, asset, sale[1]), a, asset, -sale[1])
  IN IF ~s1.ok THEN s1
     ELSE PayFee(ApplyOrder([s1 EXCEPT !.limit = @ \cup {order}], id), a, id)

\* Mutant: no margin calls after a cancellation.
CancelUnchecked(s, o) == CancelLimit(s, o)

(* limit_order_cancel, by its seller or by clear_expired_orders.           *)
CancelOrder(s, o) == Called(CancelLimit(s, o), TRUE)

---------------------------------------------------------------------------
(* Margin positions.                                                       *)

PositionOf(s, a) ==
  IF \E c \in s.call : c.borrower = a
  THEN CHOOSE c \in s.call : c.borrower = a
  ELSE [id |-> NextId(s.call), borrower |-> a, debt |-> 0, coll |-> 0, price |-> NoPrice]

(* After call_order_update the position must be gone if it was called, and *)
(* else be there and above the call price.                                 *)
Covered(r, id) ==
  LET left == {c \in r.s.call : c.id = id}
  IN Check(r.s, IF r.called THEN left = {}
                ELSE left # {} /\ \A c \in left : Above(r.s.feed, c.price))

(* call_order_update: no black swan may come of it, and a margin call only *)
(* if it closes the position.                                              *)
UpdatePosition(s, a, dd, dc) ==
  LET old == PositionOf(s, a)
      debt == old.debt + dd
      coll == old.coll + dc
      new == [old EXCEPT !.debt = debt, !.coll = coll, !.price = CallPrice(debt, coll)]
      s1 == Adjust(Adjust([s EXCEPT !.supply = @ + dd], a, "USD", dd), a, "CORE", -dc)
      s2 == Check([InOrders(s1, a, dc) EXCEPT !.call = @ \ {old}],
                  /\ ~HasSettlement(s)
                  /\ s.feed # NoPrice
                  /\ old \in s.call \/ (dd > 0 /\ dc > 0))
  IN IF ~s2.ok THEN s2
     ELSE IF debt = 0 THEN Check(s2, coll = 0)
     ELSE IF debt < 0 \/ coll <= 0 THEN Check(s2, FALSE)
     ELSE Covered(CheckCalls([s2 EXCEPT !.call = @ \cup {new}], FALSE), new.id)

---------------------------------------------------------------------------
(* Forced settlement.                                                      *)

\* Mutant: the last holder is paid at the rounded price too.
SettleRounded(s, a, amount) ==
  LET s1 == Adjust(s, a, "USD", -amount)
      pays == ToCore(amount, s.swan)
  IN IF HasSettlement(s)
     THEN Check(Adjust([s1 EXCEPT !.fund = @ - pays, !.supply = @ - amount],
                       a, "CORE", pays), pays <= s.fund)
     ELSE [s1 EXCEPT !.settle = Append(@, [owner |-> a, amt |-> amount])]

(* asset_settle: at once out of the fund after a global settlement, at the *)
(* end of a block otherwise.                                               *)
Settle(s, a, amount) ==
  LET s1 == Adjust(s, a, "USD", -amount)
      pays == IF amount = s.supply THEN s.fund ELSE ToCore(amount, s.swan)
  IN IF HasSettlement(s)
     THEN Check(Adjust([s1 EXCEPT !.fund = @ - pays, !.supply = @ - amount],
                       a, "CORE", pays), pays <= s.fund)
     ELSE Check([s1 EXCEPT !.settle = Append(@, [owner |-> a, amt |-> amount])],
                s.feed # NoPrice)

CancelSettle(s) ==
  [Adjust(s, Head(s.settle).owner, "USD", Head(s.settle).amt) EXCEPT !.settle = Tail(@)]

(* match of a call order with a settlement, which the position with the    *)
(* least collateral serves; one that it cannot pay for is cancelled.       *)
RECURSIVE ServeLoop(_, _, _)
ServeLoop(s, price, maxVolume) ==
  LET order == Head(s.settle)
      c == LeastCollateral(s)
      usd == Min2(Min2(order.amt, maxVolume - s.volume), c.debt)
      core == ToCore(usd, price)
      paid == Receive(FillCall(s, c, core, usd), order.owner, "CORE", core)
      next == [paid EXCEPT !.volume = @ + usd,
                 !.settle = IF usd = order.amt THEN Tail(@)
                            ELSE [@ EXCEPT ![1].amt = order.amt - usd]]
  IN IF s.volume >= maxVolume THEN s
     ELSE IF core >= c.coll THEN CancelSettle(s)
     ELSE IF usd = order.amt THEN next
     ELSE ServeLoop(next, price, maxVolume)

(* The settlement half of clear_expired_orders, when the first `due'       *)
(* orders have reached their date.                                         *)
RECURSIVE SettleLoop(_, _, _)
SettleLoop(s, due, maxVolume) ==
  LET order == Head(s.settle)
      receives == (ToCore(order.amt, s.feed) * (100 - OffsetPct)) \div 100
      next == ServeLoop(s, [usd |-> order.amt, core |-> receives], maxVolume)
  IN IF ~s.ok \/ s.settle = <<>> THEN s
     ELSE IF HasSettlement(s) THEN SettleLoop(CancelSettle(s), due - 1, maxVolume)
     ELSE IF due <= 0 THEN s
     ELSE IF s.feed = NoPrice THEN SettleLoop(CancelSettle(s), due - 1, maxVolume)
     ELSE IF s.volume >= maxVolume THEN s
     ELSE SettleLoop(next, due - (Len(s.settle) - Len(next.settle)), maxVolume)

MaxVolume(s) == ((s.supply + s.volume) * VolumePct) \div 100

---------------------------------------------------------------------------
(* Revival of a settled asset.                                             *)

CancelBids(s) ==
  LET Coll(b) == b.coll
      BidsOf(a) == {b \in s.bid : b.bidder = a}
  IN [s EXCEPT !.bal = [a \in Accounts |-> [@[a] EXCEPT
                  !["CORE"] = @ + MapThenSumSet(Coll, BidsOf(a))]],
               !.bid = {}]

(* _cancel_bids_and_revive_mpa.                                            *)
CancelBidsAndRevive(s) == [CancelBids(s) EXCEPT !.swan = NoPrice, !.fund = 0]

(* execute_bid turns a bid into a position.                                *)
ExecuteBid(s, bidder, coll, debt) ==
  [InOrders(s, bidder, coll) EXCEPT
     !.call = @ \cup {[id |-> NextId(@), borrower |-> bidder, debt |-> debt,
                       coll |-> coll, price |-> CallPrice(debt, coll)]}]

(* revive_bitasset, out of asset_publish_feed: the issuer takes the whole  *)
(* supply over with a bid of nothing, which the index by_account refuses   *)
(* where the issuer has one already.                                       *)
Revive(s) ==
  IF s.supply > 0
  THEN Check(CancelBidsAndRevive(ExecuteBid(s, Issuer, s.fund, s.supply)),
             \A b \in s.bid : b.bidder # Issuer)
  ELSE Check(CancelBidsAndRevive(s), s.fund = 0)

PublishFeed(s, price) ==
  LET s1 == [s EXCEPT !.feed = price]
      revivable == \/ s.supply = 0
                   \/ Above(price, CallPrice(s.supply, s.fund))
      s2 == IF HasSettlement(s) /\ revivable THEN Revive(s1) ELSE s1
  IN IF price = s.feed THEN s ELSE Called(s2, TRUE)

(* bid_collateral: the old bid of the bidder is cancelled first.           *)
Bid(s, a, debt, coll) ==
  LET old == {b \in s.bid : b.bidder = a}
      Coll(b) == b.coll
      s1 == Check([s EXCEPT !.bal[a]["CORE"] = @ + MapThenSumSet(Coll, old),
                            !.bid = @ \ old],
                  /\ HasSettlement(s)
                  /\ s.bal[a]["CORE"] >= coll
                  /\ old # {} \/ debt > 0)
      new == [id |-> NextId(s1.bid), bidder |-> a, debt |-> debt, coll |-> coll]
  IN IF debt = 0 THEN s1
     ELSE [Adjust(s1, a, "CORE", -coll) EXCEPT !.bid = @ \cup {new}]

(* process_bids: the best bids that cover the whole supply at a sound      *)
(* collateral ratio become positions, the last one with what is left.      *)
BidsByPrice(s) ==
  SetToSortSeq(s.bid, LAMBDA b, c : \/ b.coll * c.debt > c.coll * b.debt
                                    \/ /\ b.coll * c.debt = c.coll * b.debt
                                       /\ b.id < c.id)

RECURSIVE ExecuteBids(_, _, _, _)
ExecuteBids(s, bids, toCover, fund) ==
  LET b == Head(bids)
      last == b.debt >= toCover
      debt == IF last THEN toCover ELSE b.debt
      share == IF last THEN fund ELSE ToCore(b.debt, s.swan)
  IN IF bids = <<>> THEN Check(s, toCover = 0 /\ fund = 0)
     ELSE ExecuteBids(ExecuteBid([s EXCEPT !.bid = @ \ {b}], b.bidder,
                                 b.coll + share, debt),
                      Tail(bids), toCover - debt, fund - share)

ProcessBids(s) ==
  LET bids == BidsByPrice(s)
      Sound(b) == Above(s.feed, CallPrice(b.debt, ToCore(b.debt, s.swan) + b.coll))
      Debt(n) == MapThenSumSet(LAMBDA i : bids[i].debt, 1..n)
      enough == {n \in 0..Len(bids) : /\ Debt(n) >= s.supply
                                      /\ \A i \in 1..n : Sound(bids[i])}
  IN IF s.feed = NoPrice \/ enough = {} THEN s
     ELSE CancelBidsAndRevive(
            ExecuteBids(s, SubSeq(bids, 1, Min(enough)), s.supply, s.fund))

---------------------------------------------------------------------------
(* The specification.                                                      *)

Init ==
  /\ m =
      [bal |-> [a \in Accounts |-> [USD |-> 0, CORE |-> CoreBalance]],
       inOrders |-> [a \in Accounts |-> 0],
       limit |-> {}, call |-> {}, bid |-> {}, settle |-> <<>>,
       feed |-> NoPrice, swan |-> NoPrice, fund |-> 0, supply |-> 0,
       fees |-> [USD |-> 0, CORE |-> 0], volume |-> 0, ok |-> TRUE]
  /\ ops = 0

Do(s) ==
  /\ s.ok
  /\ m' = s
  /\ ops' = IF s = m THEN ops ELSE ops + 1
  /\ ops' <= MaxOps

LimitOrderCreate ==
  /\ Cardinality(m.limit) < MaxOrders
  /\ \E a \in Accounts :
       \/ \E sale \in UsdSales : Do(CreateOrder(m, a, "USD", sale))
       \/ \E sale \in CoreSales : Do(CreateOrder(m, a, "CORE", sale))
LimitOrderCancel == \E o \in m.limit : Do(CancelOrder(m, o))
CallOrderUpdate ==
  \E a \in Accounts, d \in PositionChanges :
    m.supply + d[1] <= MaxSupply /\ Do(UpdatePosition(m, a, d[1], d[2]))
AssetSettle ==
  /\ Len(m.settle) < MaxSettles
  /\ \E a \in Accounts, n \in SettleAmounts : Do(Settle(m, a, n))
(* asset_global_settle: the least collateralized position must be able to  *)
(* pay at the price that the issuer names.                                 *)
AssetGlobalSettle ==
  \E p \in Feeds :
    /\ m.supply > 0 /\ m.call # {}
    /\ LET c == LeastCollateral(m) IN ToCore(c.debt, p) <= c.coll
    /\ Do(GloballySettle(m, p))
AssetPublishFeed == \E p \in Feeds : Do(PublishFeed(m, p))
(* update_expired_feeds: no feed is left.  The margin calls it then checks *)
(* are those of the core asset, which has none.                            *)
UpdateExpiredFeeds == Do([m EXCEPT !.feed = NoPrice])
BidCollateral == \E a \in Accounts, b \in Bids : Do(Bid(m, a, b[1], b[2]))
AssetClaimFees ==
  /\ m.fees["USD"] > 0
  /\ Do(Adjust([m EXCEPT !.fees["USD"] = 0], Issuer, "USD", m.fees["USD"]))
ClearExpiredOrders ==
  /\ m.settle # <<>>
  /\ \E due \in 0..Len(m.settle) : Do(SettleLoop(m, due, MaxVolume(m)))
(* The market's part of perform_chain_maintenance.                         *)
Maintain(s) ==
  LET s1 == [s EXCEPT !.volume = 0]
  IN IF HasSettlement(s) THEN ProcessBids(s1) ELSE s1
Maintenance == Do(Maintain(m))

Next ==
  \/ LimitOrderCreate \/ LimitOrderCancel \/ CallOrderUpdate
  \/ AssetSettle \/ AssetGlobalSettle \/ AssetPublishFeed \/ UpdateExpiredFeeds
  \/ BidCollateral \/ AssetClaimFees \/ ClearExpiredOrders \/ Maintenance

Spec == Init /\ [][Next]_vars

---------------------------------------------------------------------------
(* Properties.                                                             *)

Total(S, Amount(_)) == MapThenSumSet(Amount, S)
InBalances(asset) == Total(Accounts, LAMBDA a : m.bal[a][asset])
OnSale(asset) == Total({o \in m.limit : o.sells = asset}, LAMBDA o : o.amt)
InSettlement == Total(DOMAIN m.settle, LAMBDA i : m.settle[i].amt)
Debts == Total(m.call, LAMBDA c : c.debt)
Collateral == Total(m.call, LAMBDA c : c.coll)

(* No balance, order or position is ever negative or empty, an account has *)
(* at most one position and one bid, and a settled asset has no position.  *)
MarketTypeOK ==
  /\ \A a \in Accounts : m.bal[a]["USD"] >= 0 /\ m.bal[a]["CORE"] >= 0
  /\ \A a \in Accounts : m.inOrders[a] >= 0
  /\ \A o \in m.limit : o.amt > 0 /\ o.seller \in Accounts
  /\ \A c \in m.call : c.debt > 0 /\ c.coll > 0
  /\ \A c, d \in m.call : c # d => c.borrower # d.borrower /\ c.id # d.id
  /\ \A b, d \in m.bid : b # d => b.bidder # d.bidder
  /\ \A i \in DOMAIN m.settle : m.settle[i].amt > 0
  /\ HasSettlement(m) => m.call = {}
  /\ ~HasSettlement(m) => m.bid = {} /\ m.fund = 0
  /\ {m.fund, m.supply, m.volume} \subseteq Nat
  /\ m.ok

(* Through every trade, margin call, settlement, black swan and revival no *)
(* CORE and no USD appears or is lost: balances, orders, collateral, bids, *)
(* the settlement fund and the collected fees add up to the supply, the    *)
(* debts of the positions are the USD in circulation, and each account's   *)
(* total_core_in_orders is what it really has in orders and positions.     *)
(* Nothing of this is negative.                                            *)
SuppliesConserved ==
  /\ MarketTypeOK
  /\ InBalances("CORE") + OnSale("CORE") + Collateral + m.fund + m.fees["CORE"]
       + Total(m.bid, LAMBDA b : b.coll) = CoreBalance * Cardinality(Accounts)
  /\ InBalances("USD") + OnSale("USD") + InSettlement + m.fees["USD"] = m.supply
  /\ m.call # {} => Debts = m.supply
  /\ \A a \in Accounts : m.inOrders[a] =
       Total({o \in m.limit : o.sells = "CORE" /\ o.seller = a}, LAMBDA o : o.amt)
         + Total({c \in m.call : c.borrower = a}, LAMBDA c : c.coll)

(* Between two operations the book is not crossed: no order that sells USD *)
(* offers as many USD for a CORE as one that sells CORE asks, so whatever  *)
(* apply_order leaves of a taker really had nobody to trade with.          *)
BookNotCrossed ==
  \A o, p \in m.limit : o.sells = "USD" /\ p.sells = "CORE" => Above(p.price, o.price)

(* Only a batch of forced settlements can leave a black swan unnoticed:    *)
(* after any other operation, if none was pending before it, the position  *)
(* that is called first can still be covered at the better of the feed and *)
(* the best offer (else the asset is settled).                             *)
NoSwanPending == HasSettlement(m) \/ ~SwanNow(m)
SwansAreNoticed ==
  [][NoSwanPending /\ m'.volume <= m.volume => NoSwanPending']_vars

(* After a global settlement the fund pays every holder: each amount that  *)
(* can still be settled is worth no more than the fund, and the holder of  *)
(* the last USD empties it, without which the asset could not be revived   *)
(* (the FC_ASSERTs of asset_settle and revive_bitasset).  Bids that are    *)
(* accepted cover the whole supply and use up the whole fund, so that the  *)
(* assertions of process_bids never stop a maintenance block.              *)
FundPaysHolders ==
  /\ Maintain(m).ok
  /\ HasSettlement(m) =>
       /\ \A n \in 1..(m.supply - 1) : ToCore(n, m.swan) <= m.fund
       /\ m.supply = 0 => m.fund = 0

=============================================================================
