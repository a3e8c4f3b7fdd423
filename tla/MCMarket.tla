------------------------------ MODULE MCMarket ------------------------------
(* Two traders, one of them the issuer, on a market of a few units.        *)
EXTENDS Market

MCUsdSales == {<<1, 1>>, <<1, 2>>, <<2, 3>>}
MCCoreSales == {<<3, 2>>, <<2, 1>>}
MCPositionChanges == {<<1, 3>>, <<2, 5>>, <<-1, -2>>, <<-1, -3>>}
MCBids == {<<1, 1>>, <<2, 1>>, <<0, 0>>}
MCFeeds == {[usd |-> 1, core |-> 1], [usd |-> 1, core |-> 2], [usd |-> 1, core |-> 3]}
MCMarketFeePct == [USD |-> 50, CORE |-> 0]
=============================================================================
