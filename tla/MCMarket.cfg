SPECIFICATION Spec
CONSTANTS
  Accounts = {alice, bob}
  Issuer = bob
  CoreBalance = 6
  UsdSales <- MCUsdSales
  CoreSales <- MCCoreSales
  PositionChanges <- MCPositionChanges
  SettleAmounts = {1}
  Bids <- MCBids
  Feeds <- MCFeeds
  McrTenths = 20
  MssrTenths = 15
  MarketFeePct <- MCMarketFeePct
  OffsetPct = 0
  VolumePct = 50
  CreateFee = 0
  MaxOrders = 3
  MaxSettles = 2
  MaxSupply = 4
  MaxOps = 7
INVARIANTS  BookNotCrossed FundPaysHolders
PROPERTY SwansAreNoticed
CHECK_DEADLOCK FALSE
