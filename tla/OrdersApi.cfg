SPECIFICATION Spec
CONSTANTS
  MaxItems = 2
  MaxQuantity = 3
  MaxTotalMinor = 7
  MaxInt64 = 15
  Requests = {"reader", "writer"}
  Asks <- MCAsks
  OrderIds = {1, 2}
  Headers <- MCHeaders
  Customers = {"alice", "bob"}
  ItemLists <- MCItemLists
  Quotes <- MCQuotes
  Statuses = {"", "PENDING"}
  FactStatuses = {"CONFIRMED"}
  Limits = {1}
  ProductIds = {"a", "b"}
  Prices = {0, 1, 2, 3, 4, 6, 7, 8, 9, 15}
  StaticToken = FALSE
  MaxTime = 2
INVARIANTS TypeOK NoForeignOrders TotalsComeWithPrices PricingIsExact ListingIsComplete
PROPERTY CancelsWhatWasRead
CHECK_DEADLOCK FALSE
