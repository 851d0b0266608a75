\* Three requests race for a chart that goes through three editions.
SPECIFICATION FairChartSpec
CONSTANTS
  NoProduct = NoProduct
  NoChart = NoChart
  ErrorPage = ErrorPage
  Products = {p1}
  Requests = {r1, r2, r3}
  Pollers = {i1, i2}
  MaxEdition = 2
INVARIANTS
  ChartTypeOK
  OnePoller
PROPERTIES
  EditionsAdvance
  ChartsFollow
