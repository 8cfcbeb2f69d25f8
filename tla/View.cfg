SPECIFICATION FairStreamSpec
CONSTANTS
  ticker = ticker  handler = handler  page1 = page1  page2 = page2
  empty = empty  listed = listed  row1 = row1  row2 = row2
  Publishers = {ticker, handler}  Tickers = {ticker}  Pages = {page1}
  Lists = {empty, listed}  NoList = empty  Activities = {row1}
  Buffer = 2  LogSize = 2
INVARIANT StreamTypeOK
INVARIANT ActivityComplete
INVARIANT LivePageIsCurrent
PROPERTY EveryPublicationEnds
PROPERTY PageCatchesUp
