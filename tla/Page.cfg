SPECIFICATION FairSpec
CONSTANTS
  ticker = ticker  answer1 = answer1  page1 = page1  page2 = page2  n1 = n1  n2 = n2
  Pages = {page1}  Names = {n1}  Ticker = ticker  Answerers = {answer1}
  FeedSize = 1  MaxDisturbances = 1
INVARIANT PageTypeOK
INVARIANT RowsAreTheList
PROPERTY TypedTextKept
PROPERTY PageConverges
