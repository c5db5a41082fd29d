CONSTANTS
  Symbols = {btc, eth}
  MsgTypes = {"bbo", "trade", "candlestick", "ticker", "open_interest", "l2_snapshot", "other", "long_short_ratio"}
  MaxRecords = 5
  MaxRecs = 2

SPECIFICATION FairSpec

INVARIANTS
  PublishedIsTheBeginning
  NothingIsLost

PROPERTIES
  CrawledIsHandled
  CrawlerEndsProcess

CHECK_DEADLOCK FALSE
