SPECIFICATION CoinsSpec
CONSTANTS
  Outpoint = {o1, o2}
  Coin = {c1, c2}
  Spent = Spent
  NoEntry = NoEntry
  Blocks = {Genesis, b1, b2}
  Genesis = Genesis
  Null = Null
INVARIANT FlagsTruthful NeverMisapplied
PROPERTY EditsExact
PROPERTY ImplementsMap
