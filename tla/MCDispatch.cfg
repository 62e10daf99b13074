SPECIFICATION FairSpec
CONSTANTS
  n1 = n1
  n2 = n2
  x1 = x1
  x2 = x2
  Names = {n1, n2}
  Handlers = {h1, h2, h3}
  Runs = {x1, x2}
  Lists <- SomeInCommon
  MaxEvents = 2
  MaxClears = 1
INVARIANTS TypeOK ServedOnce
PROPERTIES EntitledAreServed ClearedStayQuiet LoopsEnd
