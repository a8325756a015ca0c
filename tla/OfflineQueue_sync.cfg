SPECIFICATION OfflineFairSpec
CONSTANTS
  i1 = i1
  d1 = d1
  d2 = d2
  t1 = t1
  Items = {i1}
  Photos = {i1}
  Refusable = {}
  Tabs = {t1}
  Drains <- TwoDrains
  TabOf <- OneTab
  Nothing = Nothing
  MaxBreaks = 1
  MaxReloads = 0
CHECK_DEADLOCK FALSE
PROPERTIES QueuedIsFiled
