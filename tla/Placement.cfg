SPECIFICATION FairSpec
CONSTANTS
  old = old
  ann = ann
  bob = bob
  cid = cid
  Players = {old, ann, bob, cid}
  Tabs = {t1, t2}
  Grid <- SmallGrid
  CentreX = 0
  CentreY = 8
  Nowhere = Nowhere
  NoTab = NoTab
  OldVillages <- OneOld
INVARIANTS NeverConflicts KeepsDistance
PROPERTIES FillsFromCentre KeepsProgress Answered
