SPECIFICATION Spec
CONSTANTS
  p1 = p1
  p2 = p2
  p3 = p3
  i1 = i1
  i2 = i2
  Players = {p1, p2, p3}
  Items = {i1, i2}
  FirstOwner <- MCFirstOwner
  FirstMoney <- MCFirstMoney
  TradedSlots = 2
  Room <- MCRoom
  Limited = {}
  LimitedMax = 1
  Bindable = {i1}
  Spenders = {p1}
  MaxMoney = 2
  NoItem = NoItem
  NoPlayer = NoPlayer
INVARIANTS
  Mutual
  AcceptanceCurrent
PROPERTIES
  GoldConserved
  DealAsAgreed
