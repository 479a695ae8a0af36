SPECIFICATION Spec
CONSTANTS
  p1 = p1
  p2 = p2
  p3 = p3
  i1 = i1
  i2 = i2
  Players = {p1, p2, p3}
  Items = {i1}
  MailIds = {1, 2, 3}
  FirstOwner <- MCFirstOwner
  FirstMoney <- MCFirstMoney
  Room <- MCRoom
  Postage = 1
  Amounts = {1}
  MaxMoney = 3
  Writers = {p1}
  Spenders = {}
  Prices = {1, 2}
  CutPercent = 50
  Deposit = 1
  NoMail = NoMail
  NoPlayer = NoPlayer
  NoItem = NoItem
  NoAuction = NoAuction

  
PROPERTIES
  NoGoldMade
  SaleSettled
