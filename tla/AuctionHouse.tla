---------------------------- MODULE AuctionHouse ----------------------------
(***************************************************************************)
(* The auction house and the mail it settles everything by.  A seller pays *)
(* a deposit and gives his item away; whoever bids pays at once, and gets  *)
(* his money back by mail when he is outbid or the auction is cancelled;   *)
(* when it ends the item and the money are mailed, whether the players are *)
(* online or not.  Every handler commits one transaction.                  *)
(***************************************************************************)
EXTENDS Mail, FiniteSetsExt

CONSTANTS
  Prices,               \* bound: first bids, bids and buyouts
  CutPercent,           \* what the house keeps of a sale
  Deposit,              \* GetAuctionDeposit of any item
  NoAuction

ASSUME AuctionAssumption ==
  Prices \subseteq Nat \ {0} /\ CutPercent \in 0 .. 100 /\ Deposit \in Nat

VARIABLES
  auction,              \* item -> its AuctionEntry, or NoAuction
  dbAuction,            \* the table `auctionhouse'
  paid                  \* history: item -> player -> what he paid for the item's
                        \* last auction, less what was mailed to him for it

auctionVars == <<auction, dbAuction, paid>>
vars == <<mailVars, auctionVars>>

Auctions ==
  [owner : Players, startbid : Prices, buyout : Prices \cup {0},
   bid : Prices \cup {0}, bidder : Players \cup {NoPlayer}]

ASSUME NoAuctionAssumption == NoAuction \notin Auctions

TypeOK ==
  /\ MailTypeOK
  /\ auction \in [Items -> Auctions \cup {NoAuction}]
  /\ dbAuction \in [Items -> Auctions \cup {NoAuction}]
  /\ paid \in [Items -> [Players -> Int]]

Init ==
  /\ MailInit
  /\ auction = [i \in Items |-> NoAuction] /\ dbAuction = auction
  /\ paid = [i \in Items |-> [p \in Players |-> 0]]

Cut(price) == (price * CutPercent) \div 100
OutBid(price) == IF (price * 5) \div 100 = 0 THEN 1 ELSE (price * 5) \div 100

-----------------------------------------------------------------------------
(* The mails of the auction house; a is the auction when it is sent.       *)

AuctionMail(i, q, its, gold, late) ==
  [kind |-> "auction", sender |-> NoPlayer, receiver |-> q, items |-> its,
   money |-> gold, cod |-> 0, checked |-> "", delay |-> late, subject |-> i]

\* SendAuctionOutbiddedMail, SendAuctionCancelledToBidderMail
Refund(i, a) == AuctionMail(i, a.bidder, {}, a.bid, FALSE)
\* SendAuctionSuccessfulMail
Profit(i, a) == AuctionMail(i, a.owner, {}, a.bid + Deposit - Cut(a.bid), TRUE)
\* SendAuctionWonMail
Won(i, a) == AuctionMail(i, a.bidder, {i}, 0, FALSE)
\* SendAuctionExpiredMail, and that of a cancelled auction
ItemBack(i, a) == AuctionMail(i, a.owner, {i}, 0, FALSE)

\* The money a step mails to p for the auction of i.
Mailed(i, p) ==
  LET new == {m \in MailIds : dbMail[m] = NoMail /\ dbMail'[m] # NoMail}
      his == {m \in new : dbMail'[m].receiver = p /\ dbMail'[m].subject = i}
  IN  MapThenSumSet(LAMBDA m : dbMail'[m].money, his)

\* What the auctions of a step cost p on top of what they did.
Booked(those) ==
  [i \in Items |->
     IF i \in those THEN [p \in Players |-> paid[i][p] + money[p] - money'[p] - Mailed(i, p)]
                     ELSE paid[i]]

-----------------------------------------------------------------------------

SellItem(p, i, startbid, buyout) ==
  /\ p \in online
  /\ i \in bag[p]
  /\ auction[i] = NoAuction
  /\ money[p] >= Deposit
  /\ money' = [money EXCEPT ![p] = @ - Deposit]
  /\ bag' = [bag EXCEPT ![p] = @ \ {i}]
  /\ auction' = [auction EXCEPT ![i] = [owner |-> p, startbid |-> startbid, buyout |-> buyout,
                                        bid |-> 0, bidder |-> NoPlayer]]
  /\ dbAuction' = [dbAuction EXCEPT ![i] = auction'[i]]
  /\ SaveInventoryAndGold(p)
  /\ UNCHANGED <<online, inbox, state, mailsUpdated, dbMail, destroyed>>
  /\ paid' = [paid EXCEPT ![i] = [q \in Players |-> money[q] - money'[q]]]

\* The checks of HandleAuctionPlaceBid.
MayBid(p, i, price) ==
  /\ p \in online
  /\ auction[i] # NoAuction
  /\ auction[i].owner # p
  /\ price > auction[i].bid /\ price >= auction[i].startbid
  /\ money[p] >= price

IsBuyout(a, price) == a.buyout # 0 /\ price >= a.buyout

\* Who already is the highest bidder pays the difference.
Owed(p, a, price) == IF a.bidder = p THEN price - a.bid ELSE price
\* Mutant of Outbid: who raises his own bid is outbid.
Outbid_Own(p, a) == a.bidder # NoPlayer

Outbid(p, a) == a.bidder \notin {NoPlayer, p}

PlaceBid(p, i, price) ==
  LET a == auction[i]
  IN  /\ MayBid(p, i, price)
      /\ ~IsBuyout(a, price)
      /\ price >= a.bid + OutBid(a.bid)
      /\ money' = [money EXCEPT ![p] = @ - Owed(p, a, price)]
      /\ SendMailTo(IF Outbid(p, a) THEN <<Refund(i, a)>> ELSE << >>)
      /\ auction' = [auction EXCEPT ![i].bidder = p, ![i].bid = price]
      /\ dbAuction' = [dbAuction EXCEPT ![i].bidder = p, ![i].bid = price]
      /\ UNCHANGED bag
      /\ SaveInventoryAndGold(p)
      /\ UNCHANGED <<online, state, mailsUpdated, destroyed>>
      /\ paid' = Booked({i})

\* The price is the buyout, however much was offered.
Buyout(p, i, price) ==
  LET a == auction[i]
      sold == [a EXCEPT !.bidder = p, !.bid = a.buyout]
  IN  /\ MayBid(p, i, price)
      /\ IsBuyout(a, price)
      /\ money' = [money EXCEPT ![p] = @ - Owed(p, a, a.buyout)]
      /\ SendMailTo(IF Outbid(p, a) THEN <<Refund(i, a), Profit(i, sold), Won(i, sold)>>
                                    ELSE <<Profit(i, sold), Won(i, sold)>>)
      /\ auction' = [auction EXCEPT ![i] = NoAuction]
      /\ dbAuction' = [dbAuction EXCEPT ![i] = NoAuction]
      /\ UNCHANGED bag
      /\ SaveInventoryAndGold(p)
      /\ UNCHANGED <<online, state, mailsUpdated, destroyed>>
      /\ paid' = Booked({i})

\* HandleAuctionRemoveItem: the owner cancels, and pays the house its part of the
\* bid that is given back.
RemoveItem(p, i) ==
  LET a == auction[i]
      fee == IF a.bidder = NoPlayer THEN 0 ELSE Cut(a.bid)
  IN  /\ p \in online
      /\ auction[i] # NoAuction
      /\ a.owner = p
      /\ money[p] >= fee
      /\ money' = [money EXCEPT ![p] = @ - fee]
      /\ SendMailTo(IF a.bidder = NoPlayer THEN <<ItemBack(i, a)>>
                                           ELSE <<Refund(i, a), ItemBack(i, a)>>)
      /\ auction' = [auction EXCEPT ![i] = NoAuction]
      /\ dbAuction' = [dbAuction EXCEPT ![i] = NoAuction]
      /\ UNCHANGED bag
      /\ SaveInventoryAndGold(p)
      /\ UNCHANGED <<online, state, mailsUpdated, destroyed>>
      /\ paid' = Booked({i})

\* The mails of the auctions that end, those without a bid and those sold.
Sold(due) == {i \in due : auction[i].bidder # NoPlayer}

Ended(due) ==
  [k \in {"item"} \X due \cup {"profit"} \X Sold(due) |->
     LET a == auction[k[2]]
     IN  IF k[2] \notin Sold(due) THEN ItemBack(k[2], a)
         ELSE IF k[1] = "item" THEN Won(k[2], a) ELSE Profit(k[2], a)]

\* AuctionHouseObject::Update, with due the auctions whose time is over.
Update(due) ==
  /\ SendMailTo(Ended(due))
  /\ auction' = [i \in Items |-> IF i \in due THEN NoAuction ELSE auction[i]]
  /\ dbAuction' = [i \in Items |-> IF i \in due THEN NoAuction ELSE dbAuction[i]]
  /\ UNCHANGED <<online, money, bag, state, mailsUpdated, dbMoney, dbBag, destroyed>>
  /\ paid' = Booked(due)

\* A crash undoes nothing an auction did: that was saved with it.
Crash ==
  /\ MailCrash
  /\ auction' = dbAuction
  /\ UNCHANGED <<dbAuction, paid>>

Next ==
  \/ MailNext /\ UNCHANGED auctionVars
  \/ \E p \in Players, i \in Items :
       \/ \E startbid \in Prices, buyout \in Prices \cup {0} : SellItem(p, i, startbid, buyout)
       \/ \E price \in Prices : PlaceBid(p, i, price) \/ Buyout(p, i, price)
       \/ RemoveItem(p, i)
  \/ \E due \in SUBSET {i \in Items : auction[i] # NoAuction} \ {{}} : Update(due)
  \/ Crash

Spec == Init /\ [][Next]_vars

-----------------------------------------------------------------------------

\* What a mail says now: its receiver's memory before the database.
MailNow == [m \in MailIds |-> IF inbox[m] # NoMail THEN inbox[m] ELSE dbMail[m]]

Places(i, bags, mails, auctions) ==
  {<<"bag", p>> : p \in {q \in Players : i \in bags[q]}}
    \cup {<<"mail", m>> : m \in {n \in MailIds : mails[n] # NoMail /\ i \in mails[n].items}}
    \cup {<<"auction", a>> : a \in {i} \cap {j \in Items : auctions[j] # NoAuction}}

\* An item is in one place, in somebody's bags, in a mail or in an auction, for
\* those who play and for a process that starts again from the database; only
\* the items that were thrown away with a mail are nowhere.
ItemsOnce ==
  \A i \in Items :
    LET copies == IF i \in destroyed THEN 0 ELSE 1
    IN  /\ Cardinality(Places(i, bag, MailNow, auction)) = copies
        /\ Cardinality(Places(i, dbBag, dbMail, dbAuction)) = copies

\* Every transaction leaves in the database what the players have been told: the
\* items, the mails (whose marks alone are lost with the process) and the auctions.
CrashSafe ==
  /\ bag = dbBag
  /\ auction = dbAuction
  /\ \A m \in MailIds : inbox[m] # NoMail => inbox[m] = dbMail[m]

\* Money that is sent, taken, bid or paid is saved with it: only what a player
\* earns or spends elsewhere can be lost with the process.
Gap(p) == money[p] - dbMoney[p]
NothingUnsaved ==
  [][\A p \in Players : Gap(p)' \in {0, Gap(p)} \/ SpendOrEarn(p)]_vars

\* Gold in the game: what players have, what mails carry, what the house holds.
Wealth ==
  MapThenSumSet(LAMBDA p : money[p], Players)
    + MapThenSumSet(LAMBDA m : IF MailNow[m] = NoMail THEN 0 ELSE MailNow[m].money, MailIds)
    + MapThenSumSet(LAMBDA i : IF auction[i] = NoAuction THEN 0 ELSE Deposit + auction[i].bid,
                    Items)

\* Mails and auctions make no gold: not when a mailbox is loaded again or a sale is
\* settled by three mails.  (A restart may bring back what was spent elsewhere.)
NoGoldMade ==
  [][Wealth' <= Wealth \/ (\E p \in Players : SpendOrEarn(p)) \/ Crash]_vars

\* When an auction ends its item goes to one player.  If he is not its owner he
\* has paid a price, at least the highest bid, and the owner got it but for the
\* cut; nobody else has lost or won anything, however often he bid.
SaleSettled ==
  [][\A i \in Items : auction[i] # NoAuction /\ auction'[i] = NoAuction =>
       \E m \in MailIds :
         LET a == auction[i]
             w == dbMail'[m].receiver
         IN  /\ dbMail'[m] # NoMail /\ i \in dbMail'[m].items
             /\ \A p \in Players \ {a.owner, w} : paid'[i][p] = 0
             /\ \/ w = a.owner /\ paid'[i][w] >= Deposit
                \/ /\ w # a.owner
                   /\ paid'[i][w] >= a.bid
                   /\ paid'[i][w] >= a.startbid \/ paid'[i][w] = a.buyout
                   /\ paid'[i][a.owner] = Cut(paid'[i][w]) - paid'[i][w]]_vars

\* A step mails the money and the items to q.
MailedAnew(q, its, gold) ==
  \E m \in MailIds :
    /\ dbMail[m] = NoMail /\ dbMail'[m] # NoMail
    /\ dbMail'[m].receiver = q /\ dbMail'[m].items = its
    /\ dbMail'[m].money = gold /\ dbMail'[m].cod = 0

PaidFor(m) ==
  LET mail == dbMail[m]
  IN  /\ money'[mail.receiver] = money[mail.receiver] - mail.cod
      /\ MailedAnew(mail.sender, {}, mail.cod)
      /\ dbMail'[m] # NoMail => dbMail'[m].cod = 0

SentBack(m) ==
  LET mail == dbMail[m]
  IN  /\ money' = money
      /\ IF dbMail'[m] = NoMail
           THEN MailedAnew(mail.sender, mail.items, mail.money)
           ELSE /\ dbMail'[m].receiver = mail.sender
                /\ dbMail'[m].items = mail.items /\ dbMail'[m].cod = 0

\* A mail that has to be paid for stays as it is until it is paid for, once and to
\* who sent it, or goes back to him with all that was in it and for nothing.
CODHonoured ==
  [][\A m \in MailIds :
       dbMail[m] # NoMail /\ dbMail[m].cod > 0 /\ dbMail'[m] # dbMail[m] =>
         PaidFor(m) \/ SentBack(m)]_vars

=============================================================================
