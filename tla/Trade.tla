------------------------------- MODULE Trade -------------------------------
(***************************************************************************)
(* Trades between players: the TradeData each of the two has of his side,  *)
(* the acceptance that every change of the terms takes back, and the       *)
(* exchange of items and money when both have accepted.  Each opcode is    *)
(* handled to its end by the world thread, while no map is updated; in     *)
(* between the players go on spending and earning money and using, sending *)
(* away or binding items, also those that lie in the trade window.         *)
(***************************************************************************)
EXTENDS Integers, FiniteSets

CONSTANTS
  Players,
  Items,
  FirstOwner,           \* item -> who has it at first
  FirstMoney,           \* player -> his money at first
  TradedSlots,          \* TRADE_SLOT_TRADED_COUNT, and the number of the slot after them
  Room,                 \* player -> the items he can carry
  Limited,              \* items of one ItemLimitCategory ...
  LimitedMax,           \* ... and how many of them one may have
  Bindable,             \* the items that may bind, or be looted, while one has them
  Spenders,             \* bound: the players who spend and earn money besides
  MaxMoney,             \* MAX_MONEY_AMOUNT
  NoItem,
  NoPlayer

ASSUME PlayersAssumption ==
  /\ NoPlayer \notin Players /\ NoItem \notin Items /\ IsFiniteSet(Items)
  /\ FirstOwner \in [Items -> Players] /\ Room \in [Players -> Nat]
  /\ Bindable \subseteq Items /\ Limited \subseteq Items /\ LimitedMax \in Nat
ASSUME NumbersAssumption ==
  /\ MaxMoney \in Nat \ {0} /\ FirstMoney \in [Players -> 0 .. MaxMoney]
  /\ TradedSlots \in Nat

VARIABLES
  trade,                \* player -> m_trade
  owner,                \* item -> who has it
  tradable,             \* the items CanBeTraded holds for
  money,                \* player -> his money
  agreed                \* history: player -> the terms when he accepted

vars == <<trade, owner, tradable, money, agreed>>

Slots == 0 .. TradedSlots
NonTraded == TradedSlots

\* with: m_trader; the others are m_accepted, m_money, m_spell # 0, m_items.
NewTrade(q) == [with |-> q, accepted |-> FALSE, money |-> 0, spell |-> FALSE,
                items |-> [s \in Slots |-> NoItem]]
NoTrade == NewTrade(NoPlayer)

Partner(p) == trade[p].with
Trading(p) == Partner(p) # NoPlayer

\* GetItem: what lies in the slot, if the player still has it.
GetItem(p, s) ==
  LET i == trade[p].items[s]
  IN  IF i \in Items /\ owner[i] = p THEN i ELSE NoItem

Goods(p) == {GetItem(p, s) : s \in 0 .. TradedSlots - 1} \ {NoItem}
Owned(p) == {i \in Items : owner[i] = p}

Offer(p) == [money |-> trade[p].money, goods |-> Goods(p)]
Terms(p) == [give |-> Offer(p), get |-> Offer(Partner(p))]
NoTerms == [give |-> [money |-> 0, goods |-> {}], get |-> [money |-> 0, goods |-> {}]]

Withdrawn(t) == [t EXCEPT !.accepted = FALSE]

\* Both have accepted nothing of what p's side of the trade is now.
Changed(p, t) ==
  /\ trade' = [trade EXCEPT ![p] = Withdrawn(t), ![Partner(p)] = Withdrawn(@)]
  /\ agreed' = [agreed EXCEPT ![p] = NoTerms, ![Partner(p)] = NoTerms]
  /\ UNCHANGED <<owner, tradable, money>>

-----------------------------------------------------------------------------
(* The offers.                                                             *)

\* Mutant of InitiateTrade: whether the other one is trading is not asked.
InitiateTrade_Busy(p, q) ==
  /\ p # q
  /\ ~Trading(p)
  /\ trade' = [trade EXCEPT ![p] = NewTrade(q), ![q] = NewTrade(p)]
  /\ UNCHANGED <<owner, tradable, money, agreed>>

InitiateTrade(p, q) ==
  /\ p # q
  /\ ~Trading(p) /\ ~Trading(q)
  /\ trade' = [trade EXCEPT ![p] = NewTrade(q), ![q] = NewTrade(p)]
  /\ UNCHANGED <<owner, tradable, money, agreed>>

\* Mutant of SetMoney: the other one's acceptance stays.
SetMoney_OwnOnly(p, m) ==
  /\ Trading(p)
  /\ m # trade[p].money
  /\ m <= money[p]
  /\ trade' = [trade EXCEPT ![p] = Withdrawn([@ EXCEPT !.money = m])]
  /\ agreed' = [agreed EXCEPT ![p] = NoTerms]
  /\ UNCHANGED <<owner, tradable, money>>

SetMoney(p, m) ==
  /\ Trading(p)
  /\ m # trade[p].money
  /\ m <= money[p]
  /\ Changed(p, [trade[p] EXCEPT !.money = m])

\* SetItem: a change of the slot that is not traded also takes back the
\* partner's spell, and every change one's own.
SetItem(p, s, i) ==
  LET q == Partner(p)
      mine == [trade[p] EXCEPT !.items[s] = i, !.spell = FALSE]
      his == [trade[q] EXCEPT !.spell = @ /\ s # NonTraded]
  IN  /\ trade[p].items[s] # i
      /\ trade' = [trade EXCEPT ![p] = Withdrawn(mine), ![q] = Withdrawn(his)]
      /\ agreed' = [agreed EXCEPT ![p] = NoTerms, ![q] = NoTerms]
      /\ UNCHANGED <<owner, tradable, money>>

SetTradeItem(p, s, i) ==
  /\ Trading(p)
  /\ owner[i] = p
  /\ s = NonTraded \/ i \in tradable
  /\ \A r \in Slots : trade[p].items[r] # i
  /\ SetItem(p, s, i)

ClearTradeItem(p, s) == Trading(p) /\ SetItem(p, s, NoItem)

\* A spell, or another one, cast on the partner's item in the slot that is not
\* traded waits for the trade to complete.
SetSpell(p) ==
  /\ Trading(p)
  /\ Changed(p, [trade[p] EXCEPT !.spell = TRUE])

-----------------------------------------------------------------------------
(* HandleAcceptTradeOpcode, by its outcomes.                               *)

Affordable(p) == money[p] >= trade[p].money
Holdable(p) == money[p] < MaxMoney - trade[Partner(p)].money
\* Mutant of MoneyFits: whether the other one has room for the money is not asked.
MoneyFits_OwnRoom(p) == Affordable(p) /\ Affordable(Partner(p)) /\ Holdable(p)

MoneyFits(p) ==
  Affordable(p) /\ Affordable(Partner(p)) /\ Holdable(p) /\ Holdable(Partner(p))

AllTradable(p) == Goods(p) \cup Goods(Partner(p)) \subseteq tradable

\* p's acceptance is set before the checks and stays unless one takes it back.
Accepted(p) == [trade EXCEPT ![p].accepted = TRUE]
AcceptStays(p) ==
  /\ trade' = Accepted(p)
  /\ agreed' = [agreed EXCEPT ![p] = Terms(p)]
  /\ UNCHANGED <<owner, tradable, money>>

\* Somebody has not the money he offers, or no room for the other's: the
\* acceptance of the first of them the checks find is taken back.
RefusedForMoney(p) ==
  /\ Trading(p)
  /\ ~MoneyFits(p)
  /\ IF ~Affordable(p) \/ (Affordable(Partner(p)) /\ ~Holdable(p))
       THEN /\ trade' = [trade EXCEPT ![p].accepted = FALSE]
            /\ agreed' = [agreed EXCEPT ![p] = NoTerms]
       ELSE /\ trade' = [Accepted(p) EXCEPT ![Partner(p)].accepted = FALSE]
            /\ agreed' = [agreed EXCEPT ![p] = Terms(p), ![Partner(p)] = NoTerms]
  /\ UNCHANGED <<owner, tradable, money>>

\* An item cannot be traded any more: p is told that the trade is cancelled,
\* but it is not, and he has accepted.
NotTradable(p) ==
  /\ Trading(p)
  /\ MoneyFits(p)
  /\ ~AllTradable(p)
  /\ AcceptStays(p)

\* The other one has not accepted yet.
AcceptFirst(p) ==
  /\ Trading(p)
  /\ MoneyFits(p) /\ AllTradable(p)
  /\ ~trade[Partner(p)].accepted
  /\ AcceptStays(p)

AcceptSecond(p) ==
  /\ Trading(p)
  /\ MoneyFits(p) /\ AllTradable(p)
  /\ trade[Partner(p)].accepted

\* The item r's spell is for is there.
HasTarget(r) == trade[r].spell => GetItem(Partner(r), NonTraded) # NoItem

\* A spell cannot be cast now: it is taken out of the trade, p's before the
\* other's.
SpellFails(p) ==
  /\ AcceptSecond(p)
  /\ \E r \in {p, Partner(p)} :
       /\ trade[r].spell
       /\ r # p => HasTarget(p)
       /\ Changed(r, [trade[r] EXCEPT !.spell = FALSE])

\* CanStoreItem while the items are moved: own says who has what by then.
CanStore(own, r, i) ==
  \/ i = NoItem
  \/ /\ Cardinality({j \in Items : own[j] = r}) < Room[r]
     /\ i \in Limited => Cardinality({j \in Limited : own[j] = r}) < LimitedMax

Give(own, i, r) == IF i = NoItem THEN own ELSE [own EXCEPT ![i] = r]
GiveBack(own, i, r) == IF CanStore(own, r, i) THEN Give(own, i, r) ELSE own

\* moveItems, one slot: p's x for q's y if both fit, or each back to its owner.
MovePair(own, p, x, q, y) ==
  IF CanStore(own, q, x) /\ CanStore(own, p, y)
    THEN Give(Give(own, x, q), y, p)
    ELSE GiveBack(GiveBack(own, x, p), y, q)

\* CanStoreItems: the room there is without the items r gives, and each limited
\* item against those r has now.
CanStoreItems(r, goods) ==
  /\ Cardinality(Owned(r) \ Goods(r)) + Cardinality(goods) <= Room[r]
  /\ goods \cap Limited # {} => Cardinality(Owned(r) \cap Limited) < LimitedMax

\* Mutant of BothFit: only the one who accepts last is asked.
BothFit_Own(p) == CanStoreItems(p, Goods(Partner(p)))

BothFit(p) == CanStoreItems(p, Goods(Partner(p))) /\ CanStoreItems(Partner(p), Goods(p))

NoFreeSlots(p) ==
  /\ AcceptSecond(p)
  /\ HasTarget(p) /\ HasTarget(Partner(p))
  /\ ~BothFit(p)
  /\ Changed(p, trade[p])

\* All items are removed first, then stored slot by slot.
MoveItems(p, q) ==
  LET removed == [i \in Items |-> IF i \in Goods(p) \cup Goods(q) THEN NoPlayer ELSE owner[i]]
      own[n \in 0 .. TradedSlots] ==
        IF n = 0 THEN removed
                 ELSE MovePair(own[n - 1], p, GetItem(p, n - 1), q, GetItem(q, n - 1))
  IN  own[TradedSlots]

\* ModifyMoney, down and up.
Pay(have, m) == IF have > m THEN have - m ELSE 0
Earn(have, m) == IF have < MaxMoney - m THEN have + m ELSE have

CompleteTrade(p) ==
  /\ AcceptSecond(p)
  /\ HasTarget(p) /\ HasTarget(Partner(p))
  /\ BothFit(p)
  /\ LET q == Partner(p)
     IN  /\ owner' = MoveItems(p, q)
         /\ money' = [money EXCEPT
              ![p] = Earn(Pay(@, trade[p].money), trade[q].money),
              ![q] = Earn(Pay(@, trade[q].money), trade[p].money)]
         /\ trade' = [trade EXCEPT ![p] = NoTrade, ![q] = NoTrade]
         /\ agreed' = [agreed EXCEPT ![p] = NoTerms, ![q] = NoTerms]
  /\ UNCHANGED tradable

-----------------------------------------------------------------------------
(* The end of a trade without an exchange.                                 *)

UnacceptTrade(p) ==
  /\ Trading(p)
  /\ trade' = [trade EXCEPT ![p].accepted = FALSE]
  /\ agreed' = [agreed EXCEPT ![p] = NoTerms]
  /\ UNCHANGED <<owner, tradable, money>>

\* Player::TradeCancel: by the opcode, a flight, a logout, a lost connection.
TradeCancel(p) ==
  /\ Trading(p)
  /\ trade' = [trade EXCEPT ![p] = NoTrade, ![Partner(p)] = NoTrade]
  /\ agreed' = [agreed EXCEPT ![p] = NoTerms, ![Partner(p)] = NoTerms]
  /\ UNCHANGED <<owner, tradable, money>>

-----------------------------------------------------------------------------
(* What players do besides, without a look at m_trade.                     *)

\* The item is used up, destroyed, sold or sent away.
UseItem(i) ==
  /\ owner[i] # NoPlayer
  /\ owner' = [owner EXCEPT ![i] = NoPlayer]
  /\ UNCHANGED <<trade, tradable, money, agreed>>

\* It is bound, or is being looted, and perhaps no longer.
ChangeItem(i) ==
  /\ i \in Bindable
  /\ tradable' = IF i \in tradable THEN tradable \ {i} ELSE tradable \cup {i}
  /\ UNCHANGED <<trade, owner, money, agreed>>

SpendOrEarn(p) ==
  /\ p \in Spenders
  /\ \E m \in 0 .. MaxMoney : money' = [money EXCEPT ![p] = m]
  /\ UNCHANGED <<trade, owner, tradable, agreed>>

-----------------------------------------------------------------------------
Init ==
  /\ trade = [p \in Players |-> NoTrade]
  /\ owner = FirstOwner
  /\ tradable = Items
  /\ money = FirstMoney
  /\ agreed = [p \in Players |-> NoTerms]

SetTerms(p) ==
  \/ \E m \in 0 .. MaxMoney : SetMoney(p, m)
  \/ \E s \in Slots : ClearTradeItem(p, s) \/ \E i \in Items : SetTradeItem(p, s, i)
  \/ SetSpell(p)

AcceptTrade(p) ==
  \/ RefusedForMoney(p) \/ NotTradable(p) \/ AcceptFirst(p)
  \/ SpellFails(p) \/ NoFreeSlots(p) \/ CompleteTrade(p)

Next ==
  \/ \E p \in Players :
       \/ \E q \in Players : InitiateTrade(p, q)
       \/ SetTerms(p) \/ AcceptTrade(p) \/ UnacceptTrade(p) \/ TradeCancel(p)
       \/ SpendOrEarn(p)
  \/ \E i \in Items : UseItem(i) \/ ChangeItem(i)

Spec == Init /\ [][Next]_vars

-----------------------------------------------------------------------------
TradeData == [with : Players \cup {NoPlayer}, accepted : BOOLEAN, money : 0 .. MaxMoney,
              spell : BOOLEAN, items : [Slots -> Items \cup {NoItem}]]
Offers == [money : 0 .. MaxMoney, goods : SUBSET Items]

\* Every variable has its type.
TypeOK ==
  /\ trade \in [Players -> TradeData]
  /\ owner \in [Items -> Players \cup {NoPlayer}]
  /\ tradable \subseteq Items
  /\ money \in [Players -> 0 .. MaxMoney]
  /\ agreed \in [Players -> [give : Offers, get : Offers]]

\* Trades are pairs: TradeCancel and the completion delete the partner's
\* m_trade too, which no third player may be in.
Mutual ==
  \A p \in Players : Trading(p) =>
    Partner(p) \in Players \ {p} /\ Trading(Partner(p)) /\ Partner(Partner(p)) = p

\* The offer as far as p still has what is in it.
StillHeld(p, offer) == [offer EXCEPT !.goods = {i \in @ : owner[i] = p}]

\* Whoever counts as having accepted has accepted what the terms are now, but
\* for items that are gone: no change of either side leaves an acceptance of
\* other terms behind, on any path through the refusals.
AcceptanceCurrent ==
  \A p \in Players : trade[p].accepted =>
    Terms(p) = [give |-> StillHeld(p, agreed[p].give),
                get  |-> StillHeld(Partner(p), agreed[p].get)]

\* p's trade with q ends in this step.
Ends(p, q) == Trading(p) /\ Partner(p) = q /\ trade'[p] = NoTrade

\* A trade neither makes nor destroys money.
GoldConserved ==
  [][\A p, q \in Players : Ends(p, q) => money'[p] + money'[q] = money[p] + money[q]]_vars

\* An exchange gives each of the two exactly what the one that had accepted
\* before agreed to: the money, and those of the items that were still there.
\* (Of the items under one limit at most one may be given.)
DealAsAgreed ==
  [][\A p, q \in Players :
       /\ Ends(p, q)
       /\ \A r \in {p, q} : Cardinality(Goods(r) \cap Limited) <= 1
       => \/ UNCHANGED <<owner, money>>
          \/ \E r \in {p, q} :
               /\ trade[r].accepted
               /\ {i \in Items : owner[i] = r /\ owner'[i] = Partner(r)}
                    = StillHeld(r, agreed[r].give).goods
               /\ {i \in Items : owner[i] = Partner(r) /\ owner'[i] = r}
                    = StillHeld(Partner(r), agreed[r].get).goods
               /\ \A i \in Items : owner[i] # NoPlayer => owner'[i] # NoPlayer
               /\ money'[r] = money[r] - agreed[r].give.money + agreed[r].get.money]_vars

=============================================================================
