---------------------------- MODULE TradeProofs ----------------------------
(* What holds of trades for any number of players, items, slots and money. *)
EXTENDS Trade, FiniteSetTheorems, TLAPS

USE DEF Trading, Partner

-----------------------------------------------------------------------------
(* Induction on the natural numbers, for sets.                             *)

LEMMA NaturalsWellFounded ==
  IsWellFoundedOn({r \in Nat \X Nat : r[1] < r[2]}, Nat)
  BY NatLessThanWellFounded, Zenon DEF OpToRel

LEMMA SetInduction ==
  ASSUME NEW T \in SUBSET Nat, 0 \in T, \A n \in T : n + 1 \in T
  PROVE  T = Nat
<1> DEFINE R == {r \in Nat \X Nat : r[1] < r[2]}
<1> SUFFICES ASSUME Nat \ T # {} PROVE FALSE
  OBVIOUS
<1>1. PICK x \in Nat \ T : \A y \in Nat \ T : <<y, x>> \notin R
  <2> HIDE DEF R
  <2> QED BY WFMin, NaturalsWellFounded DEF R
<1>2. x - 1 \in Nat /\ x - 1 < x /\ x - 1 + 1 = x
  BY SMT
<1>3. <<x - 1, x>> \in R
  BY <1>2, SMT
<1>4. x - 1 \in T
  <2> HIDE DEF R
  <2> QED BY <1>1, <1>2, <1>3
<1> QED BY <1>2, <1>4

-----------------------------------------------------------------------------
(* The recursive function of MoveItems.                                    *)

Removed(p, q) ==
  [i \in Items |-> IF i \in Goods(p) \cup Goods(q) THEN NoPlayer ELSE owner[i]]
Stored(p, q, own, n) == MovePair(own, p, GetItem(p, n - 1), q, GetItem(q, n - 1))
IsMoving(p, q, f, N) ==
  f = [n \in 0 .. N |-> IF n = 0 THEN Removed(p, q) ELSE Stored(p, q, f[n - 1], n)]

LEMMA MovingExists ==
  ASSUME NEW p, NEW q
  PROVE  \A N \in Nat : \E f : IsMoving(p, q, f, N)
<1> DEFINE T == {N \in Nat : \E f : IsMoving(p, q, f, N)}
<1>1. 0 \in T
  <2>1. IsMoving(p, q, [n \in 0 .. 0 |-> Removed(p, q)], 0)
    BY SMT DEF IsMoving
  <2> QED BY <2>1
<1>2. ASSUME NEW N \in T PROVE N + 1 \in T
  <2>1. PICK f : IsMoving(p, q, f, N)
    OBVIOUS
  <2> DEFINE g == [n \in 0 .. N + 1 |-> IF n = N + 1 THEN Stored(p, q, f[N], n) ELSE f[n]]
  <2>2. ASSUME NEW n \in 0 .. N + 1
        PROVE  g[n] = IF n = 0 THEN Removed(p, q) ELSE Stored(p, q, g[n - 1], n)
    <3>1. CASE n = N + 1
      BY <3>1, SMT
    <3>2. CASE n # N + 1
      BY <2>1, <3>2, SMT DEF IsMoving
    <3> QED BY <3>1, <3>2
  <2>3. IsMoving(p, q, g, N + 1)
    BY <2>2 DEF IsMoving
  <2> HIDE DEF g
  <2> QED BY <2>3
<1>3. T = Nat
  <2> HIDE DEF T
  <2>1. T \in SUBSET Nat
    BY DEF T
  <2> QED BY <1>1, <1>2, <2>1, SetInduction
<1> QED BY <1>3

LEMMA MoveItemsSteps ==
  ASSUME NEW p, NEW q
  PROVE  \E f : IsMoving(p, q, f, TradedSlots) /\ MoveItems(p, q) = f[TradedSlots]
<1> DEFINE f == CHOOSE g : IsMoving(p, q, g, TradedSlots)
<1>1. IsMoving(p, q, f, TradedSlots)
  BY MovingExists, NumbersAssumption
<1>2. MoveItems(p, q) = f[TradedSlots]
  BY DEF MoveItems, IsMoving, Removed, Stored
<1> QED BY <1>1, <1>2

\* Only the goods of the two change hands, and only between the two.
Between(p, q, own) ==
  /\ own \in [Items -> Players \cup {NoPlayer}]
  /\ \A i \in Items : IF i \in Goods(p) \cup Goods(q) THEN own[i] \in {p, q, NoPlayer}
                                                     ELSE own[i] = owner[i]

LEMMA GiveBetween ==
  ASSUME NEW p \in Players, NEW q \in Players, NEW own, Between(p, q, own),
         NEW i \in Goods(p) \cup Goods(q) \cup {NoItem}, NEW r \in {p, q}
  PROVE  Between(p, q, Give(own, i, r)) /\ Between(p, q, GiveBack(own, i, r))
<1>1. CASE i = NoItem
  BY <1>1 DEF Give, GiveBack
<1>2. CASE i # NoItem
  <2>1. i \in Items
    BY <1>2 DEF Goods, GetItem
  <2>2. Between(p, q, [own EXCEPT ![i] = r])
    BY <1>2, <2>1 DEF Between
  <2> QED BY <1>2, <2>2 DEF Give, GiveBack
<1> QED BY <1>1, <1>2

LEMMA MoveItemsBetween ==
  ASSUME TypeOK, NEW p \in Players, NEW q \in Players
  PROVE  Between(p, q, MoveItems(p, q))
<1>1. Between(p, q, Removed(p, q))
  BY DEF Between, Removed, TypeOK
<1>2. ASSUME NEW own, NEW n \in 1 .. TradedSlots, Between(p, q, own)
      PROVE  Between(p, q, Stored(p, q, own, n))
  <2>1. n - 1 \in 0 .. TradedSlots - 1
    BY NumbersAssumption, SMT
  <2>2. /\ GetItem(p, n - 1) \in Goods(p) \cup Goods(q) \cup {NoItem}
        /\ GetItem(q, n - 1) \in Goods(p) \cup Goods(q) \cup {NoItem}
    BY <2>1 DEF Goods
  <2> DEFINE x == GetItem(p, n - 1)
             y == GetItem(q, n - 1)
  <2>3. CASE CanStore(own, q, x) /\ CanStore(own, p, y)
    <3>1. Between(p, q, Give(own, x, q))
      BY <1>2, <2>2, GiveBetween
    <3>2. Between(p, q, Give(Give(own, x, q), y, p))
      BY <3>1, <2>2, GiveBetween
    <3> QED BY <2>3, <3>2 DEF Stored, MovePair
  <2>4. CASE ~(CanStore(own, q, x) /\ CanStore(own, p, y))
    <3>1. Between(p, q, GiveBack(own, x, p))
      BY <1>2, <2>2, GiveBetween
    <3>2. Between(p, q, GiveBack(GiveBack(own, x, p), y, q))
      BY <3>1, <2>2, GiveBetween
    <3> QED BY <2>4, <3>2 DEF Stored, MovePair
  <2> QED BY <2>3, <2>4
<1>3. PICK f : IsMoving(p, q, f, TradedSlots) /\ MoveItems(p, q) = f[TradedSlots]
  BY MoveItemsSteps
<1> DEFINE T == {n \in Nat : n <= TradedSlots => Between(p, q, f[n])}
<1>4. 0 \in T
  <2>1. f[0] = Removed(p, q)
    BY <1>3, NumbersAssumption, SMT DEF IsMoving
  <2> QED BY <1>1, <2>1
<1>5. ASSUME NEW n \in T PROVE n + 1 \in T
  <2>1. SUFFICES ASSUME n + 1 <= TradedSlots PROVE Between(p, q, f[n + 1])
    OBVIOUS
  <2>2. n + 1 \in 1 .. TradedSlots /\ n + 1 \in 0 .. TradedSlots /\ n <= TradedSlots
        /\ n + 1 # 0 /\ n + 1 - 1 = n
    BY <2>1, NumbersAssumption, SMT
  <2>3. f[n + 1] = Stored(p, q, f[n], n + 1)
    BY <1>3, <2>2 DEF IsMoving
  <2>4. Between(p, q, f[n])
    BY <2>2
  <2> QED BY <1>2, <2>2, <2>3, <2>4
<1>6. T = Nat
  <2>1. T \in SUBSET Nat
    OBVIOUS
  <2> HIDE DEF T
  <2> QED BY <1>4, <1>5, <2>1, SetInduction
<1>7. TradedSlots \in T
  BY <1>6, NumbersAssumption
<1> QED BY <1>3, <1>7, NumbersAssumption

-----------------------------------------------------------------------------
(* Types, and trades as pairs.                                             *)

LEMMA NewTradeType ==
  ASSUME NEW q \in Players \cup {NoPlayer}
  PROVE  NewTrade(q) \in TradeData /\ NewTrade(q).with = q
  BY NumbersAssumption, SMT DEF NewTrade, TradeData

LEMMA OfferType ==
  ASSUME TypeOK, NEW p \in Players
  PROVE  Offer(p) \in Offers
<1>1. Goods(p) \subseteq Items
  BY DEF Goods, GetItem
<1>2. trade[p].money \in 0 .. MaxMoney
  BY DEF TypeOK, TradeData
<1> QED BY <1>1, <1>2 DEF Offer, Offers

LEMMA TermsType ==
  ASSUME TypeOK, Mutual, NEW p \in Players, Trading(p)
  PROVE  Terms(p) \in [give : Offers, get : Offers]
  BY OfferType DEF Terms, Mutual

LEMMA NoTermsType == NoTerms \in [give : Offers, get : Offers]
  BY NumbersAssumption, SMT DEF NoTerms, Offers

\* What the two in a trade have in common whatever they do to the terms of it.
SamePairs ==
  /\ trade' \in [Players -> TradeData]
  /\ \A r \in Players : trade'[r].with = trade[r].with

LEMMA SamePairsMutual ==
  ASSUME TypeOK, Mutual, SamePairs
  PROVE  Mutual'
  BY PlayersAssumption DEF Mutual, SamePairs, TypeOK, TradeData

LEMMA WithdrawnType ==
  ASSUME NEW t \in TradeData
  PROVE  Withdrawn(t) \in TradeData /\ Withdrawn(t).with = t.with
  BY DEF Withdrawn, TradeData

LEMMA ChangedSamePairs ==
  ASSUME TypeOK, Mutual, NEW p \in Players, Trading(p),
         NEW t \in TradeData, t.with = trade[p].with, Changed(p, t)
  PROVE  TypeOK' /\ SamePairs
<1> DEFINE q == Partner(p)
<1>1. q \in Players /\ q # p
  BY DEF Mutual
<1>2. trade' = [trade EXCEPT ![p] = Withdrawn(t), ![q] = Withdrawn(trade[q])]
  BY <1>1 DEF Changed, TypeOK
<1>3. Withdrawn(t) \in TradeData /\ Withdrawn(t).with = trade[p].with
  BY WithdrawnType
<1>4. Withdrawn(trade[q]) \in TradeData /\ Withdrawn(trade[q]).with = trade[q].with
  BY <1>1, WithdrawnType DEF TypeOK
<1>5. SamePairs
  BY <1>1, <1>2, <1>3, <1>4 DEF SamePairs, TypeOK
<1>6. agreed' \in [Players -> [give : Offers, get : Offers]]
  BY NoTermsType DEF Changed, TypeOK
<1>7. UNCHANGED <<owner, tradable, money>>
  BY DEF Changed
<1> QED BY <1>5, <1>6, <1>7 DEF SamePairs, TypeOK

PairInv == TypeOK /\ Mutual

LEMMA InitPairInv == Init => PairInv
<1> SUFFICES ASSUME Init PROVE PairInv
  OBVIOUS
<1>1. trade \in [Players -> TradeData]
  BY NewTradeType DEF Init, NoTrade
<1>2. agreed \in [Players -> [give : Offers, get : Offers]]
  BY NoTermsType DEF Init
<1>3. owner \in [Items -> Players \cup {NoPlayer}] /\ money \in [Players -> 0 .. MaxMoney]
  BY PlayersAssumption, NumbersAssumption DEF Init
<1>4. Mutual
  BY NewTradeType DEF Init, NoTrade, Mutual
<1> QED BY <1>1, <1>2, <1>3, <1>4 DEF Init, PairInv, TypeOK

LEMMA ItemsTradeData ==
  ASSUME NEW t \in TradeData, NEW s \in Slots, NEW i \in Items \cup {NoItem}
  PROVE  /\ [t EXCEPT !.items[s] = i, !.spell = FALSE] \in TradeData
         /\ [t EXCEPT !.items[s] = i, !.spell = FALSE].with = t.with
<1>1. [t.items EXCEPT ![s] = i] \in [Slots -> Items \cup {NoItem}]
  BY DEF TradeData
<1>2. [t EXCEPT !.items[s] = i, !.spell = FALSE]
        = [t EXCEPT !.items = [t.items EXCEPT ![s] = i], !.spell = FALSE]
  BY DEF TradeData
<1> QED BY <1>1, <1>2 DEF TradeData

\* The spell of a TradeData set or taken back.
LEMMA SpellTradeData ==
  ASSUME NEW t \in TradeData, NEW b \in BOOLEAN
  PROVE  /\ [t EXCEPT !.spell = b] \in TradeData
         /\ [t EXCEPT !.spell = b].with = t.with
  BY DEF TradeData

LEMMA SetItemSamePairs ==
  ASSUME TypeOK, Mutual, NEW p \in Players, Trading(p),
         NEW s \in Slots, NEW i \in Items \cup {NoItem}, SetItem(p, s, i)
  PROVE  TypeOK' /\ SamePairs
<1> DEFINE q == Partner(p)
           t == [trade[p] EXCEPT !.items[s] = i, !.spell = FALSE]
           u == [trade[q] EXCEPT !.spell = @ /\ s # NonTraded]
<1>1. q \in Players /\ q # p
  BY DEF Mutual
<1>2. trade' = [trade EXCEPT ![p] = Withdrawn(t), ![q] = Withdrawn(u)]
  BY DEF SetItem
<1>3. t \in TradeData /\ t.with = trade[p].with
  BY ItemsTradeData DEF TypeOK
<1>4. u \in TradeData /\ u.with = trade[q].with
  <2>1. trade[q] \in TradeData
    BY <1>1 DEF TypeOK
  <2>2. (trade[q].spell /\ s # NonTraded) \in BOOLEAN
    OBVIOUS
  <2> QED BY <2>1, <2>2, SpellTradeData
<1>5. /\ Withdrawn(t) \in TradeData /\ Withdrawn(t).with = trade[p].with
      /\ Withdrawn(u) \in TradeData /\ Withdrawn(u).with = trade[q].with
  <2> HIDE DEF t, u
  <2> QED BY <1>3, <1>4, WithdrawnType
<1>6. SamePairs
  <2> HIDE DEF t, u
  <2> QED BY <1>1, <1>2, <1>5 DEF SamePairs, TypeOK
<1>7. agreed' \in [Players -> [give : Offers, get : Offers]]
  BY NoTermsType DEF SetItem, TypeOK
<1>8. UNCHANGED <<owner, tradable, money>>
  BY DEF SetItem
<1> QED BY <1>6, <1>7, <1>8 DEF SamePairs, TypeOK

LEMMA SetTermsSamePairs ==
  ASSUME TypeOK, Mutual, NEW p \in Players, SetTerms(p)
  PROVE  TypeOK' /\ SamePairs
<1>1. ASSUME NEW m \in 0 .. MaxMoney, SetMoney(p, m) PROVE TypeOK' /\ SamePairs
  <2> DEFINE t == [trade[p] EXCEPT !.money = m]
  <2>1. t \in TradeData /\ t.with = trade[p].with
    BY DEF TypeOK, TradeData
  <2>2. Trading(p) /\ Changed(p, t)
    BY <1>1 DEF SetMoney
  <2> HIDE DEF t
  <2> QED BY <2>1, <2>2, ChangedSamePairs
<1>2. ASSUME NEW s \in Slots, ClearTradeItem(p, s) PROVE TypeOK' /\ SamePairs
  BY <1>2, SetItemSamePairs DEF ClearTradeItem
<1>3. ASSUME NEW s \in Slots, NEW i \in Items, SetTradeItem(p, s, i)
      PROVE  TypeOK' /\ SamePairs
  BY <1>3, SetItemSamePairs DEF SetTradeItem
<1>4. ASSUME SetSpell(p) PROVE TypeOK' /\ SamePairs
  <2> DEFINE t == [trade[p] EXCEPT !.spell = TRUE]
  <2>1. t \in TradeData /\ t.with = trade[p].with
    BY DEF TypeOK, TradeData
  <2>2. Trading(p) /\ Changed(p, t)
    BY <1>4 DEF SetSpell
  <2> HIDE DEF t
  <2> QED BY <2>1, <2>2, ChangedSamePairs
<1> QED BY <1>1, <1>2, <1>3, <1>4 DEF SetTerms

LEMMA SetAcceptedType ==
  ASSUME NEW f \in [Players -> TradeData], NEW p \in Players, NEW b \in BOOLEAN
  PROVE  /\ [f EXCEPT ![p].accepted = b] \in [Players -> TradeData]
         /\ \A r \in Players : [f EXCEPT ![p].accepted = b][r].with = f[r].with
<1>1. [f[p] EXCEPT !.accepted = b] \in TradeData /\ [f[p] EXCEPT !.accepted = b].with = f[p].with
  BY DEF TradeData
<1>2. [f EXCEPT ![p].accepted = b] = [f EXCEPT ![p] = [f[p] EXCEPT !.accepted = b]]
  BY SMT
<1> QED BY <1>1, <1>2

LEMMA AcceptStaysSamePairs ==
  ASSUME TypeOK, Mutual, NEW p \in Players, Trading(p), AcceptStays(p)
  PROVE  TypeOK' /\ SamePairs
<1>1. SamePairs
  BY SetAcceptedType DEF AcceptStays, Accepted, SamePairs, TypeOK
<1>2. agreed' \in [Players -> [give : Offers, get : Offers]]
  BY TermsType DEF AcceptStays, TypeOK
<1> QED BY <1>1, <1>2 DEF AcceptStays, SamePairs, TypeOK

LEMMA RefusedSamePairs ==
  ASSUME TypeOK, Mutual, NEW p \in Players, RefusedForMoney(p)
  PROVE  TypeOK' /\ SamePairs
<1>1. Trading(p) /\ Partner(p) \in Players
  BY DEF RefusedForMoney, Mutual
<1>2. SamePairs
  <2>1. /\ Accepted(p) \in [Players -> TradeData]
        /\ \A r \in Players : Accepted(p)[r].with = trade[r].with
    BY SetAcceptedType DEF Accepted, TypeOK
  <2>2. \/ trade' = [trade EXCEPT ![p].accepted = FALSE]
        \/ trade' = [Accepted(p) EXCEPT ![Partner(p)].accepted = FALSE]
    BY DEF RefusedForMoney
  <2>3. CASE trade' = [trade EXCEPT ![p].accepted = FALSE]
    BY <2>3, SetAcceptedType DEF SamePairs, TypeOK
  <2>4. CASE trade' = [Accepted(p) EXCEPT ![Partner(p)].accepted = FALSE]
    <3> DEFINE f == Accepted(p)
    <3>1. f \in [Players -> TradeData] /\ \A r \in Players : f[r].with = trade[r].with
      BY <2>1
    <3>2. trade' = [f EXCEPT ![Partner(p)].accepted = FALSE]
      BY <2>4
    <3> HIDE DEF f
    <3> DEFINE q == Partner(p)
    <3> HIDE DEF q
    <3>3. q \in Players /\ trade' = [f EXCEPT ![q].accepted = FALSE]
      BY <1>1, <3>2 DEF q
    <3>4. /\ trade' \in [Players -> TradeData]
          /\ \A r \in Players : trade'[r].with = f[r].with
      BY <3>1, <3>3, SetAcceptedType
    <3> QED BY <3>1, <3>4 DEF SamePairs
  <2> QED BY <2>2, <2>3, <2>4
<1>3. agreed' \in [Players -> [give : Offers, get : Offers]]
  BY <1>1, TermsType, NoTermsType DEF RefusedForMoney, TypeOK
<1> QED BY <1>2, <1>3 DEF RefusedForMoney, SamePairs, TypeOK

LEMMA EarnType ==
  ASSUME NEW n \in 0 .. MaxMoney, NEW a \in 0 .. MaxMoney, NEW b \in 0 .. MaxMoney
  PROVE  Earn(Pay(n, a), b) \in 0 .. MaxMoney
  BY NumbersAssumption, SMT DEF Earn, Pay

LEMMA CompleteTradePairInv ==
  ASSUME TypeOK, Mutual, NEW p \in Players, CompleteTrade(p)
  PROVE  TypeOK' /\ Mutual'
<1> DEFINE q == Partner(p)
<1>1. q \in Players /\ q # p /\ Trading(p) /\ trade[q].with = p
  BY DEF CompleteTrade, AcceptSecond, Mutual
<1>2. trade' = [trade EXCEPT ![p] = NoTrade, ![q] = NoTrade]
  BY DEF CompleteTrade
<1>3. NoTrade \in TradeData /\ NoTrade.with = NoPlayer
  BY NewTradeType DEF NoTrade
<1>4. trade' \in [Players -> TradeData]
  BY <1>2, <1>3 DEF TypeOK
<1>5. owner' \in [Items -> Players \cup {NoPlayer}]
  BY <1>1, MoveItemsBetween DEF CompleteTrade, Between
<1>6. money' \in [Players -> 0 .. MaxMoney]
  <2>1. /\ trade[p].money \in 0 .. MaxMoney /\ trade[q].money \in 0 .. MaxMoney
        /\ money[p] \in 0 .. MaxMoney /\ money[q] \in 0 .. MaxMoney
    BY <1>1 DEF TypeOK, TradeData
  <2>2. /\ Earn(Pay(money[p], trade[p].money), trade[q].money) \in 0 .. MaxMoney
        /\ Earn(Pay(money[q], trade[q].money), trade[p].money) \in 0 .. MaxMoney
    BY <2>1, EarnType
  <2>3. money' = [money EXCEPT ![p] = Earn(Pay(money[p], trade[p].money), trade[q].money),
                               ![q] = Earn(Pay(money[q], trade[q].money), trade[p].money)]
    BY <1>1 DEF CompleteTrade
  <2> QED BY <2>2, <2>3 DEF TypeOK
<1>7. agreed' \in [Players -> [give : Offers, get : Offers]]
  BY NoTermsType DEF CompleteTrade, TypeOK
<1>8. tradable' = tradable
  BY DEF CompleteTrade
<1>9. Mutual'
  BY <1>1, <1>2, <1>3, <1>4, PlayersAssumption DEF Mutual, TypeOK
<1> QED BY <1>4, <1>5, <1>6, <1>7, <1>8, <1>9 DEF TypeOK

LEMMA AcceptTradePairInv ==
  ASSUME TypeOK, Mutual, NEW p \in Players, AcceptTrade(p)
  PROVE  TypeOK' /\ Mutual'
<1>1. CASE RefusedForMoney(p)
  BY <1>1, RefusedSamePairs, SamePairsMutual
<1>2. CASE NotTradable(p)
  BY <1>2, AcceptStaysSamePairs, SamePairsMutual DEF NotTradable
<1>3. CASE AcceptFirst(p)
  BY <1>3, AcceptStaysSamePairs, SamePairsMutual DEF AcceptFirst
<1>4. CASE SpellFails(p)
  <2>1. PICK r \in {p, Partner(p)} : Changed(r, [trade[r] EXCEPT !.spell = FALSE])
    BY <1>4 DEF SpellFails
  <2>2. r \in Players /\ Trading(r)
    BY <1>4 DEF SpellFails, AcceptSecond, Mutual
  <2> DEFINE t == [trade[r] EXCEPT !.spell = FALSE]
  <2>3. t \in TradeData /\ t.with = trade[r].with
    BY <2>2 DEF TypeOK, TradeData
  <2> HIDE DEF t
  <2>4. Changed(r, t)
    BY <2>1 DEF t
  <2> QED BY <2>2, <2>3, <2>4, ChangedSamePairs, SamePairsMutual
<1>5. CASE NoFreeSlots(p)
  <2>1. Trading(p) /\ Changed(p, trade[p]) /\ trade[p] \in TradeData
    BY <1>5 DEF NoFreeSlots, AcceptSecond, TypeOK
  <2> QED BY <2>1, ChangedSamePairs, SamePairsMutual
<1>6. CASE CompleteTrade(p)
  BY <1>6, CompleteTradePairInv
<1> QED BY <1>1, <1>2, <1>3, <1>4, <1>5, <1>6 DEF AcceptTrade

LEMMA NextPairInv ==
  ASSUME TypeOK, Mutual, [Next]_vars
  PROVE  TypeOK' /\ Mutual'
<1>1. ASSUME NEW p \in Players, NEW q \in Players, InitiateTrade(p, q)
      PROVE  TypeOK' /\ Mutual'
  <2>1. /\ p # q /\ trade[p].with = NoPlayer /\ trade[q].with = NoPlayer
        /\ trade' = [trade EXCEPT ![p] = NewTrade(q), ![q] = NewTrade(p)]
    BY <1>1 DEF InitiateTrade
  <2>2. /\ NewTrade(q) \in TradeData /\ NewTrade(q).with = q
        /\ NewTrade(p) \in TradeData /\ NewTrade(p).with = p
    BY NewTradeType
  <2>3. trade' \in [Players -> TradeData]
    BY <2>1, <2>2 DEF TypeOK
  <2>4. Mutual'
    BY <2>1, <2>2, PlayersAssumption DEF Mutual, TypeOK
  <2> QED BY <1>1, <2>3, <2>4 DEF InitiateTrade, TypeOK
<1>2. ASSUME NEW p \in Players, SetTerms(p) PROVE TypeOK' /\ Mutual'
  BY <1>2, SetTermsSamePairs, SamePairsMutual
<1>3. ASSUME NEW p \in Players, AcceptTrade(p) PROVE TypeOK' /\ Mutual'
  BY <1>3, AcceptTradePairInv
<1>4. ASSUME NEW p \in Players, UnacceptTrade(p) PROVE TypeOK' /\ Mutual'
  <2>1. SamePairs
    BY <1>4, SetAcceptedType DEF UnacceptTrade, SamePairs, TypeOK
  <2>2. TypeOK'
    BY <1>4, <2>1, NoTermsType DEF UnacceptTrade, SamePairs, TypeOK
  <2> QED BY <2>1, <2>2, SamePairsMutual
<1>5. ASSUME NEW p \in Players, TradeCancel(p) PROVE TypeOK' /\ Mutual'
  <2>1. NoTrade \in TradeData /\ NoTrade.with = NoPlayer
    BY NewTradeType DEF NoTrade
  <2>2. /\ Partner(p) \in Players /\ Partner(p) # p /\ trade[Partner(p)].with = p
        /\ trade' = [trade EXCEPT ![p] = NoTrade, ![Partner(p)] = NoTrade]
    BY <1>5 DEF TradeCancel, Mutual
  <2>3. trade' \in [Players -> TradeData]
    BY <2>1, <2>2 DEF TypeOK
  <2>4. Mutual'
    BY <2>1, <2>2, PlayersAssumption DEF Mutual, TypeOK
  <2> QED BY <1>5, <2>3, <2>4, NoTermsType DEF TradeCancel, TypeOK
<1>6. ASSUME NEW p \in Players, SpendOrEarn(p) PROVE TypeOK' /\ Mutual'
  BY <1>6 DEF SpendOrEarn, TypeOK, Mutual
<1>7. ASSUME NEW i \in Items, UseItem(i) PROVE TypeOK' /\ Mutual'
  BY <1>7 DEF UseItem, TypeOK, Mutual
<1>8. ASSUME NEW i \in Items, ChangeItem(i) PROVE TypeOK' /\ Mutual'
  BY <1>8, PlayersAssumption DEF ChangeItem, TypeOK, Mutual
<1>9. CASE UNCHANGED vars
  BY <1>9 DEF vars, TypeOK, Mutual
<1> QED BY <1>1, <1>2, <1>3, <1>4, <1>5, <1>6, <1>7, <1>8, <1>9 DEF Next

\* Every variable has its type.
THEOREM Typed == Spec => []TypeOK
<1>1. PairInv /\ [Next]_vars => PairInv'
  BY NextPairInv DEF PairInv
<1>2. PairInv => TypeOK
  BY DEF PairInv
<1> QED BY InitPairInv, <1>1, <1>2, PTL DEF Spec

\* Trades are pairs: whoever is in one is in it with exactly one other, who is in
\* it with him, so that deleting both m_trade leaves no pointer behind.
THEOREM TradesArePairs == Spec => []Mutual
<1>1. PairInv /\ [Next]_vars => PairInv'
  BY NextPairInv DEF PairInv
<1>2. PairInv => Mutual
  BY DEF PairInv
<1> QED BY InitPairInv, <1>1, <1>2, PTL DEF Spec

-----------------------------------------------------------------------------
(* Money.                                                                  *)

GoldStep == \A p, q \in Players : Ends(p, q) => money'[p] + money'[q] = money[p] + money[q]

LEMMA ExchangeKeepsGold ==
  ASSUME NEW a \in 0 .. MaxMoney, NEW b \in 0 .. MaxMoney,
         NEW m \in 0 .. MaxMoney, NEW n \in 0 .. MaxMoney,
         a >= m, b >= n, a < MaxMoney - n, b < MaxMoney - m
  PROVE  Earn(Pay(a, m), n) + Earn(Pay(b, n), m) = a + b
<1>1. Pay(a, m) = a - m /\ Pay(b, n) = b - n
  BY SMT DEF Pay
<1>2. Earn(a - m, n) = a - m + n /\ Earn(b - n, m) = b - n + m
  BY NumbersAssumption, SMT DEF Earn
<1>3. a - m + n + (b - n + m) = a + b
  BY NumbersAssumption, SMT
<1> QED BY <1>1, <1>2, <1>3

LEMMA CompleteTradeKeepsGold ==
  ASSUME TypeOK, Mutual, NEW r \in Players, CompleteTrade(r)
  PROVE  GoldStep
<1> DEFINE s == Partner(r)
<1>1. /\ s \in Players /\ s # r /\ trade[r].with = s /\ trade[s].with = r
      /\ r # NoPlayer /\ s # NoPlayer
  BY PlayersAssumption DEF CompleteTrade, AcceptSecond, Mutual
<1>2. /\ money[r] \in 0 .. MaxMoney /\ money[s] \in 0 .. MaxMoney
      /\ trade[r].money \in 0 .. MaxMoney /\ trade[s].money \in 0 .. MaxMoney
  BY <1>1 DEF TypeOK, TradeData
<1>3. /\ money[r] >= trade[r].money /\ money[s] >= trade[s].money
      /\ money[r] < MaxMoney - trade[s].money /\ money[s] < MaxMoney - trade[r].money
  BY <1>1 DEF CompleteTrade, AcceptSecond, MoneyFits, Affordable, Holdable
<1>4. /\ money'[r] = Earn(Pay(money[r], trade[r].money), trade[s].money)
      /\ money'[s] = Earn(Pay(money[s], trade[s].money), trade[r].money)
  BY <1>1 DEF CompleteTrade, TypeOK
<1>5. money'[r] + money'[s] = money[r] + money[s]
  BY <1>2, <1>3, <1>4, ExchangeKeepsGold
<1>6. ASSUME NEW p \in Players, NEW q \in Players, Ends(p, q)
      PROVE  (p = r /\ q = s) \/ (p = s /\ q = r)
  <2>1. trade' = [trade EXCEPT ![r] = NoTrade, ![s] = NoTrade]
    BY DEF CompleteTrade
  <2>2. trade[p].with # NoPlayer /\ trade'[p] = NoTrade /\ trade[p].with = q
    BY <1>6 DEF Ends
  <2>3. NoTrade.with = NoPlayer
    BY NewTradeType DEF NoTrade
  <2>4. p \in {r, s}
    BY <2>1, <2>2, <2>3 DEF TypeOK
  <2> QED BY <1>1, <2>2, <2>4
<1>7. money'[s] + money'[r] = money[s] + money[r]
  <2>1. money'[r] \in Int /\ money'[s] \in Int
    <3>1. money'[r] \in 0 .. MaxMoney /\ money'[s] \in 0 .. MaxMoney
      BY <1>2, <1>4, EarnType
    <3> QED BY <3>1, NumbersAssumption, SMT
  <2> QED BY <1>2, <1>5, <2>1, NumbersAssumption, SMT
<1> QED BY <1>5, <1>6, <1>7 DEF GoldStep

LEMMA NextKeepsGold ==
  ASSUME TypeOK, Mutual, [Next]_vars
  PROVE  GoldStep
<1>1. ASSUME NEW r \in Players, CompleteTrade(r) PROVE GoldStep
  BY <1>1, CompleteTradeKeepsGold
<1>2. ASSUME money' = money PROVE GoldStep
  BY <1>2 DEF GoldStep
<1>3. ASSUME trade' = trade PROVE GoldStep
  <2>1. NoTrade.with = NoPlayer
    BY NewTradeType DEF NoTrade
  <2> QED BY <1>3, <2>1 DEF GoldStep, Ends
<1>4. ASSUME NEW p \in Players, AcceptTrade(p) PROVE money' = money \/ CompleteTrade(p)
  BY <1>4 DEF AcceptTrade, RefusedForMoney, NotTradable, AcceptFirst, AcceptStays,
              SpellFails, NoFreeSlots, Changed
<1>5. ASSUME NEW p \in Players, SetTerms(p) PROVE money' = money
  BY <1>5 DEF SetTerms, SetMoney, Changed, ClearTradeItem, SetTradeItem, SetItem, SetSpell
<1>6. ASSUME NEW p \in Players,
             \/ \E q \in Players : InitiateTrade(p, q)
             \/ UnacceptTrade(p) \/ TradeCancel(p)
      PROVE  money' = money
  BY <1>6 DEF InitiateTrade, UnacceptTrade, TradeCancel
<1>7. ASSUME NEW p \in Players, SpendOrEarn(p) PROVE trade' = trade
  BY <1>7 DEF SpendOrEarn
<1>8. ASSUME NEW i \in Items, UseItem(i) \/ ChangeItem(i) PROVE money' = money
  BY <1>8 DEF UseItem, ChangeItem
<1>9. ASSUME UNCHANGED vars PROVE money' = money
  BY <1>9 DEF vars
<1> QED BY <1>1, <1>2, <1>3, <1>4, <1>5, <1>6, <1>7, <1>8, <1>9 DEF Next

\* A trade neither makes nor destroys money, in whatever order the two have
\* accepted and whatever they have spent and earned since.
THEOREM TradesConserveGold == Spec => GoldConserved
<1>1. PairInv /\ [Next]_vars => PairInv'
  BY NextPairInv DEF PairInv
<1>2. PairInv /\ [Next]_vars => [GoldStep]_vars
  BY NextKeepsGold DEF PairInv
<1>3. GoldConserved <=> [][GoldStep]_vars
  BY DEF GoldConserved, GoldStep
<1> QED BY InitPairInv, <1>1, <1>2, <1>3, PTL DEF Spec

-----------------------------------------------------------------------------
(* Acceptances.                                                            *)

OfferIs(r, o) == trade[r].money = o.money /\ Goods(r) = {i \in o.goods : owner[i] = r}

\* AcceptanceCurrent for one player, with the offers taken apart.
Current(r) ==
  trade[r].accepted =>
    Trading(r) /\ OfferIs(r, agreed[r].give) /\ OfferIs(Partner(r), agreed[r].get)
AllCurrent == \A r \in Players : Current(r)

LEMMA CurrentIsAcceptanceCurrent ==
  ASSUME TypeOK, AllCurrent
  PROVE  AcceptanceCurrent
<1> SUFFICES ASSUME NEW p \in Players, trade[p].accepted
    PROVE  Terms(p) = [give |-> StillHeld(p, agreed[p].give),
                       get  |-> StillHeld(Partner(p), agreed[p].get)]
  BY DEF AcceptanceCurrent
<1>1. ASSUME NEW r, NEW o \in Offers, OfferIs(r, o) PROVE Offer(r) = StillHeld(r, o)
  BY <1>1, SMT DEF OfferIs, Offer, StillHeld, Offers
<1>2. agreed[p].give \in Offers /\ agreed[p].get \in Offers
  BY DEF TypeOK
<1>3. OfferIs(p, agreed[p].give) /\ OfferIs(Partner(p), agreed[p].get)
  BY DEF AllCurrent, Current
<1> QED BY <1>1, <1>2, <1>3 DEF Terms

LEMMA GoodsMembers ==
  ASSUME NEW r
  PROVE  Goods(r) = {i \in Items : /\ owner[i] = r
                                   /\ \E s \in 0 .. TradedSlots - 1 : trade[r].items[s] = i}
  BY PlayersAssumption DEF Goods, GetItem

LEMMA GoodsMembersPrime ==
  ASSUME NEW r
  PROVE  Goods(r)' = {i \in Items : /\ owner'[i] = r
                                    /\ \E s \in 0 .. TradedSlots - 1 : trade'[r].items[s] = i}
  BY PlayersAssumption DEF Goods, GetItem

\* r's offer stays, but for items he has no longer.
SameOffer(r) ==
  /\ trade'[r].items = trade[r].items /\ trade'[r].money = trade[r].money
  /\ \A i \in Items : owner'[i] = r => owner[i] = r

LEMMA OfferKept ==
  ASSUME NEW r, NEW o \in Offers, OfferIs(r, o), SameOffer(r)
  PROVE  trade'[r].money = o.money /\ Goods(r)' = {i \in o.goods : owner'[i] = r}
<1>1. Goods(r)' = {i \in Goods(r) : owner'[i] = r}
  BY GoodsMembers, GoodsMembersPrime DEF SameOffer
<1>2. o.goods \subseteq Items
  BY DEF Offers
<1> QED BY <1>1, <1>2 DEF OfferIs, SameOffer

LEMMA CurrentKept ==
  ASSUME TypeOK, Mutual, AllCurrent, NEW r \in Players, trade[r].accepted,
         SameOffer(r), SameOffer(Partner(r)),
         trade'[r].with = trade[r].with, agreed'[r] = agreed[r]
  PROVE  Current(r)'
<1>1. agreed[r].give \in Offers /\ agreed[r].get \in Offers
  BY DEF TypeOK
<1>2. Trading(r) /\ OfferIs(r, agreed[r].give) /\ OfferIs(Partner(r), agreed[r].get)
  BY DEF AllCurrent, Current
<1>3. OfferIs(r, agreed[r].give)'
  BY <1>1, <1>2, OfferKept DEF OfferIs
<1>4. OfferIs(Partner(r), agreed[r].get)'
  <2> DEFINE q == Partner(r)
  <2>1. trade'[q].money = agreed[r].get.money
        /\ Goods(q)' = {i \in agreed[r].get.goods : owner'[i] = q}
    BY <1>1, <1>2, OfferKept
  <2> QED BY <2>1 DEF OfferIs, Goods, GetItem
<1> QED BY <1>2, <1>3, <1>4 DEF Current

\* Nothing but p's and q's trade and property changes.
OnlyPair(p, q) ==
  /\ \A r \in Players \ {p, q} : trade'[r] = trade[r] /\ agreed'[r] = agreed[r]
  /\ \A i \in Items : owner'[i] \in Players \ {p, q} => owner[i] = owner'[i]

LEMMA OthersCurrent ==
  ASSUME TypeOK, Mutual, AllCurrent, NEW p \in Players, NEW q \in Players, OnlyPair(p, q),
         NEW r \in Players \ {p, q}, trade[r].with \notin {p, q}
  PROVE  Current(r)'
<1>1. CASE ~trade[r].accepted
  BY <1>1 DEF OnlyPair, Current
<1>2. CASE trade[r].accepted
  <2>1. Partner(r) \in Players \ {p, q}
    BY <1>2 DEF AllCurrent, Current, Mutual
  <2>2. SameOffer(r) /\ SameOffer(Partner(r))
    BY <2>1 DEF OnlyPair, SameOffer
  <2> QED BY <1>2, <2>2, CurrentKept DEF OnlyPair
<1> QED BY <1>1, <1>2

LEMMA PairWithdrawn ==
  ASSUME TypeOK, Mutual, AllCurrent, NEW p \in Players, NEW q \in Players,
         q = Partner(p), OnlyPair(p, q), ~trade'[p].accepted, ~trade'[q].accepted
  PROVE  AllCurrent'
<1>1. trade[q].with = p
  BY PlayersAssumption DEF Mutual
<1>2. ASSUME NEW r \in Players \ {p, q} PROVE Current(r)'
  <2>1. trade[r].with \notin {p, q}
    BY <1>1, PlayersAssumption DEF Mutual
  <2> QED BY <1>1, <2>1, OthersCurrent
<1>3. Current(p)' /\ Current(q)'
  BY DEF Current
<1> QED BY <1>2, <1>3 DEF AllCurrent

LEMMA ChangedCurrent ==
  ASSUME TypeOK, Mutual, AllCurrent, NEW p \in Players, Trading(p),
         NEW t \in TradeData, Changed(p, t)
  PROVE  AllCurrent'
<1> DEFINE q == Partner(p)
<1>1. q \in Players /\ q # p
  BY DEF Mutual
<1>2. ~trade'[p].accepted /\ ~trade'[q].accepted
  <2>1. trade' = [trade EXCEPT ![p] = Withdrawn(t), ![q] = Withdrawn(trade[q])]
    BY <1>1 DEF Changed, TypeOK
  <2>2. ~Withdrawn(t).accepted /\ ~Withdrawn(trade[q]).accepted
    BY <1>1 DEF Withdrawn, TypeOK, TradeData
  <2> QED BY <1>1, <2>1, <2>2 DEF TypeOK
<1>3. OnlyPair(p, q)
  BY DEF Changed, OnlyPair, TypeOK
<1> QED BY <1>1, <1>2, <1>3, PairWithdrawn

LEMMA SetItemCurrent ==
  ASSUME TypeOK, Mutual, AllCurrent, NEW p \in Players, Trading(p),
         NEW s \in Slots, NEW i \in Items \cup {NoItem}, SetItem(p, s, i)
  PROVE  AllCurrent'
<1> DEFINE q == Partner(p)
           t == [trade[p] EXCEPT !.items[s] = i, !.spell = FALSE]
           u == [trade[q] EXCEPT !.spell = @ /\ s # NonTraded]
<1>1. q \in Players /\ q # p
  BY DEF Mutual
<1>2. ~trade'[p].accepted /\ ~trade'[q].accepted
  <2>1. trade' = [trade EXCEPT ![p] = Withdrawn(t), ![q] = Withdrawn(u)]
    BY DEF SetItem
  <2>2. t \in TradeData /\ u \in TradeData
    <3>1. t \in TradeData
      BY ItemsTradeData DEF TypeOK
    <3>2. u \in TradeData
      <4>1. trade[q] \in TradeData
        BY <1>1 DEF TypeOK
      <4>2. (trade[q].spell /\ s # NonTraded) \in BOOLEAN
        OBVIOUS
      <4> QED BY <4>1, <4>2, SpellTradeData
    <3> QED BY <3>1, <3>2
  <2> HIDE DEF t, u
  <2>3. ~Withdrawn(t).accepted /\ ~Withdrawn(u).accepted
    BY <2>2 DEF Withdrawn, TradeData
  <2> QED BY <1>1, <2>1, <2>3 DEF TypeOK
<1>3. OnlyPair(p, q)
  <2> HIDE DEF t, u
  <2>1. trade' = [trade EXCEPT ![p] = Withdrawn(t), ![q] = Withdrawn(u)]
    BY DEF SetItem, t, u
  <2> QED BY <2>1 DEF SetItem, OnlyPair, TypeOK
<1> QED BY <1>1, <1>2, <1>3, PairWithdrawn

LEMMA SetTermsCurrent ==
  ASSUME TypeOK, Mutual, AllCurrent, NEW p \in Players, SetTerms(p)
  PROVE  AllCurrent'
<1>1. ASSUME NEW m \in 0 .. MaxMoney, SetMoney(p, m) PROVE AllCurrent'
  <2>1. [trade[p] EXCEPT !.money = m] \in TradeData
    BY DEF TypeOK, TradeData
  <2> QED BY <1>1, <2>1, ChangedCurrent DEF SetMoney
<1>2. ASSUME NEW s \in Slots, ClearTradeItem(p, s) PROVE AllCurrent'
  BY <1>2, SetItemCurrent DEF ClearTradeItem
<1>3. ASSUME NEW s \in Slots, NEW i \in Items, SetTradeItem(p, s, i) PROVE AllCurrent'
  BY <1>3, SetItemCurrent DEF SetTradeItem
<1>4. ASSUME SetSpell(p) PROVE AllCurrent'
  <2>1. [trade[p] EXCEPT !.spell = TRUE] \in TradeData
    BY DEF TypeOK, TradeData
  <2> QED BY <1>4, <2>1, ChangedCurrent DEF SetSpell
<1> QED BY <1>1, <1>2, <1>3, <1>4 DEF SetTerms

\* No term changes, and whoever has accepted has before, or accepts the terms now.
TermsStay ==
  /\ owner' = owner
  /\ \A r \in Players : /\ trade'[r].items = trade[r].items
                        /\ trade'[r].money = trade[r].money
                        /\ trade'[r].with = trade[r].with
  /\ \A r \in Players : trade'[r].accepted =>
       \/ trade[r].accepted /\ agreed'[r] = agreed[r]
       \/ Trading(r) /\ agreed'[r] = Terms(r)

LEMMA TermsStayCurrent ==
  ASSUME TypeOK, Mutual, AllCurrent, TermsStay
  PROVE  AllCurrent'
<1> SUFFICES ASSUME NEW r \in Players, trade'[r].accepted PROVE Current(r)'
  BY DEF AllCurrent, Current
<1>1. ASSUME NEW x \in Players PROVE SameOffer(x)
  BY DEF TermsStay, SameOffer
<1>2. CASE trade[r].accepted /\ agreed'[r] = agreed[r]
  <2>1. Partner(r) \in Players
    BY <1>2 DEF AllCurrent, Current, Mutual
  <2> QED BY <1>1, <1>2, <2>1, CurrentKept DEF TermsStay
<1>3. CASE Trading(r) /\ agreed'[r] = Terms(r)
  <2>1. PICK q \in Players : q = trade[r].with
    BY <1>3 DEF Mutual
  <2>2. /\ agreed'[r].give = Offer(r) /\ agreed'[r].get = Offer(q)
        /\ trade'[r].with = q
    BY <1>3, <2>1 DEF Terms, TermsStay
  <2>3. ASSUME NEW x \in Players PROVE OfferIs(x, Offer(x))' /\ Offer(x)' = Offer(x)
    <3>1. Goods(x)' = Goods(x)
      BY DEF Goods, GetItem, TermsStay
    <3>2. Goods(x) = {i \in Goods(x) : owner'[i] = x}
      BY GoodsMembers DEF TermsStay
    <3>3. Offer(x).money = trade[x].money /\ Offer(x).goods = Goods(x)
      BY DEF Offer
    <3>4. trade'[x].money = Offer(x).money /\ Goods(x)' = {i \in Offer(x).goods : owner'[i] = x}
      BY <3>1, <3>2, <3>3 DEF TermsStay
    <3>5. Offer(x)' = Offer(x)
      BY <3>1 DEF Offer, TermsStay
    <3> QED BY <3>4, <3>5 DEF OfferIs
  <2>4. Offer(r)' = Offer(r) /\ Offer(q)' = Offer(q)
    BY <2>3
  <2>5. OfferIs(r, agreed[r].give)' /\ OfferIs(q, agreed[r].get)'
    BY <2>2, <2>3, <2>4
  <2>6. OfferIs(Partner(r), agreed[r].get)'
    BY <2>2, <2>5
  <2> QED BY <1>3, <2>5, <2>6 DEF Current, TermsStay
<1> QED BY <1>2, <1>3 DEF TermsStay

Yes(f, p) == [f EXCEPT ![p].accepted = TRUE]
No(f, p) == [f EXCEPT ![p].accepted = FALSE]

\* The same terms in f and g, and the same acceptances but for p's.
SameBut(f, g, p) ==
  \A r \in Players : /\ g[r].items = f[r].items /\ g[r].money = f[r].money
                     /\ g[r].with = f[r].with
                     /\ r # p => g[r].accepted = f[r].accepted

LEMMA YesNo ==
  ASSUME NEW f \in [Players -> TradeData], NEW p \in Players
  PROVE  SameBut(f, Yes(f, p), p) /\ SameBut(f, No(f, p), p) /\ ~No(f, p)[p].accepted
<1>1. SameBut(f, Yes(f, p), p)
  <2> DEFINE t == [f[p] EXCEPT !.accepted = TRUE]
  <2>1. Yes(f, p) = [f EXCEPT ![p] = t]
    BY DEF Yes
  <2>2. /\ t.items = f[p].items /\ t.money = f[p].money /\ t.with = f[p].with
        /\ t.accepted = TRUE
    BY DEF TradeData
  <2> HIDE DEF t
  <2> QED BY <2>1, <2>2 DEF SameBut
<1>2. SameBut(f, No(f, p), p) /\ ~No(f, p)[p].accepted
  <2> DEFINE t == [f[p] EXCEPT !.accepted = FALSE]
  <2>1. No(f, p) = [f EXCEPT ![p] = t]
    BY DEF No
  <2>2. /\ t.items = f[p].items /\ t.money = f[p].money /\ t.with = f[p].with
        /\ t.accepted = FALSE
    BY DEF TradeData
  <2> HIDE DEF t
  <2> QED BY <2>1, <2>2 DEF SameBut
<1> QED BY <1>1, <1>2

LEMMA AcceptStaysCurrent ==
  ASSUME TypeOK, Mutual, AllCurrent, NEW p \in Players, Trading(p), AcceptStays(p)
  PROVE  AllCurrent'
<1>1. trade' = Yes(trade, p)
  BY DEF AcceptStays, Accepted, Yes
<1>2. SameBut(trade, trade', p)
  BY <1>1, YesNo DEF TypeOK
<1>3. TermsStay
  BY <1>2 DEF AcceptStays, SameBut, TermsStay, TypeOK
<1> QED BY <1>3, TermsStayCurrent

LEMMA RefusedCurrent ==
  ASSUME TypeOK, Mutual, AllCurrent, NEW p \in Players, RefusedForMoney(p)
  PROVE  AllCurrent'
<1>1. PICK q \in Players : q = Partner(p) /\ q # p
  BY DEF RefusedForMoney, Mutual
<1>2. CASE /\ trade' = [trade EXCEPT ![p].accepted = FALSE]
           /\ agreed' = [agreed EXCEPT ![p] = NoTerms]
  <2>1. trade' = No(trade, p)
    BY <1>2 DEF No
  <2>2. SameBut(trade, trade', p) /\ ~trade'[p].accepted
    BY <2>1, YesNo DEF TypeOK
  <2>3. TermsStay
    BY <1>2, <2>2 DEF RefusedForMoney, SameBut, TermsStay, TypeOK
  <2> QED BY <2>3, TermsStayCurrent
<1>3. CASE /\ trade' = [Accepted(p) EXCEPT ![q].accepted = FALSE]
           /\ agreed' = [agreed EXCEPT ![p] = Terms(p), ![q] = NoTerms]
  <2> DEFINE f == Accepted(p)
  <2>1. f \in [Players -> TradeData]
    BY SetAcceptedType DEF Accepted, TypeOK
  <2>2. f = Yes(trade, p)
    BY DEF Accepted, Yes
  <2>3. trade' = No(f, q)
    BY <1>3 DEF No
  <2> HIDE DEF f
  <2>4. SameBut(trade, f, p)
    BY <2>2, YesNo DEF TypeOK
  <2>5. SameBut(f, trade', q) /\ ~trade'[q].accepted
    BY <1>1, <2>1, <2>3, YesNo DEF RefusedForMoney, Mutual
  <2>6. TermsStay
    BY <1>1, <1>3, <2>4, <2>5 DEF RefusedForMoney, SameBut, TermsStay, TypeOK
  <2> QED BY <2>6, TermsStayCurrent
<1> QED BY <1>1, <1>2, <1>3 DEF RefusedForMoney

LEMMA EndsCurrent ==
  ASSUME TypeOK, Mutual, AllCurrent, NEW p \in Players, CompleteTrade(p) \/ TradeCancel(p)
  PROVE  AllCurrent'
<1>1. PICK q \in Players : q = Partner(p) /\ q # p
  BY DEF CompleteTrade, AcceptSecond, TradeCancel, Mutual
<1>2. /\ trade' = [trade EXCEPT ![p] = NoTrade, ![q] = NoTrade]
      /\ agreed' = [agreed EXCEPT ![p] = NoTerms, ![q] = NoTerms]
  BY <1>1 DEF CompleteTrade, TradeCancel
<1>3. ~NoTrade.accepted
  BY DEF NoTrade, NewTrade
<1>4. ~trade'[p].accepted /\ ~trade'[q].accepted
  BY <1>2, <1>3 DEF TypeOK
<1>5. ASSUME NEW i \in Items, owner'[i] \in Players \ {p, q} PROVE owner[i] = owner'[i]
  <2>1. CASE owner' = owner
    BY <2>1
  <2>2. CASE owner' = MoveItems(p, q)
    BY <1>5, <2>2, PlayersAssumption, MoveItemsBetween DEF Between
  <2> QED BY <1>1, <2>1, <2>2 DEF CompleteTrade, TradeCancel
<1>6. OnlyPair(p, q)
  BY <1>2, <1>5 DEF OnlyPair, TypeOK
<1> QED BY <1>1, <1>4, <1>6, PairWithdrawn

LEMMA NextCurrent ==
  ASSUME TypeOK, Mutual, AllCurrent, [Next]_vars
  PROVE  AllCurrent'
<1>1. ASSUME NEW p \in Players, NEW q \in Players, InitiateTrade(p, q)
      PROVE  AllCurrent'
  <2>1. /\ trade[p].with = NoPlayer /\ trade[q].with = NoPlayer
        /\ trade' = [trade EXCEPT ![p] = NewTrade(q), ![q] = NewTrade(p)]
        /\ agreed' = agreed /\ owner' = owner
    BY <1>1 DEF InitiateTrade
  <2>2. ~trade'[p].accepted /\ ~trade'[q].accepted
    BY <1>1, <2>1 DEF InitiateTrade, NewTrade, TypeOK
  <2>3. OnlyPair(p, q)
    BY <2>1 DEF OnlyPair, TypeOK
  <2>4. ASSUME NEW r \in Players \ {p, q} PROVE Current(r)'
    <3>1. trade[r].with \notin {p, q}
      BY <2>1, PlayersAssumption DEF Mutual
    <3> QED BY <2>3, <3>1, OthersCurrent
  <2>5. Current(p)' /\ Current(q)'
    BY <2>2 DEF Current
  <2> QED BY <2>4, <2>5 DEF AllCurrent
<1>2. ASSUME NEW p \in Players, SetTerms(p) PROVE AllCurrent'
  BY <1>2, SetTermsCurrent
<1>3. ASSUME NEW p \in Players, AcceptTrade(p) PROVE AllCurrent'
  <2>1. CASE RefusedForMoney(p)
    BY <2>1, RefusedCurrent
  <2>2. CASE NotTradable(p)
    BY <2>2, AcceptStaysCurrent DEF NotTradable
  <2>3. CASE AcceptFirst(p)
    BY <2>3, AcceptStaysCurrent DEF AcceptFirst
  <2>4. CASE SpellFails(p)
    <3>1. PICK r \in {p, Partner(p)} : Changed(r, [trade[r] EXCEPT !.spell = FALSE])
      BY <2>4 DEF SpellFails
    <3>2. r \in Players /\ Trading(r)
      BY <2>4 DEF SpellFails, AcceptSecond, Mutual
    <3>3. [trade[r] EXCEPT !.spell = FALSE] \in TradeData
      BY <3>2 DEF TypeOK, TradeData
    <3> QED BY <3>1, <3>2, <3>3, ChangedCurrent
  <2>5. CASE NoFreeSlots(p)
    BY <2>5, ChangedCurrent DEF NoFreeSlots, AcceptSecond, TypeOK
  <2>6. CASE CompleteTrade(p)
    BY <2>6, EndsCurrent
  <2> QED BY <1>3, <2>1, <2>2, <2>3, <2>4, <2>5, <2>6 DEF AcceptTrade
<1>4. ASSUME NEW p \in Players, UnacceptTrade(p) PROVE AllCurrent'
  <2>1. trade' = No(trade, p)
    BY <1>4 DEF UnacceptTrade, No
  <2>2. SameBut(trade, trade', p) /\ ~trade'[p].accepted
    BY <2>1, YesNo DEF TypeOK
  <2>3. TermsStay
    BY <1>4, <2>2 DEF UnacceptTrade, SameBut, TermsStay, TypeOK
  <2> QED BY <2>3, TermsStayCurrent
<1>5. ASSUME NEW p \in Players, TradeCancel(p) PROVE AllCurrent'
  BY <1>5, EndsCurrent
<1>6. ASSUME UNCHANGED <<trade, owner, agreed>> PROVE AllCurrent'
  BY <1>6, TermsStayCurrent DEF TermsStay
<1>7. ASSUME NEW i \in Items, UseItem(i) PROVE AllCurrent'
  <2> SUFFICES ASSUME NEW r \in Players, trade[r].accepted PROVE Current(r)'
    BY <1>7 DEF UseItem, AllCurrent, Current
  <2>1. Partner(r) \in Players
    BY DEF AllCurrent, Current, Mutual
  <2>2. ASSUME NEW x \in Players PROVE SameOffer(x)
    BY <1>7, PlayersAssumption DEF UseItem, SameOffer, TypeOK
  <2> QED BY <1>7, <2>1, <2>2, CurrentKept DEF UseItem
<1>8. ASSUME NEW p \in Players, SpendOrEarn(p) PROVE UNCHANGED <<trade, owner, agreed>>
  BY <1>8 DEF SpendOrEarn
<1>9. ASSUME NEW i \in Items, ChangeItem(i) PROVE UNCHANGED <<trade, owner, agreed>>
  BY <1>9 DEF ChangeItem
<1>10. ASSUME UNCHANGED vars PROVE UNCHANGED <<trade, owner, agreed>>
  BY <1>10 DEF vars
<1> QED BY <1>1, <1>2, <1>3, <1>4, <1>5, <1>6, <1>7, <1>8, <1>9, <1>10 DEF Next

\* Whoever counts as having accepted has accepted the terms as they are now, but
\* for items gone since: on no path does an acceptance survive a change.
THEOREM AcceptancesAreCurrent == Spec => []AcceptanceCurrent
<1> DEFINE Inv == PairInv /\ AllCurrent
<1>1. Init => Inv
  <2>1. Init => AllCurrent
    BY DEF Init, AllCurrent, Current, NoTrade, NewTrade
  <2> QED BY <2>1, InitPairInv
<1>2. Inv /\ [Next]_vars => Inv'
  BY NextPairInv, NextCurrent DEF PairInv
<1>3. Inv => AcceptanceCurrent
  BY CurrentIsAcceptanceCurrent DEF PairInv
<1> QED BY <1>1, <1>2, <1>3, PTL DEF Spec

-----------------------------------------------------------------------------
(* No item lies in two slots.                                              *)

Apart(its) == \A s, t \in Slots : s # t /\ its[s] # NoItem => its[s] # its[t]
AllApart == \A r \in Players : Apart(trade[r].items)

NoItems == [s \in Slots |-> NoItem]

LEMMA NoItemsApart == Apart(NoItems)
BY DEF Apart, NoItems

LEMMA ItemApart ==
  ASSUME NEW its \in [Slots -> Items \cup {NoItem}], Apart(its), NEW s \in Slots,
         NEW i, i = NoItem \/ \A t \in Slots : its[t] # i
  PROVE  Apart([its EXCEPT ![s] = i])
BY DEF Apart

\* In every slot of everybody lies what lay there, or nothing any more.
ItemsStay == \A r \in Players : trade'[r].items \in {trade[r].items, NoItems}

LEMMA StayApart ==
  ASSUME AllApart, ItemsStay
  PROVE  AllApart'
BY NoItemsApart DEF AllApart, ItemsStay, Apart

LEMMA ChangedStay ==
  ASSUME TypeOK, Mutual, NEW p \in Players, Trading(p),
         NEW t \in TradeData, t.items = trade[p].items, Changed(p, t)
  PROVE  ItemsStay
<1> DEFINE q == Partner(p)
<1>1. q \in Players /\ q # p
  BY DEF Mutual
<1>2. trade' = [trade EXCEPT ![p] = Withdrawn(t), ![q] = Withdrawn(trade[q])]
  BY <1>1 DEF Changed, TypeOK
<1>3. Withdrawn(t).items = trade[p].items
  BY DEF Withdrawn, TradeData
<1>4. Withdrawn(trade[q]).items = trade[q].items
  BY <1>1 DEF Withdrawn, TypeOK, TradeData
<1> QED BY <1>1, <1>2, <1>3, <1>4 DEF ItemsStay, TypeOK

LEMMA SetItemApart ==
  ASSUME TypeOK, Mutual, AllApart, NEW p \in Players, Trading(p), NEW s \in Slots,
         NEW i \in Items \cup {NoItem}, SetItem(p, s, i),
         i = NoItem \/ \A r \in Slots : trade[p].items[r] # i
  PROVE  AllApart'
<1> DEFINE q == Partner(p)
           its == [trade[p].items EXCEPT ![s] = i]
           t == [trade[p] EXCEPT !.items[s] = i, !.spell = FALSE]
           u == [trade[q] EXCEPT !.spell = @ /\ s # NonTraded]
<1>1. q \in Players /\ q # p
  BY DEF Mutual
<1>2. trade' = [trade EXCEPT ![p] = Withdrawn(t), ![q] = Withdrawn(u)]
  BY DEF SetItem
<1>3. trade[p] \in TradeData /\ trade[q] \in TradeData
  BY <1>1 DEF TypeOK
<1>4. t \in TradeData /\ t.items = its
  <2>1. t \in TradeData
    BY <1>3, ItemsTradeData
  <2>2. t.items = its
    BY <1>3 DEF TradeData
  <2> QED BY <2>1, <2>2
<1>5. u \in TradeData /\ u.items = trade[q].items
  <2>1. (trade[q].spell /\ s # NonTraded) \in BOOLEAN
    OBVIOUS
  <2>2. u \in TradeData
    BY <1>3, <2>1, SpellTradeData
  <2>3. u.items = trade[q].items
    BY <1>3 DEF TradeData
  <2> QED BY <2>2, <2>3
<1>6. trade[p].items \in [Slots -> Items \cup {NoItem}] /\ Apart(trade[p].items)
  BY <1>3 DEF TradeData, AllApart
<1>7. Apart(its)
  BY <1>6, ItemApart
<1> HIDE DEF t, u, its, q
<1>8. Withdrawn(t).items = its /\ Withdrawn(u).items = trade[q].items
  BY <1>4, <1>5 DEF Withdrawn, TradeData
<1>9. trade'[p].items = its /\ \A r \in Players \ {p} : trade'[r].items = trade[r].items
  BY <1>1, <1>2, <1>8 DEF TypeOK
<1> QED BY <1>7, <1>9 DEF AllApart, Apart

LEMMA SetTermsApart ==
  ASSUME TypeOK, Mutual, AllApart, NEW p \in Players, SetTerms(p)
  PROVE  AllApart'
<1>1. ASSUME NEW m \in 0 .. MaxMoney, SetMoney(p, m) PROVE AllApart'
  <2>1. /\ [trade[p] EXCEPT !.money = m] \in TradeData
        /\ [trade[p] EXCEPT !.money = m].items = trade[p].items
    BY DEF TypeOK, TradeData
  <2> QED BY <1>1, <2>1, ChangedStay, StayApart DEF SetMoney
<1>2. ASSUME NEW s \in Slots, ClearTradeItem(p, s) PROVE AllApart'
  BY <1>2, SetItemApart DEF ClearTradeItem
<1>3. ASSUME NEW s \in Slots, NEW i \in Items, SetTradeItem(p, s, i) PROVE AllApart'
  BY <1>3, SetItemApart DEF SetTradeItem
<1>4. ASSUME SetSpell(p) PROVE AllApart'
  <2>1. /\ [trade[p] EXCEPT !.spell = TRUE] \in TradeData
        /\ [trade[p] EXCEPT !.spell = TRUE].items = trade[p].items
    BY DEF TypeOK, TradeData
  <2> QED BY <1>4, <2>1, ChangedStay, StayApart DEF SetSpell
<1> QED BY <1>1, <1>2, <1>3, <1>4 DEF SetTerms

LEMMA RefusedStay ==
  ASSUME TypeOK, Mutual, NEW p \in Players, RefusedForMoney(p)
  PROVE  ItemsStay
<1>1. PICK q \in Players : q = Partner(p)
  BY DEF RefusedForMoney, Mutual
<1>2. CASE trade' = [trade EXCEPT ![p].accepted = FALSE]
  <2>1. trade' = No(trade, p)
    BY <1>2 DEF No
  <2>2. SameBut(trade, trade', p)
    BY <2>1, YesNo DEF TypeOK
  <2> QED BY <2>2 DEF SameBut, ItemsStay
<1>3. CASE trade' = [Accepted(p) EXCEPT ![q].accepted = FALSE]
  <2> DEFINE f == Accepted(p)
  <2>1. f \in [Players -> TradeData]
    BY SetAcceptedType DEF Accepted, TypeOK
  <2>2. f = Yes(trade, p)
    BY DEF Accepted, Yes
  <2>3. trade' = No(f, q)
    BY <1>3 DEF No
  <2> HIDE DEF f
  <2>4. SameBut(trade, f, p)
    BY <2>2, YesNo DEF TypeOK
  <2>5. SameBut(f, trade', q)
    BY <2>1, <2>3, YesNo
  <2> QED BY <2>4, <2>5 DEF SameBut, ItemsStay
<1> QED BY <1>1, <1>2, <1>3 DEF RefusedForMoney

LEMMA AcceptTradeStay ==
  ASSUME TypeOK, Mutual, NEW p \in Players, AcceptTrade(p)
  PROVE  ItemsStay
<1>1. CASE RefusedForMoney(p)
  BY <1>1, RefusedStay
<1>2. CASE NotTradable(p) \/ AcceptFirst(p)
  <2>1. trade' = Yes(trade, p)
    BY <1>2 DEF NotTradable, AcceptFirst, AcceptStays, Accepted, Yes
  <2>2. SameBut(trade, trade', p)
    BY <2>1, YesNo DEF TypeOK
  <2> QED BY <2>2 DEF SameBut, ItemsStay
<1>3. CASE SpellFails(p)
  <2>1. PICK r \in {p, Partner(p)} : Changed(r, [trade[r] EXCEPT !.spell = FALSE])
    BY <1>3 DEF SpellFails
  <2>2. r \in Players /\ Trading(r)
    BY <1>3 DEF SpellFails, AcceptSecond, Mutual
  <2>3. /\ [trade[r] EXCEPT !.spell = FALSE] \in TradeData
        /\ [trade[r] EXCEPT !.spell = FALSE].items = trade[r].items
    BY <2>2 DEF TypeOK, TradeData
  <2> QED BY <2>1, <2>2, <2>3, ChangedStay
<1>4. CASE NoFreeSlots(p)
  BY <1>4, ChangedStay DEF NoFreeSlots, AcceptSecond, TypeOK
<1>5. CASE CompleteTrade(p)
  BY <1>5 DEF CompleteTrade, NoTrade, NewTrade, NoItems, ItemsStay, TypeOK
<1> QED BY <1>1, <1>2, <1>3, <1>4, <1>5 DEF AcceptTrade

LEMMA NextApart ==
  ASSUME TypeOK, Mutual, AllApart, [Next]_vars
  PROVE  AllApart'
<1>1. ASSUME NEW p \in Players, NEW q \in Players, InitiateTrade(p, q) PROVE ItemsStay
  BY <1>1 DEF InitiateTrade, NewTrade, NoItems, ItemsStay, TypeOK
<1>2. ASSUME NEW p \in Players, SetTerms(p) PROVE AllApart'
  BY <1>2, SetTermsApart
<1>3. ASSUME NEW p \in Players, AcceptTrade(p) PROVE ItemsStay
  BY <1>3, AcceptTradeStay
<1>4. ASSUME NEW p \in Players, UnacceptTrade(p) PROVE ItemsStay
  <2>1. trade' = No(trade, p)
    BY <1>4 DEF UnacceptTrade, No
  <2>2. SameBut(trade, trade', p)
    BY <2>1, YesNo DEF TypeOK
  <2> QED BY <2>2 DEF SameBut, ItemsStay
<1>5. ASSUME NEW p \in Players, TradeCancel(p) PROVE ItemsStay
  BY <1>5 DEF TradeCancel, NoTrade, NewTrade, NoItems, ItemsStay, TypeOK
<1>6. ASSUME trade' = trade PROVE ItemsStay
  BY <1>6 DEF ItemsStay
<1>7. ASSUME NEW p \in Players, SpendOrEarn(p) PROVE trade' = trade
  BY <1>7 DEF SpendOrEarn
<1>8. ASSUME NEW i \in Items, UseItem(i) \/ ChangeItem(i) PROVE trade' = trade
  BY <1>8 DEF UseItem, ChangeItem
<1>9. ASSUME UNCHANGED vars PROVE trade' = trade
  BY <1>9 DEF vars
<1> QED BY <1>1, <1>2, <1>3, <1>4, <1>5, <1>6, <1>7, <1>8, <1>9, StayApart DEF Next

-----------------------------------------------------------------------------
(* The exchange, slot by slot: when both can store what they get, every    *)
(* item arrives.                                                           *)

\* What p has put into the first n slots.
First(p, n) == {i \in Items : owner[i] = p /\ \E s \in 0 .. n - 1 : trade[p].items[s] = i}

\* Who has what when the first n slots are exchanged.
SoFar(p, q, n) ==
  [i \in Items |-> IF i \in First(p, n) THEN q
                   ELSE IF i \in First(q, n) THEN p
                   ELSE IF i \in Goods(p) \cup Goods(q) THEN NoPlayer ELSE owner[i]]

LEMMA FirstFacts ==
  ASSUME NEW p \in Players, NEW n \in 0 .. TradedSlots
  PROVE  /\ First(p, n) \subseteq Goods(p) /\ Goods(p) \subseteq Owned(p)
         /\ First(p, 0) = {} /\ First(p, TradedSlots) = Goods(p)
<1>1. Goods(p) = {i \in Items : owner[i] = p /\ \E s \in 0 .. TradedSlots - 1 : trade[p].items[s] = i}
  BY GoodsMembers
<1>2. 0 .. n - 1 \subseteq 0 .. TradedSlots - 1 /\ 0 .. 0 - 1 = {}
  BY NumbersAssumption, SMT
<1> QED BY <1>1, <1>2 DEF First, Owned

LEMMA FirstNext ==
  ASSUME TypeOK, AllApart, NEW p \in Players, NEW n \in 0 .. TradedSlots - 1
  PROVE  /\ First(p, n + 1) = First(p, n) \cup ({GetItem(p, n)} \ {NoItem})
         /\ GetItem(p, n) # NoItem => GetItem(p, n) \in Goods(p) \ First(p, n)
<1>1. /\ 0 .. n + 1 - 1 = 0 .. n - 1 \cup {n} /\ n \notin 0 .. n - 1 /\ n \in Slots
      /\ 0 .. n - 1 \subseteq Slots
  BY NumbersAssumption, SMT DEF Slots
<1>2. First(p, n + 1) = First(p, n) \cup ({GetItem(p, n)} \ {NoItem})
  BY <1>1, PlayersAssumption DEF First, GetItem
<1>3. ASSUME GetItem(p, n) # NoItem PROVE GetItem(p, n) \notin First(p, n)
  <2>1. trade[p].items[n] = GetItem(p, n)
    BY <1>3 DEF GetItem
  <2>2. \A s \in 0 .. n - 1 : trade[p].items[s] # trade[p].items[n]
    BY <1>1, <1>3, <2>1 DEF AllApart, Apart
  <2> QED BY <2>1, <2>2 DEF First
<1> QED BY <1>2, <1>3 DEF Goods

LEMMA SoFarEither ==
  ASSUME NEW p \in Players, NEW q \in Players, p # q, NEW n
  PROVE  SoFar(p, q, n) = SoFar(q, p, n)
BY DEF SoFar, First

LEMMA RoomFor ==
  ASSUME NEW S, NEW G, NEW T \in SUBSET G, NEW x \in G \ T, NEW room \in Nat,
         IsFiniteSet(S), IsFiniteSet(G), S \cap T = {}, Cardinality(S) + Cardinality(G) <= room
  PROVE  Cardinality(S \cup T) < room
<1>1. IsFiniteSet(T) /\ IsFiniteSet(T \cup {x})
  <2>1. T \cup {x} \in SUBSET G
    OBVIOUS
  <2> QED BY <2>1, FS_Subset
<1>2. Cardinality(T \cup {x}) <= Cardinality(G)
  <2>1. T \cup {x} \in SUBSET G
    OBVIOUS
  <2> QED BY <2>1, FS_Subset
<1>3. Cardinality(T \cup {x}) = Cardinality(T) + 1
  BY <1>1, FS_AddElement
<1>4. Cardinality(S \cup T) = Cardinality(S) + Cardinality(T) - Cardinality(S \cap T)
  BY <1>1, FS_Union
<1>5. Cardinality(S \cap T) = 0
  BY FS_EmptySet
<1>6. /\ Cardinality(S) \in Nat /\ Cardinality(T) \in Nat /\ Cardinality(G) \in Nat
  BY <1>1, FS_CardinalityType
<1> QED BY <1>2, <1>3, <1>4, <1>5, <1>6, SMT

LEMMA OnlyOne ==
  ASSUME NEW S, IsFiniteSet(S), Cardinality(S) <= 1, NEW x \in S, NEW y \in S
  PROVE  x = y
<1> SUFFICES ASSUME x # y PROVE FALSE
  OBVIOUS
<1>1. IsFiniteSet({x}) /\ Cardinality({x}) = 1
  BY FS_Singleton
<1>2. Cardinality({x} \cup {y}) = 1 + 1
  BY <1>1, FS_AddElement
<1>3. {x} \cup {y} \in SUBSET S
  OBVIOUS
<1>4. Cardinality({x} \cup {y}) <= Cardinality(S)
  BY <1>3, FS_Subset
<1>5. Cardinality(S) \in Nat
  BY FS_CardinalityType
<1> QED BY <1>2, <1>4, <1>5, SMT

\* Of the items under the limit at most one is given.
OneLimited(p) == Cardinality(Goods(p) \cap Limited) <= 1

\* What lies in p's next slot, q can store when CanStoreItems has found so.
LEMMA NextFits ==
  ASSUME TypeOK, AllApart, NEW p \in Players, NEW q \in Players, p # q,
         CanStoreItems(q, Goods(p)), OneLimited(p), NEW n \in 0 .. TradedSlots - 1
  PROVE  CanStore(SoFar(p, q, n), q, GetItem(p, n))
<1> DEFINE x == GetItem(p, n)
           own == SoFar(p, q, n)
           S == Owned(q) \ Goods(q)
           T == First(p, n)
<1> SUFFICES ASSUME x # NoItem PROVE CanStore(own, q, x)
  BY DEF CanStore
<1>1. n \in 0 .. TradedSlots
  BY NumbersAssumption, SMT
<1>2. T \subseteq Goods(p) /\ x \in Goods(p) \ T /\ Goods(p) \subseteq Owned(p) /\ Goods(q) \subseteq Owned(q)
  BY <1>1, FirstFacts, FirstNext
<1>3. First(q, n) \subseteq Goods(q)
  BY <1>1, FirstFacts
<1>4. {j \in Items : own[j] = q} = S \cup T
  BY <1>2, <1>3, PlayersAssumption DEF SoFar, Owned, First
<1>5. IsFiniteSet(Items) /\ IsFiniteSet(S) /\ IsFiniteSet(Goods(p))
  <2>1. S \in SUBSET Items /\ Goods(p) \in SUBSET Items
    BY <1>2 DEF Owned
  <2> QED BY <2>1, FS_Subset, PlayersAssumption
<1>6. Cardinality({j \in Items : own[j] = q}) < Room[q]
  <2>1. S \cap T = {}
    BY <1>2 DEF Owned
  <2>2. Cardinality(S) + Cardinality(Goods(p)) <= Room[q] /\ Room[q] \in Nat
    BY PlayersAssumption DEF CanStoreItems
  <2> HIDE DEF S, T, x, own
  <2> QED BY <1>2, <1>4, <1>5, <2>1, <2>2, RoomFor
<1>7. ASSUME x \in Limited PROVE Cardinality({j \in Limited : own[j] = q}) < LimitedMax
  <2>1. Cardinality(Owned(q) \cap Limited) < LimitedMax
    BY <1>2, <1>7 DEF CanStoreItems
  <2>2. IsFiniteSet(Goods(p) \cap Limited)
    BY <1>5, FS_Intersection
  <2>3. T \cap Limited = {}
    <3> HIDE DEF T, x
    <3> SUFFICES ASSUME NEW y \in T \cap Limited PROVE FALSE
      OBVIOUS
    <3>1. x \in Goods(p) \cap Limited /\ y \in Goods(p) \cap Limited
      BY <1>2, <1>7
    <3>2. x = y
      BY <2>2, <3>1, OnlyOne DEF OneLimited
    <3> QED BY <1>2, <3>2
  <2>4. Limited \subseteq Items
    BY PlayersAssumption
  <2>5. {j \in Limited : own[j] = q} \in SUBSET (Owned(q) \cap Limited)
    <3> HIDE DEF own, T
    <3> QED BY <1>4, <2>3, <2>4
  <2>6. IsFiniteSet(Owned(q) \cap Limited)
    <3>1. Owned(q) \cap Limited \in SUBSET Items
      BY <2>4
    <3> QED BY <1>5, <3>1, FS_Subset
  <2>7. Cardinality({j \in Limited : own[j] = q}) <= Cardinality(Owned(q) \cap Limited)
    BY <2>5, <2>6, FS_Subset
  <2>8. /\ Cardinality({j \in Limited : own[j] = q}) \in Nat
        /\ Cardinality(Owned(q) \cap Limited) \in Nat
    BY <2>5, <2>6, FS_Subset, FS_CardinalityType
  <2> QED BY <2>1, <2>7, <2>8, PlayersAssumption, SMT
<1> QED BY <1>6, <1>7 DEF CanStore

\* So both items of the slot arrive.
LEMMA NextStored ==
  ASSUME TypeOK, AllApart, NEW p \in Players, NEW q \in Players, p # q,
         CanStoreItems(q, Goods(p)), CanStoreItems(p, Goods(q)), OneLimited(p), OneLimited(q),
         NEW n \in 0 .. TradedSlots - 1
  PROVE  Stored(p, q, SoFar(p, q, n), n + 1) = SoFar(p, q, n + 1)
<1> DEFINE x == GetItem(p, n)
           y == GetItem(q, n)
           own == SoFar(p, q, n)
<1>1. n + 1 - 1 = n /\ n \in 0 .. TradedSlots /\ n + 1 \in 0 .. TradedSlots
  BY NumbersAssumption, SMT
<1>2. CanStore(own, q, x) /\ CanStore(own, p, y)
  <2>1. CanStore(SoFar(q, p, n), p, y)
    BY NextFits
  <2> QED BY <2>1, NextFits, SoFarEither
<1>3. Stored(p, q, own, n + 1) = Give(Give(own, x, q), y, p)
  BY <1>1, <1>2 DEF Stored, MovePair
<1>4. /\ First(p, n + 1) = First(p, n) \cup ({x} \ {NoItem})
      /\ First(q, n + 1) = First(q, n) \cup ({y} \ {NoItem})
      /\ x # NoItem => x \in Goods(p)
      /\ y # NoItem => y \in Goods(q)
  BY FirstNext
<1>5. /\ Goods(p) \subseteq Owned(p) /\ Goods(q) \subseteq Owned(q)
      /\ First(p, n) \subseteq Goods(p) /\ First(q, n) \subseteq Goods(q)
  BY <1>1, FirstFacts
<1>6. /\ Goods(p) \cap Goods(q) = {} /\ Goods(p) \subseteq Items /\ Goods(q) \subseteq Items
  BY <1>5 DEF Owned
<1> HIDE DEF x, y
<1>7. Give(Give(own, x, q), y, p)
        = [i \in Items |-> IF y # NoItem /\ i = y THEN p
                           ELSE IF x # NoItem /\ i = x THEN q ELSE own[i]]
  <2> HIDE DEF own
  <2>1. own = [i \in Items |-> own[i]]
    BY DEF own, SoFar
  <2> QED BY <2>1 DEF Give
<1>8. ASSUME NEW i \in Items
      PROVE  SoFar(p, q, n + 1)[i] = IF y # NoItem /\ i = y THEN p
                                     ELSE IF x # NoItem /\ i = x THEN q ELSE own[i]
  BY <1>4, <1>5, <1>6 DEF SoFar
<1>9. SoFar(p, q, n + 1) = [i \in Items |-> SoFar(p, q, n + 1)[i]]
  BY DEF SoFar
<1> QED BY <1>3, <1>7, <1>8, <1>9

LEMMA AllStored ==
  ASSUME TypeOK, AllApart, NEW p \in Players, NEW q \in Players, p # q,
         CanStoreItems(q, Goods(p)), CanStoreItems(p, Goods(q)), OneLimited(p), OneLimited(q)
  PROVE  MoveItems(p, q) = [i \in Items |-> IF i \in Goods(p) THEN q
                                            ELSE IF i \in Goods(q) THEN p ELSE owner[i]]
<1>1. PICK f : IsMoving(p, q, f, TradedSlots) /\ MoveItems(p, q) = f[TradedSlots]
  BY MoveItemsSteps
<1> DEFINE T == {n \in Nat : n <= TradedSlots => f[n] = SoFar(p, q, n)}
<1>2. 0 \in T
  <2>1. f[0] = Removed(p, q)
    BY <1>1, NumbersAssumption, SMT DEF IsMoving
  <2>2. First(p, 0) = {} /\ First(q, 0) = {}
    <3>1. 0 \in 0 .. TradedSlots
      BY NumbersAssumption, SMT
    <3> QED BY <3>1, FirstFacts
  <2>3. Removed(p, q) = SoFar(p, q, 0)
    BY <2>2 DEF Removed, SoFar
  <2> QED BY <2>1, <2>3
<1>3. ASSUME NEW n \in T PROVE n + 1 \in T
  <2>1. SUFFICES ASSUME n + 1 <= TradedSlots PROVE f[n + 1] = SoFar(p, q, n + 1)
    OBVIOUS
  <2>2. n \in 0 .. TradedSlots - 1 /\ n + 1 \in 0 .. TradedSlots /\ n <= TradedSlots
        /\ n + 1 # 0 /\ n + 1 - 1 = n
    BY <2>1, NumbersAssumption, SMT
  <2>3. f[n + 1] = Stored(p, q, f[n], n + 1)
    BY <1>1, <2>2 DEF IsMoving
  <2>4. f[n] = SoFar(p, q, n)
    BY <2>2
  <2>5. Stored(p, q, SoFar(p, q, n), n + 1) = SoFar(p, q, n + 1)
    BY <2>2, NextStored
  <2> QED BY <2>3, <2>4, <2>5
<1>4. T = Nat
  <2>1. T \in SUBSET Nat
    OBVIOUS
  <2> HIDE DEF T
  <2> QED BY <1>2, <1>3, <2>1, SetInduction
<1>5. f[TradedSlots] = SoFar(p, q, TradedSlots)
  BY <1>4, NumbersAssumption
<1>6. First(p, TradedSlots) = Goods(p) /\ First(q, TradedSlots) = Goods(q)
  <2>1. TradedSlots \in 0 .. TradedSlots
    BY NumbersAssumption, SMT
  <2> QED BY <2>1, FirstFacts
<1> QED BY <1>1, <1>5, <1>6 DEF SoFar

-----------------------------------------------------------------------------
(* The deal.                                                               *)

\* An exchange is what who had accepted before agreed to: the deal of r.
Deal(r) ==
  /\ trade[r].accepted
  /\ {i \in Items : owner[i] = r /\ owner'[i] = Partner(r)} = StillHeld(r, agreed[r].give).goods
  /\ {i \in Items : owner[i] = Partner(r) /\ owner'[i] = r}
       = StillHeld(Partner(r), agreed[r].get).goods
  /\ \A i \in Items : owner[i] # NoPlayer => owner'[i] # NoPlayer
  /\ money'[r] = money[r] - agreed[r].give.money + agreed[r].get.money

DealStep ==
  \A p, q \in Players :
    /\ Ends(p, q)
    /\ \A r \in {p, q} : Cardinality(Goods(r) \cap Limited) <= 1
    => \/ UNCHANGED <<owner, money>>
       \/ \E r \in {p, q} : Deal(r)

LEMMA ExchangeIs ==
  ASSUME NEW a \in 0 .. MaxMoney, NEW m \in 0 .. MaxMoney, NEW n \in 0 .. MaxMoney,
         a >= m, a < MaxMoney - n
  PROVE  Earn(Pay(a, m), n) = a - m + n
BY NumbersAssumption, SMT DEF Earn, Pay

LEMMA CompleteTradeEnds ==
  ASSUME TypeOK, Mutual, NEW r \in Players, CompleteTrade(r),
         NEW p \in Players, NEW q \in Players, Ends(p, q)
  PROVE  {p, q} = {r, Partner(r)}
<1> DEFINE s == Partner(r)
<1>1. /\ s \in Players /\ s # r /\ trade[r].with = s /\ trade[s].with = r
  BY PlayersAssumption DEF CompleteTrade, AcceptSecond, Mutual
<1>2. trade' = [trade EXCEPT ![r] = NoTrade, ![s] = NoTrade]
  BY DEF CompleteTrade
<1>3. trade[p].with # NoPlayer /\ trade'[p] = NoTrade /\ trade[p].with = q
  BY DEF Ends
<1>4. NoTrade.with = NoPlayer
  BY NewTradeType DEF NoTrade
<1>5. p \in {r, s}
  BY <1>2, <1>3, <1>4 DEF TypeOK
<1> QED BY <1>1, <1>3, <1>5

LEMMA CompleteTradeDeal ==
  ASSUME TypeOK, Mutual, AllApart, AllCurrent, NEW p \in Players, CompleteTrade(p),
         OneLimited(p), OneLimited(Partner(p))
  PROVE  Deal(Partner(p))
<1> DEFINE r == Partner(p)
<1>1. /\ r \in Players /\ r # p /\ trade[r].with = p /\ p # NoPlayer /\ r # NoPlayer
      /\ trade[r].accepted
  BY PlayersAssumption DEF CompleteTrade, AcceptSecond, Mutual
<1>2. CanStoreItems(p, Goods(r)) /\ CanStoreItems(r, Goods(p))
  BY DEF CompleteTrade, BothFit
<1>3. owner' = [i \in Items |-> IF i \in Goods(p) THEN r ELSE IF i \in Goods(r) THEN p ELSE owner[i]]
  <2>1. owner' = MoveItems(p, r)
    BY DEF CompleteTrade
  <2> QED BY <1>1, <1>2, <2>1, AllStored
<1>4. OfferIs(r, agreed[r].give) /\ OfferIs(p, agreed[r].get)
  BY <1>1 DEF AllCurrent, Current
<1>5. agreed[r].give \in Offers /\ agreed[r].get \in Offers
  BY <1>1 DEF TypeOK
<1>6. /\ StillHeld(r, agreed[r].give).goods = Goods(r)
      /\ StillHeld(p, agreed[r].get).goods = Goods(p)
  BY <1>4, <1>5 DEF OfferIs, StillHeld, Offers
<1>7. /\ Goods(p) \subseteq {i \in Items : owner[i] = p}
      /\ Goods(r) \subseteq {i \in Items : owner[i] = r}
  BY <1>1, GoodsMembers
<1> HIDE DEF r
<1>8. /\ {i \in Items : owner[i] = r /\ owner'[i] = p} = Goods(r)
      /\ {i \in Items : owner[i] = p /\ owner'[i] = r} = Goods(p)
      /\ \A i \in Items : owner[i] # NoPlayer => owner'[i] # NoPlayer
  BY <1>1, <1>3, <1>7
<1>9. /\ money[r] \in 0 .. MaxMoney /\ trade[r].money \in 0 .. MaxMoney
      /\ trade[p].money \in 0 .. MaxMoney
  BY <1>1 DEF TypeOK, TradeData
<1>10. money[r] >= trade[r].money /\ money[r] < MaxMoney - trade[p].money
  BY <1>1 DEF CompleteTrade, AcceptSecond, MoneyFits, Affordable, Holdable, r
<1>11. money'[r] = Earn(Pay(money[r], trade[r].money), trade[p].money)
  BY <1>1 DEF CompleteTrade, TypeOK, r
<1>12. money'[r] = money[r] - trade[r].money + trade[p].money
  BY <1>9, <1>10, <1>11, ExchangeIs
<1>13. trade[r].money = agreed[r].give.money /\ trade[p].money = agreed[r].get.money
  BY <1>4 DEF OfferIs
<1>14. Deal(r)
  BY <1>1, <1>6, <1>8, <1>12, <1>13 DEF Deal
<1> QED BY <1>14 DEF r

LEMMA NextDeal ==
  ASSUME TypeOK, Mutual, AllApart, AllCurrent, [Next]_vars
  PROVE  DealStep
<1>1. ASSUME NEW r \in Players, CompleteTrade(r) PROVE DealStep
  <2> SUFFICES ASSUME NEW p \in Players, NEW q \in Players, Ends(p, q),
                      \A s \in {p, q} : Cardinality(Goods(s) \cap Limited) <= 1
               PROVE  \E s \in {p, q} : Deal(s)
    BY DEF DealStep
  <2>1. {p, q} = {r, Partner(r)}
    BY <1>1, CompleteTradeEnds
  <2>2. OneLimited(r) /\ OneLimited(Partner(r))
    BY <2>1 DEF OneLimited
  <2> QED BY <1>1, <2>1, <2>2, CompleteTradeDeal
<1>2. ASSUME UNCHANGED <<owner, money>> PROVE DealStep
  BY <1>2 DEF DealStep
<1>3. ASSUME trade' = trade PROVE DealStep
  <2>1. NoTrade.with = NoPlayer
    BY NewTradeType DEF NoTrade
  <2> QED BY <1>3, <2>1 DEF DealStep, Ends
<1>4. ASSUME NEW p \in Players, AcceptTrade(p)
      PROVE  UNCHANGED <<owner, money>> \/ CompleteTrade(p)
  BY <1>4 DEF AcceptTrade, RefusedForMoney, NotTradable, AcceptFirst, AcceptStays,
              SpellFails, NoFreeSlots, Changed
<1>5. ASSUME NEW p \in Players, SetTerms(p) PROVE UNCHANGED <<owner, money>>
  BY <1>5 DEF SetTerms, SetMoney, Changed, ClearTradeItem, SetTradeItem, SetItem, SetSpell
<1>6. ASSUME NEW p \in Players,
             \/ \E q \in Players : InitiateTrade(p, q)
             \/ UnacceptTrade(p) \/ TradeCancel(p)
      PROVE  UNCHANGED <<owner, money>>
  BY <1>6 DEF InitiateTrade, UnacceptTrade, TradeCancel
<1>7. ASSUME NEW p \in Players, SpendOrEarn(p) PROVE trade' = trade
  BY <1>7 DEF SpendOrEarn
<1>8. ASSUME NEW i \in Items, UseItem(i) \/ ChangeItem(i) PROVE trade' = trade
  BY <1>8 DEF UseItem, ChangeItem
<1>9. ASSUME UNCHANGED vars PROVE trade' = trade
  BY <1>9 DEF vars
<1> QED BY <1>1, <1>2, <1>3, <1>4, <1>5, <1>6, <1>7, <1>8, <1>9 DEF Next

\* An exchange gives each of the two exactly what the one that had accepted before
\* agreed to, and loses no item, although the slots are exchanged one after another
\* and what is stored is in the way of what is to be stored.
THEOREM DealsAreAsAgreed == Spec => DealAsAgreed
<1> DEFINE Inv == PairInv /\ AllApart /\ AllCurrent
<1>1. Init => Inv
  <2>1. Init => AllCurrent
    BY DEF Init, AllCurrent, Current, NoTrade, NewTrade
  <2>2. Init => AllApart
    BY DEF Init, AllApart, Apart, NoTrade, NewTrade
  <2> QED BY <2>1, <2>2, InitPairInv
<1>2. Inv /\ [Next]_vars => Inv'
  BY NextPairInv, NextCurrent, NextApart DEF PairInv
<1>3. Inv /\ [Next]_vars => [DealStep]_vars
  BY NextDeal DEF PairInv
<1>4. DealAsAgreed <=> [][DealStep]_vars
  BY DEF DealAsAgreed, DealStep, Deal
<1> HIDE DEF Inv
<1> QED BY <1>1, <1>2, <1>3, <1>4, PTL DEF Spec
=============================================================================
