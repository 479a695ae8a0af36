-------------------------------- MODULE Mail --------------------------------
(***************************************************************************)
(* Mail between players.  A mail is a row of the table `mail' with the     *)
(* items that hang on it; while its receiver is online it is also in his   *)
(* memory, where reading, emptying and deleting it only mark it until the  *)
(* next _SaveMail.  The opcodes are handled one at a time by the world     *)
(* thread, and each commits what it did as one transaction; at any moment  *)
(* the process may die, and what it starts with again is the database.     *)
(*                                                                         *)
(* Not told apart: a mail's text, but for the auction its subject names,   *)
(* whether it was read, and how many lie in the box.  A mail that carries  *)
(* nothing (any more) is not kept in the model.  Time is not counted: a    *)
(* mail may be delivered, or expire, at any moment.                        *)
(***************************************************************************)
EXTENDS Integers, FiniteSets, Functions

CONSTANTS
  Players,              \* each of an account of his own
  Items,
  MailIds,
  FirstOwner,           \* item -> who has it at first
  FirstMoney,           \* player -> his money at first
  Room,                 \* player -> the items he can carry
  Postage,              \* the price of a mail, and of each item in it
  Amounts,              \* bound: what is put into a mail or asked for it
  MaxMoney,             \* MAX_MONEY_AMOUNT
  Writers,              \* bound: the players who send mail
  Spenders,             \* bound: those who spend and earn money besides
  NoMail,
  NoPlayer,
  NoItem

ASSUME MailAssumption ==
  /\ NoPlayer \notin Players /\ NoItem \notin Items /\ MailIds \subseteq Nat
  /\ IsFiniteSet(Items)
  /\ FirstOwner \in [Items -> Players] /\ Room \in [Players -> Nat]
  /\ MaxMoney \in Nat /\ FirstMoney \in [Players -> 0 .. MaxMoney]
  /\ Postage \in Nat /\ Amounts \subseteq Nat
  /\ Writers \subseteq Players /\ Spenders \subseteq Players

\* Only sums of gold need this.
ASSUME FiniteAssumption == IsFiniteSet(Players) /\ IsFiniteSet(MailIds)

VARIABLES
  online,               \* the players in the game
  money,                \* player -> his money
  bag,                  \* player -> the items he carries
  inbox,                \* mail -> the mail in its receiver's memory, or NoMail
  state,                \* mail -> its MailState there
  mailsUpdated,         \* the players whose m_mailsUpdated is set
  dbMoney, dbBag, dbMail,   \* what the database has of them
  destroyed             \* history: the items that were thrown away

memory == <<online, money, bag, inbox, state, mailsUpdated>>
database == <<dbMoney, dbBag, dbMail>>
mailVars == <<memory, database, destroyed>>

Mails ==
  [kind : {"normal", "auction"}, sender : Players \cup {NoPlayer}, receiver : Players,
   items : SUBSET Items, money : Nat, cod : Nat,
   checked : {"", "returned", "cod payment"}, delay : BOOLEAN,
   subject : Items \cup {NoItem}]

ASSUME NoMailAssumption == NoMail \notin Mails

MailTypeOK ==
  /\ online \subseteq Players
  /\ money \in [Players -> 0 .. MaxMoney] /\ dbMoney \in [Players -> 0 .. MaxMoney]
  /\ bag \in [Players -> SUBSET Items] /\ dbBag \in [Players -> SUBSET Items]
  /\ inbox \in [MailIds -> Mails \cup {NoMail}] /\ dbMail \in [MailIds -> Mails \cup {NoMail}]
  /\ state \in [MailIds -> {"unchanged", "changed", "deleted"}]
  /\ mailsUpdated \subseteq online
  /\ destroyed \subseteq Items

MailInit ==
  /\ online = {}
  /\ money = FirstMoney /\ dbMoney = FirstMoney
  /\ bag = [p \in Players |-> {i \in Items : FirstOwner[i] = p}] /\ dbBag = bag
  /\ inbox = [m \in MailIds |-> NoMail] /\ dbMail = inbox
  /\ state = [m \in MailIds |-> "unchanged"]
  /\ mailsUpdated = {}
  /\ destroyed = {}

-----------------------------------------------------------------------------
(* Sending and saving.                                                     *)

FreeIds == {m \in MailIds : dbMail[m] = NoMail /\ inbox[m] = NoMail}

\* The ids GenerateMailID gives to the drafts: the next ones that are free.
IdsFor(drafts) ==
  {f \in Injection(DOMAIN drafts, FreeIds) :
     \A k \in DOMAIN drafts : \A m \in FreeIds \ Range(f) : f[k] < m}

DraftAt(drafts, f, m) == drafts[CHOOSE k \in DOMAIN drafts : f[k] = m]

\* SendMailTo: a row for every mail, and those whose receiver is online are put
\* into his memory as well.
Inserted(rows, drafts, f) ==
  [m \in MailIds |-> IF m \in Range(f) THEN DraftAt(drafts, f, m) ELSE rows[m]]

Delivered(box, drafts, f) ==
  [m \in MailIds |->
     IF m \in Range(f) /\ DraftAt(drafts, f, m).receiver \in online
       THEN DraftAt(drafts, f, m) ELSE box[m]]

SendMailTo(drafts) ==
  \E f \in IdsFor(drafts) :
    /\ inbox' = Delivered(inbox, drafts, f)
    /\ dbMail' = Inserted(dbMail, drafts, f)

SaveGold(p) == dbMoney' = [dbMoney EXCEPT ![p] = money'[p]]
\* Mutants of SaveInventoryAndGold: one of the two is not saved.
SaveInventoryAndGold_Gold(p) == SaveGold(p) /\ UNCHANGED dbBag
SaveInventoryAndGold_Inventory(p) ==
  UNCHANGED dbMoney /\ dbBag' = [dbBag EXCEPT ![p] = bag'[p]]

SaveInventoryAndGold(p) == SaveGold(p) /\ dbBag' = [dbBag EXCEPT ![p] = bag'[p]]

Kept(mail) == IF mail.items = {} /\ mail.money = 0 THEN NoMail ELSE mail

\* _SaveMail: of p's mails, here box with the states st, the deleted ones go with
\* their items, the changed ones are written; rows is what the transaction has
\* made of the table before.
MailsOf(p, box) == {m \in MailIds : box[m] # NoMail /\ box[m].receiver = p}
Marked(p, box, st, mark) == {m \in MailsOf(p, box) : st[m] = mark}

Saved(p, box, st, table) ==
  [m \in MailIds |->
     IF m \in Marked(p, box, st, "deleted") THEN NoMail
     ELSE IF m \in Marked(p, box, st, "changed") THEN Kept(box[m]) ELSE table[m]]

Discarded(p, box, st) == UNION {box[m].items : m \in Marked(p, box, st, "deleted")}
Unmarked(p, st, box) == [m \in MailIds |-> IF m \in MailsOf(p, box) THEN "unchanged" ELSE st[m]]

SaveMail(p, box, st, rows) ==
  /\ inbox' = Saved(p, box, st, box)
  /\ dbMail' = Saved(p, box, st, rows)
  /\ state' = Unmarked(p, st, box)
  /\ mailsUpdated' = mailsUpdated \ {p}
  /\ destroyed' = destroyed \cup Discarded(p, box, st)

-----------------------------------------------------------------------------
(* The opcodes.                                                            *)

Cost(its) == Postage * (IF its = {} THEN 1 ELSE Cardinality(its))

SendMail(p, q, its, gold, cod) ==
  /\ p \in online
  /\ p # q
  /\ gold = 0 \/ cod = 0
  /\ money[p] >= Cost(its) + gold
  /\ its \subseteq bag[p]
  /\ its # {} \/ gold > 0
  /\ money' = [money EXCEPT ![p] = @ - (Cost(its) + gold)]
  /\ bag' = [bag EXCEPT ![p] = @ \ its]
  /\ SendMailTo(<<[kind |-> "normal", sender |-> p, receiver |-> q, items |-> its,
                   money |-> gold, cod |-> IF its = {} THEN 0 ELSE cod,
                   checked |-> "", delay |-> its # {}, subject |-> NoItem]>>)
  /\ SaveInventoryAndGold(p)
  /\ UNCHANGED <<online, state, mailsUpdated, destroyed>>

InBox(p, m) == p \in online /\ inbox[m] # NoMail /\ inbox[m].receiver = p

MarkAsRead(p, m) ==
  /\ InBox(p, m)
  /\ state[m] # "deleted"
  /\ state' = [state EXCEPT ![m] = "changed"]
  /\ mailsUpdated' = mailsUpdated \cup {p}
  /\ UNCHANGED <<online, money, bag, inbox, database, destroyed>>

\* A mail one has to pay for cannot be deleted.
MailDelete(p, m) ==
  /\ InBox(p, m)
  /\ mailsUpdated' = mailsUpdated \cup {p}
  /\ state' = [state EXCEPT ![m] = IF inbox[m].cod > 0 THEN @ ELSE "deleted"]
  /\ UNCHANGED <<online, money, bag, inbox, database, destroyed>>

\* Mutant of Returned: what was asked for it is asked again.
Returned_COD(mail) ==
  [mail EXCEPT !.sender = mail.receiver, !.receiver = mail.sender,
               !.checked = "returned", !.delay = FALSE]

\* The mail as it goes back to its sender: nothing is asked for it any more.
Returned(mail) ==
  [mail EXCEPT !.sender = mail.receiver, !.receiver = mail.sender, !.cod = 0,
               !.checked = "returned", !.delay = FALSE]

\* The mail is deleted, and only what another player sent is sent back.
ReturnToSender(p, m) ==
  LET back == IF inbox[m].kind = "normal" THEN <<Returned(inbox[m])>> ELSE << >>
  IN  /\ InBox(p, m)
      /\ state[m] # "deleted"
      /\ \E f \in IdsFor(back) :
           /\ inbox' = Delivered([inbox EXCEPT ![m] = NoMail], back, f)
           /\ dbMail' = Inserted([dbMail EXCEPT ![m] = NoMail], back, f)
      /\ state' = [state EXCEPT ![m] = "unchanged"]
      /\ destroyed' = destroyed \cup (IF back = << >> THEN inbox[m].items ELSE {})
      /\ UNCHANGED <<online, money, bag, mailsUpdated, dbMoney, dbBag>>

\* The first item that is taken pays for the whole mail.
TakeItem(p, m, i) ==
  LET price == inbox[m].cod
      payment == [kind |-> "normal", sender |-> p, receiver |-> inbox[m].sender,
                  items |-> {}, money |-> price, cod |-> 0,
                  checked |-> "cod payment", delay |-> FALSE, subject |-> NoItem]
      drafts == IF price > 0 THEN <<payment>> ELSE << >>
      taken == [inbox EXCEPT ![m].items = @ \ {i}, ![m].cod = 0]
  IN  /\ InBox(p, m)
      /\ state[m] # "deleted"
      /\ i \in inbox[m].items
      /\ money[p] >= price
      /\ Cardinality(bag[p]) < Room[p]
      /\ money' = [money EXCEPT ![p] = @ - price]
      /\ bag' = [bag EXCEPT ![p] = @ \cup {i}]
      /\ SaveInventoryAndGold(p)
      /\ \E f \in IdsFor(drafts) :
           SaveMail(p, Delivered(taken, drafts, f), [state EXCEPT ![m] = "changed"],
                    Inserted(dbMail, drafts, f))
      /\ UNCHANGED online

\* Mutant of TakeMoney: the mail is not marked as changed.
TakeMoney_Unmarked(p, m) ==
  /\ InBox(p, m)
  /\ state[m] # "deleted"
  /\ inbox[m].money = 0 \/ money[p] < MaxMoney - inbox[m].money
  /\ money' = [money EXCEPT ![p] = @ + inbox[m].money]
  /\ SaveGold(p)
  /\ SaveMail(p, [inbox EXCEPT ![m].money = 0], state, dbMail)
  /\ UNCHANGED <<online, bag, dbBag>>

\* Refused when the player could not hold the money (ModifyMoney).
TakeMoney(p, m) ==
  /\ InBox(p, m)
  /\ state[m] # "deleted"
  /\ inbox[m].money = 0 \/ money[p] < MaxMoney - inbox[m].money
  /\ money' = [money EXCEPT ![p] = @ + inbox[m].money]
  /\ SaveGold(p)
  /\ SaveMail(p, [inbox EXCEPT ![m].money = 0], [state EXCEPT ![m] = "changed"], dbMail)
  /\ UNCHANGED <<online, bag, dbBag>>

-----------------------------------------------------------------------------
(* Coming and going, the world's timers, and the end of the process.       *)

\* Mails that are not delivered yet are not loaded.
Login(p) ==
  /\ p \notin online
  /\ online' = online \cup {p}
  /\ \E late \in SUBSET {m \in MailsOf(p, dbMail) : dbMail[m].delay} :
       inbox' = [m \in MailIds |-> IF m \in MailsOf(p, dbMail) \ late
                                     THEN dbMail[m] ELSE inbox[m]]
  /\ UNCHANGED <<money, bag, state, mailsUpdated, database, destroyed>>

\* SaveToDB, which writes the mails only when m_mailsUpdated says so.
Save(p) ==
  /\ p \in online
  /\ UNCHANGED <<online, money, bag>>
  /\ SaveInventoryAndGold(p)
  /\ IF p \in mailsUpdated
       THEN SaveMail(p, inbox, state, dbMail)
       ELSE UNCHANGED <<inbox, state, mailsUpdated, dbMail, destroyed>>

\* The same save, and then the player and his mails leave the memory.
Logout(p) ==
  /\ p \in online
  /\ online' = online \ {p}
  /\ UNCHANGED <<money, bag>>
  /\ SaveInventoryAndGold(p)
  /\ inbox' = [m \in MailIds |-> IF m \in MailsOf(p, inbox) THEN NoMail ELSE inbox[m]]
  /\ state' = Unmarked(p, state, inbox)
  /\ mailsUpdated' = mailsUpdated \ {p}
  /\ IF p \in mailsUpdated
       THEN /\ dbMail' = Saved(p, inbox, state, dbMail)
            /\ destroyed' = destroyed \cup Discarded(p, inbox, state)
       ELSE UNCHANGED <<dbMail, destroyed>>

\* ReturnOrDeleteOldMails, with expired the mails that are too old: those of the
\* players online are left alone, what a player sent goes back once, the rest is
\* thrown away.
Returnable(mail) == mail.items # {} /\ mail.kind = "normal" /\ mail.checked = ""

\* Mutant of ReturnOrDeleteOldMails: whether the receiver is online is not asked.
ReturnOrDeleteOldMails_Online(expired) ==
  /\ dbMail' = [m \in MailIds |->
                  IF m \notin expired THEN dbMail[m]
                  ELSE IF Returnable(dbMail[m]) THEN Returned(dbMail[m]) ELSE NoMail]
  /\ destroyed' = destroyed \cup
       UNION {dbMail[m].items : m \in {n \in expired : ~Returnable(dbMail[n])}}
  /\ UNCHANGED <<memory, dbMoney, dbBag>>

ReturnOrDeleteOldMails(expired) ==
  LET old == {m \in expired : dbMail[m].receiver \notin online}
  IN  /\ dbMail' = [m \in MailIds |->
                      IF m \notin old THEN dbMail[m]
                      ELSE IF Returnable(dbMail[m]) THEN Returned(dbMail[m]) ELSE NoMail]
      /\ destroyed' = destroyed \cup
           UNION {dbMail[m].items : m \in {n \in old : ~Returnable(dbMail[n])}}
      /\ UNCHANGED <<memory, dbMoney, dbBag>>

\* Money is earned and spent elsewhere, and not saved at once.
SpendOrEarn(p) ==
  /\ p \in online \cap Spenders
  /\ \E n \in {money[p] - 1, money[p] + 1} \cap 0 .. FirstMoney[p] :
       money' = [money EXCEPT ![p] = n]
  /\ UNCHANGED <<online, bag, inbox, state, mailsUpdated, database, destroyed>>

MailCrash ==
  /\ online' = {}
  /\ money' = dbMoney /\ bag' = dbBag
  /\ inbox' = [m \in MailIds |-> NoMail]
  /\ state' = [m \in MailIds |-> "unchanged"]
  /\ mailsUpdated' = {}
  /\ UNCHANGED <<database, destroyed>>

MailNext ==
  \/ \E p \in Writers, q \in Players, its \in SUBSET Items, gold, cod \in Amounts \cup {0} :
       SendMail(p, q, its, gold, cod)
  \/ \E p \in Players, m \in MailIds :
       \/ MarkAsRead(p, m) \/ MailDelete(p, m) \/ ReturnToSender(p, m) \/ TakeMoney(p, m)
       \/ \E i \in Items : TakeItem(p, m, i)
  \/ \E p \in Players : Login(p) \/ Save(p) \/ Logout(p) \/ SpendOrEarn(p)
  \/ \E expired \in SUBSET {m \in MailIds : dbMail[m] # NoMail} :
       ReturnOrDeleteOldMails(expired)
=============================================================================
