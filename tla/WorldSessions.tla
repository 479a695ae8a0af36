---------------------------- MODULE WorldSessions ----------------------------
(***************************************************************************)
(* The sessions of the worldserver: connections the network threads hand   *)
(* over in addSessQueue, m_sessions and m_offlineSessions by account, the  *)
(* admission queue m_QueuedPlayer, logins, disconnects, characters that    *)
(* stay in the world without a connection, and the shutdown.               *)
(*                                                                         *)
(* The world thread runs World::UpdateSessions: it adds the new sessions,  *)
(* updates each session, then looks after the offline ones.  Connections   *)
(* come and break at any moment in between.                                *)
(***************************************************************************)
EXTENDS Integers, Sequences, FiniteSets, SequencesExt

CONSTANTS
  Accounts,
  NumChars,             \* characters an account has
  Limit,                \* m_playerLimit; 0: no limit
  Exempt,               \* accounts that skip the queue
  LoginAfterDC,         \* CONFIG_ENABLE_LOGIN_AFTER_DC
  Tolerance,            \* is CONFIG_INTERVAL_DISCONNECT_TOLERANCE set?
  MaxSessions,          \* bound: connections accepted in a behaviour
  NoAccount

ASSUME AccountsAssumption ==
  IsFiniteSet(Accounts) /\ NoAccount \notin Accounts /\ Exempt \subseteq Accounts
ASSUME NumbersAssumption ==
  /\ NumChars \in Nat /\ Limit \in Nat /\ MaxSessions \in Nat
  /\ Tolerance \in BOOLEAN /\ LoginAfterDC \in BOOLEAN

VARIABLES
  session,              \* the WorldSession objects
  created,              \* how many were created
  addSessQueue,
  sessions,             \* m_sessions: account -> session
  offline,              \* m_offlineSessions: account -> session
  queued,               \* m_QueuedPlayer
  disconnects,          \* accounts in m_disconnects, within the tolerance
  online,               \* database: account.online
  phase,                \* where UpdateSessions is
  todo,                 \* accounts its loop has still to visit
  current,              \* the session whose Update runs
  shutdown

vars == <<session, created, addSessQueue, sessions, offline, queued, disconnects,
          online, phase, todo, current, shutdown>>
world == <<phase, todo, current, shutdown>>

Sessions == 1 .. MaxSessions
NoSession == 0
NoChar == 0

\* account: whose; socket: m_Socket, "none" when it is null; kicked: _kicked;
\* inQueue: m_inQueue; loading: m_playerLoading; holder: the character whose
\* LoginQueryHolder is executed; player: _player; away: _player is on a taxi
\* or between two maps.
Destroyed == [account |-> NoAccount, socket |-> "none", kicked |-> FALSE, inQueue |-> FALSE,
              loading |-> FALSE, holder |-> NoChar, player |-> NoChar, away |-> FALSE]
Created(a) == [Destroyed EXCEPT !.account = a, !.socket = "open"]

Has(map) == {a \in Accounts : map[a] # NoSession}
Queued(s) == \E i \in 1 .. Len(queued) : queued[i] = s
Active == {s \in Sessions : ~Queued(s) /\ \E a \in Accounts : sessions[a] = s}

Stopped == shutdown # "running"

-----------------------------------------------------------------------------
(* The network threads and the clients.                                    *)

\* HandleAuthSession: the session is created, which sets account.online, and
\* handed to the world thread.
NewConnection ==
  /\ created < MaxSessions
  /\ created' = created + 1
  /\ \E a \in Accounts :
       /\ session' = [session EXCEPT ![created'] = Created(a)]
       /\ online' = [online EXCEPT ![a] = 1]
  /\ addSessQueue' = Append(addSessQueue, created')
  /\ UNCHANGED <<sessions, offline, queued, disconnects, world>>

\* The client disconnects, or the session has been silent for too long.
SocketCloses(s) ==
  /\ session[s].socket = "open"
  /\ session' = [session EXCEPT ![s].socket = "closed"]
  /\ UNCHANGED <<created, addSessQueue, sessions, offline, queued, disconnects,
                 online, world>>

\* The player takes a taxi or a portal, or arrives.
Travel(s) ==
  /\ phase = "idle"
  /\ session[s].player # NoChar
  /\ session' = [session EXCEPT ![s].away = ~@]
  /\ UNCHANGED <<created, addSessQueue, sessions, offline, queued, disconnects,
                 online, world>>

\* The tolerance after a disconnect ends.
Forget(a) ==
  /\ a \in disconnects
  /\ disconnects' = disconnects \ {a}
  /\ UNCHANGED <<session, created, addSessQueue, sessions, offline, queued, online, world>>

-----------------------------------------------------------------------------
(* The admission queue.                                                    *)

\* m_QueuedPlayer without s, which is erased at the first place it is found.
Rest(s) ==
  IF Queued(s) THEN RemoveAt(queued, CHOOSE i \in 1 .. Len(queued) : queued[i] = s)
  ELSE queued

\* RemoveQueuedPlayer(s) admits the first in the queue: there is no limit, or
\* the sessions active when s has gone are fewer than the limit.
Admits(s) ==
  /\ Rest(s) # <<>>
  /\ \/ Limit = 0
     \/ Cardinality(Has(sessions)) - Len(queued) - (IF Queued(s) THEN 0 ELSE 1) < Limit

\* Mutant of AfterRemove: nobody is admitted.
AfterRemove_Nobody(s) == Rest(s)

\* What RemoveQueuedPlayer(s) leaves of the queue, ...
AfterRemove(s) == IF Admits(s) THEN Tail(Rest(s)) ELSE Rest(s)

\* ... and of the sessions' m_inQueue.
Cleared(s) ==
  [t \in Sessions |-> IF t = s \/ (Admits(s) /\ t = Head(Rest(s)))
                        THEN [session[t] EXCEPT !.inQueue = FALSE]
                        ELSE session[t]]

\* m_disconnects remembers an active session that went.
Remembered(s) == IF Tolerance /\ ~Queued(s) THEN {session[s].account} ELSE {}

\* AddSession_: does the new session of account a wait, when as many others
\* are there as the limit allows?
MustWait(a, others, remembered) ==
  /\ Limit > 0 /\ others >= Limit
  /\ a \notin Exempt
  /\ a \notin remembered

-----------------------------------------------------------------------------
(* UpdateSessions, first part: the new sessions.                           *)

\* HandleSocketClosed keeps the session of a closed socket in the world.
StaysInWorld(s) ==
  /\ ~session[s].kicked
  /\ session[s].player # NoChar
  /\ ~session[s].away
  /\ ~Stopped

BeginUpdate ==
  /\ phase = "idle"
  /\ shutdown \in {"running", "kicked"}
  /\ phase' = "add"
  /\ UNCHANGED <<session, created, addSessQueue, sessions, offline, queued, disconnects,
                 online, todo, current, shutdown>>

\* A character is being loaded on the old session: the new one is deleted, and
\* its destructor sets the account offline.
AddRefused ==
  /\ phase = "add" /\ addSessQueue # <<>>
  /\ LET s == Head(addSessQueue)
         a == session[s].account
     IN  /\ sessions[a] # NoSession
         /\ session[sessions[a]].loading
         /\ session' = [session EXCEPT ![s] = Destroyed]
         /\ online' = [online EXCEPT ![a] = 0]
  /\ addSessQueue' = Tail(addSessQueue)
  /\ UNCHANGED <<created, sessions, offline, queued, disconnects, world>>

\* Mutant of AddSession: the new session is taken off the count twice.
AddSession_Twice ==
  /\ phase = "add" /\ addSessQueue # <<>>
  /\ LET s == Head(addSessQueue)
         a == session[s].account
     IN  /\ sessions[a] = NoSession
         /\ sessions' = [sessions EXCEPT ![a] = s]
         /\ IF MustWait(a, Cardinality(Has(sessions)) - 1, disconnects)
              THEN /\ queued' = Append(queued, s)
                   /\ session' = [session EXCEPT ![s].inQueue = TRUE]
              ELSE UNCHANGED <<queued, session>>
  /\ addSessQueue' = Tail(addSessQueue)
  /\ UNCHANGED <<created, offline, disconnects, online, world>>

\* The account has no session.
AddSession ==
  /\ phase = "add" /\ addSessQueue # <<>>
  /\ LET s == Head(addSessQueue)
         a == session[s].account
     IN  /\ sessions[a] = NoSession
         /\ sessions' = [sessions EXCEPT ![a] = s]
         /\ IF MustWait(a, Cardinality(Has(sessions)), disconnects)
              THEN /\ queued' = Append(queued, s)
                   /\ session' = [session EXCEPT ![s].inQueue = TRUE]
              ELSE UNCHANGED <<queued, session>>
  /\ addSessQueue' = Tail(addSessQueue)
  /\ UNCHANGED <<created, offline, disconnects, online, world>>

\* The account has one: its connection is closed, and it stays in the world as
\* the offline session (which a session of that account still there makes way
\* for), or is deleted.  The account is not set offline in either case.
AddSessionInstead ==
  /\ phase = "add" /\ addSessQueue # <<>>
  /\ LET s == Head(addSessQueue)
         a == session[s].account
         old == sessions[a]
         stays == StaysInWorld(old)
         remembered == disconnects \cup Remembered(old)
         waits == MustWait(a, Cardinality(Has(sessions)) - 1, remembered)
     IN  /\ old # NoSession
         /\ ~session[old].loading
         /\ sessions' = [sessions EXCEPT ![a] = s]
         /\ offline' = [offline EXCEPT ![a] = IF stays THEN old ELSE @]
         /\ disconnects' = remembered
         /\ queued' = IF waits THEN Append(AfterRemove(old), s) ELSE AfterRemove(old)
         /\ session' = [t \in Sessions |->
              IF t = old THEN IF stays THEN [session[t] EXCEPT !.socket = "none"] ELSE Destroyed
              ELSE IF t = s THEN [session[t] EXCEPT !.inQueue = waits]
              ELSE IF stays /\ t = offline[a] THEN Destroyed
              ELSE Cleared(old)[t]]
  /\ addSessQueue' = Tail(addSessQueue)
  /\ UNCHANGED <<created, online, world>>

AllAdded ==
  /\ phase = "add" /\ addSessQueue = <<>>
  /\ phase' = "sessions"
  /\ todo' = Has(sessions)
  /\ UNCHANGED <<session, created, addSessQueue, sessions, offline, queued, disconnects,
                 online, current, shutdown>>

-----------------------------------------------------------------------------
(* Second part: each session.                                              *)

Closable(s) == session[s].socket = "closed" /\ StaysInWorld(s)

\* Mutant of GoOffline: an offline session already there is forgotten.
GoOffline_Overwrite(a) ==
  /\ phase = "sessions" /\ current = NoSession /\ a \in todo
  /\ LET s == sessions[a]
     IN  /\ Closable(s)
         /\ queued' = AfterRemove(s)
         /\ disconnects' = disconnects \cup Remembered(s)
         /\ session' = [Cleared(s) EXCEPT ![s] = [session[s] EXCEPT !.socket = "none"]]
         /\ UNCHANGED offline
  /\ sessions' = [sessions EXCEPT ![a] = NoSession]
  /\ todo' = todo \ {a}
  /\ UNCHANGED <<created, addSessQueue, online, phase, current, shutdown>>

\* The connection is gone: the session leaves m_sessions for m_offlineSessions.
GoOffline(a) ==
  /\ phase = "sessions" /\ current = NoSession /\ a \in todo
  /\ LET s == sessions[a]
     IN  /\ Closable(s)
         /\ queued' = AfterRemove(s)
         /\ disconnects' = disconnects \cup Remembered(s)
         /\ session' = [t \in Sessions |->
              IF t = s THEN [session[t] EXCEPT !.socket = "none"]
              ELSE IF t = offline[a] THEN Destroyed
              ELSE Cleared(s)[t]]
         /\ offline' = [offline EXCEPT ![a] = s]
  /\ sessions' = [sessions EXCEPT ![a] = NoSession]
  /\ todo' = todo \ {a}
  /\ UNCHANGED <<created, addSessQueue, online, phase, current, shutdown>>

StartSession(a) ==
  /\ phase = "sessions" /\ current = NoSession /\ a \in todo
  /\ ~Closable(sessions[a])
  /\ current' = sessions[a]
  /\ todo' = todo \ {a}
  /\ UNCHANGED <<session, created, addSessQueue, sessions, offline, queued, disconnects,
                 online, phase, shutdown>>

\* CMSG_PLAYER_LOGIN, which the client sends from the character list.
LogsIn(s) ==
  /\ s = current
  /\ ~session[s].inQueue
  /\ session[s].player = NoChar
  /\ session[s].holder = NoChar

OfflineOf(s) == offline[session[s].account]

\* Refused: the offline session has lost its player, is kicked, or holds the
\* character asked for but cannot give it away, because the configuration
\* forbids it or the player is between two maps.  m_playerLoading stays.
LoginRefused(s) ==
  /\ LogsIn(s)
  /\ OfflineOf(s) # NoSession
  /\ LET o == session[OfflineOf(s)]
     IN  o.player = NoChar \/ o.kicked \/ o.away \/ ~LoginAfterDC
  /\ session' = [session EXCEPT ![s].loading = TRUE]
  /\ UNCHANGED <<created, addSessQueue, sessions, offline, queued, disconnects, online, world>>

\* Mutant of LoginTakeover: the offline session keeps its pointer.
LoginTakeover_Share(s) ==
  /\ LogsIn(s)
  /\ LoginAfterDC /\ OfflineOf(s) # NoSession
  /\ LET o == OfflineOf(s)
     IN  /\ session[o].player # NoChar /\ ~session[o].kicked
         /\ session' = [session EXCEPT ![s].player = session[o].player, ![s].loading = FALSE]
  /\ UNCHANGED <<created, addSessQueue, sessions, offline, queued, disconnects, online, world>>

\* The character is still in the world: a transfer it is in is finished, and
\* its player changes sessions.
LoginTakeover(s) ==
  /\ LogsIn(s)
  /\ LoginAfterDC /\ OfflineOf(s) # NoSession
  /\ LET o == OfflineOf(s)
     IN  /\ session[o].player # NoChar /\ ~session[o].kicked
         /\ session' = [session EXCEPT ![s].player = session[o].player, ![s].loading = FALSE,
                                       ![o].player = NoChar, ![o].away = FALSE]
  /\ UNCHANGED <<created, addSessQueue, sessions, offline, queued, disconnects, online, world>>

\* Mutant of LoginOther: the session of the other character is left alone.
LoginOther_NoKick(s) ==
  /\ LogsIn(s)
  /\ OfflineOf(s) # NoSession
  /\ LET o == OfflineOf(s)
     IN  /\ session[o].player # NoChar /\ ~session[o].kicked
         /\ \E c \in 1 .. NumChars \ {session[o].player} :
              session' = [session EXCEPT ![s].loading = TRUE, ![s].holder = c]
  /\ UNCHANGED <<created, addSessQueue, sessions, offline, queued, disconnects, online, world>>

\* Another character of the account is: its session is kicked, the one asked
\* for is loaded.
LoginOther(s) ==
  /\ LogsIn(s)
  /\ OfflineOf(s) # NoSession
  /\ LET o == OfflineOf(s)
     IN  /\ session[o].player # NoChar /\ ~session[o].kicked
         /\ \E c \in 1 .. NumChars \ {session[o].player} :
              session' = [session EXCEPT ![s].loading = TRUE, ![s].holder = c,
                                         ![o].kicked = TRUE]
  /\ UNCHANGED <<created, addSessQueue, sessions, offline, queued, disconnects, online, world>>

LoginLoad(s) ==
  /\ LogsIn(s)
  /\ OfflineOf(s) = NoSession
  /\ \E c \in 1 .. NumChars :
       session' = [session EXCEPT ![s].loading = TRUE, ![s].holder = c]
  /\ UNCHANGED <<created, addSessQueue, sessions, offline, queued, disconnects, online, world>>

\* ProcessQueryCallbacks calls HandlePlayerLoginFromDB, ...
Loaded(s) ==
  /\ s = current
  /\ session[s].holder # NoChar
  /\ session' = [session EXCEPT ![s].player = session[s].holder, ![s].holder = NoChar,
                                ![s].loading = FALSE]
  /\ UNCHANGED <<created, addSessQueue, sessions, offline, queued, disconnects, online, world>>

\* ... where Player::LoadFromDB may fail.
LoadFailed(s) ==
  /\ s = current
  /\ session[s].holder # NoChar
  /\ session' = [session EXCEPT ![s].holder = NoChar, ![s].loading = FALSE,
                                ![s].kicked = TRUE, ![s].socket = "closed"]
  /\ UNCHANGED <<created, addSessQueue, sessions, offline, queued, disconnects, online, world>>

\* LogoutPlayer: the player asked for it, and twenty seconds have passed or
\* none are needed.
Logout(s) ==
  /\ s = current
  /\ session[s].player # NoChar
  /\ ~session[s].loading
  /\ session' = [session EXCEPT ![s].player = NoChar, ![s].away = FALSE]
  /\ UNCHANGED <<created, addSessQueue, sessions, offline, queued, disconnects, online, world>>

\* Update returns true.
KeepSession(s) ==
  /\ s = current
  /\ session[s].socket = "open"
  /\ current' = NoSession
  /\ UNCHANGED <<session, created, addSessQueue, sessions, offline, queued, disconnects,
                 online, phase, todo, shutdown>>

\* Mutant of DropSession: the queue is not told.
DropSession_StayQueued(s) ==
  /\ s = current
  /\ session[s].socket = "closed"
  /\ LET a == session[s].account
     IN  /\ sessions' = [sessions EXCEPT ![a] = NoSession]
         /\ online' = [online EXCEPT ![a] = IF offline[a] = NoSession THEN 0 ELSE @]
         /\ session' = [session EXCEPT ![s] = Destroyed]
  /\ current' = NoSession
  /\ UNCHANGED <<created, addSessQueue, offline, queued, disconnects, phase, todo, shutdown>>

\* The socket is closed by the end of Update, which returns false: the session
\* is deleted, its player logged out.
DropSession(s) ==
  /\ s = current
  /\ session[s].socket = "closed"
  /\ LET a == session[s].account
     IN  /\ queued' = AfterRemove(s)
         /\ disconnects' = disconnects \cup Remembered(s)
         /\ sessions' = [sessions EXCEPT ![a] = NoSession]
         /\ online' = [online EXCEPT ![a] = IF offline[a] = NoSession THEN 0 ELSE @]
         /\ session' = [Cleared(s) EXCEPT ![s] = Destroyed]
  /\ current' = NoSession
  /\ UNCHANGED <<created, addSessQueue, offline, phase, todo, shutdown>>

AllUpdated ==
  /\ phase = "sessions" /\ current = NoSession /\ todo = {}
  /\ phase' = "offline"
  /\ todo' = Has(offline)
  /\ UNCHANGED <<session, created, addSessQueue, sessions, offline, queued, disconnects,
                 online, current, shutdown>>

-----------------------------------------------------------------------------
(* Third part: the sessions without a connection.                          *)

\* It still has its player and its sixty seconds are not over.
KeepOffline(a) ==
  /\ phase = "offline" /\ a \in todo
  /\ session[offline[a]].player # NoChar
  /\ ~session[offline[a]].kicked
  /\ todo' = todo \ {a}
  /\ UNCHANGED <<session, created, addSessQueue, sessions, offline, queued, disconnects,
                 online, phase, current, shutdown>>

\* Mutant of DropOffline: the sixty seconds never end.
DropOffline_NoTimeout(a) ==
  /\ phase = "offline" /\ a \in todo
  /\ session[offline[a]].player = NoChar \/ session[offline[a]].kicked
  /\ session' = [session EXCEPT ![offline[a]] = Destroyed]
  /\ offline' = [offline EXCEPT ![a] = NoSession]
  /\ online' = [online EXCEPT ![a] = IF sessions[a] = NoSession THEN 0 ELSE @]
  /\ todo' = todo \ {a}
  /\ UNCHANGED <<created, addSessQueue, sessions, queued, disconnects, phase, current, shutdown>>

\* It has no player, is kicked, or has been offline for more than sixty seconds.
DropOffline(a) ==
  /\ phase = "offline" /\ a \in todo
  /\ session' = [session EXCEPT ![offline[a]] = Destroyed]
  /\ offline' = [offline EXCEPT ![a] = NoSession]
  /\ online' = [online EXCEPT ![a] = IF sessions[a] = NoSession THEN 0 ELSE @]
  /\ todo' = todo \ {a}
  /\ UNCHANGED <<created, addSessQueue, sessions, queued, disconnects, phase, current, shutdown>>

EndUpdate ==
  /\ phase = "offline" /\ todo = {}
  /\ phase' = "idle"
  /\ shutdown' = IF shutdown = "kicked" THEN "halted" ELSE shutdown
  /\ UNCHANGED <<session, created, addSessQueue, sessions, offline, queued, disconnects,
                 online, todo, current>>

-----------------------------------------------------------------------------
(* Between two updates.                                                    *)

\* KickPlayer of a session or of an offline one, by a command.
KickPlayer(s) ==
  /\ phase = "idle" /\ shutdown \in {"running", "stopping"}
  /\ ~session[s].kicked
  /\ \E a \in Accounts : s \in {sessions[a], offline[a]}
  /\ session' = [session EXCEPT ![s].kicked = TRUE,
                                ![s].socket = IF @ = "none" THEN "none" ELSE "closed"]
  /\ UNCHANGED <<created, addSessQueue, sessions, offline, queued, disconnects, online, world>>

\* m_stopEvent, which a signal may set at any moment.
Stop ==
  /\ shutdown = "running"
  /\ shutdown' = "stopping"
  /\ UNCHANGED <<session, created, addSessQueue, sessions, offline, queued, disconnects,
                 online, phase, todo, current>>

\* Mutant of KickAll: the offline sessions are forgotten.
KickAll_SessionsOnly ==
  /\ phase = "idle" /\ shutdown = "stopping"
  /\ shutdown' = "kicked"
  /\ queued' = <<>>
  /\ session' = [s \in Sessions |->
       IF \E a \in Accounts : s = sessions[a]
         THEN [session[s] EXCEPT !.kicked = TRUE, !.socket = "closed"]
         ELSE session[s]]
  /\ UNCHANGED <<created, addSessQueue, sessions, offline, disconnects, online,
                 phase, todo, current>>

\* The main loop has ended: KickAll, then one last UpdateSessions.
KickAll ==
  /\ phase = "idle" /\ shutdown = "stopping"
  /\ shutdown' = "kicked"
  /\ queued' = <<>>
  /\ session' = [s \in Sessions |->
       IF \E a \in Accounts : s = sessions[a]
         THEN [session[s] EXCEPT !.kicked = TRUE, !.socket = "closed"]
         ELSE IF \E a \in Accounts : s = offline[a] THEN [session[s] EXCEPT !.kicked = TRUE]
         ELSE session[s]]
  /\ UNCHANGED <<created, addSessQueue, sessions, offline, disconnects, online,
                 phase, todo, current>>

-----------------------------------------------------------------------------
Init ==
  /\ session = [s \in Sessions |-> Destroyed]
  /\ created = 0
  /\ addSessQueue = <<>>
  /\ sessions = [a \in Accounts |-> NoSession]
  /\ offline = [a \in Accounts |-> NoSession]
  /\ queued = <<>>
  /\ disconnects = {}
  /\ online = [a \in Accounts |-> 0]
  /\ phase = "idle"
  /\ todo = {}
  /\ current = NoSession
  /\ shutdown = "running"

\* A step of UpdateSessions, with the clients' packets it finds.
Progress ==
  \/ BeginUpdate
  \/ AddRefused \/ AddSession \/ AddSessionInstead \/ AllAdded
  \/ \E a \in Accounts : GoOffline(a) \/ StartSession(a)
  \/ \E s \in Sessions : KeepSession(s) \/ DropSession(s)
  \/ AllUpdated
  \/ \E a \in Accounts : KeepOffline(a) \/ DropOffline(a)
  \/ EndUpdate
  \/ KickAll

Packet(s) ==
  LoginRefused(s) \/ LoginTakeover(s) \/ LoginOther(s) \/ LoginLoad(s)
  \/ Loaded(s) \/ LoadFailed(s) \/ Logout(s)

Next ==
  \/ Progress
  \/ NewConnection \/ Stop
  \/ \E s \in Sessions : SocketCloses(s) \/ Travel(s) \/ KickPlayer(s) \/ Packet(s)
  \/ \E a \in Accounts : Forget(a)

Spec == Init /\ [][Next]_vars

\* The world thread runs, and an offline session's sixty seconds end: however
\* often it was kept, it is dropped at last.
FairSpec ==
  /\ Spec
  /\ WF_vars(Progress)
  /\ \A a \in Accounts : SF_vars(DropOffline(a))

-----------------------------------------------------------------------------
\* Every variable has its type.
TypeOK ==
  /\ session \in [Sessions -> [account : Accounts \cup {NoAccount},
                               socket : {"none", "open", "closed"}, kicked : BOOLEAN,
                               inQueue : BOOLEAN, loading : BOOLEAN,
                               holder : 0 .. NumChars, player : 0 .. NumChars,
                               away : BOOLEAN]]
  /\ created \in 0 .. MaxSessions
  /\ addSessQueue \in Seq(Sessions) /\ queued \in Seq(Sessions)
  /\ sessions \in [Accounts -> Sessions \cup {NoSession}]
  /\ offline \in [Accounts -> Sessions \cup {NoSession}]
  /\ disconnects \subseteq Accounts
  /\ online \in [Accounts -> 0 .. 1]
  /\ phase \in {"idle", "add", "sessions", "offline"}
  /\ todo \subseteq Accounts
  /\ current \in Sessions \cup {NoSession}
  /\ shutdown \in {"running", "stopping", "kicked", "halted"}

\* The queue holds pointers: every session in it is alive, is in m_sessions,
\* is there once, and knows that it waits.
QueueAlive ==
  /\ \A i \in 1 .. Len(queued) :
       session[queued[i]].inQueue /\ \E a \in Accounts : sessions[a] = queued[i]
  /\ \A i, j \in 1 .. Len(queued) : queued[i] = queued[j] => i = j
  /\ shutdown \in {"running", "stopping"} =>
       \A s \in Sessions : session[s].inQueue => Queued(s)

\* No session is leaked: each is handed over, in m_sessions or offline, in one
\* of them, under its own account, until it is deleted.
OneOwner ==
  \A s \in Sessions : session[s] # Destroyed =>
    Cardinality({i \in 1 .. Len(addSessQueue) : addSessQueue[i] = s})
    + Cardinality({a \in Accounts : sessions[a] = s /\ session[s].account = a})
    + Cardinality({a \in Accounts : offline[a] = s /\ session[s].account = a}) = 1

\* A character is in the world once, and never loaded while it is there.
CharacterOnce ==
  \A s, t \in Sessions : s # t /\ session[s].account = session[t].account =>
    session[s].player = NoChar
    \/ (session[t].player # session[s].player /\ session[t].holder # session[s].player)

\* "There should be no offline session if current one is logged onto a
\* character": between two updates an account has no two players.
OnePlayerPerAccount ==
  phase = "idle" => \A a \in Accounts :
    offline[a] # NoSession /\ sessions[a] # NoSession =>
      session[sessions[a]].player = NoChar

\* Without the tolerance, the accounts that have to queue never exceed the limit
\* while the server runs.
LimitHolds ==
  Limit > 0 /\ ~Tolerance /\ shutdown \in {"running", "stopping"} =>
    Cardinality({s \in Active : session[s].account \notin Exempt}) <= Limit

\* Nobody waits while there is room.
NoRoomUnused == queued # <<>> => Limit > 0 /\ Cardinality(Active) >= Limit

\* "Save and kick all players": when the last UpdateSessions returns, only a
\* session that came after KickAll can have a player.
AllLoggedOut ==
  shutdown = "halted" =>
    Has(offline) = {} /\ \A s \in Sessions : session[s].kicked => session[s].player = NoChar

\* A session whose connection is gone does not stay for ever, nor does the
\* character it holds.
ClosedGoes ==
  \A s \in Sessions :
    session[s].account # NoAccount /\ session[s].socket # "open"
      ~> session[s] = Destroyed \/ shutdown = "halted"

=============================================================================
