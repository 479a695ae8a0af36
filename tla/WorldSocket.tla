---------------------------- MODULE WorldSocket -----------------------------
(***************************************************************************)
(* One client's connection.  The network thread reads, authenticates and   *)
(* writes; the world thread and the map workers send packets through the   *)
(* lock-free queue, and close the socket of who is kicked; the world       *)
(* thread deletes the session the socket points at.                        *)
(*                                                                         *)
(* The map workers run only while the world thread waits for them in       *)
(* MapMgr::Update (MapUpdater shows that).  A socket's write takes what    *)
(* the network has room for; a connection that has failed never works      *)
(* again.  A packet is so many bytes long, and bytes stand for its parts:  *)
(* they need not be as many as in the program.                             *)
(***************************************************************************)
EXTENDS MPSCQueue, Integers, FiniteSets, SequencesExt

CONSTANTS
  Size,                 \* packet -> its length with the header
  SendBufferSize,       \* _sendBufferSize
  Net, World, Workers,  \* the threads
  MaxRead               \* bound: packets in one read

ASSUME SocketAssumption ==
  /\ {1, 2} \subseteq Nodes /\ Nodes \subseteq Nat \ {0}
  /\ \A n \in Nodes : 1 .. n \subseteq Nodes
  /\ Size \in [Nodes -> Nat \ {0}]
  /\ SendBufferSize \in Nat \ {0} /\ MaxRead \in Nat \ {0}
  /\ Consumer = Net /\ World # Net /\ Workers \cap {Net, World} = {}
  /\ Threads = {Net, World} \cup Workers

VARIABLES
  closed, closing,      \* _closed, _closing
  closers,              \* the threads in CloseSocket that have set _closed
  isWritingAsync,       \* _isWritingAsync
  buffer,               \* the MessageBuffer of WorldSocket::Update
  writeQueue,           \* _writeQueue
  auth,                 \* how far the client is, as the callbacks go
  reading,              \* an async_read_some is under way
  inSockets,            \* the network thread has it in _sockets
  netAt,                \* where the network thread is
  unread,               \* the packets of the read buffer still to be handled
  sending,              \* the threads in SendPacket past its test of IsOpen
  worldSession,         \* _worldSession is not null
  session,              \* the WorldSession: how far it has come
  hasSocket,            \* its m_Socket is not null
  inMaps,               \* the world thread waits for the map workers
  network,              \* "up" | "failed" | "shut down" by this side
  freed,                \* the packets that were deleted
  order,                \* history: the packets in the order of their exchanges
  wire                  \* history: the bytes written

queueVars == <<mpscVars, order>>
writeVars == <<closed, closing, closers, isWritingAsync, buffer, writeQueue, network, freed, wire>>
readVars == <<auth, reading, unread, inSockets>>
sessionVars == <<worldSession, session, hasSocket, inMaps>>
vars == <<queueVars, writeVars, readVars, netAt, sending, sessionVars>>

TypeOK ==
  /\ MPSCTypeOK
  /\ closed \in BOOLEAN /\ closing \in BOOLEAN /\ isWritingAsync \in BOOLEAN
  /\ closers \subseteq Threads /\ sending \subseteq Threads
  /\ buffer \in Seq(Nodes \X Nat) /\ writeQueue \in Seq(Seq(Nodes \X Nat))
  /\ auth \in {"ip", "challenged", "account", "refusing", "in"}
  /\ reading \in BOOLEAN /\ inSockets \in BOOLEAN /\ unread \in 0 .. MaxRead
  /\ netAt \in {"idle", "dequeue", "write", "callbacks", "read"}
  /\ worldSession \in BOOLEAN /\ hasSocket \in BOOLEAN /\ inMaps \in BOOLEAN
  /\ session \in {"none", "queued", "exists", "deleting", "deleted"}
  /\ network \in {"up", "failed", "shut down"}
  /\ freed \subseteq Nodes /\ order \in Seq(Nodes) /\ wire \in Seq(Nodes \X Nat)

Init ==
  /\ MPSCInit
  /\ closed = FALSE /\ closing = FALSE /\ closers = {} /\ isWritingAsync = FALSE
  /\ buffer = << >> /\ writeQueue = << >>
  /\ auth = "ip" /\ reading = FALSE /\ unread = 0 /\ inSockets = TRUE
  /\ netAt = "idle" /\ sending = {}
  /\ worldSession = FALSE /\ session = "none" /\ hasSocket = FALSE /\ inMaps = FALSE
  /\ network = "up" /\ freed = {} /\ order = << >> /\ wire = << >>

Channel ==
  INSTANCE SocketChannel WITH Packets <- Nodes, accepted <- order, up <- network = "up"

IsOpen == ~closed /\ ~closing
Ready(t) == ~Pushing(t) /\ t \notin closers /\ t \notin sending

-----------------------------------------------------------------------------
(* SendPacket: the socket is open, the packet is made, and enqueued.       *)

\* A packet is named by its place in the order; the bound on them is Nodes.
MayMakePacket == Len(order) + Cardinality(sending) + 1 \in Nodes

MayRun(t) == IF t = World THEN ~inMaps ELSE inMaps

StartSending(t) ==
  /\ t # Net
  /\ Ready(t) /\ MayRun(t)
  /\ session = "exists" /\ hasSocket
  /\ IsOpen /\ MayMakePacket
  /\ sending' = sending \cup {t}
  /\ UNCHANGED <<queueVars, writeVars, readVars, netAt, sessionVars>>

EnqueuePacket(t) ==
  /\ Exchange(t, Len(order) + 1)
  /\ order' = Append(order, Len(order) + 1)

Enqueue(t) ==
  /\ t \in sending
  /\ EnqueuePacket(t)
  /\ sending' = sending \ {t}
  /\ UNCHANGED <<tail, deqAt, writeVars, readVars, netAt, sessionVars>>

LinkPacket(t) ==
  /\ Link(t)
  /\ UNCHANGED <<order, writeVars, readVars, netAt, sending, sessionVars>>

-----------------------------------------------------------------------------
(* CloseSocket: who sets _closed shuts the connection down and calls       *)
(* OnClose; anybody else returns at once.                                  *)

CloseSocket(t) ==
  /\ closed' = TRUE
  /\ closers' = IF closed THEN closers ELSE closers \cup {t}

OnClose(t) ==
  /\ t \in closers
  /\ closers' = closers \ {t}
  /\ network' = IF network = "up" THEN "shut down" ELSE network
  /\ worldSession' = FALSE
  /\ UNCHANGED <<queueVars, closed, closing, isWritingAsync, buffer, writeQueue, freed, wire,
                 readVars, netAt, sending, session, hasSocket, inMaps>>

Kick(t) ==
  /\ t # Net
  /\ Ready(t) /\ MayRun(t)
  /\ session = "exists" /\ hasSocket
  /\ CloseSocket(t)
  /\ UNCHANGED <<queueVars, closing, isWritingAsync, buffer, writeQueue, network, freed, wire,
                 readVars, netAt, sending, sessionVars>>

-----------------------------------------------------------------------------
(* WorldSocket::Update, every ten milliseconds until it returns false.     *)

NetReady == Ready(Net)

StartUpdate ==
  /\ netAt = "idle" /\ NetReady /\ inSockets
  /\ netAt' = "dequeue"
  /\ UNCHANGED <<queueVars, writeVars, readVars, sending, sessionVars>>

DequeueStep ==
  /\ netAt = "dequeue" /\ NetReady
  /\ SkipDummy \/ NoSuccessor \/ IsHead \/ EnqueueDummy
  /\ UNCHANGED <<order, writeVars, readVars, netAt, sending, sessionVars>>

\* Mutant of NotEmpty: only a full buffer is queued.
NotEmpty_Full(buf) == IF Len(buf) < SendBufferSize THEN << >> ELSE <<buf>>

NotEmpty(buf) == IF buf = << >> THEN << >> ELSE <<buf>>

\* Mutant of Buffered: what a big packet finds in the buffer is not queued first.
Buffered_Behind(p) ==
  LET bytes == Channel!Bytes(p)
      fits == Len(buffer) + Len(bytes) <= SendBufferSize
  IN  IF Len(bytes) > SendBufferSize
        THEN writeQueue' = Append(writeQueue, bytes) /\ UNCHANGED buffer
        ELSE /\ writeQueue' = IF fits THEN writeQueue ELSE Append(writeQueue, buffer)
             /\ buffer' = IF fits THEN buffer \o bytes ELSE bytes

\* A packet that does not fit any more goes into a fresh buffer; one that is
\* bigger than a buffer gets one of its own, behind the one before even when
\* that is empty.
Buffered(p) ==
  LET bytes == Channel!Bytes(p)
      fits == Len(buffer) + Len(bytes) <= SendBufferSize
      big == Len(bytes) > SendBufferSize
  IN  /\ writeQueue' = writeQueue \o (IF fits THEN << >> ELSE <<buffer>>)
                                 \o (IF big THEN <<bytes>> ELSE << >>)
      /\ buffer' = IF fits THEN buffer \o bytes ELSE IF big THEN << >> ELSE bytes

TakePacket ==
  /\ netAt = "dequeue" /\ NetReady
  /\ Pops(tail)
  /\ Buffered(tail)
  /\ freed' = freed \cup {tail}
  /\ UNCHANGED <<order, closed, closing, closers, isWritingAsync, network, wire,
                 readVars, netAt, sending, sessionVars>>

\* Nothing more to take: the buffer is queued, and Socket::Update is called.
Flush ==
  LET queued == writeQueue \o NotEmpty(buffer)
  IN  /\ netAt = "dequeue" /\ NetReady
      /\ GiveUp
      /\ writeQueue' = queued /\ buffer' = << >>
      /\ inSockets' = ~closed
      /\ netAt' = IF closed THEN "idle"
                  ELSE IF isWritingAsync \/ (queued = << >> /\ ~closing) THEN "callbacks"
                  ELSE "write"
      /\ UNCHANGED <<order, closed, closing, closers, isWritingAsync, network, freed, wire,
                     auth, reading, unread, sending, sessionVars>>

-----------------------------------------------------------------------------
(* HandleQueue.                                                            *)

\* Mutant of Pop: the socket is closed only after a write that succeeded.
Pop_NoClose(sent) ==
  /\ writeQueue' = Tail(writeQueue)
  /\ IF closing /\ Tail(writeQueue) = << >> /\ sent > 0
       THEN CloseSocket(Net) ELSE UNCHANGED <<closed, closers>>

\* The front buffer is done with, for better or worse; with the last one a
\* socket that is closing is closed.
Pop(sent) ==
  /\ writeQueue' = Tail(writeQueue)
  /\ IF closing /\ Tail(writeQueue) = << >>
       THEN CloseSocket(Net) ELSE UNCHANGED <<closed, closers>>

\* Of the front buffer sent bytes are written; when it is not all of it, the rest
\* waits until the network is ready.
HandleQueue(sent) ==
  LET front == Head(writeQueue)
  IN  IF writeQueue = << >>
        THEN sent = 0 /\ isWritingAsync' = FALSE /\ UNCHANGED <<closed, closers, writeQueue, wire>>
        ELSE IF network # "up" \/ sent = Len(front)
        THEN /\ network # "up" => sent = 0
             /\ Pop(sent)
             /\ isWritingAsync' = FALSE
             /\ wire' = wire \o SubSeq(front, 1, sent)
        ELSE /\ sent < Len(front)
             /\ writeQueue' = <<SubSeq(front, sent + 1, Len(front))>> \o Tail(writeQueue)
             /\ isWritingAsync' = TRUE
             /\ wire' = wire \o SubSeq(front, 1, sent)
             /\ UNCHANGED <<closed, closers>>

Longest == Max({Size[n] : n \in Nodes} \cup {SendBufferSize})

\* The loop of Socket::Update ends with a buffer that was not written whole, an
\* empty one included, or with the last.
WriteLoop ==
  /\ netAt = "write" /\ NetReady
  /\ \E sent \in 0 .. Longest :
       /\ HandleQueue(sent)
       /\ netAt' = IF sent > 0 /\ ~isWritingAsync' /\ writeQueue' # << >> THEN "write"
                   ELSE "callbacks"
  /\ UNCHANGED <<queueVars, closing, buffer, network, freed, readVars, sending, sessionVars>>

\* The network has room again, or has failed.
WriteHandler ==
  /\ netAt = "idle" /\ NetReady /\ isWritingAsync
  /\ \E sent \in 0 .. Longest :
       /\ network = "up" /\ writeQueue # << >> => sent > 0
       /\ HandleQueue(sent)
  /\ UNCHANGED <<queueVars, closing, buffer, network, freed, readVars, netAt, sending, sessionVars>>

-----------------------------------------------------------------------------
(* The callbacks: CheckIpCallback and HandleAuthSessionCallback.           *)

NothingReady ==
  /\ netAt = "callbacks" /\ NetReady
  /\ auth = "refusing" => closing
  /\ netAt' = "idle"
  /\ UNCHANGED <<queueVars, writeVars, readVars, sending, sessionVars>>

SendChallenge ==
  /\ netAt = "callbacks" /\ NetReady
  /\ auth = "ip"
  /\ auth' = "challenged" /\ reading' = IsOpen
  /\ EnqueuePacket(Net)
  /\ netAt' = "idle"
  /\ UNCHANGED <<tail, deqAt, writeVars, unread, inSockets, sending, sessionVars>>

\* SendAuthResponseError, and then DelayedCloseSocket.
Refuse ==
  /\ netAt = "callbacks" /\ NetReady
  /\ auth \in {"ip", "account"}
  /\ auth' = "refusing"
  /\ EnqueuePacket(Net)
  /\ UNCHANGED <<tail, deqAt, writeVars, reading, unread, inSockets, netAt, sending, sessionVars>>

DelayedCloseSocket ==
  /\ netAt = "callbacks" /\ NetReady
  /\ auth = "refusing" /\ ~closing
  /\ closing' = TRUE
  /\ netAt' = "idle"
  /\ UNCHANGED <<queueVars, closed, closers, isWritingAsync, buffer, writeQueue, network, freed,
                 wire, readVars, sending, sessionVars>>

\* The session is made and handed to the world; then the socket is read again.
Authenticate ==
  /\ netAt = "callbacks" /\ NetReady
  /\ auth = "account"
  /\ auth' = "in"
  /\ worldSession' = TRUE /\ session' = "queued" /\ hasSocket' = TRUE
  /\ netAt' = "read"
  /\ UNCHANGED <<queueVars, writeVars, reading, unread, inSockets, sending, inMaps>>

-----------------------------------------------------------------------------
(* Reading.                                                                *)

ReadFails ==
  /\ netAt = "idle" /\ NetReady /\ reading
  /\ network # "up"
  /\ reading' = FALSE
  /\ CloseSocket(Net)
  /\ UNCHANGED <<queueVars, closing, isWritingAsync, buffer, writeQueue, network, freed, wire,
                 auth, unread, inSockets, netAt, sending, sessionVars>>

ReadHandler ==
  /\ netAt = "idle" /\ NetReady /\ reading
  /\ network # "failed"
  /\ reading' = FALSE
  /\ IF IsOpen THEN netAt' = "read" /\ unread' \in 1 .. MaxRead ELSE UNCHANGED <<netAt, unread>>
  /\ UNCHANGED <<queueVars, writeVars, auth, inSockets, sending, sessionVars>>

AsyncRead ==
  /\ netAt = "read" /\ NetReady
  /\ unread = 0
  /\ reading' = IsOpen
  /\ netAt' = "idle"
  /\ UNCHANGED <<queueVars, writeVars, auth, unread, inSockets, sending, sessionVars>>

\* CMSG_AUTH_SESSION: the account is looked up, and nothing read meanwhile.
HandleAuthSession ==
  /\ netAt = "read" /\ NetReady
  /\ unread > 0
  /\ auth = "challenged"
  /\ auth' = "account" /\ unread' = 0
  /\ netAt' = "idle"
  /\ UNCHANGED <<queueVars, writeVars, reading, inSockets, sending, sessionVars>>

\* What the session is told of is done under _worldSessionLock.
QueuePacket ==
  /\ netAt = "read" /\ NetReady
  /\ unread > 0
  /\ worldSession
  /\ unread' = unread - 1
  /\ UNCHANGED <<queueVars, writeVars, auth, reading, inSockets, netAt, sending, sessionVars>>

HandlePing ==
  /\ netAt = "read" /\ NetReady
  /\ unread > 0
  /\ worldSession
  /\ IsOpen /\ MayMakePacket
  /\ unread' = unread - 1
  /\ EnqueuePacket(Net)
  /\ UNCHANGED <<tail, deqAt, writeVars, auth, reading, inSockets, netAt, sending, sessionVars>>

\* A packet that is not in order, or for which there is no session.
RefusePacket ==
  /\ netAt = "read" /\ NetReady
  /\ unread > 0
  /\ unread' = 0
  /\ CloseSocket(Net)
  /\ netAt' = "idle"
  /\ UNCHANGED <<queueVars, closing, isWritingAsync, buffer, writeQueue, network, freed, wire,
                 auth, reading, inSockets, sending, sessionVars>>

-----------------------------------------------------------------------------
(* The world thread and the session.                                       *)

WorldReady == Ready(World) /\ ~inMaps

AddSession ==
  /\ WorldReady
  /\ session = "queued"
  /\ session' = "exists"
  /\ UNCHANGED <<queueVars, writeVars, readVars, netAt, sending, worldSession, hasSocket, inMaps>>

\* WorldSession::Update and HandleSocketClosed let go of a socket that was closed.
ReleaseSocket ==
  /\ WorldReady
  /\ session = "exists" /\ hasSocket /\ ~IsOpen
  /\ hasSocket' = FALSE
  /\ UNCHANGED <<queueVars, writeVars, readVars, netAt, sending, worldSession, session, inMaps>>

\* ~WorldSession: the socket is closed first, unless it was let go of.
BeginDelete ==
  /\ WorldReady
  /\ session \in {"queued", "exists"}
  /\ session' = "deleting"
  /\ IF hasSocket THEN CloseSocket(World) ELSE UNCHANGED <<closed, closers>>
  /\ UNCHANGED <<queueVars, closing, isWritingAsync, buffer, writeQueue, network, freed, wire,
                 readVars, netAt, sending, worldSession, hasSocket, inMaps>>

EndDelete ==
  /\ WorldReady
  /\ session = "deleting"
  /\ session' = "deleted" /\ hasSocket' = FALSE
  /\ UNCHANGED <<queueVars, writeVars, readVars, netAt, sending, worldSession, inMaps>>

EnterMaps ==
  /\ WorldReady
  /\ session # "deleting"
  /\ inMaps' = TRUE
  /\ UNCHANGED <<queueVars, writeVars, readVars, netAt, sending, worldSession, session, hasSocket>>

\* Mutant of LeaveMaps: the world thread does not wait for the map workers.
LeaveMaps_NoWait ==
  /\ inMaps
  /\ inMaps' = FALSE
  /\ UNCHANGED <<queueVars, writeVars, readVars, netAt, sending, worldSession, session, hasSocket>>

LeaveMaps ==
  /\ inMaps
  /\ \A w \in Workers : Ready(w)
  /\ inMaps' = FALSE
  /\ UNCHANGED <<queueVars, writeVars, readVars, netAt, sending, worldSession, session, hasSocket>>

\* The peer goes away.
Fail ==
  /\ network = "up"
  /\ network' = "failed"
  /\ UNCHANGED <<queueVars, closed, closing, closers, isWritingAsync, buffer, writeQueue, freed,
                 wire, readVars, netAt, sending, sessionVars>>

-----------------------------------------------------------------------------

\* What the network thread does once it has begun.
NetStep ==
  \/ DequeueStep \/ TakePacket \/ Flush \/ WriteLoop
  \/ NothingReady \/ SendChallenge \/ Refuse \/ DelayedCloseSocket \/ Authenticate
  \/ AsyncRead \/ HandleAuthSession \/ QueuePacket \/ HandlePing \/ RefusePacket

Next ==
  \/ StartUpdate \/ WriteHandler \/ ReadFails \/ ReadHandler \/ NetStep
  \/ \E t \in Threads : StartSending(t) \/ Enqueue(t) \/ LinkPacket(t) \/ OnClose(t) \/ Kick(t)
  \/ AddSession \/ ReleaseSocket \/ BeginDelete \/ EndDelete \/ EnterMaps \/ LeaveMaps
  \/ Fail

Spec == Init /\ [][Next]_vars

\* A thread that has begun goes on, and the network thread runs every handler that
\* is ready before it runs one twice.
Fairness ==
  /\ WF_vars(NetStep)
  /\ SF_vars(StartUpdate) /\ SF_vars(WriteHandler)
  /\ \A t \in Threads : WF_vars(LinkPacket(t)) /\ WF_vars(OnClose(t))

FairSpec == Spec /\ Fairness

-----------------------------------------------------------------------------

\* Whatever threads send, and however a write is cut, blocked or fails, the peer gets
\* the packets in the order of their exchanges, byte by byte.
ChannelRefined == Channel!Spec

\* What the queue's links and its threads may still touch has not been deleted: not
\* the node that an Enqueue in progress will link to its successor, either.
NodesAlive ==
  freed \cap ({head, tail} \cup UNION {{push[t].node, push[t].prevHead} : t \in Threads}) = {}

\* The network thread never tells a deleted session of a packet.
SessionAlive == netAt = "read" /\ NetReady /\ worldSession => session # "deleted"

OnWire(p) == \E k \in DOMAIN wire : wire[k] = <<p, Size[p]>>

\* Every packet that was enqueued is written in the end, unless the connection ends:
\* also one that Dequeue did not find because a link was missing, and one behind
\* which a write was cut.
EveryPacketWritten ==
  \A p \in Nodes : p \in Range(order) ~> OnWire(p) \/ closed \/ network # "up"

\* The socket of a refused client is closed in the end, whether the refusal can be
\* written, is blocked, or fails, and although nobody reads from it any more.
RefusedIsClosed == closing ~> closed
=============================================================================
