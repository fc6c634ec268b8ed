----------------------------- MODULE RealtimeHub ------------------------------
(***************************************************************************)
(* The WebSocket process: the connection hub, each connection's read and   *)
(* write loops, the PostgreSQL listener that feeds the hub, and the        *)
(* shutdown sequence of cmd/websocket.                                     *)
(*                                                                         *)
(* A connection's handler goroutine goes                                   *)
(*   none -> upgrade -> register -> (evict ->) serve -> read -> unregister *)
(*   -> close -> join -> end,                                              *)
(* and owns a writer goroutine from "serve" on.  A step is what runs under *)
(* one hold of the hub's mutex or of the client's queueMu, or one channel  *)
(* or socket operation.  Client.Close runs once and is one step: it sets   *)
(* closed, closes done and closes the socket.                              *)
(***************************************************************************)
EXTENDS Integers, Sequences, FiniteSets

CONSTANTS
  Conns,          \* WebSocket requests
  Devices, Users,
  DeviceOf,       \* the device each request names
  UserOf,         \* the user each device belongs to
  Cursors,        \* latestCursor of the events; a negative one is malformed
  SendQueueSize,  \* capacity of Client.Send: 8
  InitialBackoff, MaxBackoff,
  NoConn

VARIABLES
  clients,   \* Hub.clients: the registered connection of each device
  hubClosed, \* Hub.closed
  conn,      \* per connection: handler, previous connection, closed flag
  writer,    \* per connection: the write loop and the cursor it is writing
  queue,     \* per connection: Client.Send
  sent,      \* per connection: cursors written to the socket
  enqueued,  \* per connection: cursors enqueue accepted
  listener,  \* the Subscribe goroutine
  session,   \* LISTEN is in force on the listener's connection
  inbox,     \* notifications the session has received and not handled
  published, \* cursor -> origin device of the events sent with pg_notify
  revoked,   \* devices with revoked_at set
  stage,     \* how far main has got in shutting down
  toClose    \* connections Hub.Close has still to close

hub == <<clients, hubClosed>>
peers == <<conn, writer, queue, sent, enqueued>>
bus == <<listener, session, inbox>>
world == <<published, revoked>>
main == <<stage, toClose>>
vars == <<hub, peers, bus, world, main>>

ConnPCs == {"none", "upgrade", "register", "evict", "serve", "read", "unregister", "close",
            "join", "end"}
WriterPCs == {"none", "run", "write", "done"}
ListenerPCs == {"down", "up", "fan", "drain", "drop", "dropclose", "stopped"}
Stages == {"running", "shutdown", "cancelled", "closing", "waiting", "stopped"}

Event == [user : Users, origin : Devices, cursor : Int]
NoEvent == [user |-> CHOOSE u \in Users : TRUE, origin |-> CHOOSE d \in Devices : TRUE, cursor |-> 0]

ASSUME RoutingAssumption == /\ DeviceOf \in [Conns -> Devices] /\ UserOf \in [Devices -> Users]
                            /\ Devices # {}
ASSUME CursorsAssumption == Cursors \subseteq Int
ASSUME NoConnAssumption == NoConn \notin Conns
ASSUME SizesAssumption == /\ SendQueueSize \in Nat \ {0}
                          /\ InitialBackoff \in Nat \ {0} /\ MaxBackoff \in Nat
                          /\ InitialBackoff <= MaxBackoff

-----------------------------------------------------------------------------
(* Client.                                                                 *)

\* The enqueue in progress holds the client's queueMu.
QueueLocked(c) == listener.pc = "drain" /\ listener.target = c

\* Client.Close, when nothing else changes in conn.
Closed(c, f) == [f EXCEPT ![c].closed = TRUE]

\* The select of writePump picks any ready case, done or not.
WriterTake(c) ==
  /\ writer[c].pc = "run" /\ queue[c] # <<>>
  /\ writer' = [writer EXCEPT ![c] = [pc |-> "write", cursor |-> Head(queue[c])]]
  /\ queue' = [queue EXCEPT ![c] = Tail(@)]
  /\ UNCHANGED <<conn, sent, enqueued, hub, bus, world, main>>

\* WriteMessage of the hint that was taken succeeds.
WriterWrite(c) ==
  /\ writer[c].pc = "write" /\ ~conn[c].closed
  /\ sent' = [sent EXCEPT ![c] = @ \cup {writer[c].cursor}]
  /\ writer' = [writer EXCEPT ![c] = [pc |-> "run", cursor |-> 0]]
  /\ UNCHANGED <<conn, queue, enqueued, hub, bus, world, main>>

\* A message cannot be written within writeWait: Close and return.
WriterFails(c) ==
  /\ writer[c].pc = "write" /\ ~QueueLocked(c)
  /\ conn' = Closed(c, conn)
  /\ writer' = [writer EXCEPT ![c] = [pc |-> "done", cursor |-> 0]]
  /\ UNCHANGED <<queue, sent, enqueued, hub, bus, world, main>>

\* The same for a ping.
PingFails(c) ==
  /\ writer[c].pc = "run" /\ ~QueueLocked(c)
  /\ conn' = Closed(c, conn)
  /\ writer' = [writer EXCEPT ![c].pc = "done"]
  /\ UNCHANGED <<queue, sent, enqueued, hub, bus, world, main>>

WriterDone(c) ==
  /\ writer[c].pc = "run" /\ conn[c].closed
  /\ writer' = [writer EXCEPT ![c].pc = "done"]
  /\ UNCHANGED <<conn, queue, sent, enqueued, hub, bus, world, main>>

-----------------------------------------------------------------------------
(* The handler, Hub.Register, Serve and Unregister.                        *)

At(c, pc) == [conn EXCEPT ![c].pc = pc]

\* ServeHTTP reads the device; no new request arrives once shutdown has begun.
Connect(c) ==
  /\ conn[c].pc = "none" /\ stage = "running"
  /\ conn' = At(c, IF DeviceOf[c] \in revoked THEN "end" ELSE "upgrade")
  /\ UNCHANGED <<writer, queue, sent, enqueued, hub, bus, world, main>>

Upgrade(c) ==
  /\ conn[c].pc = "upgrade"
  /\ conn' \in {At(c, "register"), At(c, "end")}
  /\ UNCHANGED <<writer, queue, sent, enqueued, hub, bus, world, main>>

Register(c) ==
  /\ conn[c].pc = "register"
  /\ LET previous == clients[DeviceOf[c]] IN
     IF hubClosed
     THEN conn' = Closed(c, At(c, "end")) /\ UNCHANGED clients
     ELSE /\ clients' = [clients EXCEPT ![DeviceOf[c]] = c]
          /\ conn' = [conn EXCEPT ![c].previous = previous,
                                  ![c].pc = IF previous = NoConn THEN "serve" ELSE "evict"]
  /\ UNCHANGED <<hubClosed, writer, queue, sent, enqueued, bus, world, main>>

\* Mutant: the replaced connection is left open.
EvictNothing(c) ==
  /\ conn[c].pc = "evict"
  /\ conn' = [conn EXCEPT ![c].pc = "serve", ![c].previous = NoConn]
  /\ UNCHANGED <<writer, queue, sent, enqueued, hub, bus, world, main>>
\* previous.Close(), after the mutex has been released.
Evict(c) ==
  /\ conn[c].pc = "evict" /\ ~QueueLocked(conn[c].previous)
  /\ conn' = Closed(conn[c].previous, [conn EXCEPT ![c].pc = "serve", ![c].previous = NoConn])
  /\ UNCHANGED <<writer, queue, sent, enqueued, hub, bus, world, main>>

\* Mutant: Serve does not look at h.closed.
ServeUnchecked(c) ==
  /\ conn[c].pc = "serve"
  /\ conn' = At(c, "read") /\ writer' = [writer EXCEPT ![c].pc = "run"]
  /\ UNCHANGED <<queue, sent, enqueued, hub, bus, world, main>>
\* wg.Add happens under the mutex Close takes, then both loops start.
Serve(c) ==
  /\ conn[c].pc = "serve"
  /\ IF hubClosed
     THEN conn' = Closed(c, At(c, "end")) /\ UNCHANGED writer
     ELSE conn' = At(c, "read") /\ writer' = [writer EXCEPT ![c].pc = "run"]
  /\ UNCHANGED <<queue, sent, enqueued, hub, bus, world, main>>

\* ReadMessage fails on the closed socket.
ReadClosed(c) ==
  /\ conn[c].pc = "read" /\ conn[c].closed
  /\ conn' = At(c, "unregister")
  /\ UNCHANGED <<writer, queue, sent, enqueued, hub, bus, world, main>>

\* The peer goes away, or misses its pong.
PeerGone(c) ==
  /\ conn[c].pc = "read" /\ ~conn[c].closed
  /\ conn' = At(c, "unregister")
  /\ UNCHANGED <<writer, queue, sent, enqueued, hub, bus, world, main>>

\* Mutant: without the identity check.
RemoveDevice(c) == [clients EXCEPT ![DeviceOf[c]] = NoConn]
\* The map is changed only if c is still the active connection of its device.
Removed(c) == IF clients[DeviceOf[c]] = c THEN [clients EXCEPT ![DeviceOf[c]] = NoConn] ELSE clients

Unregister(c) ==
  /\ conn[c].pc = "unregister"
  /\ clients' = Removed(c)
  /\ conn' = At(c, "close")
  /\ UNCHANGED <<hubClosed, writer, queue, sent, enqueued, bus, world, main>>

CloseAfterRead(c) ==
  /\ conn[c].pc = "close" /\ ~QueueLocked(c)
  /\ conn' = Closed(c, At(c, "join"))
  /\ UNCHANGED <<writer, queue, sent, enqueued, hub, bus, world, main>>

\* <-client.writerDone, then wg.Done.
Join(c) ==
  /\ conn[c].pc = "join" /\ writer[c].pc = "done"
  /\ conn' = At(c, "end")
  /\ UNCHANGED <<writer, queue, sent, enqueued, hub, bus, world, main>>

-----------------------------------------------------------------------------
(* PostgresEventBus.Subscribe and Hub.PublishSyncAvailable.                *)

nextBackoff(b) == IF b * 2 > MaxBackoff THEN MaxBackoff ELSE b * 2

\* Acquire and LISTEN succeed.  The reset shows only after the next wait: the
\* delay that follows this session is the backoff that preceded it.
ListenerUp ==
  /\ listener.pc = "down" /\ stage \in {"running", "shutdown"}
  /\ session' = TRUE /\ inbox' = <<>>
  /\ listener' = [listener EXCEPT !.pc = "up", !.backoff = InitialBackoff]
  /\ UNCHANGED <<hub, peers, world, main>>

ListenerRetry ==
  /\ listener.pc = "down" /\ stage \in {"running", "shutdown"}
  /\ listener' = [listener EXCEPT !.backoff = nextBackoff(@)]
  /\ UNCHANGED <<session, inbox, hub, peers, world, main>>

\* The connection breaks: what was not received yet is lost, and so is
\* everything published until the next LISTEN.
SessionBreaks ==
  /\ session /\ session' = FALSE
  /\ inbox' \in {SubSeq(inbox, 1, k) : k \in 0..Len(inbox)}
  /\ UNCHANGED <<listener, hub, peers, world, main>>

ListenerDown ==
  /\ listener.pc = "up" /\ ~session /\ inbox = <<>>
  /\ listener' = [listener EXCEPT !.pc = "down"]
  /\ UNCHANGED <<session, inbox, hub, peers, world, main>>

\* ctx is cancelled: between two notifications, or while connecting.
ListenerStop ==
  /\ listener.pc \in {"down", "up"} /\ stage = "cancelled"
  /\ listener' = [listener EXCEPT !.pc = "stopped"] /\ session' = FALSE /\ inbox' = <<>>
  /\ UNCHANGED <<hub, peers, world, main>>

Validate(e) == e.cursor >= 0

\* Mutant: the originating device is not skipped.
TargetsWithOrigin(e) == {clients[d] : d \in {d \in Devices : UserOf[d] = e.user}} \ {NoConn}
\* The clients PublishSyncAvailable copies under the read lock.
Targets(e) ==
  {clients[d] : d \in {d \in Devices : UserOf[d] = e.user /\ d # e.origin}} \ {NoConn}

\* After the copy, or after a target: the rest of the targets, or the next event.
Continue(left) ==
  listener' = [listener EXCEPT !.pc = IF left = {} THEN "up" ELSE "fan", !.targets = left]

ListenerTake ==
  /\ listener.pc = "up" /\ inbox # <<>>
  /\ LET e == Head(inbox) IN
     listener' = [listener EXCEPT !.event = e,
                    !.targets = IF Validate(e) THEN Targets(e) ELSE {},
                    !.pc = IF Validate(e) /\ Targets(e) # {} THEN "fan" ELSE "up"]
  /\ inbox' = Tail(inbox)
  /\ UNCHANGED <<session, hub, peers, world, main>>

\* Mutant: a queue that holds a hint keeps it and drops the new one.
EnqueueKeepsOld(c) ==
  /\ listener.pc = "fan" /\ c \in listener.targets
  /\ \/ /\ conn[c].closed
        /\ listener' = [listener EXCEPT !.pc = "drop", !.target = c]
        /\ UNCHANGED <<queue, enqueued>>
     \/ /\ ~conn[c].closed
        /\ queue' = [queue EXCEPT ![c] = IF @ = <<>> THEN <<listener.event.cursor>> ELSE @]
        /\ enqueued' = enqueued
        /\ Continue(listener.targets \ {c})
  /\ UNCHANGED <<conn, writer, sent, session, inbox, hub, world, main>>
\* enqueue: a closed client refuses, an empty queue takes the hint, a queue
\* that holds hints is drained first.  PublishSyncAvailable is the only producer
\* and every message it makes is a sync_available hint, so the branch for another
\* type, and the put-back of such messages at the end of the drain, have no step
\* here; a channel that is empty or drained has room, and only the writer takes
\* from it meanwhile, so neither of the two sends finds it full.
Enqueue(c) ==
  /\ listener.pc = "fan" /\ c \in listener.targets
  /\ \/ /\ conn[c].closed
        /\ listener' = [listener EXCEPT !.pc = "drop", !.target = c]
        /\ UNCHANGED <<queue, enqueued>>
     \/ /\ ~conn[c].closed /\ queue[c] = <<>>
        /\ queue' = [queue EXCEPT ![c] = <<listener.event.cursor>>]
        /\ enqueued' = [enqueued EXCEPT ![c] = @ \cup {listener.event.cursor}]
        /\ Continue(listener.targets \ {c})
     \/ /\ ~conn[c].closed /\ queue[c] # <<>>
        /\ listener' = [listener EXCEPT !.pc = "drain", !.target = c,
                                        !.highest = listener.event.cursor]
        /\ UNCHANGED <<queue, enqueued>>
  /\ UNCHANGED <<conn, writer, sent, session, inbox, hub, world, main>>

\* Mutant: the newest hint replaces the ones that are waiting.
Newest(old, new) == new
Highest(old, new) == IF old > new THEN old ELSE new

\* One receive of the drain loop, or the send that ends it; the writer may take a
\* hint first.
EnqueueDrain ==
  /\ listener.pc = "drain"
  /\ LET c == listener.target IN
     IF queue[c] # <<>>
     THEN /\ listener' = [listener EXCEPT !.highest = Highest(Head(queue[c]), @)]
          /\ queue' = [queue EXCEPT ![c] = Tail(@)]
          /\ UNCHANGED enqueued
     ELSE /\ queue' = [queue EXCEPT ![c] = <<listener.highest>>]
          /\ enqueued' = [enqueued EXCEPT ![c] = @ \cup {listener.event.cursor}]
          /\ Continue(listener.targets \ {c})
  /\ UNCHANGED <<conn, writer, sent, session, inbox, hub, world, main>>

\* enqueue returned false: Unregister, then Close.
DropSlow ==
  /\ listener.pc = "drop"
  /\ clients' = Removed(listener.target)
  /\ listener' = [listener EXCEPT !.pc = "dropclose"]
  /\ UNCHANGED <<hubClosed, peers, session, inbox, world, main>>

DropClose ==
  /\ listener.pc = "dropclose"
  /\ conn' = Closed(listener.target, conn)
  /\ Continue(listener.targets \ {listener.target})
  /\ UNCHANGED <<writer, queue, sent, enqueued, session, inbox, hub, world, main>>

-----------------------------------------------------------------------------
(* main.                                                                   *)

\* server.Shutdown stops new requests and does not wait for hijacked ones.
Shutdown ==
  /\ stage = "running" /\ stage' = "shutdown"
  /\ UNCHANGED <<toClose, hub, peers, bus, world>>

CancelListener ==
  /\ stage = "shutdown" /\ stage' = "cancelled"
  /\ UNCHANGED <<toClose, hub, peers, bus, world>>

\* <-listenerDone, then Hub.Close up to the release of the mutex.
HubClose ==
  /\ stage = "cancelled" /\ listener.pc = "stopped"
  /\ stage' = "closing" /\ hubClosed' = TRUE
  /\ toClose' = {clients[d] : d \in Devices} \ {NoConn}
  /\ clients' = [d \in Devices |-> NoConn]
  /\ UNCHANGED <<peers, bus, world>>

HubCloseClient(c) ==
  /\ stage = "closing" /\ c \in toClose
  /\ conn' = Closed(c, conn)
  /\ toClose' = toClose \ {c}
  /\ UNCHANGED <<stage, writer, queue, sent, enqueued, hub, bus, world>>

\* The WaitGroup: connections that have entered Serve and not left it.
Serving == {c \in Conns : conn[c].pc \in {"read", "unregister", "close", "join"}}

HubCloseWait ==
  /\ stage = "closing" /\ toClose = {}
  /\ stage' = "waiting"
  /\ UNCHANGED <<toClose, hub, peers, bus, world>>

Stopped ==
  /\ stage = "waiting" /\ Serving = {}
  /\ stage' = "stopped"
  /\ UNCHANGED <<toClose, hub, peers, bus, world>>

-----------------------------------------------------------------------------
(* The API processes, which publish after commit, and device revocation.   *)

\* The publisher validates, then pg_notify: sessions that LISTEN get it, nobody
\* else ever will.
Publish(k, d) ==
  /\ k \notin DOMAIN published /\ Validate([cursor |-> k])
  /\ published' = [j \in DOMAIN published \cup {k} |-> IF j = k THEN d ELSE published[j]]
  /\ inbox' = IF session THEN Append(inbox, [user |-> UserOf[d], origin |-> d, cursor |-> k])
              ELSE inbox
  /\ UNCHANGED <<listener, session, revoked, hub, peers, main>>

Revoke(d) ==
  /\ d \notin revoked /\ revoked' = revoked \cup {d}
  /\ UNCHANGED <<published, hub, peers, bus, main>>

-----------------------------------------------------------------------------
Init ==
  /\ clients = [d \in Devices |-> NoConn] /\ hubClosed = FALSE
  /\ conn = [c \in Conns |-> [pc |-> "none", previous |-> NoConn, closed |-> FALSE]]
  /\ writer = [c \in Conns |-> [pc |-> "none", cursor |-> 0]]
  /\ queue = [c \in Conns |-> <<>>]
  /\ sent = [c \in Conns |-> {}] /\ enqueued = [c \in Conns |-> {}]
  /\ listener = [pc |-> "down", event |-> NoEvent, targets |-> {}, target |-> NoConn,
                 highest |-> 0, backoff |-> InitialBackoff]
  /\ session = FALSE /\ inbox = <<>>
  /\ published = [k \in {} |-> NoEvent.origin] /\ revoked = {}
  /\ stage = "running" /\ toClose = {}

Writer(c) == WriterTake(c) \/ WriterWrite(c) \/ WriterFails(c) \/ WriterDone(c)
Handler(c) == \/ Upgrade(c) \/ Register(c) \/ Evict(c) \/ Serve(c) \/ ReadClosed(c)
              \/ Unregister(c) \/ CloseAfterRead(c) \/ Join(c)
Subscribe == \/ ListenerUp \/ ListenerRetry \/ ListenerDown \/ ListenerStop \/ ListenerTake
             \/ \E c \in Conns : Enqueue(c)
             \/ EnqueueDrain \/ DropSlow \/ DropClose
Main == \/ CancelListener \/ HubClose \/ \E c \in Conns : HubCloseClient(c)
        \/ HubCloseWait \/ Stopped

\* The process, its connections and its database session.
Process == \/ \E c \in Conns : \/ Connect(c) \/ Handler(c) \/ Writer(c) \/ PeerGone(c)
                               \/ PingFails(c)
           \/ Subscribe \/ SessionBreaks \/ Main

Next == \/ Process \/ Shutdown
        \/ \E k \in Cursors, d \in Devices : Publish(k, d)
        \/ \E d \in Devices : Revoke(d)

Spec == Init /\ [][Next]_vars

(* The scheduler runs every goroutine that can take a step: the handlers and *)
(* write loops (socket writes have deadlines), the listener and main.        *)
Fairness == /\ \A c \in Conns : WF_vars(Handler(c)) /\ WF_vars(Writer(c))
            /\ WF_vars(Subscribe) /\ WF_vars(Main)
FairSpec == Spec /\ Fairness

-----------------------------------------------------------------------------
(* Properties.                                                             *)

TypeOK ==
  /\ clients \in [Devices -> Conns \cup {NoConn}] /\ hubClosed \in BOOLEAN
  /\ conn \in [Conns -> [pc : ConnPCs, previous : Conns \cup {NoConn}, closed : BOOLEAN]]
  /\ writer \in [Conns -> [pc : WriterPCs, cursor : Int]]
  /\ queue \in [Conns -> Seq(Int)] /\ \A c \in Conns : Len(queue[c]) <= SendQueueSize
  /\ sent \in [Conns -> SUBSET Int] /\ enqueued \in [Conns -> SUBSET Int]
  /\ listener \in [pc : ListenerPCs, event : Event, targets : SUBSET Conns,
                  target : Conns \cup {NoConn}, highest : Int,
                  backoff : InitialBackoff..MaxBackoff]
  /\ session \in BOOLEAN /\ inbox \in Seq(Event)
  /\ DOMAIN published \subseteq Cursors /\ revoked \subseteq Devices
  /\ stage \in Stages /\ toClose \subseteq Conns

Registered == {c \in Conns : conn[c].pc \in {"evict", "serve", "read"} /\ ~conn[c].closed}

\* Somebody still has to close c: the connection that replaced it, the listener
\* that found it closed, Hub.Close, or its own Serve on a closed hub.
ClosePending(c) ==
  \/ \E r \in Conns : conn[r].pc = "evict" /\ conn[r].previous = c
  \/ c \in toClose
  \/ hubClosed /\ conn[c].pc \in {"evict", "serve"}

\* A connection that is open and being served is the one its device is found by,
\* unless somebody is about to close it: neither an old connection that leaves
\* after its replacement arrived (Unregister's identity check) nor a slow one
\* the listener drops makes a live socket unreachable.
LiveIsReachable ==
  \A c \in Registered : clients[DeviceOf[c]] = c \/ ClosePending(c)

\* Cursors on their way to the socket of c.
Pending(c) ==
  {queue[c][i] : i \in DOMAIN queue[c]}
    \cup (IF writer[c].pc = "write" THEN {writer[c].cursor} ELSE {})
    \cup (IF QueueLocked(c) THEN {listener.highest} ELSE {})

\* Coalescing drops a hint only for one with a cursor at least as high: whatever
\* enqueue accepted for an open connection is covered by a hint that was sent or
\* is still on its way, with the writer taking hints while enqueue drains.
HintsNotLost ==
  \A c \in Conns : ~conn[c].closed =>
    \A k \in enqueued[c] : \E j \in sent[c] \cup Pending(c) : j >= k

\* A connection gets hints about its own user's changes made on other devices,
\* across reconnects, coalescing and listener restarts.
OnlyOthersHints ==
  \A c \in Conns : \A k \in sent[c] \cup Pending(c) :
    /\ k \in DOMAIN published
    /\ UserOf[published[k]] = UserOf[DeviceOf[c]] /\ published[k] # DeviceOf[c]

\* When main goes on to close the store, no connection has a loop left and none
\* can start one, however far its handler had got.
StoppedServesNobody ==
  stage = "stopped" => \A c \in Conns : /\ conn[c].pc \notin {"read", "unregister", "close", "join"}
                                        /\ writer[c].pc \in {"none", "done"}

\* Shutdown ends: the listener stops, and every connection's loops leave, also
\* those of a connection that was replaced and not closed yet when Close ran.
ShutdownCompletes == stage = "shutdown" ~> stage = "stopped"

Reached(c, k) == \E j \in sent[c] : j >= k
Waiting(c, k) == /\ clients[DeviceOf[c]] = c
                 /\ \E i \in DOMAIN inbox :
                      /\ inbox[i].cursor = k /\ inbox[i].user = UserOf[DeviceOf[c]]
                      /\ inbox[i].origin # DeviceOf[c]

\* A notification the listener's session received reaches every registered
\* connection it is for, as that hint or a higher one, unless the session breaks,
\* the connection ends or the process shuts down first.
HintReachesClient ==
  \A c \in Conns : \A k \in Cursors :
    Waiting(c, k) ~> \/ Reached(c, k) \/ ~session \/ stage # "running"
                     \/ clients[DeviceOf[c]] # c \/ conn[c].closed
=============================================================================
