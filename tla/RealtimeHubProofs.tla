--------------------------- MODULE RealtimeHubProofs ---------------------------
(***************************************************************************)
(* Proofs about RealtimeHub, for any number of connections, devices, users *)
(* and events.                                                             *)
(*                                                                         *)
(* The inductive invariant has four parts beside TypeOK: what the registry *)
(* says of the connections (RegistryOK), where the loops of a connection   *)
(* may be when main has stopped (LoopsOK), that enqueue never loses the    *)
(* highest cursor (HintsOK), and where every cursor on its way came from   *)
(* (OriginsOK).                                                            *)
(***************************************************************************)
EXTENDS RealtimeHub, TLAPS

ConnRecord == [pc : ConnPCs, previous : Conns \cup {NoConn}, closed : BOOLEAN]
WriterRecord == [pc : WriterPCs, cursor : Int]
ListenerRecord == [pc : ListenerPCs, event : Event, targets : SUBSET Conns,
                   target : Conns \cup {NoConn}, highest : Int, backoff : InitialBackoff..MaxBackoff]

RegistryOK ==
  /\ \A d \in Devices : clients[d] # NoConn => DeviceOf[clients[d]] = d
  /\ listener.pc \in {"drop", "dropclose"} =>
       listener.target \in Conns /\ conn[listener.target].closed
  /\ LiveIsReachable

LoopsOK ==
  /\ stage \in {"closing", "waiting", "stopped"} => hubClosed
  /\ stage \in {"running", "shutdown", "cancelled"} => toClose = {}
  /\ \A c \in Conns : writer[c].pc \in {"run", "write"} => c \in Serving
  /\ stage = "stopped" => Serving = {}

HintsOK ==
  /\ HintsNotLost
  /\ listener.pc = "drain" => /\ listener.target \in listener.targets
                              /\ listener.highest >= listener.event.cursor

\* The event was published by its origin, for the user it belongs to.
Known(e) == /\ e.cursor \in DOMAIN published /\ published[e.cursor] = e.origin
            /\ UserOf[e.origin] = e.user

Handling == listener.pc \in {"fan", "drain", "drop", "dropclose"}

OriginsOK ==
  /\ \A i \in DOMAIN inbox : Known(inbox[i])
  /\ Handling => /\ Known(listener.event)
                 /\ \A c \in listener.targets : /\ UserOf[DeviceOf[c]] = listener.event.user
                                                /\ DeviceOf[c] # listener.event.origin
  /\ OnlyOthersHints

HInv == TypeOK /\ RegistryOK /\ LoopsOK /\ HintsOK /\ OriginsOK

-----------------------------------------------------------------------------
(* Facts about queues and steps.                                           *)

Elems(s) == {s[i] : i \in DOMAIN s}

\* What the head and the tail of a queue hold is what the queue holds.
LEMMA QueueFacts ==
  ASSUME NEW S, NEW s \in Seq(S), s # <<>>
  PROVE  /\ Head(s) \in S /\ Tail(s) \in Seq(S) /\ Len(Tail(s)) <= Len(s)
         /\ Elems(s) = {Head(s)} \cup Elems(Tail(s))
<1>1. Head(s) \in S /\ Tail(s) \in Seq(S) /\ Len(Tail(s)) = Len(s) - 1 /\ Len(s) \in Nat /\ Len(s) # 0
  OBVIOUS
<1>2. DOMAIN s = 1..Len(s) /\ DOMAIN Tail(s) = 1..(Len(s) - 1) /\ Head(s) = s[1]
  BY <1>1
<1>3. \A i \in 1..(Len(s) - 1) : Tail(s)[i] = s[i + 1]
  BY <1>1
<1>4. \A i \in DOMAIN s : s[i] \in {Head(s)} \cup {Tail(s)[j] : j \in DOMAIN Tail(s)}
  <2> TAKE i \in DOMAIN s
  <2>1. CASE i = 1
    BY <1>2, <2>1
  <2>2. CASE i # 1
    <3>1. i - 1 \in DOMAIN Tail(s) /\ Tail(s)[i - 1] = s[i]
      BY <1>1, <1>2, <1>3, <2>2
    <3> QED
      BY <3>1
  <2> QED
    BY <2>1, <2>2
<1>5. \A j \in DOMAIN Tail(s) : Tail(s)[j] \in {s[i] : i \in DOMAIN s}
  <2> TAKE j \in DOMAIN Tail(s)
  <2>1. j + 1 \in DOMAIN s /\ s[j + 1] = Tail(s)[j]
    BY <1>1, <1>2, <1>3
  <2> QED
    BY <2>1
<1>6. Head(s) \in {s[i] : i \in DOMAIN s}
  <2>1. 1 \in DOMAIN s
    BY <1>1, <1>2
  <2> QED
    BY <1>2, <2>1
<1>7. Elems(s) \subseteq {Head(s)} \cup Elems(Tail(s))
  BY <1>4 DEF Elems
<1>8. {Head(s)} \cup Elems(Tail(s)) \subseteq Elems(s)
  BY <1>5, <1>6 DEF Elems
<1>9. Elems(s) = {Head(s)} \cup Elems(Tail(s))
  BY <1>7, <1>8
<1> QED
  BY <1>1, <1>9

\* The types of the parts, by name.
LEMMA Types ==
  ASSUME TypeOK
  PROVE  /\ conn \in [Conns -> ConnRecord] /\ writer \in [Conns -> WriterRecord]
         /\ listener \in ListenerRecord /\ clients \in [Devices -> Conns \cup {NoConn}]
         /\ \A c \in Conns : DeviceOf[c] \in Devices
BY RoutingAssumption DEF TypeOK, ConnRecord, WriterRecord, ListenerRecord

\* Closing is for good in every step below.
StaysClosed == \A c \in Conns : conn[c].closed => conn'[c].closed

Rest == <<queue, sent, enqueued, session, inbox, published, revoked>>

\* A step of handlers that leaves queues, writers and the listener alone.
LEMMA HandlerStepKeeps ==
  ASSUME HInv, conn' \in [Conns -> ConnRecord], StaysClosed,
         clients' \in [Devices -> Conns \cup {NoConn}], hubClosed' \in BOOLEAN,
         stage' \in Stages, toClose' \subseteq Conns,
         UNCHANGED <<writer, listener>>, UNCHANGED Rest
  PROVE  TypeOK' /\ HintsOK' /\ OriginsOK'
<1>0. UNCHANGED <<queue, sent, enqueued, session, inbox, published, revoked>>
  BY DEF Rest
<1>1. TypeOK'
  BY <1>0 DEF HInv, TypeOK, ConnRecord
<1>2. \A c \in Conns : Pending(c)' = Pending(c)
  BY <1>0 DEF Pending, QueueLocked
<1>3. HintsOK'
  BY <1>0, <1>2 DEF HInv, HintsOK, HintsNotLost, StaysClosed
<1>4. OriginsOK'
  BY <1>0, <1>2 DEF HInv, OriginsOK, OnlyOthersHints, Known, Handling
<1> QED
  BY <1>1, <1>3, <1>4

\* The frame of the handler's steps.
Frame == <<hubClosed, stage, toClose, writer, listener, queue, sent, enqueued, session, inbox, published,
           revoked>>

-----------------------------------------------------------------------------
(* The handler.                                                            *)

LEMMA ConnectInv ==
  ASSUME HInv, NEW c \in Conns, Connect(c) \/ Upgrade(c)
  PROVE  HInv'
<1>1. UNCHANGED <<clients, Frame>>
  BY DEF Connect, Upgrade, Frame, hub, bus, world, main
<1>2. /\ conn[c].pc \in {"none", "upgrade"}
      /\ \E pc \in {"end", "upgrade", "register"} : conn' = [conn EXCEPT ![c].pc = pc]
  BY DEF Connect, Upgrade, At
<1>3. conn \in [Conns -> ConnRecord] /\ clients \in [Devices -> Conns \cup {NoConn}]
  BY Types DEF HInv
<1>4. conn' \in [Conns -> ConnRecord] /\ StaysClosed
  BY <1>2, <1>3 DEF ConnRecord, ConnPCs, StaysClosed
<1>5. TypeOK' /\ HintsOK' /\ OriginsOK'
  BY <1>1, <1>3, <1>4, HandlerStepKeeps DEF HInv, TypeOK, Frame, Rest
<1>6. LoopsOK'
  BY <1>1, <1>2, <1>3 DEF HInv, LoopsOK, Serving, Frame, ConnRecord
<1>7. RegistryOK'
  BY <1>1, <1>2, <1>3 DEF HInv, RegistryOK, LiveIsReachable, Registered, ClosePending, Frame, ConnRecord
<1> QED
  BY <1>5, <1>6, <1>7 DEF HInv

LEMMA RegisterInv ==
  ASSUME HInv, NEW c \in Conns, Register(c)
  PROVE  HInv'
<1>1. UNCHANGED Frame
  BY DEF Register, Frame, bus, world, main
<1>2. /\ conn \in [Conns -> ConnRecord] /\ clients \in [Devices -> Conns \cup {NoConn}]
      /\ \A q \in Conns : DeviceOf[q] \in Devices
  BY Types DEF HInv
<1>3. conn[c].pc = "register"
  BY DEF Register
<1>4. CASE hubClosed
  <2>1. conn' = [conn EXCEPT ![c].pc = "end", ![c].closed = TRUE] /\ clients' = clients
    BY <1>4 DEF Register, Closed, At
  <2>2. conn' \in [Conns -> ConnRecord] /\ StaysClosed
    BY <1>2, <2>1 DEF ConnRecord, ConnPCs, StaysClosed
  <2>3. TypeOK' /\ HintsOK' /\ OriginsOK'
    BY <1>1, <1>2, <2>1, <2>2, HandlerStepKeeps DEF HInv, TypeOK, Frame, Rest
  <2>4. LoopsOK'
    BY <1>1, <1>2, <1>3, <2>1 DEF HInv, LoopsOK, Serving, Frame, ConnRecord
  <2>5. RegistryOK'
    BY <1>1, <1>2, <1>3, <2>1 DEF HInv, RegistryOK, LiveIsReachable, Registered, ClosePending, Frame, ConnRecord
  <2> QED
    BY <2>3, <2>4, <2>5 DEF HInv
<1>5. CASE ~hubClosed
  <2> DEFINE d == DeviceOf[c]
             pc == IF clients[d] = NoConn THEN "serve" ELSE "evict"
  <2>1. /\ clients' = [clients EXCEPT ![d] = c]
        /\ conn' = [conn EXCEPT ![c].previous = clients[d], ![c].pc = pc]
    BY <1>5 DEF Register
  <2>2. conn' \in [Conns -> ConnRecord] /\ StaysClosed /\ clients' \in [Devices -> Conns \cup {NoConn}]
    BY <1>2, <2>1 DEF ConnRecord, ConnPCs, StaysClosed
  <2>3. TypeOK' /\ HintsOK' /\ OriginsOK'
    BY <1>1, <1>2, <2>2, HandlerStepKeeps DEF HInv, TypeOK, Frame, Rest
  <2>4. LoopsOK'
    BY <1>1, <1>2, <1>3, <2>1 DEF HInv, LoopsOK, Serving, Frame, ConnRecord
  <2>5. /\ \A q \in Conns : q # c => conn'[q] = conn[q]
        /\ conn'[c].previous = clients[d] /\ conn'[c].pc = pc /\ conn'[c].closed = conn[c].closed
    BY <1>2, <2>1 DEF ConnRecord
  <2>6. LiveIsReachable'
    <3> SUFFICES ASSUME NEW q \in Registered' PROVE clients'[DeviceOf[q]] = q \/ ClosePending(q)'
      BY DEF LiveIsReachable
    <3>1. CASE q = c
      BY <1>2, <2>1, <3>1
    <3>2. CASE q # c
      <4>1. q \in Registered /\ q \in Conns
        BY <2>5, <3>2 DEF Registered
      <4>2. clients[DeviceOf[q]] = q \/ ClosePending(q)
        BY <4>1 DEF HInv, RegistryOK, LiveIsReachable
      <4>3. CASE ClosePending(q)
        BY <1>1, <1>3, <2>5, <4>1, <4>3 DEF ClosePending, Frame
      <4>4. CASE clients[DeviceOf[q]] = q /\ DeviceOf[q] # d
        BY <1>2, <2>1, <4>1, <4>4
      <4>5. CASE clients[DeviceOf[q]] = q /\ DeviceOf[q] = d
        <5>1. conn'[c].pc = "evict" /\ conn'[c].previous = q
          BY <2>5, <4>1, <4>5, NoConnAssumption
        <5> QED
          BY <5>1 DEF ClosePending
      <4> QED
        BY <4>2, <4>3, <4>4, <4>5
    <3> QED
      BY <3>1, <3>2
  <2>7. RegistryOK'
    <3>1. \A e \in Devices : clients'[e] # NoConn => DeviceOf[clients'[e]] = e
      BY <1>2, <2>1 DEF HInv, RegistryOK
    <3>2. (listener.pc \in {"drop", "dropclose"} =>
             listener.target \in Conns /\ conn[listener.target].closed)'
      BY <1>1, <2>5 DEF HInv, RegistryOK, Frame
    <3> QED
      BY <2>6, <3>1, <3>2 DEF RegistryOK
  <2> QED
    BY <2>3, <2>4, <2>7 DEF HInv
<1> QED
  BY <1>4, <1>5

LEMMA EvictInv ==
  ASSUME HInv, NEW c \in Conns, Evict(c)
  PROVE  HInv'
<1> DEFINE p == conn[c].previous
<1>1. UNCHANGED <<clients, Frame>>
  BY DEF Evict, Frame, hub, bus, world, main
<1>2. /\ conn \in [Conns -> ConnRecord] /\ clients \in [Devices -> Conns \cup {NoConn}]
  BY Types DEF HInv
<1>3. conn[c].pc = "evict" /\ conn' = [[conn EXCEPT ![c].pc = "serve", ![c].previous = NoConn] EXCEPT ![p].closed = TRUE]
  BY DEF Evict, Closed
<1>4. /\ conn' \in [Conns -> ConnRecord]
      /\ \A q \in Conns : /\ q # c => conn'[q].pc = conn[q].pc /\ conn'[q].previous = conn[q].previous
                          /\ q = p => conn'[q].closed
                          /\ q # p => (conn'[q].closed <=> conn[q].closed)
      /\ conn'[c].pc = "serve"
  <2> DEFINE mid == [conn EXCEPT ![c].pc = "serve", ![c].previous = NoConn]
  <2>1. /\ mid \in [Conns -> ConnRecord] /\ \A q \in Conns : q # c => mid[q] = conn[q]
        /\ mid[c].pc = "serve" /\ (mid[c].closed <=> conn[c].closed)
    BY <1>2 DEF ConnRecord, ConnPCs
  <2>2. conn' = [mid EXCEPT ![p].closed = TRUE]
    BY <1>3
  <2> HIDE DEF mid, p
  <2>3. conn' \in [Conns -> ConnRecord]
    BY <2>1, <2>2 DEF ConnRecord
  <2>4. /\ \A q \in Conns : q # p => conn'[q] = mid[q]
        /\ \A q \in Conns : q = p => /\ conn'[q].closed /\ conn'[q].pc = mid[q].pc
                                     /\ conn'[q].previous = mid[q].previous
    BY <2>1, <2>2 DEF ConnRecord
  <2> QED
    BY <2>1, <2>3, <2>4
<1>5. StaysClosed
  BY <1>4 DEF StaysClosed
<1>6. TypeOK' /\ HintsOK' /\ OriginsOK'
  BY <1>1, <1>2, <1>4, <1>5, HandlerStepKeeps DEF HInv, TypeOK, Frame, Rest
<1>7. LoopsOK'
  BY <1>1, <1>3, <1>4 DEF HInv, LoopsOK, Serving, Frame
<1>8. LiveIsReachable'
  <2> SUFFICES ASSUME NEW q \in Registered' PROVE clients'[DeviceOf[q]] = q \/ ClosePending(q)'
    BY DEF LiveIsReachable
  <2>1. q \in Conns /\ q # p /\ q \in Registered
    BY <1>3, <1>4 DEF Registered
  <2>2. clients[DeviceOf[q]] = q \/ ClosePending(q)
    BY <2>1 DEF HInv, RegistryOK, LiveIsReachable
  <2>3. ClosePending(q) => ClosePending(q)'
    BY <1>1, <1>3, <1>4, <2>1 DEF ClosePending, Frame
  <2> QED
    BY <1>1, <2>2, <2>3
<1>9. RegistryOK'
  BY <1>1, <1>5, <1>8 DEF HInv, RegistryOK, Frame, StaysClosed
<1> QED
  BY <1>6, <1>7, <1>9 DEF HInv

LEMMA ServeInv ==
  ASSUME HInv, NEW c \in Conns, Serve(c)
  PROVE  HInv'
<1>1. UNCHANGED <<clients, hubClosed, stage, toClose, listener, queue, sent, enqueued, session, inbox,
                  published, revoked>>
  BY DEF Serve, hub, bus, world, main
<1>2. /\ conn \in [Conns -> ConnRecord] /\ clients \in [Devices -> Conns \cup {NoConn}]
      /\ writer \in [Conns -> WriterRecord]
  BY Types DEF HInv
<1>3. conn[c].pc = "serve"
  BY DEF Serve
<1>4. CASE hubClosed
  <2>1. conn' = [conn EXCEPT ![c].pc = "end", ![c].closed = TRUE] /\ writer' = writer
    BY <1>4 DEF Serve, Closed, At
  <2>2. conn' \in [Conns -> ConnRecord] /\ StaysClosed
    BY <1>2, <2>1 DEF ConnRecord, ConnPCs, StaysClosed
  <2>3. TypeOK' /\ HintsOK' /\ OriginsOK'
    BY <1>1, <1>2, <2>1, <2>2, HandlerStepKeeps DEF HInv, TypeOK, Rest
  <2>4. LoopsOK'
    BY <1>1, <1>2, <1>3, <2>1 DEF HInv, LoopsOK, Serving, ConnRecord
  <2>5. RegistryOK'
    BY <1>1, <1>2, <1>3, <2>1 DEF HInv, RegistryOK, LiveIsReachable, Registered, ClosePending, ConnRecord
  <2> QED
    BY <2>3, <2>4, <2>5 DEF HInv
<1>5. CASE ~hubClosed
  <2>1. conn' = [conn EXCEPT ![c].pc = "read"] /\ writer' = [writer EXCEPT ![c].pc = "run"]
    BY <1>5 DEF Serve, At
  <2>2. conn' \in [Conns -> ConnRecord] /\ writer' \in [Conns -> WriterRecord] /\ StaysClosed
    BY <1>2, <2>1 DEF ConnRecord, ConnPCs, WriterRecord, WriterPCs, StaysClosed
  <2>3. TypeOK'
    BY <1>1, <2>2 DEF HInv, TypeOK, ConnRecord, WriterRecord
  <2>4. writer[c].pc \notin {"run", "write"}
    BY <1>3 DEF HInv, LoopsOK, Serving
  <2>5. \A q \in Conns : Pending(q)' = Pending(q)
    <3> TAKE q \in Conns
    <3>1. writer'[q].pc = "write" <=> writer[q].pc = "write"
      BY <1>2, <2>1, <2>4 DEF WriterRecord
    <3>2. writer[q].pc = "write" => writer'[q] = writer[q]
      BY <1>2, <2>1, <2>4 DEF WriterRecord
    <3> QED
      BY <1>1, <3>1, <3>2 DEF Pending, QueueLocked
  <2>6. HintsOK'
    BY <1>1, <2>2, <2>5 DEF HInv, HintsOK, HintsNotLost, StaysClosed
  <2>7. OriginsOK'
    BY <1>1, <2>5 DEF HInv, OriginsOK, OnlyOthersHints, Known, Handling
  <2>8. LoopsOK'
    BY <1>1, <1>2, <1>3, <1>5, <2>1 DEF HInv, LoopsOK, Serving, ConnRecord, WriterRecord
  <2>9. RegistryOK'
    BY <1>1, <1>2, <1>3, <1>5, <2>1 DEF HInv, RegistryOK, LiveIsReachable, Registered, ClosePending, ConnRecord
  <2> QED
    BY <2>3, <2>6, <2>7, <2>8, <2>9 DEF HInv
<1> QED
  BY <1>4, <1>5

LEMMA ReadEndsInv ==
  ASSUME HInv, NEW c \in Conns, ReadClosed(c) \/ PeerGone(c) \/ CloseAfterRead(c) \/ Join(c)
  PROVE  HInv'
<1>1. UNCHANGED <<clients, Frame>>
  BY DEF ReadClosed, PeerGone, CloseAfterRead, Join, Frame, hub, bus, world, main
<1>2. /\ conn[c].pc \in {"read", "close", "join"} /\ (conn[c].pc = "join" => writer[c].pc = "done")
      /\ \/ conn' = [conn EXCEPT ![c].pc = "unregister"]
         \/ conn' = [conn EXCEPT ![c].pc = "join", ![c].closed = TRUE]
         \/ conn' = [conn EXCEPT ![c].pc = "end"] /\ conn[c].pc = "join"
  BY DEF ReadClosed, PeerGone, CloseAfterRead, Join, At, Closed
<1>3. conn \in [Conns -> ConnRecord] /\ clients \in [Devices -> Conns \cup {NoConn}]
  BY Types DEF HInv
<1>4. conn' \in [Conns -> ConnRecord] /\ StaysClosed
  BY <1>2, <1>3 DEF ConnRecord, ConnPCs, StaysClosed
<1>5. TypeOK' /\ HintsOK' /\ OriginsOK'
  BY <1>1, <1>3, <1>4, HandlerStepKeeps DEF HInv, TypeOK, Frame, Rest
<1>6. LoopsOK'
  BY <1>1, <1>2, <1>3 DEF HInv, LoopsOK, Serving, Frame, ConnRecord
<1>7. RegistryOK'
  BY <1>1, <1>2, <1>3 DEF HInv, RegistryOK, LiveIsReachable, Registered, ClosePending, Frame, ConnRecord
<1> QED
  BY <1>5, <1>6, <1>7 DEF HInv

\* Removing a connection that is closed or leaving takes no other one's place.
LEMMA RemovedFacts ==
  ASSUME HInv, NEW c \in Conns
  PROVE  /\ Removed(c) \in [Devices -> Conns \cup {NoConn}]
         /\ \A d \in Devices : Removed(c)[d] # NoConn => Removed(c)[d] = clients[d]
         /\ \A d \in Devices : clients[d] # c => Removed(c)[d] = clients[d]
<1>1. clients \in [Devices -> Conns \cup {NoConn}] /\ DeviceOf[c] \in Devices
  BY Types DEF HInv
<1> QED
  BY <1>1 DEF Removed

LEMMA UnregisterInv ==
  ASSUME HInv, NEW c \in Conns, Unregister(c)
  PROVE  HInv'
<1>1. UNCHANGED Frame
  BY DEF Unregister, Frame, bus, world, main
<1>2. /\ conn[c].pc = "unregister" /\ conn' = [conn EXCEPT ![c].pc = "close"]
      /\ clients' = Removed(c)
  BY DEF Unregister, At
<1>3. conn \in [Conns -> ConnRecord] /\ \A q \in Conns : DeviceOf[q] \in Devices
  BY Types DEF HInv
<1>4. /\ clients' \in [Devices -> Conns \cup {NoConn}]
      /\ \A d \in Devices : clients'[d] # NoConn => clients'[d] = clients[d]
      /\ \A d \in Devices : clients[d] # c => clients'[d] = clients[d]
  BY <1>2, RemovedFacts
<1>5. conn' \in [Conns -> ConnRecord] /\ StaysClosed
  BY <1>2, <1>3 DEF ConnRecord, ConnPCs, StaysClosed
<1>6. TypeOK' /\ HintsOK' /\ OriginsOK'
  BY <1>1, <1>4, <1>5, HandlerStepKeeps DEF HInv, TypeOK, Frame, Rest
<1>7. LoopsOK'
  BY <1>1, <1>2, <1>3 DEF HInv, LoopsOK, Serving, Frame, ConnRecord
<1>8. /\ \A q \in Conns : q # c => conn'[q] = conn[q]
      /\ conn'[c].pc = "close"
  BY <1>2, <1>3 DEF ConnRecord
<1>9. LiveIsReachable'
  <2> SUFFICES ASSUME NEW q \in Registered' PROVE clients'[DeviceOf[q]] = q \/ ClosePending(q)'
    BY DEF LiveIsReachable
  <2>1. q \in Conns /\ q # c /\ q \in Registered
    BY <1>8 DEF Registered
  <2>2. clients[DeviceOf[q]] = q \/ ClosePending(q)
    BY <2>1 DEF HInv, RegistryOK, LiveIsReachable
  <2>3. ClosePending(q) => ClosePending(q)'
    BY <1>1, <1>2, <1>8, <2>1 DEF ClosePending, Frame
  <2> QED
    BY <1>3, <1>4, <2>1, <2>2, <2>3
<1>10. RegistryOK'
  <2>1. \A d \in Devices : clients'[d] # NoConn => DeviceOf[clients'[d]] = d
    BY <1>4 DEF HInv, RegistryOK
  <2>2. (listener.pc \in {"drop", "dropclose"} =>
           listener.target \in Conns /\ conn[listener.target].closed)'
    BY <1>1, <1>5 DEF HInv, RegistryOK, Frame, StaysClosed
  <2> QED
    BY <1>9, <2>1, <2>2 DEF RegistryOK
<1> QED
  BY <1>6, <1>7, <1>10 DEF HInv

-----------------------------------------------------------------------------
(* The writer.                                                             *)

\* Hints in the queue of q or written to its socket.
Carried(q) == sent[q] \cup Pending(q)

\* A step of one write loop: hints may move towards the socket, and a closed
\* connection may lose some; the registry and the listener are left alone.
LEMMA WriterStepKeeps ==
  ASSUME HInv, conn' \in [Conns -> ConnRecord], StaysClosed,
         \A q \in Conns : conn'[q].pc = conn[q].pc /\ conn'[q].previous = conn[q].previous,
         writer' \in [Conns -> WriterRecord],
         \A q \in Conns : writer'[q].pc \in {"run", "write"} => writer[q].pc \in {"run", "write"},
         queue' \in [Conns -> Seq(Int)], \A q \in Conns : Len(queue'[q]) <= SendQueueSize,
         sent' \in [Conns -> SUBSET Int],
         \A q \in Conns : Carried(q)' \subseteq Carried(q),
         \A q \in Conns : ~conn'[q].closed => Carried(q) \subseteq Carried(q)',
         UNCHANGED <<enqueued, clients, hubClosed, listener, session, inbox, published, revoked,
                     stage, toClose>>
  PROVE  HInv'
<1>1. TypeOK'
  BY DEF HInv, TypeOK, ConnRecord, WriterRecord
<1>2. RegistryOK'
  <2>1. \A q \in Registered' : q \in Registered
    BY DEF Registered, StaysClosed
  <2>2. \A q \in Conns : ClosePending(q) => ClosePending(q)'
    BY DEF ClosePending
  <2>3. LiveIsReachable'
    BY <2>1, <2>2 DEF HInv, RegistryOK, LiveIsReachable, Registered
  <2> QED
    BY <2>3 DEF HInv, RegistryOK, StaysClosed
<1>3. LoopsOK'
  BY DEF HInv, LoopsOK, Serving
<1>4. HintsOK'
  <2>1. HintsNotLost'
    <3> SUFFICES ASSUME NEW q \in Conns, ~conn'[q].closed, NEW k \in enqueued[q]
                 PROVE  \E j \in Carried(q)' : j >= k
      BY DEF HintsNotLost, Carried
    <3>1. \E j \in Carried(q) : j >= k
      BY DEF HInv, HintsOK, HintsNotLost, StaysClosed, Carried
    <3> QED
      BY <3>1
  <2> QED
    BY <2>1 DEF HInv, HintsOK
<1>5. OriginsOK'
  <2>1. OnlyOthersHints'
    BY DEF HInv, OriginsOK, OnlyOthersHints, Carried
  <2> QED
    BY <2>1 DEF HInv, OriginsOK, Known, Handling
<1> QED
  BY <1>1, <1>2, <1>3, <1>4, <1>5 DEF HInv

LEMMA WriterTakeInv ==
  ASSUME HInv, NEW c \in Conns, WriterTake(c)
  PROVE  HInv'
<1>1. UNCHANGED <<conn, sent, enqueued, clients, hubClosed, listener, session, inbox, published, revoked,
                  stage, toClose>>
  BY DEF WriterTake, hub, bus, world, main
<1>2. /\ writer[c].pc = "run" /\ queue[c] # <<>>
      /\ writer' = [writer EXCEPT ![c] = [pc |-> "write", cursor |-> Head(queue[c])]]
      /\ queue' = [queue EXCEPT ![c] = Tail(queue[c])]
  BY DEF WriterTake
<1>3. /\ conn \in [Conns -> ConnRecord] /\ writer \in [Conns -> WriterRecord]
      /\ queue \in [Conns -> Seq(Int)] /\ \A q \in Conns : Len(queue[q]) <= SendQueueSize
      /\ sent \in [Conns -> SUBSET Int]
  BY Types DEF HInv, TypeOK
<1>4. /\ Head(queue[c]) \in Int /\ Tail(queue[c]) \in Seq(Int) /\ Len(Tail(queue[c])) <= Len(queue[c])
      /\ Elems(queue[c]) = {Head(queue[c])} \cup Elems(Tail(queue[c]))
  <2>1. queue[c] \in Seq(Int)
    BY <1>3
  <2> QED
    BY <1>2, <2>1, QueueFacts
<1>5. Len(Tail(queue[c])) \in Nat /\ Len(queue[c]) \in Nat /\ SendQueueSize \in Nat
  BY <1>3, <1>4, SizesAssumption
<1>6. /\ writer' \in [Conns -> WriterRecord] /\ queue' \in [Conns -> Seq(Int)]
      /\ \A q \in Conns : Len(queue'[q]) <= SendQueueSize
  <2>1. writer' \in [Conns -> WriterRecord]
    BY <1>2, <1>3, <1>4 DEF WriterRecord, WriterPCs
  <2>2. queue' \in [Conns -> Seq(Int)]
    BY <1>2, <1>3, <1>4
  <2>3. \A q \in Conns : Len(queue'[q]) <= SendQueueSize
    <3> TAKE q \in Conns
    <3>1. CASE q = c
      <4>1. queue'[q] = Tail(queue[c])
        BY <1>2, <1>3, <3>1
      <4>2. Len(queue[c]) <= SendQueueSize
        BY <1>3
      <4> QED
        BY <4>1, <4>2, <1>4, <1>5
    <3>2. CASE q # c
      BY <1>2, <1>3, <3>2
    <3> QED
      BY <3>1, <3>2
  <2> QED
    BY <2>1, <2>2, <2>3
<1>7. \A q \in Conns : Pending(q)' = Pending(q)
  <2> TAKE q \in Conns
  <2>1. CASE q = c
    <3>1. queue'[c] = Tail(queue[c]) /\ writer'[c] = [pc |-> "write", cursor |-> Head(queue[c])]
      BY <1>2, <1>3
    <3>2. Pending(c)' = Elems(Tail(queue[c])) \cup {Head(queue[c])}
                          \cup (IF QueueLocked(c) THEN {listener.highest} ELSE {})
      BY <1>1, <3>1 DEF Pending, QueueLocked, Elems
    <3>3. Pending(c) = Elems(queue[c]) \cup (IF QueueLocked(c) THEN {listener.highest} ELSE {})
      BY <1>2 DEF Pending, Elems
    <3> QED
      BY <1>4, <2>1, <3>2, <3>3
  <2>2. CASE q # c
    <3>1. queue'[q] = queue[q] /\ writer'[q] = writer[q]
      BY <1>2, <1>3, <2>2
    <3> QED
      BY <1>1, <3>1 DEF Pending, QueueLocked
  <2> QED
    BY <2>1, <2>2
<1>8. \A q \in Conns : Carried(q)' = Carried(q)
  BY <1>1, <1>7 DEF Carried
<1>9. \A q \in Conns : writer'[q].pc \in {"run", "write"} => writer[q].pc \in {"run", "write"}
  BY <1>2, <1>3 DEF WriterRecord
<1> QED
  BY <1>1, <1>3, <1>6, <1>8, <1>9, WriterStepKeeps DEF StaysClosed

LEMMA WriterWriteInv ==
  ASSUME HInv, NEW c \in Conns, WriterWrite(c)
  PROVE  HInv'
<1>1. UNCHANGED <<conn, queue, enqueued, clients, hubClosed, listener, session, inbox, published, revoked,
                  stage, toClose>>
  BY DEF WriterWrite, hub, bus, world, main
<1>2. /\ writer[c].pc = "write"
      /\ sent' = [sent EXCEPT ![c] = @ \cup {writer[c].cursor}]
      /\ writer' = [writer EXCEPT ![c] = [pc |-> "run", cursor |-> 0]]
  BY DEF WriterWrite
<1>3. /\ conn \in [Conns -> ConnRecord] /\ writer \in [Conns -> WriterRecord]
      /\ queue \in [Conns -> Seq(Int)] /\ \A q \in Conns : Len(queue[q]) <= SendQueueSize
      /\ sent \in [Conns -> SUBSET Int]
  BY Types DEF HInv, TypeOK
<1>4. writer' \in [Conns -> WriterRecord] /\ sent' \in [Conns -> SUBSET Int]
  BY <1>2, <1>3 DEF WriterRecord, WriterPCs
<1>5. \A q \in Conns : Carried(q)' = Carried(q)
  <2> TAKE q \in Conns
  <2>1. CASE q = c
    <3>1. sent'[c] = sent[c] \cup {writer[c].cursor} /\ writer'[c].pc = "run"
      BY <1>2, <1>3
    <3>2. Pending(c)' \cup {writer[c].cursor} = Pending(c)
      BY <1>1, <1>2, <3>1 DEF Pending, QueueLocked
    <3> QED
      BY <2>1, <3>1, <3>2 DEF Carried
  <2>2. CASE q # c
    <3>1. sent'[q] = sent[q] /\ writer'[q] = writer[q]
      BY <1>2, <1>3, <2>2
    <3> QED
      BY <1>1, <3>1 DEF Carried, Pending, QueueLocked
  <2> QED
    BY <2>1, <2>2
<1>6. \A q \in Conns : writer'[q].pc \in {"run", "write"} => writer[q].pc \in {"run", "write"}
  BY <1>2, <1>3 DEF WriterRecord
<1> QED
  BY <1>1, <1>3, <1>4, <1>5, <1>6, WriterStepKeeps DEF StaysClosed

\* The write loop ends, and the connection is closed then at the latest.
LEMMA WriterEndsInv ==
  ASSUME HInv, NEW c \in Conns, WriterFails(c) \/ PingFails(c) \/ WriterDone(c)
  PROVE  HInv'
<1>1. UNCHANGED <<queue, sent, enqueued, clients, hubClosed, listener, session, inbox, published, revoked,
                  stage, toClose>>
  BY DEF WriterFails, PingFails, WriterDone, hub, bus, world, main
<1>2. /\ conn \in [Conns -> ConnRecord] /\ writer \in [Conns -> WriterRecord]
      /\ queue \in [Conns -> Seq(Int)] /\ \A q \in Conns : Len(queue[q]) <= SendQueueSize
      /\ sent \in [Conns -> SUBSET Int]
  BY Types DEF HInv, TypeOK
<1>3. conn' = [conn EXCEPT ![c].closed = TRUE] \/ (conn' = conn /\ conn[c].closed)
  <2>1. CASE WriterFails(c)
    BY <2>1 DEF WriterFails, Closed
  <2>2. CASE PingFails(c)
    BY <2>2 DEF PingFails, Closed
  <2>3. CASE WriterDone(c)
    BY <2>3 DEF WriterDone
  <2> QED
    BY <2>1, <2>2, <2>3
<1>4. /\ conn' \in [Conns -> ConnRecord] /\ conn'[c].closed /\ StaysClosed
      /\ \A q \in Conns : conn'[q].pc = conn[q].pc /\ conn'[q].previous = conn[q].previous
  <2>1. CASE conn' = [conn EXCEPT ![c].closed = TRUE]
    <3>1. conn' \in [Conns -> ConnRecord]
      BY <1>2, <2>1 DEF ConnRecord
    <3> QED
      BY <1>2, <2>1, <3>1 DEF ConnRecord, StaysClosed
  <2>2. CASE conn' = conn /\ conn[c].closed
    BY <1>2, <2>2 DEF StaysClosed
  <2> QED
    BY <1>3, <2>1, <2>2
<1>5. /\ writer' \in [Conns -> WriterRecord]
      /\ writer'[c].pc = "done" /\ \A q \in Conns : q # c => writer'[q] = writer[q]
  <2>1. CASE WriterFails(c)
    <3>1. writer' = [writer EXCEPT ![c] = [pc |-> "done", cursor |-> 0]]
      BY <2>1 DEF WriterFails
    <3> QED
      BY <1>2, <3>1 DEF WriterRecord, WriterPCs
  <2>2. CASE PingFails(c) \/ WriterDone(c)
    <3>1. writer' = [writer EXCEPT ![c].pc = "done"]
      BY <2>2 DEF PingFails, WriterDone
    <3> QED
      BY <1>2, <3>1 DEF WriterRecord, WriterPCs
  <2> QED
    BY <2>1, <2>2
<1>6. /\ \A q \in Conns : Pending(q)' \subseteq Pending(q)
      /\ \A q \in Conns : q # c => Pending(q)' = Pending(q)
  BY <1>1, <1>5 DEF Pending, QueueLocked
<1>7. /\ \A q \in Conns : Carried(q)' \subseteq Carried(q)
      /\ \A q \in Conns : ~conn'[q].closed => Carried(q) \subseteq Carried(q)'
  BY <1>1, <1>4, <1>6 DEF Carried
<1>8. \A q \in Conns : writer'[q].pc \in {"run", "write"} => writer[q].pc \in {"run", "write"}
  BY <1>5
<1> QED
  BY <1>1, <1>2, <1>4, <1>5, <1>7, <1>8, WriterStepKeeps

-----------------------------------------------------------------------------
(* The listener.                                                           *)

\* Where the listener may be, seen from the registry.
DropOK == listener.pc \in {"drop", "dropclose"} =>
            listener.target \in Conns /\ conn[listener.target].closed

\* The part of OriginsOK about the event in hand.
EventOK == Handling => /\ Known(listener.event)
                       /\ \A c \in listener.targets : /\ UserOf[DeviceOf[c]] = listener.event.user
                                                      /\ DeviceOf[c] # listener.event.origin

\* A step of the listener that leaves connections, write loops and registry alone.
LEMMA ListenerStepKeeps ==
  ASSUME HInv, listener' \in ListenerRecord, session' \in BOOLEAN, inbox' \in Seq(Event),
         queue' \in [Conns -> Seq(Int)], \A q \in Conns : Len(queue'[q]) <= SendQueueSize,
         enqueued' \in [Conns -> SUBSET Int], DropOK',
         UNCHANGED <<conn, writer, sent, clients, hubClosed, published, revoked, stage, toClose>>
  PROVE  TypeOK' /\ RegistryOK' /\ LoopsOK'
<1>1. TypeOK'
  BY DEF HInv, TypeOK, ListenerRecord
<1>2. LiveIsReachable'
  BY DEF HInv, RegistryOK, LiveIsReachable, Registered, ClosePending
<1>3. RegistryOK'
  BY <1>2 DEF HInv, RegistryOK, DropOK
<1>4. LoopsOK'
  BY DEF HInv, LoopsOK, Serving
<1> QED
  BY <1>1, <1>3, <1>4

\* A step outside enqueue: no hint moves.
LEMMA QuietListenerKeeps ==
  ASSUME HInv, listener' \in ListenerRecord, session' \in BOOLEAN, inbox' \in Seq(Event),
         listener' = listener \/ (listener.pc # "drain" /\ listener'.pc # "drain"),
         \A i \in DOMAIN inbox' : Known(inbox'[i]),
         DropOK', EventOK',
         UNCHANGED <<conn, writer, queue, sent, enqueued, clients, hubClosed, published, revoked,
                     stage, toClose>>
  PROVE  HInv'
<1>1. TypeOK' /\ RegistryOK' /\ LoopsOK'
  BY ListenerStepKeeps DEF HInv, TypeOK
<1>2. \A q \in Conns : Pending(q)' = Pending(q)
  BY DEF Pending, QueueLocked
<1>3. HintsOK'
  BY <1>2 DEF HInv, HintsOK, HintsNotLost
<1>4. OriginsOK'
  <2>1. OnlyOthersHints'
    BY <1>2 DEF HInv, OriginsOK, OnlyOthersHints
  <2>2. \A i \in DOMAIN inbox' : Known(inbox[i])'
    BY DEF Known
  <2> QED
    BY <2>1, <2>2 DEF OriginsOK, EventOK
<1> QED
  BY <1>1, <1>3, <1>4 DEF HInv

LEMMA BackoffTyped ==
  ASSUME NEW b \in InitialBackoff..MaxBackoff
  PROVE  nextBackoff(b) \in InitialBackoff..MaxBackoff /\ InitialBackoff \in InitialBackoff..MaxBackoff
BY SizesAssumption DEF nextBackoff

LEMMA SessionInv ==
  ASSUME HInv, ListenerUp \/ ListenerRetry \/ ListenerDown \/ ListenerStop
  PROVE  HInv'
<1>1. UNCHANGED <<conn, writer, queue, sent, enqueued, clients, hubClosed, published, revoked, stage, toClose>>
  BY DEF ListenerUp, ListenerRetry, ListenerDown, ListenerStop, hub, peers, world, main
<1>2. listener \in ListenerRecord /\ session \in BOOLEAN /\ inbox \in Seq(Event)
  BY Types DEF HInv, TypeOK
<1>3. /\ listener'.pc \in {"down", "up", "stopped"} /\ listener.pc \in {"down", "up"}
      /\ listener' \in ListenerRecord /\ session' \in BOOLEAN /\ (inbox' = <<>> \/ inbox' = inbox)
  <2>1. CASE ListenerUp
    <3>1. InitialBackoff \in InitialBackoff..MaxBackoff
      BY SizesAssumption
    <3> QED
      BY <1>2, <2>1, <3>1 DEF ListenerUp, ListenerRecord, ListenerPCs
  <2>2. CASE ListenerRetry
    <3>1. nextBackoff(listener.backoff) \in InitialBackoff..MaxBackoff
      BY <1>2, BackoffTyped DEF ListenerRecord
    <3>2. listener' = [listener EXCEPT !.backoff = nextBackoff(listener.backoff)] /\ listener.pc = "down"
      BY <2>2 DEF ListenerRetry
    <3>3. listener' \in ListenerRecord /\ listener'.pc = "down"
      BY <1>2, <3>1, <3>2 DEF ListenerRecord
    <3> QED
      BY <1>2, <2>2, <3>2, <3>3 DEF ListenerRetry
  <2>3. CASE ListenerDown
    BY <1>2, <2>3 DEF ListenerDown, ListenerRecord, ListenerPCs
  <2>4. CASE ListenerStop
    BY <1>2, <2>4 DEF ListenerStop, ListenerRecord, ListenerPCs
  <2> QED
    BY <2>1, <2>2, <2>3, <2>4
<1>4. inbox' \in Seq(Event) /\ \A i \in DOMAIN inbox' : Known(inbox'[i])
  <2>1. CASE inbox' = <<>>
    BY <2>1
  <2>2. CASE inbox' = inbox
    BY <1>2, <2>2 DEF HInv, OriginsOK
  <2> QED
    BY <1>3, <2>1, <2>2
<1>5. DropOK' /\ EventOK'
  BY <1>3 DEF DropOK, EventOK, Handling
<1> QED
  BY <1>1, <1>3, <1>4, <1>5, QuietListenerKeeps

LEMMA SessionBreaksInv ==
  ASSUME HInv, SessionBreaks
  PROVE  HInv'
<1>1. UNCHANGED <<conn, writer, queue, sent, enqueued, clients, hubClosed, published, revoked, stage, toClose,
                  listener>>
  BY DEF SessionBreaks, hub, peers, world, main
<1>2. listener \in ListenerRecord /\ session' \in BOOLEAN /\ inbox \in Seq(Event)
  BY Types DEF HInv, TypeOK, SessionBreaks
<1>3. PICK k \in 0..Len(inbox) : inbox' = SubSeq(inbox, 1, k)
  BY DEF SessionBreaks
<1>4. /\ inbox' \in Seq(Event) /\ DOMAIN inbox' = 1..k
      /\ \A i \in 1..k : inbox'[i] = inbox[i] /\ i \in DOMAIN inbox
  BY <1>2, <1>3
<1>5. \A i \in DOMAIN inbox' : Known(inbox'[i])
  <2> TAKE i \in DOMAIN inbox'
  <2>1. inbox'[i] = inbox[i] /\ i \in DOMAIN inbox
    BY <1>4
  <2>2. Known(inbox[i])
    BY <2>1 DEF HInv, OriginsOK
  <2> QED
    BY <2>1, <2>2
<1>6. DropOK' /\ EventOK'
  BY <1>1 DEF HInv, DropOK, RegistryOK, EventOK, OriginsOK, Handling, Known
<1> QED
  BY <1>1, <1>2, <1>4, <1>5, <1>6, QuietListenerKeeps

LEMMA ListenerTakeInv ==
  ASSUME HInv, ListenerTake
  PROVE  HInv'
<1> DEFINE e == Head(inbox)
           S == IF Validate(e) THEN Targets(e) ELSE {}
<1>1. UNCHANGED <<conn, writer, queue, sent, enqueued, clients, hubClosed, published, revoked, stage, toClose>>
      /\ session' = session
  BY DEF ListenerTake, hub, peers, world, main
<1>2. /\ listener \in ListenerRecord /\ session \in BOOLEAN /\ inbox \in Seq(Event)
      /\ clients \in [Devices -> Conns \cup {NoConn}]
  BY Types DEF HInv, TypeOK
<1>3. /\ listener.pc = "up" /\ inbox # <<>> /\ inbox' = Tail(inbox)
      /\ listener' = [listener EXCEPT !.event = e, !.targets = S,
                        !.pc = IF Validate(e) /\ Targets(e) # {} THEN "fan" ELSE "up"]
  BY DEF ListenerTake
<1>4. e \in Event /\ inbox' \in Seq(Event) /\ Known(e)
  <2>1. e \in Event /\ Tail(inbox) \in Seq(Event)
    BY <1>2, <1>3
  <2>2. 1 \in DOMAIN inbox /\ e = inbox[1]
    BY <1>2, <1>3
  <2>3. Known(inbox[1])
    BY <2>2 DEF HInv, OriginsOK
  <2> QED
    BY <1>3, <2>1, <2>2, <2>3
<1>5. \A c \in S : /\ c \in Conns /\ UserOf[DeviceOf[c]] = e.user /\ DeviceOf[c] # e.origin
  <2> SUFFICES ASSUME NEW c \in Targets(e)
               PROVE  c \in Conns /\ UserOf[DeviceOf[c]] = e.user /\ DeviceOf[c] # e.origin
    OBVIOUS
  <2>1. PICK d \in Devices : c = clients[d] /\ c # NoConn /\ UserOf[d] = e.user /\ d # e.origin
    BY DEF Targets
  <2>2. DeviceOf[c] = d
    BY <2>1 DEF HInv, RegistryOK
  <2> QED
    BY <1>2, <2>1, <2>2
<1> HIDE DEF e, S
<1>6. /\ listener' \in ListenerRecord /\ listener'.pc \in {"fan", "up"}
      /\ listener'.event = e /\ listener'.targets = S
  BY <1>2, <1>3, <1>4, <1>5 DEF ListenerRecord, ListenerPCs
<1>7. \A i \in DOMAIN inbox' : Known(inbox'[i])
  <2> TAKE i \in DOMAIN inbox'
  <2>1. i + 1 \in DOMAIN inbox /\ inbox'[i] = inbox[i + 1]
    BY <1>2, <1>3
  <2>2. Known(inbox[i + 1])
    BY <2>1 DEF HInv, OriginsOK
  <2> QED
    BY <2>1, <2>2
<1>8. Known(listener.event)'
  BY <1>1, <1>4, <1>6 DEF Known
<1>9. DropOK' /\ EventOK'
  BY <1>5, <1>6, <1>8 DEF DropOK, EventOK
<1> QED
  BY <1>1, <1>2, <1>3, <1>4, <1>6, <1>7, <1>9, QuietListenerKeeps

\* The listener goes on to the next target or event.
LEMMA ContinueFacts ==
  ASSUME listener \in ListenerRecord, NEW c, Continue(listener.targets \ {c})
  PROVE  /\ listener' \in ListenerRecord /\ listener'.pc \in {"fan", "up"}
         /\ listener'.event = listener.event /\ listener'.targets = listener.targets \ {c}
BY DEF Continue, ListenerRecord, ListenerPCs

\* The event in hand is a hint connection c may get.
LEMMA TargetFacts ==
  ASSUME HInv, Handling, NEW c \in listener.targets
  PROVE  /\ listener.event.cursor \in DOMAIN published /\ listener.event.cursor \in Int
         /\ UserOf[published[listener.event.cursor]] = UserOf[DeviceOf[c]]
         /\ published[listener.event.cursor] # DeviceOf[c]
         /\ c \in Conns
<1>1. Known(listener.event) /\ UserOf[DeviceOf[c]] = listener.event.user /\ DeviceOf[c] # listener.event.origin
  BY DEF HInv, OriginsOK
<1>2. listener \in ListenerRecord
  BY Types DEF HInv
<1>3. listener.event.cursor \in Int /\ c \in Conns
  BY <1>2 DEF ListenerRecord, Event
<1> QED
  BY <1>1, <1>3 DEF Known

\* The closed connection is dropped.
LEMMA EnqueueClosedInv ==
  ASSUME HInv, NEW c \in Conns, Enqueue(c), conn[c].closed
  PROVE  HInv'
<1>1. /\ UNCHANGED <<conn, writer, queue, sent, enqueued, clients, hubClosed, published, revoked, stage, toClose,
                     session, inbox>>
      /\ listener.pc = "fan" /\ c \in listener.targets
      /\ listener' = [listener EXCEPT !.pc = "drop", !.target = c]
  BY DEF Enqueue, hub, world, main
<1>2. listener \in ListenerRecord /\ session \in BOOLEAN /\ inbox \in Seq(Event)
  BY Types DEF HInv, TypeOK
<1>3. /\ listener' \in ListenerRecord /\ listener'.pc = "drop" /\ listener'.target = c
      /\ listener'.event = listener.event /\ listener'.targets = listener.targets
  BY <1>1, <1>2 DEF ListenerRecord, ListenerPCs
<1>4. DropOK'
  BY <1>1, <1>3 DEF DropOK
<1>5. EventOK'
  BY <1>1, <1>3 DEF EventOK, Handling, HInv, OriginsOK, Known
<1>6. \A i \in DOMAIN inbox' : Known(inbox'[i])
  BY <1>1 DEF HInv, OriginsOK
<1> QED
  BY <1>1, <1>2, <1>3, <1>4, <1>5, <1>6, QuietListenerKeeps

\* A step of enqueue that keeps what is carried covered.
LEMMA EnqueueStepKeeps ==
  ASSUME HInv, NEW c \in Conns, Handling, c \in listener.targets,
         listener' \in ListenerRecord, listener'.event = listener.event,
         listener'.pc \in {"fan", "up", "drain"}, listener'.targets \subseteq listener.targets,
         listener'.pc = "drain" => listener'.target \in listener'.targets
                                   /\ listener'.highest >= listener'.event.cursor,
         queue' \in [Conns -> Seq(Int)], \A q \in Conns : Len(queue'[q]) <= SendQueueSize,
         enqueued' \in [Conns -> SUBSET Int],
         \A q \in Conns : q # c => enqueued'[q] = enqueued[q] /\ Pending(q)' = Pending(q),
         \A k \in enqueued'[c] : k \in enqueued[c] \/ \E j \in Pending(c)' : j >= k,
         \A k \in Pending(c) : \E j \in Pending(c)' : j >= k,
         \A k \in Pending(c)' : k \in Pending(c) \/ k = listener.event.cursor,
         Pending(c) \subseteq Int, Pending(c)' \subseteq Int,
         UNCHANGED <<conn, writer, sent, clients, hubClosed, published, revoked, stage, toClose,
                     session, inbox>>
  PROVE  HInv'
<1>1. DropOK' /\ session' \in BOOLEAN /\ inbox' \in Seq(Event)
  BY DEF DropOK, HInv, TypeOK
<1>2. TypeOK' /\ RegistryOK' /\ LoopsOK'
  BY <1>1, ListenerStepKeeps
<1>3. sent \in [Conns -> SUBSET Int] /\ enqueued \in [Conns -> SUBSET Int]
  BY DEF HInv, TypeOK
<1>4. HintsNotLost'
  <2> SUFFICES ASSUME NEW q \in Conns, ~conn[q].closed, NEW k \in enqueued'[q]
               PROVE  \E j \in sent[q] \cup Pending(q)' : j >= k
    BY DEF HintsNotLost
  <2>1. k \in enqueued[q] => \E j \in sent[q] \cup Pending(q) : j >= k
    BY DEF HInv, HintsOK, HintsNotLost
  <2>2. CASE q # c
    BY <2>1, <2>2
  <2>3. CASE q = c
    <3>1. CASE k \in enqueued[c]
      <4>1. PICK j \in sent[c] \cup Pending(c) : j >= k
        BY <2>1, <2>3, <3>1
      <4>2. CASE j \in sent[c]
        BY <2>3, <4>1, <4>2
      <4>3. CASE j \in Pending(c)
        <5>1. PICK i \in Pending(c)' : i >= j
          BY <4>3
        <5>2. i \in Int /\ j \in Int /\ k \in Int
          BY <1>3, <3>1, <4>3, <5>1
        <5>3. i >= k
          BY <4>1, <5>1, <5>2
        <5> QED
          BY <2>3, <5>1, <5>3
      <4> QED
        BY <4>1, <4>2, <4>3
    <3>2. CASE k \notin enqueued[c]
      BY <2>3, <3>2
    <3> QED
      BY <3>1, <3>2
  <2> QED
    BY <2>2, <2>3
<1>5. HintsOK'
  BY <1>4 DEF HintsOK
<1>6. OnlyOthersHints'
  <2>1. /\ listener.event.cursor \in DOMAIN published
        /\ UserOf[published[listener.event.cursor]] = UserOf[DeviceOf[c]]
        /\ published[listener.event.cursor] # DeviceOf[c]
    BY TargetFacts
  <2> SUFFICES ASSUME NEW q \in Conns, NEW k \in sent[q] \cup Pending(q)'
               PROVE  /\ k \in DOMAIN published
                      /\ UserOf[published[k]] = UserOf[DeviceOf[q]] /\ published[k] # DeviceOf[q]
    BY DEF OnlyOthersHints
  <2>2. k \in sent[q] \cup Pending(q) \/ (q = c /\ k = listener.event.cursor)
    OBVIOUS
  <2> QED
    BY <2>1, <2>2 DEF HInv, OriginsOK, OnlyOthersHints
<1>7. EventOK'
  BY DEF EventOK, Handling, HInv, OriginsOK, Known
<1>8. OriginsOK'
  BY <1>6, <1>7 DEF HInv, OriginsOK, EventOK, Known
<1> QED
  BY <1>2, <1>5, <1>8 DEF HInv

\* What is on its way is a number.
LEMMA PendingTyped ==
  ASSUME TypeOK, NEW c \in Conns
  PROVE  Pending(c) \subseteq Int
<1>1. queue[c] \in Seq(Int) /\ writer[c].cursor \in Int /\ listener.highest \in Int
  BY DEF TypeOK
<1>2. \A i \in DOMAIN queue[c] : queue[c][i] \in Int
  BY <1>1
<1> QED
  BY <1>1, <1>2 DEF Pending

\* A queue of one hint.
LEMMA OneHint ==
  ASSUME NEW k \in Int
  PROVE  <<k>> \in Seq(Int) /\ Len(<<k>>) = 1 /\ Elems(<<k>>) = {k} /\ Elems(<<>>) = {}
BY DEF Elems

LEMMA EnqueueOpenInv ==
  ASSUME HInv, NEW c \in Conns, Enqueue(c), ~conn[c].closed
  PROVE  HInv'
<1>1. /\ UNCHANGED <<conn, writer, sent, clients, hubClosed, published, revoked, stage, toClose,
                     session, inbox>>
      /\ listener.pc = "fan" /\ c \in listener.targets
  BY DEF Enqueue, hub, world, main
<1>2. /\ listener \in ListenerRecord /\ writer \in [Conns -> WriterRecord]
      /\ queue \in [Conns -> Seq(Int)] /\ \A q \in Conns : Len(queue[q]) <= SendQueueSize
      /\ enqueued \in [Conns -> SUBSET Int] /\ Pending(c) \subseteq Int
  BY Types, PendingTyped DEF HInv, TypeOK
<1>3. Handling /\ listener.event.cursor \in Int
  BY <1>1, TargetFacts DEF Handling
<1>4. PICK k \in Int : k = listener.event.cursor
  BY <1>3
<1>5. <<k>> \in Seq(Int) /\ Len(<<k>>) = 1 /\ Elems(<<k>>) = {k} /\ Elems(<<>>) = {} /\ 1 <= SendQueueSize
  BY OneHint, SizesAssumption
<1>6. CASE queue[c] = <<>>
  <2>1. /\ queue' = [queue EXCEPT ![c] = <<k>>]
        /\ enqueued' = [enqueued EXCEPT ![c] = enqueued[c] \cup {k}]
        /\ Continue(listener.targets \ {c})
    BY <1>4, <1>6 DEF Enqueue
  <2>2. /\ listener' \in ListenerRecord /\ listener'.pc \in {"fan", "up"}
        /\ listener'.event = listener.event /\ listener'.targets = listener.targets \ {c}
    BY <1>2, <2>1, ContinueFacts
  <2>3. /\ queue' \in [Conns -> Seq(Int)] /\ queue'[c] = <<k>>
        /\ \A q \in Conns : q # c => queue'[q] = queue[q]
        /\ enqueued' \in [Conns -> SUBSET Int] /\ enqueued'[c] = enqueued[c] \cup {k}
        /\ \A q \in Conns : q # c => enqueued'[q] = enqueued[q]
    BY <1>2, <1>5, <2>1
  <2>4. \A q \in Conns : Len(queue'[q]) <= SendQueueSize
    BY <1>2, <1>5, <2>3
  <2>5. \A q \in Conns : q # c => Pending(q)' = Pending(q)
    BY <1>1, <2>2, <2>3 DEF Pending, QueueLocked
  <2>6. /\ Pending(c)' = Elems(<<k>>) \cup (IF writer[c].pc = "write" THEN {writer[c].cursor} ELSE {})
        /\ Pending(c) = Elems(<<>>) \cup (IF writer[c].pc = "write" THEN {writer[c].cursor} ELSE {})
    BY <1>1, <1>6, <2>2, <2>3 DEF Pending, QueueLocked, Elems
  <2>7. Pending(c)' = Pending(c) \cup {k}
    BY <1>5, <2>6
  <2>8. \A j \in Pending(c) \cup {k} : j >= j /\ j \in Int
    BY <1>2
  <2> QED
    BY <1>1, <1>2, <1>3, <1>4, <2>2, <2>3, <2>4, <2>5, <2>7, <2>8, EnqueueStepKeeps
<1>7. CASE queue[c] # <<>>
  <2>1. /\ queue' = queue /\ enqueued' = enqueued
        /\ listener' = [listener EXCEPT !.pc = "drain", !.target = c, !.highest = k]
    BY <1>4, <1>7 DEF Enqueue
  <2>2. /\ listener' \in ListenerRecord /\ listener'.pc = "drain" /\ listener'.target = c
        /\ listener'.highest = k /\ listener'.event = listener.event /\ listener'.targets = listener.targets
    BY <1>2, <2>1 DEF ListenerRecord, ListenerPCs
  <2>3. \A q \in Conns : q # c => Pending(q)' = Pending(q)
    BY <1>1, <2>1, <2>2 DEF Pending, QueueLocked
  <2>4. Pending(c)' = Pending(c) \cup {k}
    BY <1>1, <2>1, <2>2 DEF Pending, QueueLocked
  <2>5. \A j \in Pending(c) \cup {k} : j >= j /\ j \in Int
    BY <1>2
  <2>6. listener'.highest >= listener'.event.cursor
    BY <1>4, <2>2
  <2> QED
    BY <1>1, <1>2, <1>3, <1>4, <2>1, <2>2, <2>3, <2>4, <2>5, <2>6, EnqueueStepKeeps
<1> QED
  BY <1>6, <1>7

LEMMA EnqueueDrainInv ==
  ASSUME HInv, EnqueueDrain
  PROVE  HInv'
<1>1. PICK c \in Conns : c = listener.target
  BY Types DEF HInv, HintsOK, EnqueueDrain, ListenerRecord
<1>2. /\ UNCHANGED <<conn, writer, sent, clients, hubClosed, published, revoked, stage, toClose,
                     session, inbox>>
      /\ listener.pc = "drain" /\ c \in listener.targets /\ listener.highest >= listener.event.cursor
  BY <1>1 DEF EnqueueDrain, hub, world, main, HInv, HintsOK
<1>3. /\ listener \in ListenerRecord /\ writer \in [Conns -> WriterRecord]
      /\ queue \in [Conns -> Seq(Int)] /\ \A q \in Conns : Len(queue[q]) <= SendQueueSize
      /\ enqueued \in [Conns -> SUBSET Int] /\ Pending(c) \subseteq Int
  BY Types, PendingTyped DEF HInv, TypeOK
<1>4. Handling /\ listener.event.cursor \in Int
  BY <1>2, TargetFacts DEF Handling
<1>5. PICK k \in Int, h \in Int : k = listener.event.cursor /\ h = listener.highest
  BY <1>3, <1>4 DEF ListenerRecord
<1>6. h >= k /\ Pending(c) = Elems(queue[c]) \cup (IF writer[c].pc = "write" THEN {writer[c].cursor} ELSE {}) \cup {h}
  BY <1>1, <1>2, <1>5 DEF Pending, QueueLocked, Elems
<1>7. CASE queue[c] # <<>>
  <2>1. /\ Head(queue[c]) \in Int /\ Tail(queue[c]) \in Seq(Int) /\ Len(Tail(queue[c])) <= Len(queue[c])
        /\ Elems(queue[c]) = {Head(queue[c])} \cup Elems(Tail(queue[c]))
    <3>1. queue[c] \in Seq(Int)
      BY <1>3
    <3> QED
      BY <1>7, <3>1, QueueFacts
  <2>2. PICK a \in Int : a = Head(queue[c])
    BY <2>1
  <2>3. PICK m \in {a, h} : m = Highest(a, h) /\ m >= a /\ m >= h
    BY DEF Highest
  <2>4. /\ queue' = [queue EXCEPT ![c] = Tail(queue[c])] /\ enqueued' = enqueued
        /\ listener' = [listener EXCEPT !.highest = m]
    BY <1>1, <1>5, <1>7, <2>2, <2>3 DEF EnqueueDrain
  <2>5. /\ listener' \in ListenerRecord /\ listener'.pc = "drain" /\ listener'.target = c
        /\ listener'.highest = m /\ listener'.event = listener.event /\ listener'.targets = listener.targets
    BY <1>1, <1>2, <1>3, <2>3, <2>4 DEF ListenerRecord
  <2>6. /\ queue' \in [Conns -> Seq(Int)] /\ queue'[c] = Tail(queue[c])
        /\ \A q \in Conns : q # c => queue'[q] = queue[q]
    BY <1>3, <2>1, <2>4
  <2>7. \A q \in Conns : Len(queue'[q]) <= SendQueueSize
    <3>1. Len(queue[c]) <= SendQueueSize /\ Len(queue[c]) \in Nat /\ Len(Tail(queue[c])) \in Nat
      BY <1>3, <2>1
    <3>2. Len(queue'[c]) <= SendQueueSize
      BY <2>1, <2>6, <3>1, SizesAssumption
    <3> QED
      BY <1>3, <2>6, <3>2
  <2>8. \A q \in Conns : q # c => Pending(q)' = Pending(q)
    BY <1>1, <1>2, <2>5, <2>6 DEF Pending, QueueLocked
  <2>9. Pending(c)' = Elems(Tail(queue[c])) \cup (IF writer[c].pc = "write" THEN {writer[c].cursor} ELSE {}) \cup {m}
    BY <1>2, <2>5, <2>6 DEF Pending, QueueLocked, Elems
  <2>10. Pending(c)' \subseteq Pending(c) /\ \A j \in Pending(c) : j \in Pending(c)' \/ j = a \/ j = h
    BY <1>6, <2>1, <2>2, <2>3, <2>9
  <2>11. \A j \in Pending(c) : \E i \in Pending(c)' : i >= j
    <3> TAKE j \in Pending(c)
    <3>1. j \in Int /\ m \in Pending(c)'
      BY <1>3, <2>9
    <3>2. CASE j \in Pending(c)'
      <4>1. j >= j
        BY <3>1
      <4> QED
        BY <3>2, <4>1
    <3>3. CASE j = a \/ j = h
      BY <2>3, <3>1, <3>3
    <3> QED
      BY <2>10, <3>2, <3>3
  <2>12. listener'.highest >= listener'.event.cursor
    <3>1. m >= k
      BY <1>6, <2>3
    <3> QED
      BY <1>5, <2>5, <3>1
  <2> QED
    BY <1>2, <1>3, <1>4, <2>4, <2>5, <2>6, <2>7, <2>8, <2>10, <2>11, <2>12, EnqueueStepKeeps
<1>8. CASE queue[c] = <<>>
  <2>1. /\ queue' = [queue EXCEPT ![c] = <<h>>]
        /\ enqueued' = [enqueued EXCEPT ![c] = enqueued[c] \cup {k}]
        /\ Continue(listener.targets \ {c})
    BY <1>1, <1>5, <1>8 DEF EnqueueDrain
  <2>2. /\ listener' \in ListenerRecord /\ listener'.pc \in {"fan", "up"}
        /\ listener'.event = listener.event /\ listener'.targets = listener.targets \ {c}
    BY <1>3, <2>1, ContinueFacts
  <2>3. <<h>> \in Seq(Int) /\ Len(<<h>>) = 1 /\ Elems(<<h>>) = {h} /\ Elems(<<>>) = {} /\ 1 <= SendQueueSize
    BY OneHint, SizesAssumption
  <2>4. /\ queue' \in [Conns -> Seq(Int)] /\ queue'[c] = <<h>>
        /\ \A q \in Conns : q # c => queue'[q] = queue[q]
        /\ enqueued' \in [Conns -> SUBSET Int] /\ enqueued'[c] = enqueued[c] \cup {k}
        /\ \A q \in Conns : q # c => enqueued'[q] = enqueued[q]
    BY <1>3, <2>1, <2>3
  <2>5. \A q \in Conns : Len(queue'[q]) <= SendQueueSize
    BY <1>3, <2>3, <2>4
  <2>6. \A q \in Conns : q # c => Pending(q)' = Pending(q)
    BY <1>1, <1>2, <2>2, <2>4 DEF Pending, QueueLocked
  <2>7. Pending(c)' = Elems(<<h>>) \cup (IF writer[c].pc = "write" THEN {writer[c].cursor} ELSE {})
    BY <1>2, <2>2, <2>4 DEF Pending, QueueLocked, Elems
  <2>8. Pending(c)' = Pending(c) /\ h \in Pending(c)
    BY <1>6, <1>8, <2>3, <2>7
  <2>9. \A j \in Pending(c) : j >= j
    BY <1>3
  <2>10. \A j \in enqueued'[c] : j \in enqueued[c] \/ \E i \in Pending(c)' : i >= j
    BY <1>6, <2>4, <2>8
  <2>11. \A j \in Pending(c) : \E i \in Pending(c)' : i >= j
    BY <2>8, <2>9
  <2> QED
    BY <1>2, <1>3, <1>4, <2>2, <2>4, <2>5, <2>6, <2>8, <2>10, <2>11, EnqueueStepKeeps
<1> QED
  BY <1>7, <1>8

LEMMA DropSlowInv ==
  ASSUME HInv, DropSlow
  PROVE  HInv'
<1>1. PICK c \in Conns : c = listener.target /\ conn[c].closed
  BY DEF HInv, RegistryOK, DropSlow
<1>2. /\ UNCHANGED <<conn, writer, queue, sent, enqueued, hubClosed, published, revoked, stage, toClose,
                     session, inbox>>
      /\ listener.pc = "drop" /\ listener' = [listener EXCEPT !.pc = "dropclose"]
      /\ clients' = Removed(c)
  BY <1>1 DEF DropSlow, peers, world, main
<1>3. listener \in ListenerRecord /\ \A q \in Conns : DeviceOf[q] \in Devices
  BY Types DEF HInv
<1>4. /\ listener' \in ListenerRecord /\ listener'.pc = "dropclose" /\ listener'.target = c
      /\ listener'.event = listener.event /\ listener'.targets = listener.targets
  BY <1>1, <1>2, <1>3 DEF ListenerRecord, ListenerPCs
<1>5. /\ clients' \in [Devices -> Conns \cup {NoConn}]
      /\ \A d \in Devices : clients'[d] # NoConn => clients'[d] = clients[d]
      /\ \A d \in Devices : clients[d] # c => clients'[d] = clients[d]
  BY <1>2, RemovedFacts
<1>6. TypeOK'
  BY <1>2, <1>4, <1>5 DEF HInv, TypeOK, ListenerRecord
<1>7. LoopsOK'
  BY <1>2 DEF HInv, LoopsOK, Serving
<1>8. \A q \in Conns : Pending(q)' = Pending(q)
  BY <1>2, <1>4 DEF Pending, QueueLocked
<1>9. HintsOK'
  BY <1>2, <1>4, <1>8 DEF HInv, HintsOK, HintsNotLost
<1>10. OriginsOK'
  BY <1>2, <1>4, <1>8 DEF HInv, OriginsOK, OnlyOthersHints, Known, Handling
<1>11. LiveIsReachable'
  <2> SUFFICES ASSUME NEW q \in Registered' PROVE clients'[DeviceOf[q]] = q \/ ClosePending(q)'
    BY DEF LiveIsReachable
  <2>1. q \in Conns /\ q # c /\ q \in Registered
    BY <1>1, <1>2 DEF Registered
  <2>2. clients[DeviceOf[q]] = q \/ ClosePending(q)
    BY <2>1 DEF HInv, RegistryOK, LiveIsReachable
  <2>3. ClosePending(q) => ClosePending(q)'
    BY <1>2 DEF ClosePending
  <2> QED
    BY <1>3, <1>5, <2>1, <2>2, <2>3
<1>12. RegistryOK'
  <2>1. \A d \in Devices : clients'[d] # NoConn => DeviceOf[clients'[d]] = d
    BY <1>5 DEF HInv, RegistryOK
  <2> QED
    BY <1>1, <1>2, <1>4, <1>11, <2>1 DEF RegistryOK
<1> QED
  BY <1>6, <1>7, <1>9, <1>10, <1>12 DEF HInv

LEMMA DropCloseInv ==
  ASSUME HInv, DropClose
  PROVE  HInv'
<1>1. PICK c \in Conns : c = listener.target /\ conn[c].closed
  BY DEF HInv, RegistryOK, DropClose
<1>2. /\ UNCHANGED <<writer, queue, sent, enqueued, clients, hubClosed, published, revoked, stage, toClose,
                     session, inbox>>
      /\ listener.pc = "dropclose" /\ Continue(listener.targets \ {c})
      /\ conn' = [conn EXCEPT ![c].closed = TRUE]
  BY <1>1 DEF DropClose, Closed, hub, world, main
<1>3. /\ listener \in ListenerRecord /\ conn \in [Conns -> ConnRecord] /\ session \in BOOLEAN
      /\ inbox \in Seq(Event)
  BY Types DEF HInv, TypeOK
<1>4. conn' = conn
  <2>1. conn[c].closed = TRUE
    BY <1>1, <1>3 DEF ConnRecord
  <2> QED
    BY <1>2, <1>3, <2>1 DEF ConnRecord
<1>5. /\ listener' \in ListenerRecord /\ listener'.pc \in {"fan", "up"}
      /\ listener'.event = listener.event /\ listener'.targets = listener.targets \ {c}
  BY <1>2, <1>3, ContinueFacts
<1>6. EventOK' /\ DropOK'
  BY <1>2, <1>5 DEF EventOK, DropOK, Handling, HInv, OriginsOK, Known
<1>7. \A i \in DOMAIN inbox' : Known(inbox'[i])
  BY <1>2 DEF HInv, OriginsOK
<1> QED
  BY <1>2, <1>3, <1>4, <1>5, <1>6, <1>7, QuietListenerKeeps

-----------------------------------------------------------------------------
(* Shutdown, publishers and users.                                         *)

LEMMA StageInv ==
  ASSUME HInv, Shutdown \/ CancelListener \/ HubCloseWait \/ Stopped
  PROVE  HInv'
<1>1. UNCHANGED <<conn, clients, hubClosed, toClose, writer, listener, Rest>>
  BY DEF Shutdown, CancelListener, HubCloseWait, Stopped, hub, peers, bus, world, Rest
<1>2. stage' \in Stages
  BY DEF Shutdown, CancelListener, HubCloseWait, Stopped, Stages
<1>3. TypeOK' /\ HintsOK' /\ OriginsOK'
  BY <1>1, <1>2, Types, HandlerStepKeeps DEF HInv, TypeOK, StaysClosed, Rest
<1>4. LoopsOK'
  BY <1>1 DEF HInv, LoopsOK, Serving, Shutdown, CancelListener, HubCloseWait, Stopped
<1>5. RegistryOK'
  BY <1>1 DEF HInv, RegistryOK, LiveIsReachable, Registered, ClosePending
<1> QED
  BY <1>3, <1>4, <1>5 DEF HInv

LEMMA HubCloseInv ==
  ASSUME HInv, HubClose
  PROVE  HInv'
<1>1. /\ UNCHANGED <<conn, writer, listener>> /\ UNCHANGED Rest
      /\ stage = "cancelled" /\ listener.pc = "stopped" /\ stage' = "closing" /\ hubClosed' = TRUE
      /\ toClose' = {clients[d] : d \in Devices} \ {NoConn}
      /\ clients' = [d \in Devices |-> NoConn]
  BY DEF HubClose, peers, bus, world, Rest
<1>2. /\ conn \in [Conns -> ConnRecord] /\ clients \in [Devices -> Conns \cup {NoConn}]
      /\ \A q \in Conns : DeviceOf[q] \in Devices
  BY Types DEF HInv
<1>3. /\ toClose' \subseteq Conns /\ clients' \in [Devices -> Conns \cup {NoConn}]
      /\ stage' \in Stages /\ hubClosed' \in BOOLEAN
  BY <1>1, <1>2 DEF Stages
<1>4. TypeOK' /\ HintsOK' /\ OriginsOK'
  BY <1>1, <1>2, <1>3, HandlerStepKeeps DEF StaysClosed
<1>5. LoopsOK'
  BY <1>1 DEF HInv, LoopsOK, Serving
<1>6. LiveIsReachable'
  <2> SUFFICES ASSUME NEW q \in Registered' PROVE clients'[DeviceOf[q]] = q \/ ClosePending(q)'
    BY DEF LiveIsReachable
  <2>1. q \in Conns /\ q \in Registered
    BY <1>1 DEF Registered
  <2>2. clients[DeviceOf[q]] = q \/ ClosePending(q)
    BY <2>1 DEF HInv, RegistryOK, LiveIsReachable
  <2>3. toClose = {}
    BY <1>1 DEF HInv, LoopsOK
  <2>4. CASE clients[DeviceOf[q]] = q
    <3>1. q \in toClose'
      BY <1>1, <1>2, <2>1, <2>4, NoConnAssumption
    <3> QED
      BY <3>1 DEF ClosePending
  <2>5. CASE ClosePending(q)
    BY <1>1, <2>3, <2>5 DEF ClosePending
  <2> QED
    BY <2>2, <2>4, <2>5
<1>7. RegistryOK'
  BY <1>1, <1>2, <1>6 DEF HInv, RegistryOK
<1> QED
  BY <1>4, <1>5, <1>7 DEF HInv

LEMMA HubCloseClientInv ==
  ASSUME HInv, NEW c \in Conns, HubCloseClient(c)
  PROVE  HInv'
<1>1. /\ UNCHANGED <<clients, hubClosed, stage, writer, listener>> /\ UNCHANGED Rest
      /\ stage = "closing" /\ toClose' = toClose \ {c} /\ conn' = [conn EXCEPT ![c].closed = TRUE]
  BY DEF HubCloseClient, Closed, hub, bus, world, Rest
<1>2. conn \in [Conns -> ConnRecord] /\ clients \in [Devices -> Conns \cup {NoConn}]
  BY Types DEF HInv
<1>3. /\ conn' \in [Conns -> ConnRecord] /\ StaysClosed /\ conn'[c].closed
      /\ \A q \in Conns : conn'[q].pc = conn[q].pc /\ conn'[q].previous = conn[q].previous
  BY <1>1, <1>2 DEF ConnRecord, StaysClosed
<1>4. TypeOK' /\ HintsOK' /\ OriginsOK'
  BY <1>1, <1>2, <1>3, HandlerStepKeeps DEF HInv, TypeOK
<1>5. LoopsOK'
  BY <1>1, <1>3 DEF HInv, LoopsOK, Serving
<1>6. LiveIsReachable'
  <2> SUFFICES ASSUME NEW q \in Registered' PROVE clients'[DeviceOf[q]] = q \/ ClosePending(q)'
    BY DEF LiveIsReachable
  <2>1. q \in Conns /\ q # c /\ q \in Registered
    BY <1>3 DEF Registered, StaysClosed
  <2>2. clients[DeviceOf[q]] = q \/ ClosePending(q)
    BY <2>1 DEF HInv, RegistryOK, LiveIsReachable
  <2>3. ClosePending(q) => ClosePending(q)'
    BY <1>1, <1>3, <2>1 DEF ClosePending
  <2> QED
    BY <1>1, <2>2, <2>3
<1>7. RegistryOK'
  BY <1>1, <1>3, <1>6 DEF HInv, RegistryOK, StaysClosed
<1> QED
  BY <1>4, <1>5, <1>7 DEF HInv

LEMMA PublishInv ==
  ASSUME HInv, NEW k \in Cursors, NEW d \in Devices, Publish(k, d)
  PROVE  HInv'
<1>1. PICK e : e = [user |-> UserOf[d], origin |-> d, cursor |-> k]
  OBVIOUS
<1>2. /\ UNCHANGED <<conn, writer, queue, sent, enqueued, clients, hubClosed, listener, session, revoked,
                     stage, toClose>>
      /\ k \notin DOMAIN published
      /\ published' = [j \in DOMAIN published \cup {k} |-> IF j = k THEN d ELSE published[j]]
      /\ inbox' = IF session THEN Append(inbox, e) ELSE inbox
  BY <1>1 DEF Publish, hub, peers, main
<1>3. e \in Event /\ e.cursor = k /\ e.origin = d /\ e.user = UserOf[d]
  BY <1>1, RoutingAssumption, CursorsAssumption DEF Event
<1>4. inbox \in Seq(Event) /\ DOMAIN published \subseteq Cursors
  BY DEF HInv, TypeOK
<1>5. inbox' \in Seq(Event)
  BY <1>2, <1>3, <1>4
<1>6. /\ DOMAIN published' = DOMAIN published \cup {k} /\ published'[k] = d
      /\ \A j \in DOMAIN published : published'[j] = published[j]
  BY <1>2
<1>7. TypeOK'
  BY <1>2, <1>4, <1>5, <1>6 DEF HInv, TypeOK
<1>8. RegistryOK' /\ LoopsOK'
  BY <1>2 DEF HInv, RegistryOK, LiveIsReachable, Registered, ClosePending, LoopsOK, Serving
<1>9. \A q \in Conns : Pending(q)' = Pending(q)
  BY <1>2 DEF Pending, QueueLocked
<1>10. HintsOK'
  BY <1>2, <1>9 DEF HInv, HintsOK, HintsNotLost
<1>11. \A x : Known(x) => Known(x)'
  BY <1>6 DEF Known
<1>12. Known(e)'
  BY <1>3, <1>6 DEF Known
<1>13. \A i \in DOMAIN inbox' : inbox'[i] = e \/ Known(inbox'[i])
  <2>1. CASE session
    <3>1. inbox' = Append(inbox, e)
      BY <1>2, <2>1
    <3> TAKE i \in DOMAIN inbox'
    <3>2. inbox'[i] = e \/ (i \in DOMAIN inbox /\ inbox'[i] = inbox[i])
      BY <1>3, <1>4, <3>1
    <3> QED
      BY <3>2 DEF HInv, OriginsOK
  <2>2. CASE ~session
    BY <1>2, <2>2 DEF HInv, OriginsOK
  <2> QED
    BY <2>1, <2>2
<1>14. \A i \in DOMAIN inbox' : Known(inbox[i])'
  <2> TAKE i \in DOMAIN inbox'
  <2>1. PICK x : x = inbox'[i]
    OBVIOUS
  <2>2. x = e \/ Known(x)
    BY <1>13, <2>1
  <2>3. Known(x)'
    BY <1>11, <1>12, <2>2
  <2> QED
    BY <2>1, <2>3 DEF Known
<1>15. OnlyOthersHints'
  BY <1>2, <1>6, <1>9 DEF HInv, OriginsOK, OnlyOthersHints
<1>16. (Handling => /\ Known(listener.event)
                    /\ \A c \in listener.targets : /\ UserOf[DeviceOf[c]] = listener.event.user
                                                   /\ DeviceOf[c] # listener.event.origin)'
  BY <1>2, <1>6 DEF HInv, OriginsOK, Handling, Known
<1>17. OriginsOK'
  BY <1>14, <1>15, <1>16 DEF OriginsOK
<1> QED
  BY <1>7, <1>8, <1>10, <1>17 DEF HInv

\* Nothing of the process changes.
LEMMA SameProcess ==
  ASSUME HInv, revoked' \subseteq Devices,
         UNCHANGED <<conn, writer, queue, sent, enqueued, clients, hubClosed, listener, session, inbox,
                     published, stage, toClose>>
  PROVE  HInv'
<1>1. TypeOK'
  BY DEF HInv, TypeOK
<1>2. RegistryOK' /\ LoopsOK'
  BY DEF HInv, RegistryOK, LiveIsReachable, Registered, ClosePending, LoopsOK, Serving
<1>3. \A q \in Conns : Pending(q)' = Pending(q)
  BY DEF Pending, QueueLocked
<1>4. HintsOK' /\ OriginsOK'
  BY <1>3 DEF HInv, HintsOK, HintsNotLost, OriginsOK, OnlyOthersHints, Known, Handling
<1> QED
  BY <1>1, <1>2, <1>4 DEF HInv

-----------------------------------------------------------------------------
(* The invariant and the theorems.                                         *)

LEMMA InitInv == Init => HInv
<1> SUFFICES ASSUME Init PROVE HInv
  OBVIOUS
<1>1. NoEvent \in Event
  <2>1. \E d \in Devices : d \in Devices
    BY RoutingAssumption
  <2>2. \E u \in Users : u \in Users
    BY <2>1, RoutingAssumption
  <2>3. (CHOOSE d \in Devices : TRUE) \in Devices
    BY <2>1
  <2>4. (CHOOSE u \in Users : TRUE) \in Users
    BY <2>2
  <2> QED
    BY <2>3, <2>4 DEF NoEvent, Event
<1>2. \A c \in Conns : /\ conn[c].pc = "none" /\ ~conn[c].closed /\ conn[c].previous = NoConn
                       /\ writer[c].pc = "none" /\ queue[c] = <<>> /\ sent[c] = {} /\ enqueued[c] = {}
  BY DEF Init
<1>3. listener.pc = "down" /\ inbox = <<>> /\ stage = "running" /\ toClose = {} /\ ~hubClosed
  BY DEF Init
<1>4. TypeOK
  <2>1. listener \in ListenerRecord
    BY <1>1, SizesAssumption DEF Init, ListenerRecord, ListenerPCs
  <2>2. \A c \in Conns : Len(queue[c]) <= SendQueueSize
    BY <1>2, SizesAssumption
  <2>3. DOMAIN published \subseteq Cursors
    BY DEF Init
  <2>4. conn \in [Conns -> ConnRecord] /\ writer \in [Conns -> WriterRecord]
    BY DEF Init, ConnRecord, ConnPCs, WriterRecord, WriterPCs
  <2>5. queue \in [Conns -> Seq(Int)] /\ sent \in [Conns -> SUBSET Int] /\ enqueued \in [Conns -> SUBSET Int]
    BY DEF Init
  <2>6. /\ clients \in [Devices -> Conns \cup {NoConn}] /\ hubClosed \in BOOLEAN /\ session \in BOOLEAN
        /\ revoked \subseteq Devices /\ stage \in Stages /\ toClose \subseteq Conns
    BY DEF Init, Stages
  <2>7. inbox \in Seq(Event)
    BY <1>3
  <2> QED
    BY <2>1, <2>2, <2>3, <2>4, <2>5, <2>6, <2>7 DEF TypeOK, ListenerRecord, ConnRecord, WriterRecord
<1>5. RegistryOK
  BY <1>2, <1>3 DEF Init, RegistryOK, LiveIsReachable, Registered
<1>6. LoopsOK
  BY <1>2, <1>3 DEF LoopsOK, Serving
<1>7. \A c \in Conns : Pending(c) = {}
  BY <1>2, <1>3 DEF Pending, QueueLocked
<1>8. HintsOK /\ OriginsOK
  BY <1>2, <1>3, <1>7 DEF HintsOK, HintsNotLost, OriginsOK, OnlyOthersHints, Handling
<1> QED
  BY <1>4, <1>5, <1>6, <1>8 DEF HInv

LEMMA NextInv == HInv /\ [Next]_vars => HInv'
<1> SUFFICES ASSUME HInv, [Next]_vars PROVE HInv'
  OBVIOUS
<1>1. ASSUME NEW c \in Conns, Connect(c) \/ Handler(c) \/ Writer(c) \/ PeerGone(c) \/ PingFails(c)
      PROVE  HInv'
  <2>1. CASE Connect(c) \/ Upgrade(c)
    BY <2>1, ConnectInv
  <2>2. CASE Register(c)
    BY <2>2, RegisterInv
  <2>3. CASE Evict(c)
    BY <2>3, EvictInv
  <2>4. CASE Serve(c)
    BY <2>4, ServeInv
  <2>5. CASE ReadClosed(c) \/ PeerGone(c) \/ CloseAfterRead(c) \/ Join(c)
    BY <2>5, ReadEndsInv
  <2>6. CASE Unregister(c)
    BY <2>6, UnregisterInv
  <2>7. CASE WriterTake(c)
    BY <2>7, WriterTakeInv
  <2>8. CASE WriterWrite(c)
    BY <2>8, WriterWriteInv
  <2>9. CASE WriterFails(c) \/ PingFails(c) \/ WriterDone(c)
    BY <2>9, WriterEndsInv
  <2> QED
    BY <1>1, <2>1, <2>2, <2>3, <2>4, <2>5, <2>6, <2>7, <2>8, <2>9 DEF Handler, Writer
<1>2. CASE Subscribe \/ SessionBreaks
  <2>1. CASE ListenerUp \/ ListenerRetry \/ ListenerDown \/ ListenerStop
    BY <2>1, SessionInv
  <2>2. CASE SessionBreaks
    BY <2>2, SessionBreaksInv
  <2>3. CASE ListenerTake
    BY <2>3, ListenerTakeInv
  <2>4. ASSUME NEW c \in Conns, Enqueue(c)
        PROVE  HInv'
    BY <2>4, EnqueueClosedInv, EnqueueOpenInv
  <2>5. CASE EnqueueDrain
    BY <2>5, EnqueueDrainInv
  <2>6. CASE DropSlow
    BY <2>6, DropSlowInv
  <2>7. CASE DropClose
    BY <2>7, DropCloseInv
  <2> QED
    BY <1>2, <2>1, <2>2, <2>3, <2>4, <2>5, <2>6, <2>7 DEF Subscribe
<1>3. CASE Main \/ Shutdown
  <2>1. CASE Shutdown \/ CancelListener \/ HubCloseWait \/ Stopped
    BY <2>1, StageInv
  <2>2. CASE HubClose
    BY <2>2, HubCloseInv
  <2>3. ASSUME NEW c \in Conns, HubCloseClient(c)
        PROVE  HInv'
    BY <2>3, HubCloseClientInv
  <2> QED
    BY <1>3, <2>1, <2>2, <2>3 DEF Main
<1>4. ASSUME NEW k \in Cursors, NEW d \in Devices, Publish(k, d)
      PROVE  HInv'
  BY <1>4, PublishInv
<1>5. ASSUME NEW d \in Devices, Revoke(d)
      PROVE  HInv'
  <2>1. revoked' \subseteq Devices
    BY <1>5 DEF Revoke, HInv, TypeOK
  <2> QED
    BY <1>5, <2>1, SameProcess DEF Revoke, hub, peers, bus, main
<1>6. CASE UNCHANGED vars
  <2>1. revoked' \subseteq Devices
    BY <1>6 DEF vars, world, HInv, TypeOK
  <2> QED
    BY <1>6, <2>1, SameProcess DEF vars, hub, peers, bus, world, main
<1> QED
  BY <1>1, <1>2, <1>3, <1>4, <1>5, <1>6 DEF Next, Process

LEMMA HubInvariant == Spec => []HInv
BY InitInv, NextInv, PTL DEF Spec

\* The hub, its connections and its listener are well typed: no queue grows past
\* the capacity of Client.Send, and the backoff stays within its limits.
THEOREM HubTypeCorrect == Spec => []TypeOK
<1>1. HInv => TypeOK
  BY DEF HInv
<1> QED
  BY <1>1, HubInvariant, PTL

\* An open connection that is being served is found by its device or is about to
\* be closed, for any number of connections of a device that replace each other
\* (Register, Unregister's identity check, the listener's drop, Hub.Close).
THEOREM LiveIsReachableCorrect == Spec => []LiveIsReachable
<1>1. HInv => LiveIsReachable
  BY DEF HInv, RegistryOK
<1> QED
  BY <1>1, HubInvariant, PTL

\* Coalescing in enqueue never loses the highest cursor of an open connection,
\* whatever the capacity of the queue and the speed of the write loop.
THEOREM HintsNotLostCorrect == Spec => []HintsNotLost
<1>1. HInv => HintsNotLost
  BY DEF HInv, HintsOK
<1> QED
  BY <1>1, HubInvariant, PTL

\* A connection is told only of changes its own user made on other devices.
THEOREM OnlyOthersHintsCorrect == Spec => []OnlyOthersHints
<1>1. HInv => OnlyOthersHints
  BY DEF HInv, OriginsOK
<1> QED
  BY <1>1, HubInvariant, PTL

\* Once Hub.Close has returned no connection is served and none has a write loop:
\* Serve's check of h.closed and the WaitGroup are taken under one mutex.
THEOREM StoppedServesNobodyCorrect == Spec => []StoppedServesNobody
<1>1. HInv => StoppedServesNobody
  <2> SUFFICES ASSUME HInv, stage = "stopped", NEW c \in Conns
               PROVE  /\ conn[c].pc \notin {"read", "unregister", "close", "join"}
                      /\ writer[c].pc \in {"none", "done"}
    BY DEF StoppedServesNobody
  <2>1. c \notin Serving /\ writer[c].pc \notin {"run", "write"}
    BY DEF HInv, LoopsOK
  <2>2. writer[c].pc \in WriterPCs
    BY Types DEF HInv, WriterRecord
  <2> QED
    BY <2>1, <2>2 DEF Serving, WriterPCs
<1> QED
  BY <1>1, HubInvariant, PTL
=============================================================================
