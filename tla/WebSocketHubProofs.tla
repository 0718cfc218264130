-------------------------- MODULE WebSocketHubProofs --------------------------
(***************************************************************************)
(* Proofs about the hub, for every set of connections, events and          *)
(* instances.                                                              *)
(*                                                                         *)
(* HubInv is inductive.  GoneIsRemoved needs RegisteredBelong: a removal   *)
(* empties the entry of the connection's own instance, so the connection   *)
(* must not be in any other.  EventReachesAll needs PendingOrWritten: what *)
(* a producer has still to write is all it has not written, because nobody *)
(* enters the hub while it holds the read lock.                            *)
(***************************************************************************)
EXTENDS WebSocketHub, TLAPS

\* A registered connection is registered under its own instance.
RegisteredBelong ==
    /\ \A i \in Instances, c \in Conns : clients[i] = c => conn[c].to = i
    /\ \A c \in broadcast : conn[c].to = None

\* A write is under way only while its producer holds the lock.
WritesHoldLock ==
    \A e \in Events : event[e].on # None => event[e].at \in {"own", "cast"}

\* An open broadcast connection is still to be written to, or has the event.
PendingOrWritten ==
    \A e \in Events, c \in broadcast :
        event[e].at \in {"own", "cast"} /\ conn[c].at = "open"
          => c \in event[e].left \/ e \in got[c]

HubInv ==
    /\ HubTypeOK /\ RegisteredBelong /\ WritesHoldLock
    /\ OpenIsRegistered /\ GoneIsRemoved /\ PendingOrWritten

\* The empty hub satisfies the invariant.
LEMMA HubInitInv == HubInit => HubInv
<1> SUFFICES ASSUME HubInit PROVE HubInv
  OBVIOUS
<1> USE HubAssumption DEF HubInit
<1>1. HubTypeOK
  BY DEF HubTypeOK, ConnState, EventState
<1>2. RegisteredBelong
  BY DEF RegisteredBelong
<1>3. WritesHoldLock
  BY DEF WritesHoldLock
<1>4. OpenIsRegistered /\ GoneIsRemoved /\ PendingOrWritten
  BY DEF OpenIsRegistered, GoneIsRemoved, PendingOrWritten
<1>5. QED
  BY <1>1, <1>2, <1>3, <1>4 DEF HubInv

\* Moving a connection changes where it is and nothing else of it.
LEMMA MoveChangesAt ==
  ASSUME conn \in [Conns -> ConnState], NEW c \in Conns, NEW at, Move(c, at),
         at \in {"new", "adding", "open", "failed", "removing", "gone"}
  PROVE  /\ conn' \in [Conns -> ConnState]
         /\ conn'[c].at = at
         /\ \A d \in Conns : conn'[d].to = conn[d].to
         /\ \A d \in Conns : d # c => conn'[d] = conn[d]
  BY DEF Move, ConnState

\* Steps of a connection that leave the hub alone.
LEMMA ConnectionMoves ==
  ASSUME HubInv, NEW c \in Conns, ServeWs(c) \/ PeerGone(c) \/ ReaderFails(c)
  PROVE  HubInv'
<1> USE HubAssumption DEF HubInv, hub
<1>1. PICK at \in {"adding", "failed", "removing"} : Move(c, at)
  BY DEF ServeWs, PeerGone, ReaderFails
<1>2. UNCHANGED <<hub, event, got, displaced, panicked>>
  BY DEF ServeWs, PeerGone, ReaderFails
<1>3. /\ conn' \in [Conns -> ConnState]
      /\ conn'[c].at = at
      /\ \A d \in Conns : conn'[d].to = conn[d].to
      /\ \A d \in Conns : d # c => conn'[d] = conn[d]
  BY <1>1, MoveChangesAt DEF HubTypeOK
<1>4. HubTypeOK'
  BY <1>2, <1>3 DEF HubTypeOK
<1>5. RegisteredBelong' /\ WritesHoldLock'
  BY <1>2, <1>3 DEF RegisteredBelong, WritesHoldLock, HubTypeOK
<1>6. OpenIsRegistered' /\ GoneIsRemoved'
  BY <1>2, <1>3 DEF OpenIsRegistered, GoneIsRemoved
<1>7. PendingOrWritten'
  BY <1>2, <1>3 DEF PendingOrWritten, HubTypeOK
<1>8. QED
  BY <1>4, <1>5, <1>6, <1>7

\* The steps that take the lock for writing: no producer has it.
LEMMA HubChanges ==
  ASSUME HubInv, NEW c \in Conns,
         \/ AddClient(c) \/ AddBroadcastClient(c)
         \/ RemoveClient(c) \/ RemoveBroadcastClient(c)
  PROVE  HubInv'
<1> USE HubAssumption DEF HubInv
<1>1. UNCHANGED <<event, got, panicked>>
  BY DEF AddClient, AddBroadcastClient, RemoveClient, RemoveBroadcastClient
<1>2. \A e \in Events : event'[e].at \notin {"own", "cast"}
  BY <1>1 DEF AddClient, AddBroadcastClient, RemoveClient,
              RemoveBroadcastClient, Lockable, Readers
<1>3. WritesHoldLock' /\ PendingOrWritten'
  BY <1>1, <1>2 DEF WritesHoldLock, PendingOrWritten
<1>4. CASE AddClient(c)
  <2>1. /\ conn' \in [Conns -> ConnState]
        /\ conn'[c].at = "open"
        /\ \A d \in Conns : conn'[d].to = conn[d].to
        /\ \A d \in Conns : d # c => conn'[d] = conn[d]
    BY <1>4, MoveChangesAt DEF HubTypeOK, AddClient
  <2>2. conn[c].to \in Instances /\ conn[c].at = "adding"
    BY <1>4 DEF AddClient, HubTypeOK, ConnState
  <2>3. /\ clients' = [clients EXCEPT ![conn[c].to] = c]
        /\ broadcast' = broadcast
        /\ displaced' = displaced \cup ({clients[conn[c].to]} \ {None})
    BY <1>4 DEF AddClient
  <2>4. HubTypeOK'
    BY <1>1, <2>1, <2>2, <2>3 DEF HubTypeOK
  <2>5. RegisteredBelong'
    BY <2>1, <2>2, <2>3 DEF RegisteredBelong, HubTypeOK
  <2>6. OpenIsRegistered'
    BY <2>1, <2>2, <2>3 DEF OpenIsRegistered, HubTypeOK, ConnState
  <2>7. GoneIsRemoved'
    BY <2>1, <2>2, <2>3 DEF GoneIsRemoved, HubTypeOK
  <2>8. QED
    BY <1>3, <2>4, <2>5, <2>6, <2>7
<1>5. CASE AddBroadcastClient(c)
  <2>1. /\ conn' \in [Conns -> ConnState]
        /\ conn'[c].at = "open"
        /\ \A d \in Conns : conn'[d].to = conn[d].to
        /\ \A d \in Conns : d # c => conn'[d] = conn[d]
    BY <1>5, MoveChangesAt DEF HubTypeOK, AddBroadcastClient
  <2>2. /\ conn[c].to = None /\ conn[c].at = "adding"
        /\ broadcast' = broadcast \cup {c}
        /\ UNCHANGED <<clients, displaced>>
    BY <1>5 DEF AddBroadcastClient
  <2>3. HubTypeOK'
    BY <1>1, <2>1, <2>2 DEF HubTypeOK
  <2>4. RegisteredBelong'
    BY <2>1, <2>2 DEF RegisteredBelong, HubTypeOK
  <2>5. OpenIsRegistered' /\ GoneIsRemoved'
    BY <2>1, <2>2 DEF OpenIsRegistered, GoneIsRemoved, HubTypeOK
  <2>6. QED
    BY <1>3, <2>3, <2>4, <2>5
<1>6. CASE RemoveClient(c)
  <2>1. /\ conn' \in [Conns -> ConnState]
        /\ conn'[c].at = "gone"
        /\ \A d \in Conns : conn'[d].to = conn[d].to
        /\ \A d \in Conns : d # c => conn'[d] = conn[d]
    BY <1>6, MoveChangesAt DEF HubTypeOK, RemoveClient
  <2>2. conn[c].to \in Instances
    BY <1>6 DEF RemoveClient, HubTypeOK, ConnState
  <2>3. /\ clients' = [clients EXCEPT ![conn[c].to] = None]
        /\ broadcast' = broadcast
        /\ displaced' = displaced \cup ({clients[conn[c].to]} \ {None})
    BY <1>6 DEF RemoveClient
  <2>4. HubTypeOK'
    BY <1>1, <2>1, <2>2, <2>3 DEF HubTypeOK
  <2>5. RegisteredBelong'
    BY <2>1, <2>2, <2>3 DEF RegisteredBelong, HubTypeOK
  <2>6. OpenIsRegistered'
    BY <2>1, <2>2, <2>3 DEF OpenIsRegistered, HubTypeOK, ConnState
  <2>7. c \notin broadcast' /\ \A i \in Instances : clients'[i] # c
    BY <2>2, <2>3 DEF RegisteredBelong, HubTypeOK
  <2>8. GoneIsRemoved'
    BY <2>1, <2>2, <2>3, <2>7 DEF GoneIsRemoved, HubTypeOK
  <2>9. QED
    BY <1>3, <2>4, <2>5, <2>6, <2>8
<1>7. CASE RemoveBroadcastClient(c)
  <2>1. /\ conn' \in [Conns -> ConnState]
        /\ conn'[c].at = "gone"
        /\ \A d \in Conns : conn'[d].to = conn[d].to
        /\ \A d \in Conns : d # c => conn'[d] = conn[d]
    BY <1>7, MoveChangesAt DEF HubTypeOK, RemoveBroadcastClient
  <2>2. /\ conn[c].to = None
        /\ broadcast' = broadcast \ {c}
        /\ UNCHANGED <<clients, displaced>>
    BY <1>7 DEF RemoveBroadcastClient
  <2>3. HubTypeOK'
    BY <1>1, <2>1, <2>2 DEF HubTypeOK
  <2>4. RegisteredBelong'
    BY <2>1, <2>2 DEF RegisteredBelong, HubTypeOK
  <2>5. OpenIsRegistered'
    BY <2>1, <2>2 DEF OpenIsRegistered, HubTypeOK
  <2>6. c \notin broadcast' /\ \A i \in Instances : clients'[i] # c
    BY <2>2 DEF RegisteredBelong
  <2>7. GoneIsRemoved'
    BY <2>1, <2>2, <2>6 DEF GoneIsRemoved, HubTypeOK
  <2>8. QED
    BY <1>3, <2>3, <2>4, <2>5, <2>7
<1>8. QED
  BY <1>4, <1>5, <1>6, <1>7

\* RLock: the record holds the lock and has every broadcast connection left.
LEMMA RLockRecord ==
  ASSUME HubInv, NEW e \in Events, RLock(e)
  PROVE  /\ event' \in [Events -> EventState]
         /\ event'[e].left = broadcast
         /\ event'[e].on = event[e].on
         /\ event[e].at = "wait"
         /\ \A f \in Events : f # e => event'[f] = event[f]
<1>1. event \in [Events -> EventState] /\ broadcast \subseteq Conns
  BY DEF HubInv, HubTypeOK
<1>2. PICK at \in {"own", "cast"} :
        event' = [event EXCEPT ![e].at = at, ![e].left = broadcast]
  BY DEF RLock
<1>3. event'[e] = [event[e] EXCEPT !.at = at, !.left = broadcast]
  BY <1>1, <1>2
<1>4. event[e] \in EventState
  BY <1>1
<1>5. /\ event'[e] \in EventState
      /\ event'[e].left = broadcast
      /\ event'[e].on = event[e].on
  BY <1>1, <1>3, <1>4 DEF EventState
<1>6. event' \in [Events -> EventState]
  BY <1>1, <1>2, <1>5
<1>7. QED
  BY <1>1, <1>2, <1>5, <1>6 DEF RLock

\* A write that has ended leaves the connection out of what is left.
LEMMA WriteRecord ==
  ASSUME HubInv, NEW e \in Events, WriteFails(e) \/ WriteSucceeds(e)
  PROVE  /\ event' \in [Events -> EventState]
         /\ event'[e].left = event[e].left \ {event[e].on}
         /\ event'[e].on = None
         /\ WriteFails(e) => event'[e].at # "own"
         /\ event'[e].at \in {"own", "cast"} => event[e].at \in {"own", "cast"}
         /\ \A f \in Events : f # e => event'[f] = event[f]
<1>1. event \in [Events -> EventState] /\ event[e] \in EventState
  BY DEF HubInv, HubTypeOK
<1>2. event[e].at \in {"own", "cast"}
  BY DEF WriteFails, WriteSucceeds, HubInv, WritesHoldLock
<1>3. PICK at \in {"cast", "error"} :
        /\ event'[e] = [event[e] EXCEPT !.on = None,
                                      !.left = @ \ {event[e].on}, !.at = at]
        /\ \A f \in Events : f # e => event'[f] = event[f]
        /\ event' = [f \in Events |-> event'[f]]
  <2>1. CASE WriteFails(e)
    <3>1. event' = [event EXCEPT ![e] =
                      [event[e] EXCEPT !.on = None, !.left = @ \ {event[e].on},
                                       !.at = IF @ = "own" THEN "error" ELSE @]]
      BY <2>1 DEF WriteFails
    <3>2. event'[e] = [event[e] EXCEPT !.on = None,
                         !.left = @ \ {event[e].on},
                         !.at = IF @ = "own" THEN "error" ELSE @]
      BY <3>1, <1>1, Zenon
    <3>3. CASE event[e].at = "own"
      <4>1. event'[e] = [event[e] EXCEPT !.on = None,
                           !.left = @ \ {event[e].on}, !.at = "error"]
        BY <3>2, <3>3, <1>1 DEF EventState
      <4>2. QED
        BY <4>1, <3>1, <1>1
    <3>4. CASE event[e].at = "cast"
      <4>1. event'[e] = [event[e] EXCEPT !.on = None,
                           !.left = @ \ {event[e].on}, !.at = "cast"]
        BY <3>2, <3>4, <1>1 DEF EventState
      <4>2. QED
        BY <4>1, <3>1, <1>1
    <3>5. QED
      BY <3>3, <3>4, <1>2
  <2>2. CASE WriteSucceeds(e)
    <3>1. event' = [event EXCEPT ![e] =
                      [event[e] EXCEPT !.on = None, !.left = @ \ {event[e].on},
                                       !.at = "cast"]]
      BY <2>2 DEF WriteSucceeds
    <3>2. event'[e] = [event[e] EXCEPT !.on = None,
                         !.left = @ \ {event[e].on}, !.at = "cast"]
      BY <3>1, <1>1, Zenon
    <3>3. QED
      BY <3>1, <3>2, <1>1
  <2>3. QED
    BY <2>1, <2>2
<1>4. /\ event'[e] \in EventState
      /\ event'[e].left = event[e].left \ {event[e].on}
      /\ event'[e].on = None
      /\ event'[e].at = at
  BY <1>1, <1>3 DEF EventState
<1>5. event' \in [Events -> EventState]
  BY <1>1, <1>3, <1>4
<1>6. QED
  BY <1>2, <1>3, <1>4, <1>5

\* A producer's step on its own record, as the rest of the state sees it.
LEMMA ProducerFrame ==
  ASSUME HubInv, NEW e \in Events, Produce(e) \/ Producer(e)
  PROVE  /\ UNCHANGED <<conn, clients, broadcast, displaced>>
         /\ event' \in [Events -> EventState]
         /\ \A f \in Events : f # e => event'[f] = event[f]
         /\ got' \in [Conns -> SUBSET Events]
         /\ panicked' \in BOOLEAN
         /\ \A c \in Conns : got[c] \subseteq got'[c]
<1> USE HubAssumption DEF HubInv, HubTypeOK
<1>1. CASE Produce(e)
  BY <1>1 DEF Produce, hub, EventState
<1>2. CASE RLock(e)
  BY <1>2, RLockRecord DEF RLock, hub
<1>3. CASE WriteJSON(e)
  BY <1>3 DEF WriteJSON, Targets, hub, EventState
<1>4. CASE WriteFails(e)
  BY <1>4, WriteRecord DEF WriteFails, hub
<1>5. CASE WriteSucceeds(e)
  <2>1. got' = [got EXCEPT ![event[e].on] = @ \cup {e}]
    BY <1>5 DEF WriteSucceeds
  <2>2. got' \in [Conns -> SUBSET Events] /\ \A c \in Conns : got[c] \subseteq got'[c]
    BY <2>1
  <2>3. UNCHANGED <<conn, clients, broadcast, displaced, panicked>>
    BY <1>5 DEF WriteSucceeds, hub
  <2>4. /\ event' \in [Events -> EventState]
        /\ \A f \in Events : f # e => event'[f] = event[f]
    BY <1>5, WriteRecord
  <2>5. QED
    BY <2>2, <2>3, <2>4
<1>6. CASE RUnlock(e)
  BY <1>6 DEF RUnlock, hub, EventState
<1>7. QED
  BY <1>1, <1>2, <1>3, <1>4, <1>5, <1>6 DEF Producer

\* A producer's own record: what it still has to write is never forgotten.
LEMMA ProducerPending ==
  ASSUME HubInv, NEW e \in Events, Produce(e) \/ Producer(e)
  PROVE  /\ event'[e].on # None => event'[e].at \in {"own", "cast"}
         /\ \A c \in broadcast :
              event'[e].at \in {"own", "cast"} /\ conn[c].at = "open"
                => c \in event'[e].left \/ e \in got'[c]
<1> USE HubAssumption DEF HubInv, HubTypeOK, WritesHoldLock, PendingOrWritten
<1>1. CASE Produce(e)
  BY <1>1 DEF Produce, EventState
<1>2. CASE RLock(e)
  BY <1>2, RLockRecord
<1>3. CASE WriteJSON(e)
  BY <1>3 DEF WriteJSON, EventState
<1>4. CASE WriteFails(e)
  <2>1. /\ event'[e].left = event[e].left \ {event[e].on}
        /\ event'[e].on = None
        /\ event'[e].at \in {"own", "cast"} => event[e].at \in {"own", "cast"}
    BY <1>4, WriteRecord
  <2>2. conn[event[e].on].at # "open" /\ got' = got
    BY <1>4 DEF WriteFails
  <2>3. QED
    BY <2>1, <2>2
<1>5. CASE WriteSucceeds(e)
  <2>1. /\ event'[e].left = event[e].left \ {event[e].on}
        /\ event'[e].on = None
        /\ event'[e].at \in {"own", "cast"} => event[e].at \in {"own", "cast"}
    BY <1>5, WriteRecord
  <2>2. \A c \in Conns : e \in got[c] => e \in got'[c]
    BY <1>5, ProducerFrame DEF Producer
  <2>3. event[e].on \in Conns => e \in got'[event[e].on]
    BY <1>5 DEF WriteSucceeds
  <2>4. broadcast \subseteq Conns
    OBVIOUS
  <2>5. QED
    BY <2>1, <2>2, <2>3, <2>4
<1>6. CASE RUnlock(e)
  BY <1>6 DEF RUnlock, EventState
<1>7. QED
  BY <1>1, <1>2, <1>3, <1>4, <1>5, <1>6 DEF Producer

\* A producer's step preserves the invariant.
LEMMA ProducerKeepsInv ==
  ASSUME HubInv, NEW e \in Events, Produce(e) \/ Producer(e)
  PROVE  HubInv'
<1>1. /\ UNCHANGED <<conn, clients, broadcast, displaced>>
      /\ event' \in [Events -> EventState]
      /\ \A f \in Events : f # e => event'[f] = event[f]
      /\ got' \in [Conns -> SUBSET Events]
      /\ panicked' \in BOOLEAN
      /\ \A c \in Conns : got[c] \subseteq got'[c]
  BY ProducerFrame
<1>2. HubTypeOK'
  BY <1>1 DEF HubInv, HubTypeOK
<1>3. RegisteredBelong' /\ OpenIsRegistered' /\ GoneIsRemoved'
  BY <1>1 DEF HubInv, RegisteredBelong, OpenIsRegistered, GoneIsRemoved
<1>4. WritesHoldLock'
  BY <1>1, ProducerPending DEF HubInv, WritesHoldLock
<1>5. PendingOrWritten'
  <2> SUFFICES ASSUME NEW f \in Events, NEW c \in broadcast,
                      event'[f].at \in {"own", "cast"}, conn[c].at = "open"
               PROVE  c \in event'[f].left \/ f \in got'[c]
    BY <1>1 DEF PendingOrWritten
  <2>1. CASE f = e
    BY <2>1, ProducerPending
  <2>2. CASE f # e
    BY <2>2, <1>1 DEF HubInv, PendingOrWritten, HubTypeOK
  <2>3. QED
    BY <2>1, <2>2
<1>6. QED
  BY <1>2, <1>3, <1>4, <1>5 DEF HubInv

\* The invariant is inductive.
LEMMA HubNextInv == HubInv /\ [Next]_vars => HubInv'
<1> SUFFICES ASSUME HubInv, [Next]_vars PROVE HubInv'
  OBVIOUS
<1>1. CASE UNCHANGED vars
  BY <1>1 DEF vars, hub, HubInv, HubTypeOK, RegisteredBelong, WritesHoldLock,
              OpenIsRegistered, GoneIsRemoved, PendingOrWritten
<1>2. ASSUME NEW c \in Conns, Connection(c) \/ PeerGone(c) PROVE HubInv'
  BY <1>2, ConnectionMoves, HubChanges DEF Connection
<1>3. ASSUME NEW e \in Events, Produce(e) \/ Producer(e) PROVE HubInv'
  BY <1>3, ProducerKeepsInv
<1>4. QED
  BY <1>1, <1>2, <1>3 DEF Next

\* Every reachable state of the hub satisfies the invariant.
THEOREM HubSafety == Spec => []HubInv
  BY HubInitInv, HubNextInv, PTL DEF Spec

\* Every reachable state is well-typed.
THEOREM HubTyped == Spec => []HubTypeOK
  BY HubSafety, PTL DEF HubInv

\* AddClient and RemoveClient: a connection the peer keeps open stays in the
\* hub until another of its instance takes it out.
THEOREM OpenStaysRegistered == Spec => []OpenIsRegistered
  BY HubSafety, PTL DEF HubInv

\* The reader goroutine's cleanup: an ended connection is nowhere in the hub.
THEOREM EndedIsRemoved == Spec => []GoneIsRemoved
  BY HubSafety, PTL DEF HubInv

\* Produce: the event is on every open broadcast connection when it returns.
THEOREM EventsReachBroadcast == Spec => []EventReachesAll
<1>1. HubInv => EventReachesAll
  BY DEF HubInv, PendingOrWritten, EventReachesAll, HubTypeOK
<1>2. QED
  BY <1>1, HubSafety, PTL
=============================================================================
