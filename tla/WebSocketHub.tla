----------------------------- MODULE WebSocketHub -----------------------------
(***************************************************************************)
(* The WebSocket producer: the hub of connections under one read-write     *)
(* lock.                                                                   *)
(*                                                                         *)
(*   /ws request   --Lock:  AddClient, RemoveClient-->     clients,        *)
(*                          and their broadcast versions   broadcast       *)
(*   event         --RLock: Produce, write by write-->     connections     *)
(*                                                                         *)
(* An instance has one connection in the hub, the one registered last;     *)
(* connections without an instance get every event.  A connection's reader *)
(* goroutine waits for an error and then takes it out of the hub.  Whoever *)
(* asks for the lock to write keeps new readers out.  The library allows   *)
(* one writer per connection and panics on a second.  The order of the     *)
(* broadcast list is left out.                                             *)
(***************************************************************************)
CONSTANTS Conns,      \* connections
          Events,     \* events, each produced by its own goroutine
          Instances,
          None        \* no instance: a broadcast connection; no connection

ASSUME HubAssumption == None \notin Instances \cup Conns

VARIABLES conn,       \* connection -> its instance and where it is
          clients,    \* instance -> the registered connection
          broadcast,  \* the registered broadcast connections
          event,      \* event -> its instance, where it is, what it must write
          got,        \* connection -> the events written to it
          displaced,  \* connections another of their instance has taken out
          panicked    \* two writes met on one connection: the process ended

hub == <<clients, broadcast>>
vars == <<conn, hub, event, got, displaced, panicked>>

\* adding, removing: waiting for the lock; failed: the peer is gone and the
\* reader goroutine has not looked yet.
ConnState == [to : Instances \cup {None},
              at : {"new", "adding", "open", "failed", "removing", "gone"}]

\* wait: asks for the lock; own: at the instance's connection; cast: at the
\* broadcast ones in left; on: the connection a write is under way on.
EventState == [of : Instances,
               at : {"idle", "wait", "own", "cast", "done", "error"},
               left : SUBSET Conns, on : Conns \cup {None}]

HubInit ==
    /\ conn \in [Conns -> [to : Instances \cup {None}, at : {"new"}]]
    /\ clients = [i \in Instances |-> None]
    /\ broadcast = {}
    /\ event \in [Events -> [of : Instances, at : {"idle"}, left : {{}},
                             on : {None}]]
    /\ got = [c \in Conns |-> {}]
    /\ displaced = {}
    /\ panicked = FALSE

-----------------------------------------------------------------------------
(* The lock.                                                                *)

Readers == {e \in Events : event[e].at \in {"own", "cast"}}
Lockable == Readers = {}
WriterWaits == \E c \in Conns : conn[c].at \in {"adding", "removing"}

-----------------------------------------------------------------------------
(* Connections.                                                             *)

Move(c, at) == conn' = [conn EXCEPT ![c].at = at]

ServeWs(c) ==
    /\ conn[c].at = "new"
    /\ Move(c, "adding")
    /\ UNCHANGED <<hub, event, got, displaced, panicked>>

\* A second connection of an instance that is not entered.
AddFirstClient(c) ==
    /\ conn[c].at = "adding" /\ conn[c].to # None /\ Lockable
    /\ clients' = [clients EXCEPT ![conn[c].to] = IF @ = None THEN c ELSE @]
    /\ Move(c, "open")
    /\ UNCHANGED <<broadcast, event, got, displaced, panicked>>

\* The connection that was registered is replaced and not closed.
AddClient(c) ==
    /\ conn[c].at = "adding" /\ conn[c].to # None /\ Lockable
    /\ clients' = [clients EXCEPT ![conn[c].to] = c]
    /\ displaced' = displaced \cup ({clients[conn[c].to]} \ {None})
    /\ Move(c, "open")
    /\ UNCHANGED <<broadcast, event, got, panicked>>

AddBroadcastClient(c) ==
    /\ conn[c].at = "adding" /\ conn[c].to = None /\ Lockable
    /\ broadcast' = broadcast \cup {c}
    /\ Move(c, "open")
    /\ UNCHANGED <<clients, event, got, displaced, panicked>>

PeerGone(c) ==
    /\ conn[c].at = "open"
    /\ Move(c, "failed")
    /\ UNCHANGED <<hub, event, got, displaced, panicked>>

ReaderFails(c) ==
    /\ conn[c].at = "failed"
    /\ Move(c, "removing")
    /\ UNCHANGED <<hub, event, got, displaced, panicked>>

\* A reader that closes its connection and leaves the hub as it is.
RemoveNothing(c) ==
    /\ conn[c].at = "removing" /\ conn[c].to # None /\ Lockable
    /\ Move(c, "gone")
    /\ UNCHANGED <<hub, event, got, displaced, panicked>>

\* The entry of the instance goes, whichever connection it holds.
RemoveClient(c) ==
    /\ conn[c].at = "removing" /\ conn[c].to # None /\ Lockable
    /\ clients' = [clients EXCEPT ![conn[c].to] = None]
    /\ displaced' = displaced \cup ({clients[conn[c].to]} \ {None})
    /\ Move(c, "gone")
    /\ UNCHANGED <<broadcast, event, got, panicked>>

\* A removal that empties the place in the list.
RemoveLeavesNil(c) ==
    /\ conn[c].at = "removing" /\ conn[c].to = None /\ Lockable
    /\ broadcast' = (broadcast \ {c}) \cup {None}
    /\ Move(c, "gone")
    /\ UNCHANGED <<clients, event, got, displaced, panicked>>

RemoveBroadcastClient(c) ==
    /\ conn[c].at = "removing" /\ conn[c].to = None /\ Lockable
    /\ broadcast' = broadcast \ {c}
    /\ Move(c, "gone")
    /\ UNCHANGED <<clients, event, got, displaced, panicked>>

-----------------------------------------------------------------------------
(* Produce.                                                                 *)

Produce(e) ==
    /\ event[e].at = "idle"
    /\ event' = [event EXCEPT ![e].at = "wait"]
    /\ UNCHANGED <<conn, hub, got, displaced, panicked>>

\* With the lock, the instance's connection is first.
RLock(e) ==
    /\ event[e].at = "wait" /\ ~WriterWaits
    /\ event' = [event EXCEPT ![e].at = IF clients[event[e].of] = None
                                        THEN "cast" ELSE "own",
                              ![e].left = broadcast]
    /\ UNCHANGED <<conn, hub, got, displaced, panicked>>

Targets(e) == IF event[e].at = "own" THEN {clients[event[e].of]} ELSE event[e].left

\* A Produce that asks for the read lock again for each connection.
WriteJSONLocksAgain(e) ==
    /\ event[e].at \in {"own", "cast"} /\ event[e].on = None /\ ~WriterWaits
    /\ \E c \in Targets(e) :
         /\ event' = [event EXCEPT ![e].on = c]
         /\ panicked' = \E f \in Events : event[f].on = c
    /\ UNCHANGED <<conn, hub, got, displaced>>

\* A second write on a connection ends the process.
WriteJSON(e) ==
    /\ event[e].at \in {"own", "cast"} /\ event[e].on = None
    /\ \E c \in Targets(e) :
         /\ event' = [event EXCEPT ![e].on = c]
         /\ panicked' = \E f \in Events : event[f].on = c
    /\ UNCHANGED <<conn, hub, got, displaced>>

\* An error that ends the round of the broadcast connections.
WriteFailsForAll(e) ==
    /\ event[e].on # None /\ conn[event[e].on].at # "open"
    /\ event' = [event EXCEPT ![e] =
                   [event[e] EXCEPT !.on = None, !.left = {},
                                    !.at = IF @ = "own" THEN "error" ELSE @]]
    /\ UNCHANGED <<conn, hub, got, displaced, panicked>>

\* An error on the instance's connection is returned at once, one on a
\* broadcast connection is only logged.
WriteFails(e) ==
    /\ event[e].on # None /\ conn[event[e].on].at # "open"
    /\ event' = [event EXCEPT ![e] =
                   [event[e] EXCEPT !.on = None, !.left = @ \ {event[e].on},
                                    !.at = IF @ = "own" THEN "error" ELSE @]]
    /\ UNCHANGED <<conn, hub, got, displaced, panicked>>

WriteSucceeds(e) ==
    /\ event[e].on # None
    /\ got' = [got EXCEPT ![event[e].on] = @ \cup {e}]
    /\ event' = [event EXCEPT ![e] =
                   [event[e] EXCEPT !.on = None, !.left = @ \ {event[e].on},
                                    !.at = "cast"]]
    /\ UNCHANGED <<conn, hub, displaced, panicked>>

RUnlock(e) ==
    /\ event[e].at = "cast" /\ event[e].left = {} /\ event[e].on = None
    /\ event' = [event EXCEPT ![e].at = "done"]
    /\ UNCHANGED <<conn, hub, got, displaced, panicked>>

Connection(c) ==
    \/ ServeWs(c) \/ AddClient(c) \/ AddBroadcastClient(c)
    \/ ReaderFails(c) \/ RemoveClient(c) \/ RemoveBroadcastClient(c)

Producer(e) ==
    \/ RLock(e) \/ WriteJSON(e) \/ WriteFails(e) \/ WriteSucceeds(e) \/ RUnlock(e)

Next ==
    /\ ~panicked
    /\ \/ \E c \in Conns : Connection(c) \/ PeerGone(c)
       \/ \E e \in Events : Produce(e) \/ Producer(e)

Spec == HubInit /\ [][Next]_vars

\* Goroutines are scheduled and a granted lock is taken.  That a write returns
\* is up to the peer: none has a deadline, and a connection that failed is
\* closed only after its removal, which waits for the lock the writer holds.
FairSpec ==
    /\ Spec
    /\ \A c \in Conns : WF_vars(~panicked /\ Connection(c))
    /\ \A e \in Events :
         WF_vars(~panicked /\ (RLock(e) \/ WriteJSON(e) \/ RUnlock(e)))

-----------------------------------------------------------------------------
(* Properties.                                                              *)

HubTypeOK ==
    /\ conn \in [Conns -> ConnState]
    /\ clients \in [Instances -> Conns \cup {None}]
    /\ broadcast \subseteq Conns
    /\ event \in [Events -> EventState]
    /\ got \in [Conns -> SUBSET Events]
    /\ displaced \subseteq Conns
    /\ panicked \in BOOLEAN

\* A connection the peer keeps open is in the hub, unless another connection
\* of its instance has replaced it or, when that one ended, taken it out.
OpenIsRegistered ==
    \A c \in Conns : conn[c].at = "open" =>
        IF conn[c].to = None THEN c \in broadcast
        ELSE c \in displaced \/ clients[conn[c].to] = c

\* A connection whose reader has ended is not in the hub.
GoneIsRemoved ==
    \A c \in Conns : conn[c].at = "gone" =>
        c \notin broadcast /\ \A i \in Instances : clients[i] # c

\* An event reaches every broadcast connection that is open when Produce
\* returns without an error: all were in the hub when it took the lock.
EventReachesAll ==
    \A e \in Events, c \in Conns :
        /\ event[e].at = "cast" /\ event[e].left = {} /\ event[e].on = None
        /\ c \in broadcast /\ conn[c].at = "open"
        => e \in got[c]

\* Nothing but a peer that does not read can keep a Produce from returning:
\* each that waits for the lock returns, however connections come and go,
\* unless a write never does, or two writes met and ended the process.
Writing == \E e \in Events : event[e].on # None

ProduceReturns ==
    \A e \in Events :
      \/ <>[]Writing
      \/ event[e].at = "wait" ~> (event[e].at \in {"done", "error"} \/ panicked)
=============================================================================
