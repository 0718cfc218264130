-------------------------- MODULE InstanceLifecycle --------------------------
(***************************************************************************)
(* One instance's WhatsApp client, from StartClient to its kill, and the   *)
(* goroutines that meet in the three maps every service shares without a   *)
(* lock: clientPointer, myClientPointer and killChannel.                   *)
(*                                                                         *)
(*   API requests     --StartInstance-->  StartClient calls  --Connect-->  *)
(*   API requests     --kill-->           StartClient loops  --restart-->  *)
(*   event handlers   --kill, ReconnectClient-->                           *)
(*                                                                         *)
(* A StartClient call builds at most one client, so calls and clients      *)
(* share their numbers; the restart of the kill branch is a call of its    *)
(* own.  A kill channel is unbuffered: a send waits until somebody         *)
(* receives.  The loops receive from whatever channel is in the map when   *)
(* they look, once a second, and do not wait; a presence goroutine waits   *)
(* on the channel it read.  The entries of one instance do not depend on   *)
(* those of another, so there is one instance.  What the requests do to    *)
(* the other columns of its row is left out, save that gorm's Save brings  *)
(* a deleted row back.                                                     *)
(***************************************************************************)
EXTENDS Naturals

CONSTANTS Requests,     \* concurrent API requests
          Ops,          \* what may happen: a subset of AllOps
          MaxCalls,     \* bound: calls of StartClient
          MaxChannels   \* bound: kill channels made

RequestOps == {"connect", "reconnect", "disconnect", "logout", "getqr",
               "pair", "delete", "force"}
EventOps == {"closed", "loggedout", "qrtimeout", "presence", "redial"}
AllOps == RequestOps \cup EventOps

ASSUME LifecycleAssumption ==
    /\ Ops \subseteq AllOps
    /\ MaxCalls \in Nat
    /\ MaxChannels \in Nat
    /\ Requests \cap ({"loggedout", "qr"} \X (1..MaxCalls)) = {}

VARIABLES client,    \* clientPointer[id], 0 = no entry
          my,        \* myClientPointer[id], 0 = no entry
          chan,      \* killChannel[id], 0 = no entry: a nil channel
          row,       \* the instances table has the row
          call,      \* StartClient call -> its goroutine and its client
          calls,     \* calls so far
          channels,  \* channels made so far
          closed,    \* those that have been closed
          blocked,   \* sends that wait: who sends, on which channel
          parked,    \* presence goroutines that wait: whose, on which channel
          req,       \* request -> where it is
          crashed    \* the process has panicked

vars == <<client, my, chan, row, call, calls, channels, closed, blocked, parked,
          req, crashed>>

Calls == 1..MaxCalls
Channels == 0..MaxChannels

\* Goroutines other than requests that send kills: the LoggedOut handler and
\* the QR rotation of a client.
Senders == Requests \cup ({"loggedout", "qr"} \X Calls)

\* "none": not called; "killed": its loop has received; "ended": it returned
\* for another reason, its client, if any, not connected.
Phases == {"none", "guard", "building", "named", "connecting", "loop", "killed",
           "ended"}

\* link: not connected, connected, logged in.  qr: its QR rotation runs.
\* again: where the ReconnectClient of its Disconnected handler is.  redial: its
\* handler has disconnected it and is about to connect it.  deaf: its event
\* handler has been removed.  stray (history): its handler has connected it
\* when its loop was over.
CallState == [phase : Phases, link : {"off", "on", "in"}, qr : BOOLEAN,
              again : {"no", "asked", "starting"}, redial : BOOLEAN,
              deaf : BOOLEAN, stray : BOOLEAN]

NotCalled == [phase |-> "none", link |-> "off", qr |-> FALSE, again |-> "no",
              redial |-> FALSE, deaf |-> FALSE, stray |-> FALSE]

\* What is left of a request after its first part.
Places == {"idle", "start", "wait", "ready", "starting", "update", "send", "kill",
           "out", "shut", "clear", "reshut", "row"}

ReqState == [op : RequestOps, at : Places, client : 0..MaxCalls]

LifecycleInit ==
    /\ client = 0 /\ my = 0 /\ chan = 0
    /\ row = TRUE
    /\ call = [g \in Calls |-> NotCalled]
    /\ calls = 0 /\ channels = 0
    /\ closed = {}
    /\ blocked = {} /\ parked = {}
    /\ req \in [Requests -> [op : {"connect"}, at : {"idle"}, client : {0}]]
    /\ crashed = FALSE

-----------------------------------------------------------------------------
(* What the goroutines share. *)

Connected(g) == g # 0 /\ call[g].link # "off"
LoggedIn(g) == g # 0 /\ call[g].link = "in"

Waits(who) == \E b \in blocked : b.by = who

\* A send on the channel the map holds now; on a nil one it waits for ever.
Send(who) ==
    /\ chan \notin closed
    /\ blocked' = blocked \cup {[by |-> who, on |-> chan]}
    /\ UNCHANGED crashed

\* On a closed one it panics, which gin recovers in a request and the library in
\* an event handler, and nobody in a goroutine of the program's own.
SendPanics(fatal) ==
    /\ chan \in closed
    /\ crashed' = fatal
    /\ UNCHANGED blocked

\* The state of the calls after client g is disconnected, if there is one.
Off(g) == IF g = 0 THEN call ELSE [call EXCEPT ![g].link = "off"]

\* go StartClient: a new call, with the calls otherwise as in c.
Spawn(c) ==
    /\ calls < MaxCalls
    /\ calls' = calls + 1
    /\ call' = [c EXCEPT ![calls + 1].phase = "guard"]

MakeChannel ==
    /\ channels < MaxChannels
    /\ channels' = channels + 1
    /\ chan' = channels + 1

StartInstance == row /\ MakeChannel /\ Spawn(call)

\* StartInstance returns an error: the row cannot be read, or, the channel
\* already replaced, its proxy is malformed.
StartInstanceFails ==
    /\ \/ UNCHANGED <<chan, channels>>
       \/ row /\ MakeChannel
    /\ UNCHANGED <<calls, call>>

\* ReconnectClient up to its two seconds of sleep: the client is closed and its
\* event handler removed (which matters if it is about to be connected again), a
\* kill is sent if a receiver is waiting that instant, which a loop never is, and
\* the three maps are emptied.
Drop == [h \in Calls |->
           IF h = client
           THEN [call[h] EXCEPT !.link = "off",
                                !.deaf = call[h].redial /\ my = h]
           ELSE call[h]]

Forget ==
    /\ chan \notin closed
    /\ client' = 0 /\ my' = 0 /\ chan' = 0
    /\ LET waiting == {p \in parked : p.on = chan /\ chan # 0} IN
       \/ waiting = {} /\ UNCHANGED parked
       \/ \E p \in waiting : parked' = parked \ {p}
    /\ UNCHANGED <<row, calls, channels, closed, blocked, crashed>>

\* The send is on a closed channel.
ForgetPanics(fatal) ==
    /\ SendPanics(fatal)
    /\ UNCHANGED <<client, my, chan, row, calls, channels, closed, parked>>

-----------------------------------------------------------------------------
(* StartClient, call g. *)

\* ConnectOnStartup, in its goroutine.
Startup ==
    /\ calls = 0 /\ channels = 0
    /\ StartInstance
    /\ UNCHANGED <<client, my, row, closed, blocked, parked, req, crashed>>

\* A registered client that is connected makes the call return.
Guard(g) ==
    /\ call[g].phase = "guard"
    /\ call' = [call EXCEPT ![g].phase =
                  IF Connected(client) THEN "ended" ELSE "building"]
    /\ UNCHANGED <<client, my, chan, row, calls, channels, closed, blocked,
                   parked, req, crashed>>

\* The device store is opened and the client goes into clientPointer; with a
\* malformed proxy it stays there and nothing else happens.
Register(g) ==
    /\ call[g].phase = "building"
    /\ \/ /\ call' = [call EXCEPT ![g].phase = "ended"]
          /\ client' \in {client, g}
       \/ /\ call' = [call EXCEPT ![g].phase = "named"]
          /\ client' = g
    /\ UNCHANGED <<my, chan, row, calls, channels, closed, blocked, parked,
                   req, crashed>>

\* Its MyClient is built, and goes into myClientPointer.
RegisterMine(g) ==
    /\ call[g].phase = "named"
    /\ call' = [call EXCEPT ![g].phase = "connecting"]
    /\ my' = g
    /\ UNCHANGED <<client, chan, row, calls, channels, closed, blocked, parked,
                   req, crashed>>

\* Connect, with its second attempt; a client that fails stays in the maps.
\* One without a session will be given QR codes.
Connect(g) ==
    /\ call[g].phase = "connecting"
    /\ \/ call' = [call EXCEPT ![g].phase = "ended"]
       \/ \E b \in {FALSE, "qrtimeout" \in Ops} :
             call' = [call EXCEPT ![g].phase = "loop", ![g].link = "on",
                                  ![g].qr = b]
    /\ UNCHANGED <<client, my, chan, row, calls, channels, closed, blocked,
                   parked, req, crashed>>

\* The loop finds that the channel in the map has been closed, or that a send
\* waits on it.
TakeKill ==
    \/ chan \in closed /\ UNCHANGED blocked
    \/ \E b \in blocked : b.on = chan /\ chan # 0 /\ blocked' = blocked \ {b}

\* A loop that goes on after it has restarted the client.
ReceiveKillGoesOn(g) ==
    /\ call[g].phase = "loop"
    /\ TakeKill
    /\ client' = 0 /\ my' = 0
    /\ Spawn([call EXCEPT ![g].link = "off"])
    /\ UNCHANGED <<chan, row, channels, closed, parked, req, crashed>>

\* A loop that leaves its MyClient registered.
ReceiveKillKeepsMyClient(g) ==
    /\ call[g].phase = "loop"
    /\ TakeKill
    /\ client' = 0
    /\ Spawn([call EXCEPT ![g].phase = "killed", ![g].link = "off"])
    /\ UNCHANGED <<my, chan, row, channels, closed, parked, req, crashed>>

\* A loop that disconnects whichever client is registered.
ReceiveKillOfTheRegistered(g) ==
    /\ call[g].phase = "loop"
    /\ TakeKill
    /\ client' = 0 /\ my' = 0
    /\ Spawn([Off(client) EXCEPT ![g].phase = "killed"])
    /\ UNCHANGED <<chan, row, channels, closed, parked, req, crashed>>

\* The loop closes its own client, empties the maps whosever entries they hold,
\* and starts over.
ReceiveKill(g) ==
    /\ call[g].phase = "loop"
    /\ TakeKill
    /\ client' = 0 /\ my' = 0
    /\ Spawn([call EXCEPT ![g].phase = "killed", ![g].link = "off"])
    /\ UNCHANGED <<chan, row, channels, closed, parked, req, crashed>>

CallStep(g) ==
    \/ Guard(g)
    \/ Register(g)
    \/ RegisterMine(g)
    \/ Connect(g)
    \/ ReceiveKill(g)

-----------------------------------------------------------------------------
(* Events of client g, and the goroutines its handlers start. *)

\* events.Connected or PushNameSetting: with AlwaysOnline a presence goroutine
\* starts, and waits on the channel of the moment.  The QR rotation stops when
\* it sees that the client has an id (what it may do before is Pairing's).
HandleConnected(g) ==
    /\ Connected(g)
    /\ call' = [call EXCEPT ![g].link = "in", ![g].qr = FALSE]
    /\ \/ UNCHANGED parked
       \/ /\ "presence" \in Ops /\ ~call[g].deaf
          /\ parked' = parked \cup {[by |-> g, on |-> chan]}
    /\ UNCHANGED <<client, my, chan, row, calls, channels, closed, blocked,
                   req, crashed>>

\* Its ticker: it ends with the row, else it reads the channel anew.
PresenceTicks(p) ==
    /\ parked' = (parked \ {p}) \cup
                 (IF row THEN {[by |-> p.by, on |-> chan]} ELSE {})
    /\ UNCHANGED <<client, my, chan, row, call, calls, channels, closed,
                   blocked, req, crashed>>

\* It receives a kill, or finds its channel closed, and ends: that is all.
PresenceTakesKill(p) ==
    /\ \/ p.on \in closed /\ UNCHANGED blocked
       \/ \E b \in blocked : b.on = p.on /\ p.on # 0 /\ blocked' = blocked \ {b}
    /\ parked' = parked \ {p}
    /\ UNCHANGED <<client, my, chan, row, call, calls, channels, closed, req,
                   crashed>>

\* events.Disconnected: the server closed the socket; go ReconnectClient.
HandleDisconnected(g) ==
    /\ "closed" \in Ops
    /\ Connected(g)
    /\ call' = [call EXCEPT ![g].link = "off",
                            ![g].again = IF call[g].deaf THEN @ ELSE "asked"]
    /\ UNCHANGED <<client, my, chan, row, calls, channels, closed, blocked,
                   parked, req, crashed>>

ReconnectForgets(g) ==
    /\ call[g].again = "asked"
    /\ \/ Forget /\ call' = [Drop EXCEPT ![g].again = "starting"]
       \/ ForgetPanics(TRUE) /\ call' = Drop
    /\ UNCHANGED req

ReconnectStarts(g) ==
    /\ call[g].again = "starting"
    /\ LET c == [call EXCEPT ![g].again = "no"] IN
       \/ row /\ MakeChannel /\ Spawn(c)
       \/ /\ UNCHANGED calls
          /\ call' = c
          /\ \/ UNCHANGED <<chan, channels>>
             \/ row /\ MakeChannel
    /\ UNCHANGED <<client, my, row, closed, blocked, parked, req, crashed>>

\* events.LoggedOut: the library has closed the socket; the handler sends.
HandleLoggedOut(g) ==
    /\ "loggedout" \in Ops
    /\ Connected(g)
    /\ call' = Off(g)
    /\ \/ ~call[g].deaf /\ (Send(<<"loggedout", g>>) \/ SendPanics(FALSE))
       \/ call[g].deaf /\ UNCHANGED <<blocked, crashed>>
    /\ UNCHANGED <<client, my, chan, row, calls, channels, closed, parked,
                   req>>

\* A message that cannot be decrypted, with an id of a certain form: the handler
\* disconnects its client, whatever the maps hold, and connects it again.
HandleUndecryptable(g) ==
    /\ "redial" \in Ops
    /\ LoggedIn(g) /\ ~call[g].deaf
    /\ call' = [call EXCEPT ![g].link = "off", ![g].redial = TRUE]
    /\ UNCHANGED <<client, my, chan, row, calls, channels, closed, blocked,
                   parked, req, crashed>>

Redial(g) ==
    /\ call[g].redial
    /\ \/ call' = [call EXCEPT ![g].redial = FALSE]
       \/ call' = [call EXCEPT ![g].redial = FALSE, ![g].link = "on",
                               ![g].stray = (call[g].phase # "loop")]
    /\ UNCHANGED <<client, my, chan, row, calls, channels, closed, blocked,
                   parked, req, crashed>>

\* teardownQR, when the codes of a client that has not paired run out: it
\* sends unless there is no channel.
QRTimeout(g) ==
    /\ "qrtimeout" \in Ops
    /\ call[g].qr
    /\ call' = [call EXCEPT ![g].qr = FALSE]
    /\ \/ chan = 0 /\ UNCHANGED <<blocked, crashed>>
       \/ chan # 0 /\ (Send(<<"qr", g>>) \/ SendPanics(TRUE))
    /\ UNCHANGED <<client, my, chan, row, calls, channels, closed, parked,
                   req>>

EventStep(g) ==
    \/ HandleConnected(g)
    \/ HandleDisconnected(g)
    \/ ReconnectForgets(g)
    \/ ReconnectStarts(g)
    \/ HandleLoggedOut(g)
    \/ HandleUndecryptable(g)
    \/ Redial(g)
    \/ QRTimeout(g)

-----------------------------------------------------------------------------
(* API requests. *)

Goto(r, at) == req' = [req EXCEPT ![r].at = at]
Return(r) == req' = [req EXCEPT ![r].at = "idle", ![r].client = 0]
Use(r, g) == req' = [req EXCEPT ![r].at = "ready", ![r].client = g]

At(r, op, at) == req[r].op = op /\ req[r].at = at

\* The middleware has found the instance of the request.
Arrive(r) ==
    /\ req[r].at = "idle"
    /\ row
    /\ \E op \in Ops \cap RequestOps :
          req' = [req EXCEPT ![r] = [op |-> op, at |-> "start", client |-> 0]]
    /\ UNCHANGED <<client, my, chan, row, call, calls, channels, closed,
                   blocked, parked, crashed>>

\* ensureClientConnected, first half.
Ensure(r) ==
    /\ req[r].op \in {"reconnect", "disconnect", "logout"}
    /\ req[r].at = "start"
    /\ \/ /\ client = 0
          /\ \/ StartInstance /\ Goto(r, "wait")
             \/ StartInstanceFails /\ Return(r)
       \/ /\ client # 0
          /\ IF Connected(client) THEN Use(r, client) ELSE Return(r)
          /\ UNCHANGED <<chan, call, calls, channels>>
    /\ UNCHANGED <<client, my, row, closed, blocked, parked, crashed>>

\* ensureClientConnected, two seconds after its StartInstance.
Ensured(r) ==
    /\ req[r].at = "wait"
    /\ IF Connected(client) THEN Use(r, client) ELSE Return(r)
    /\ UNCHANGED <<client, my, chan, row, call, calls, channels, closed,
                   blocked, parked, crashed>>

\* A request sends a kill, and waits for its receiver; or it panics.
SendsKill(r) ==
    \/ Send(r) /\ Goto(r, "kill")
    \/ SendPanics(FALSE) /\ Return(r)

\* POST /instance/connect: the row is saved; a MyClient in the map counts as a
\* running instance, whatever its client's state.
ConnectRequest(r) ==
    /\ At(r, "connect", "start")
    /\ row' = TRUE
    /\ \/ /\ my # 0
          /\ UNCHANGED <<chan, channels, call, calls>>
       \/ /\ my = 0
          /\ MakeChannel
          /\ Spawn(call) \/ UNCHANGED <<call, calls>>
    /\ Return(r)
    /\ UNCHANGED <<client, my, closed, blocked, parked, crashed>>

Reconnect(r) ==
    /\ At(r, "reconnect", "ready")
    /\ \/ Forget /\ call' = Drop /\ Goto(r, "starting")
       \/ ForgetPanics(FALSE) /\ call' = Drop /\ Return(r)

Reconnected(r) ==
    /\ At(r, "reconnect", "starting")
    /\ StartInstance \/ StartInstanceFails
    /\ Return(r)
    /\ UNCHANGED <<client, my, row, closed, blocked, parked, crashed>>

\* A logged-in client is killed, with no limit on the wait.
Disconnect(r) ==
    /\ At(r, "disconnect", "ready")
    /\ \/ LoggedIn(req[r].client) /\ SendsKill(r)
       \/ ~LoggedIn(req[r].client) /\ Return(r) /\ UNCHANGED <<blocked,
                                                               crashed>>
    /\ UNCHANGED <<client, my, chan, row, call, calls, channels, closed,
                   parked>>

\* A logged-in client is logged out and the row saved, each of which may fail;
\* one that is only connected is disconnected.  Both kills wait five seconds.
Logout(r) ==
    LET g == req[r].client IN
    /\ At(r, "logout", "ready")
    /\ \/ LoggedIn(g) /\ call' = Off(g) /\ Goto(r, "update")
       \/ Connected(g) /\ ~LoggedIn(g) /\ call' = Off(g) /\ Goto(r, "send")
       \/ (LoggedIn(g) \/ ~Connected(g)) /\ UNCHANGED call /\ Return(r)
    /\ UNCHANGED <<client, my, chan, row, calls, channels, closed, blocked,
                   parked, crashed>>

LogoutSaves(r) ==
    /\ At(r, "logout", "update")
    /\ \/ row' = TRUE /\ Goto(r, "send")
       \/ UNCHANGED row /\ Return(r)
    /\ UNCHANGED <<client, my, chan, call, calls, channels, closed, blocked,
                   parked, crashed>>

LogoutSends(r) ==
    /\ At(r, "logout", "send")
    /\ SendsKill(r)
    /\ UNCHANGED <<client, my, chan, row, call, calls, channels, closed,
                   parked>>

\* Only a missing client, or one that says it is logged in, is started anew;
\* whether one that lost its connection still says so is the library's affair.
GetQr(r) ==
    /\ At(r, "getqr", "start")
    /\ \/ /\ client = 0 \/ LoggedIn(client) \/ ~Connected(client)
          /\ StartInstance \/ StartInstanceFails
       \/ /\ client # 0 /\ ~LoggedIn(client)
          /\ UNCHANGED <<chan, call, calls, channels>>
    /\ Return(r)
    /\ UNCHANGED <<client, my, row, closed, blocked, parked, crashed>>

Pair(r) ==
    /\ At(r, "pair", "start")
    /\ \/ /\ ~Connected(client)
          /\ StartInstance \/ StartInstanceFails
       \/ /\ client # 0
          /\ UNCHANGED <<chan, call, calls, channels>>
    /\ Return(r)
    /\ UNCHANGED <<client, my, row, closed, blocked, parked, crashed>>

\* A client that is logged in is logged out first, if WhatsApp agrees.
Delete(r) ==
    /\ At(r, "delete", "start")
    /\ LoggedIn(client)
    /\ call' \in {call, Off(client)}
    /\ Goto(r, "out")
    /\ UNCHANGED <<client, my, chan, row, calls, channels, closed, blocked,
                   parked, crashed>>

\* Closing the channel of the map, as a step of request r, which goes on there:
\* the sends that wait on it panic, and so does the close of one that is closed.
Close(r, there) ==
    LET onIt == {b \in blocked : b.on = chan} IN
    \/ /\ chan \notin closed
       /\ closed' = closed \cup {chan}
       /\ blocked' = blocked \ onIt
       /\ req' = [s \in Requests |->
                    IF s = r THEN [req[s] EXCEPT !.at = there]
                    ELSE IF \E b \in onIt : b.by = s
                         THEN [op |-> req[s].op, at |-> "idle", client |-> 0]
                         ELSE req[s]]
       /\ crashed' = (\E b \in onIt : b.by \in {"qr"} \X Calls)
    \/ /\ SendPanics(FALSE)
       /\ Return(r)
       /\ UNCHANGED closed

\* The client is disconnected and taken out of its map, and the channel closed.
DeleteCloses(r) ==
    /\ At(r, "delete", "out") \/ (At(r, "delete", "start") /\ ~LoggedIn(client))
    /\ call' = Off(client)
    /\ client' = 0
    /\ \/ /\ chan = 0
          /\ Goto(r, "clear")
          /\ UNCHANGED <<closed, blocked, crashed>>
       \/ chan # 0 /\ Close(r, "shut")
    /\ UNCHANGED <<my, chan, row, calls, channels, parked>>

\* The channel leaves the map after its close, here and in ClearInstanceCache.
DeleteForgets(r) ==
    /\ \/ At(r, "delete", "shut") /\ Goto(r, "clear")
       \/ At(r, "delete", "reshut") /\ Goto(r, "row")
    /\ chan' = 0
    /\ UNCHANGED <<client, my, row, call, calls, channels, closed, blocked,
                   parked, crashed>>

\* ClearInstanceCache, which closes a channel that has come into the map since.
\* (The kill it offers first ends what the close would end.)
DeleteClears(r) ==
    /\ At(r, "delete", "clear")
    /\ client' = 0 /\ my' = 0
    /\ \/ /\ chan = 0
          /\ Goto(r, "row")
          /\ UNCHANGED <<closed, blocked, crashed>>
       \/ chan # 0 /\ Close(r, "reshut")
    /\ UNCHANGED <<chan, row, call, calls, channels, parked>>

DeleteRow(r) ==
    /\ At(r, "delete", "row")
    /\ row' = FALSE
    /\ Return(r)
    /\ UNCHANGED <<client, my, chan, call, calls, channels, closed, blocked,
                   parked, crashed>>

\* ForceReconnect replaces the channel before it sends on it, so no receiver
\* but the loops can have it.
ForceReconnect(r) ==
    /\ At(r, "force", "start")
    /\ \/ Return(r) /\ UNCHANGED <<chan, channels, call, calls, blocked>>
       \/ /\ row /\ ~LoggedIn(client)
          /\ MakeChannel
          /\ \/ Return(r) /\ UNCHANGED <<call, calls, blocked>>
             \/ /\ client # 0
                /\ call' = Off(client)
                /\ blocked' = blocked \cup {[by |-> r, on |-> chan']}
                /\ Goto(r, "kill")
                /\ UNCHANGED calls
             \/ /\ client = 0
                /\ Spawn(call)
                /\ Return(r)
                /\ UNCHANGED blocked
    /\ UNCHANGED <<client, my, row, closed, parked, crashed>>

\* A kill that is sent by a goroutine of its own, and left there.
KillTimesOutLeavesSend(r) ==
    /\ req[r].op \in {"logout", "force"} /\ req[r].at = "kill"
    /\ Return(r)
    /\ UNCHANGED <<client, my, chan, row, call, calls, channels, closed,
                   blocked, parked, crashed>>

\* The five seconds of Logout and ForceReconnect.
KillTimesOut(r) ==
    /\ req[r].op \in {"logout", "force"} /\ req[r].at = "kill"
    /\ \E b \in blocked : b.by = r /\ blocked' = blocked \ {b}
    /\ UNCHANGED <<client, my, chan, row, call, calls, channels, closed,
                   parked, req, crashed>>

\* The send is over, received or not.
Disconnected(r) ==
    /\ At(r, "disconnect", "kill") /\ ~Waits(r)
    /\ row' = TRUE
    /\ Return(r)
    /\ UNCHANGED <<client, my, chan, call, calls, channels, closed, blocked,
                   parked, crashed>>

LoggedOut(r) ==
    /\ At(r, "logout", "kill") /\ ~Waits(r)
    /\ client' = 0 /\ chan' = 0
    /\ Return(r)
    /\ UNCHANGED <<my, row, call, calls, channels, closed, blocked, parked,
                   crashed>>

\* The new call finds no channel in the map.
ForceStarts(r) ==
    /\ At(r, "force", "kill") /\ ~Waits(r)
    /\ client' = 0 /\ chan' = 0
    /\ Spawn(call)
    /\ Return(r)
    /\ UNCHANGED <<my, row, channels, closed, blocked, parked, crashed>>

RequestStep(r) ==
    \/ Ensure(r) \/ Ensured(r)
    \/ ConnectRequest(r)
    \/ Reconnect(r) \/ Reconnected(r)
    \/ Disconnect(r) \/ Disconnected(r)
    \/ Logout(r) \/ LogoutSaves(r) \/ LogoutSends(r) \/ LoggedOut(r)
    \/ GetQr(r)
    \/ Pair(r)
    \/ Delete(r) \/ DeleteCloses(r) \/ DeleteForgets(r) \/ DeleteClears(r)
    \/ DeleteRow(r)
    \/ ForceReconnect(r) \/ ForceStarts(r)
    \/ KillTimesOut(r)

-----------------------------------------------------------------------------
Next ==
    /\ ~crashed
    /\ \/ Startup
       \/ \E g \in Calls : CallStep(g) \/ EventStep(g)
       \/ \E p \in parked : PresenceTicks(p) \/ PresenceTakesKill(p)
       \/ \E r \in Requests : Arrive(r) \/ RequestStep(r)

Spec == LifecycleInit /\ [][Next]_vars

-----------------------------------------------------------------------------
(* Properties. *)

\* Types; and a request leaves no kill behind it: one that waits is of a request
\* that still stands at its send.
LifecycleTypeOK ==
    /\ client \in 0..MaxCalls
    /\ my \in 0..MaxCalls
    /\ chan \in 0..channels
    /\ row \in BOOLEAN
    /\ call \in [Calls -> CallState]
    /\ calls \in 0..MaxCalls
    /\ channels \in 0..MaxChannels
    /\ closed \subseteq 1..channels
    /\ blocked \subseteq [by : Senders, on : 0..channels]
    /\ parked \subseteq [by : Calls, on : 0..channels]
    /\ req \in [Requests -> ReqState]
    /\ crashed \in BOOLEAN
    /\ \A b \in blocked : b.by \in Requests => req[b.by].at = "kill"

\* A client that was killed stays out of the maps: whatever restarts,
\* reconnections and requests overlap with its kill, no service finds it again.
KilledStaysOut ==
    \A g \in Calls : call[g].phase = "killed" => client # g /\ my # g

\* Behind every connected client, registered or not, a StartClient loop is
\* still looking for a kill, but for a client whose event handler has connected
\* it again (whatsmeow.go:2061) when its loop had taken one.
ConnectedIsPolled ==
    \A g \in Calls : Connected(g) => call[g].phase = "loop" \/ call[g].stray

\* whatsmeow.go:806-810: the loop is the only writer of the maps, so that no
\* connected client drops out of them.
NoOrphan == \A g \in Calls : Connected(g) => client = g
=============================================================================
