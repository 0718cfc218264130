---------------------------- MODULE InstanceRecord ----------------------------
(***************************************************************************)
(* One row of the instances table and everyone who writes it.              *)
(*                                                                         *)
(*   requests       --Save: every column of a copy read earlier-->   row   *)
(*   event handlers --one column-->                                  row   *)
(*   StartClient    --a copy of the row--> cd.Instance, MyClient.Instance  *)
(*                                                                         *)
(* A request has the copy its authentication read (auth_middleware.go:30)  *)
(* or reads one itself; an event handler and the kill branch of a client   *)
(* run beside it.  Each statement on the table is one step; what a task    *)
(* holds between two of them is its copy.  The table is the set of rows a  *)
(* SELECT by the instance's id returns, so it is empty after a DELETE, and *)
(* a Save on it inserts.  The columns are the groups that are written      *)
(* together: conf is what Connect stores (events, webhook and the three    *)
(* enable flags), adv the advanced settings; the QR code, the disconnect   *)
(* reason, the name and the token are left out.  What the kill channels    *)
(* and the maps do is module InstanceLifecycle: here a client is there or  *)
(* is not, and a kill is received at once.                                 *)
(***************************************************************************)
EXTENDS Naturals

CONSTANTS Requests,   \* concurrent API requests
          Ops,        \* what may happen: a subset of AllOps
          Settings,   \* values a request may store in a column
          MaxOps      \* bound: requests, events and crashes

RequestOps == {"connect", "advanced", "setproxy", "removeproxy", "reconnect",
               "start", "disconnect", "logout", "delete", "force"}
EventOps == {"pair", "drop", "loggedout", "qrtimeout", "crash"}
AllOps == RequestOps \cup EventOps

ASSUME RecordAssumption ==
    /\ Ops \subseteq AllOps
    /\ "" \notin Settings
    /\ Requests \cap {"events", "loop", "again"} = {}
    /\ MaxOps \in Nat

VARIABLES row,        \* the rows with this instance's id: at most one
          session,    \* the linked device is in the library's own store
          client,     \* the registered clients: at most one
          ops,        \* requests, events and crashes so far
          task,       \* task -> where it is and the copy it holds
          clobbered   \* columns whose last writer had not seen the write before,
                      \* or was lost in a crash

vars == <<row, session, client, ops, task, clobbered>>

Columns == {"conf", "adv", "proxy", "jid", "connected"}
Values == Settings \cup {""}
Row == [conf : Values, adv : Values, proxy : Values,
        jid : BOOLEAN, connected : BOOLEAN]
Blank == [conf |-> "", adv |-> "", proxy |-> "", jid |-> FALSE,
          connected |-> FALSE]

\* "events": the handler of the client's events; "loop": the kill branch of
\* its StartClient; "again": the goroutine the handler of Disconnected starts,
\* and ConnectOnStartup.
Tasks == Requests \cup {"events", "loop", "again"}

\* cd: the copy StartClient was given; my: MyClient.Instance; paired: it was
\* built on the linked device; named: its login had a push name; old: its
\* settings were old when it got them.
Client == [cd : Row, my : Row, paired : BOOLEAN, link : {"off", "qr", "in"},
           named : BOOLEAN, old : BOOLEAN]

\* mine: the copy the task writes or starts a client with; fresh: a second copy
\* it reads to refresh the runtime; missed: columns others wrote since it read.
Task == [op : AllOps \cup {"none", "connected"},
         at : {"idle", "save", "column", "sync", "apply", "ensure", "teardown",
               "down", "cut", "read", "launch", "clean", "gone"},
         mine : Row, fresh : Row, missed : SUBSET Columns]

Idle == [op |-> "none", at |-> "idle", mine |-> Blank, fresh |-> Blank,
         missed |-> {}]

\* A row just created, or one whose client is paired and logged in.
Paired == [Blank EXCEPT !.jid = TRUE, !.connected = TRUE]

RecordInit ==
    /\ \/ row = {Blank} /\ session = FALSE /\ client = {}
       \/ /\ row = {Paired} /\ session = TRUE
          /\ client = {[cd |-> Paired, my |-> Paired, paired |-> TRUE,
                        link |-> "in", named |-> TRUE, old |-> FALSE]}
    /\ ops = 0
    /\ task = [t \in Tasks |-> Idle]
    /\ clobbered = {}

-----------------------------------------------------------------------------
(* Statements.                                                              *)

Begins == ops < MaxOps /\ ops' = ops + 1

At(t, op, at) == task[t].op = op /\ task[t].at = at

\* The row r with the columns of ch written.
With(r, ch) == [c \in Columns |-> IF c \in DOMAIN ch THEN ch[c] ELSE r[c]]

\* t goes on as next; the others have missed the columns news.
Proceed(t, next, news) ==
    task' = [u \in Tasks |->
               CASE u = t -> next
                 [] u # t /\ task[u].at = "idle" -> Idle
                 [] OTHER -> [task[u] EXCEPT !.missed = @ \cup news]]

Goto(t, at) == [task[t] EXCEPT !.at = at]

\* UPDATE ... SET ch WHERE id = ?: no row, nothing written.
UpdateColumns(t, ch, next) ==
    /\ row' = {With(r, ch) : r \in row}
    /\ clobbered' = (clobbered \ DOMAIN ch) \cup (DOMAIN ch \cap task[t].missed)
    /\ Proceed(t, next, DOMAIN ch)

\* A Save that inserts beside the row it read.
UpdateInserts(t, ch, next) ==
    /\ row' = row \cup {With(task[t].mine, ch)}
    /\ UNCHANGED clobbered
    /\ Proceed(t, next, DOMAIN ch)

\* gorm's Save: every column of the copy, inserted when the row is gone.
\* Columns it does not mean to change but others have since written are lost.
Update(t, ch, next) ==
    /\ row' = {With(task[t].mine, ch)}
    /\ clobbered' = (clobbered \ DOMAIN ch) \cup task[t].missed
    /\ Proceed(t, next, DOMAIN ch \cup task[t].missed)

UpdateConnected(t, status, next) ==
    UpdateColumns(t, [connected |-> status], next)

\* The task reads the row into its copy, and fails if there is none.
GetInstance(t, at) ==
    /\ Proceed(t, IF row = {} THEN Idle
                  ELSE [Goto(t, at) EXCEPT !.mine = CHOOSE r \in row : TRUE,
                                           !.missed = {}], {})
    /\ UNCHANGED <<row, clobbered>>

-----------------------------------------------------------------------------
(* Clients.                                                                 *)

\* A copy whose settings are no longer the row's.
Old(copy) == \E r \in row : copy.conf # r.conf \/ copy.adv # r.adv

\* StartClient(cd): nothing if the registered client has its socket up; a new
\* device when the copy has no JID, or when its session is no longer stored.
Launch(t, cd, next) ==
    LET new == [cd |-> cd, my |-> cd, paired |-> cd.jid /\ session,
                link |-> "off", named |-> FALSE, old |-> Old(cd)]
    IN IF \E c \in client : c.link # "off"
       THEN Proceed(t, next, {}) /\ UNCHANGED <<row, client, clobbered>>
       ELSE /\ client' = {new}
            /\ IF cd.jid /\ ~session THEN UpdateConnected(t, FALSE, next)
               ELSE Proceed(t, next, {}) /\ UNCHANGED <<row, clobbered>>

\* StartInstance reads the row and starts a client with that copy.
StartInstance(t) ==
    /\ t # "events" /\ task[t].at = "read"
    /\ GetInstance(t, "launch")
    /\ UNCHANGED <<session, client>>

LaunchRead(t) ==
    /\ task[t].at = "launch"
    /\ Launch(t, task[t].mine, Idle)
    /\ UNCHANGED session

\* The client connects: it logs in with its session, or offers a QR code.
\* The Connected event follows the login; its handler does nothing while the
\* account has no push name.
Connected ==
    /\ task["events"].at = "idle"
    /\ \E c \in client, named \in BOOLEAN :
         /\ c.link = "off"
         /\ named => c.paired
         /\ client' = {[c EXCEPT !.link = IF c.paired THEN "in" ELSE "qr",
                                 !.named = named]}
         /\ IF named
            THEN Proceed("events", [Idle EXCEPT !.op = "connected",
                                                !.at = "column"], {})
            ELSE UNCHANGED task
    /\ UNCHANGED <<row, session, clobbered>>

\* A handler that stores its state as it was before the login.
ConnectedStoredTooEarly ==
    /\ At("events", "connected", "column")
    /\ UpdateConnected("events", FALSE, Idle)
    /\ UNCHANGED <<session, client>>

ConnectedStored ==
    /\ At("events", "connected", "column")
    /\ UpdateConnected("events", TRUE, Idle)
    /\ UNCHANGED <<session, client>>

\* PairSuccess: the library stores the session; the handler reads the row,
\* then saves it with the JID.
PairSuccess ==
    /\ Begins
    /\ "pair" \in Ops
    /\ task["events"].at = "idle"
    /\ \E c \in client :
         /\ c.link = "qr"
         /\ client' = {[c EXCEPT !.paired = TRUE, !.link = "off"]}
    /\ session' = TRUE
    /\ Proceed("events", [Idle EXCEPT !.op = "pair", !.at = "read"], {})
    /\ UNCHANGED <<row, clobbered>>

PairSuccessRead ==
    /\ At("events", "pair", "read")
    /\ GetInstance("events", "save")
    /\ UNCHANGED <<session, client>>

\* A handler that saves the pairing without its JID.
PairSuccessSaveNoJid ==
    /\ At("events", "pair", "save")
    /\ Update("events", [connected |-> TRUE], Idle)
    /\ UNCHANGED <<session, client>>

PairSuccessSave ==
    /\ At("events", "pair", "save")
    /\ Update("events", [jid |-> TRUE, connected |-> TRUE], Idle)
    /\ UNCHANGED <<session, client>>

\* The server closes the socket (Disconnected) or unlinks the device
\* (LoggedOut); ConnectFailure ends like the first without a new start.
ConnectionLost ==
    /\ Begins
    /\ task["events"].at = "idle"
    /\ \E op \in {"drop", "loggedout"} \cap Ops, c \in client :
         /\ c.link = "in"
         /\ client' = {[c EXCEPT !.link = "off", !.named = FALSE]}
         /\ session' = (session /\ op = "drop")
         /\ Proceed("events", [Idle EXCEPT !.op = op, !.at = "column"], {})
    /\ UNCHANGED <<row, clobbered>>

\* ... its handler stores it, then has the instance started again, or killed.
ConnectionLostStored ==
    \E op \in {"drop", "loggedout"} :
      /\ At("events", op, "column")
      /\ UpdateConnected("events", FALSE,
                         [Goto("events", "down") EXCEPT !.missed = {}])
      /\ UNCHANGED <<session, client>>

ReconnectAfterDrop ==
    /\ At("events", "drop", "down") /\ task["again"].at = "idle"
    /\ task' = [task EXCEPT !["events"] = Idle,
                            !["again"] = [Idle EXCEPT !.op = "reconnect",
                                                      !.at = "teardown"]]
    /\ UNCHANGED <<row, session, client, clobbered>>

\* The kill branch of StartClient: the client goes, its row is not connected,
\* and StartClient is called with the copy of the first call.
Kill(c) ==
    /\ task["loop"].at = "idle"
    /\ client' = {}

Killed(c) == [Idle EXCEPT !.op = "start", !.at = "down", !.mine = c.cd]

KillAfterEvent ==
    /\ \/ At("events", "loggedout", "down") /\ UNCHANGED ops
       \/ "qrtimeout" \in Ops /\ task["events"].at = "idle" /\ Begins
    /\ \E c \in client :
         /\ task["events"].at = "idle" => c.link = "qr"
         /\ Kill(c)
         /\ task' = [task EXCEPT !["events"] = Idle, !["loop"] = Killed(c)]
    /\ UNCHANGED <<row, session, clobbered>>

\* A LoggedOut handler whose client is gone finds nobody to kill.
NobodyToKill ==
    /\ At("events", "loggedout", "down") /\ client = {}
    /\ Proceed("events", Idle, {})
    /\ UNCHANGED <<row, session, client, clobbered>>

KillStored ==
    /\ At("loop", "start", "down")
    /\ UpdateConnected("loop", FALSE, Goto("loop", "launch"))
    /\ UNCHANGED <<session, client>>

-----------------------------------------------------------------------------
(* Requests.  Auth reads the row; an instance that is gone is unauthorised. *)

Auth(r) ==
    /\ Begins
    /\ task[r].at = "idle"
    /\ \E op \in Ops \cap RequestOps, mine \in row :
         Proceed(r, [Idle EXCEPT !.op = op,
                       !.mine = IF op \in {"advanced", "reconnect", "start",
                                           "delete"} THEN Blank ELSE mine,
                       !.at = CASE op \in {"connect", "setproxy", "removeproxy"}
                                     -> "save"
                                [] op = "advanced" -> "column"
                                [] op \in {"delete", "force"} -> "teardown"
                                [] OTHER -> "ensure"], {})
    /\ UNCHANGED <<row, session, client, clobbered>>

\* Connect stores its settings with the copy of Auth, ...
ConnectSave(r) ==
    /\ At(r, "connect", "save")
    /\ \E s \in Settings :
         Update(r, [conf |-> s],
                [Goto(r, "sync") EXCEPT !.mine = With(@, [conf |-> s])])
    /\ UNCHANGED <<session, client>>

\* Advanced settings that are stored and not passed to the runtime.
UpdateAdvancedSettingsOnly(r) ==
    /\ At(r, "advanced", "column")
    /\ \E s \in Values : UpdateColumns(r, [adv |-> s], Idle)
    /\ UNCHANGED <<session, client>>

UpdateAdvancedSettings(r) ==
    /\ At(r, "advanced", "column")
    /\ \E s \in Values : UpdateColumns(r, [adv |-> s], Goto(r, "sync"))
    /\ UNCHANGED <<session, client>>

\* ... and reads the row again for the runtime, as UpdateAdvancedSettings does.
ReadSettings(r) ==
    /\ task[r].at = "sync"
    /\ IF row = {}
       THEN Proceed(r, IF task[r].op = "connect" THEN Goto(r, "launch")
                       ELSE Idle, {})
       ELSE Proceed(r, [Goto(r, "apply") EXCEPT
                          !.fresh = CHOOSE x \in row : TRUE], {})
    /\ UNCHANGED <<row, session, client, clobbered>>

\* With no client to refresh, Connect starts one with the copy it saved.
ApplySettings(r) ==
    /\ task[r].at = "apply"
    /\ client' = {[c EXCEPT !.my = task[r].fresh,
                            !.old = Old(task[r].fresh)] : c \in client}
    /\ Proceed(r, IF client = {} /\ task[r].op = "connect"
                  THEN [Goto(r, "launch") EXCEPT !.fresh = Blank] ELSE Idle, {})
    /\ UNCHANGED <<row, session, clobbered>>

\* SetProxy and RemoveProxy save, then reconnect.
Reconnect == [Idle EXCEPT !.op = "reconnect", !.at = "ensure"]

ProxySave(r) ==
    /\ \/ At(r, "setproxy", "save")
          /\ \E s \in Settings : Update(r, [proxy |-> s], Reconnect)
       \/ At(r, "removeproxy", "save")
          /\ Update(r, [proxy |-> ""], Reconnect)
    /\ UNCHANGED <<session, client>>

\* ensureClientConnected: without a client it starts one and the request comes
\* back two seconds later, or gives up; with one that is down it fails.
\* Disconnect needs a login; Logout closes a client that has none.
EnsureClientConnected(r) ==
    /\ task[r].at = "ensure"
    /\ LET up == \E c \in client : c.link # "off"
           in == \E c \in client : c.link = "in"
       IN Proceed(r, CASE client = {} -> [Idle EXCEPT !.op = "start", !.at = "read"]
                       [] up /\ task[r].op = "reconnect" -> Goto(r, "teardown")
                       [] in /\ task[r].op \in {"disconnect", "logout"}
                            -> Goto(r, "down")
                       [] up /\ ~in /\ task[r].op = "logout" -> Goto(r, "cut")
                       [] OTHER -> Idle, {})
    /\ UNCHANGED <<row, session, client, clobbered>>

\* ReconnectClient: the client goes, the row is not connected, and two seconds
\* later StartInstance reads it again.
ReconnectClient(t) ==
    /\ task[t].op = "reconnect"
    /\ \/ /\ task[t].at = "teardown"
          /\ client' = {}
          /\ Proceed(t, [Goto(t, "gone") EXCEPT !.missed = {}], {})
          /\ UNCHANGED <<row, session, clobbered>>
       \/ /\ task[t].at = "gone"
          /\ UpdateConnected(t, FALSE, IF row = {} THEN Idle ELSE Goto(t, "read"))
          /\ UNCHANGED <<session, client>>

\* Disconnect: the kill, then a Save of the copy of Auth without its events.
Disconnect(r) ==
    \/ /\ At(r, "disconnect", "down")
       /\ \E c \in client :
            /\ Kill(c)
            /\ task' = [task EXCEPT ![r].at = "save", !["loop"] = Killed(c)]
       /\ UNCHANGED <<row, session, clobbered>>
    \/ /\ At(r, "disconnect", "save")
       /\ Update(r, [conf |-> ""], Idle)
       /\ UNCHANGED <<session, client>>

\* Logout: the library unlinks the device, a Save of the copy of Auth, and the
\* client goes, by its kill branch if that answers within five seconds.  The
\* socket of a client without a login is closed, and the client goes likewise.
Logout(r) ==
    \/ /\ task[r].op = "logout" /\ task[r].at \in {"down", "cut"}
       /\ client' = {[c EXCEPT !.link = "off", !.named = FALSE] : c \in client}
       /\ session' = (session /\ task[r].at = "cut")
       /\ Proceed(r, Goto(r, IF task[r].at = "cut" THEN "clean" ELSE "save"), {})
       /\ UNCHANGED <<row, clobbered>>
    \/ /\ At(r, "logout", "save")
       /\ Update(r, [connected |-> FALSE], Goto(r, "clean"))
       /\ UNCHANGED <<session, client>>
    \/ /\ At(r, "logout", "clean")
       /\ \/ /\ \E c \in client :
                    /\ Kill(c)
                    /\ task' = [task EXCEPT ![r] = Idle, !["loop"] = Killed(c)]
          \/ /\ client' = {}
             /\ Proceed(r, Idle, {})
       /\ UNCHANGED <<row, session, clobbered>>

\* Delete unlinks a client that is logged in, clears the maps, deletes the row.
DeleteInstance(r) ==
    /\ task[r].op = "delete"
    /\ \/ /\ task[r].at = "teardown"
          /\ session' = (session /\ ~ \E c \in client : c.link = "in")
          /\ client' = {}
          /\ Proceed(r, Goto(r, "gone"), {})
          /\ UNCHANGED <<row, clobbered>>
       \/ /\ task[r].at = "gone"
          /\ row' = {}
          /\ clobbered' = {}
          /\ Proceed(r, Idle, Columns)
          /\ UNCHANGED <<session, client>>

\* ForceReconnect: the JID of the stored session goes into a row without one,
\* the row is read, the client goes, and a new one has that copy.
ForceReconnect(r) ==
    /\ task[r].op = "force"
    /\ \/ /\ task[r].at = "teardown"
          /\ IF \E c \in client : c.link = "in"
             THEN Proceed(r, Idle, {}) /\ UNCHANGED <<row, clobbered>>
             ELSE LET found == session /\ ~ task[r].mine.jid
                      next == [Goto(r, "gone") EXCEPT !.missed = {}]
                  IN IF found THEN UpdateColumns(r, [jid |-> TRUE], next)
                     ELSE Proceed(r, next, {}) /\ UNCHANGED <<row, clobbered>>
          /\ UNCHANGED <<session, client>>
       \/ /\ task[r].at = "gone"
          /\ GetInstance(r, "clean")
          /\ UNCHANGED <<session, client>>
       \/ /\ task[r].at = "clean"
          /\ client' = {}
          /\ Proceed(r, Goto(r, "launch"), {})
          /\ UNCHANGED <<row, session, clobbered>>

\* The process ends and comes back: ConnectOnStartup starts the instances
\* whose rows say they were connected.
CrashRestart ==
    /\ Begins
    /\ "crash" \in Ops
    /\ client' = {}
    /\ task' = [t \in Tasks |->
                  IF t = "again" /\ \E r \in row : r.connected
                  THEN [Idle EXCEPT !.op = "crash", !.at = "read"] ELSE Idle]
    /\ clobbered' = clobbered \cup
                      (IF task["events"].op = "pair" THEN {"jid"} ELSE {})
    /\ UNCHANGED <<row, session>>

Request(r) ==
    \/ ConnectSave(r) \/ UpdateAdvancedSettings(r)
    \/ ReadSettings(r) \/ ApplySettings(r) \/ ProxySave(r)
    \/ EnsureClientConnected(r) \/ Disconnect(r) \/ Logout(r)
    \/ DeleteInstance(r) \/ ForceReconnect(r)

Continue ==
    \/ \E r \in Requests : Request(r)
    \/ \E t \in Requests \cup {"again"} : StartInstance(t) \/ ReconnectClient(t)
    \/ \E t \in Requests \cup {"again", "loop"} : LaunchRead(t)
    \/ Connected \/ ConnectedStored
    \/ PairSuccessRead \/ PairSuccessSave
    \/ ConnectionLostStored \/ ReconnectAfterDrop
    \/ NobodyToKill \/ KillStored

Next ==
    \/ Continue /\ UNCHANGED ops
    \/ \E r \in Requests : Auth(r)
    \/ PairSuccess \/ ConnectionLost \/ KillAfterEvent \/ CrashRestart

Spec == RecordInit /\ [][Next]_vars

-----------------------------------------------------------------------------
(* Properties.                                                              *)

RecordTypeOK ==
    /\ row \subseteq Row /\ \A a, b \in row : a = b
    /\ session \in BOOLEAN
    /\ client \subseteq Client /\ \A a, b \in client : a = b
    /\ ops \in 0..MaxOps
    /\ task \in [Tasks -> Task]
    /\ clobbered \subseteq Columns

\* A pairing is in the row once PairSuccess has been handled, so that the
\* next start finds the session, unless a Save of an older copy took the JID
\* out again.
PairingIsSaved ==
    \A r \in row : session /\ task["events"].op # "pair" /\ "jid" \notin clobbered
                  => r.jid

\* A client that logged in under a push name is in the row as connected, so
\* that a restart brings it back, unless the last write had not seen the one before.
ConnectionIsSaved ==
    (\A t \in Tasks : task[t].at = "idle") /\ "connected" \notin clobbered
      => \A c \in client, r \in row : c.link = "in" /\ c.named => r.connected

\* When no request is under way the client at work has the settings of the
\* row: whoever writes them refreshes it.  Except that it may have been given
\* a copy that was old already, as the kill branch does, and that Disconnect
\* empties the row's events and tells nobody.
RuntimeHasSettings ==
    (\A t \in Tasks : task[t].at = "idle") /\ {"adv", "conf"} \cap clobbered = {}
      => \A c \in client, r \in row :
           c.old \/ (c.my.adv = r.adv /\ r.conf \in {c.my.conf, ""})

\* "Disconnect: Desliga mas mantem sessao": whoever has a saved pairing never
\* has a client that asks for a QR code.
NoQrOncePaired ==
    \A c \in client, r \in row : session /\ r.jid => c.link # "qr"
=============================================================================
