------------------------------- MODULE Pairing -------------------------------
(***************************************************************************)
(* Pairing a new device: the clients of an instance, their QR rotations,   *)
(* the passkey ceremony and the browser extension that drives it.          *)
(*                                                                         *)
(*   server --events--> myEventHandler --writes--> ceremony store          *)
(*   extension --polls, POSTs--> HTTP handlers --writes--> ceremony store  *)
(*   handleQRCodes --reads--> ceremony store, --kill--> StartClient loops  *)
(*                                                                         *)
(* A socket stands for one call of StartClient with the *whatsmeow.Client  *)
(* and the MyClient it builds; calls overlap, and the goroutines of a      *)
(* client that has been replaced or forgotten go on.  The WhatsApp server  *)
(* and the whatsmeow library are external: they take the steps of          *)
(* ServerStep, and the library hands a socket's events to myEventHandler   *)
(* in order.  Who starts and kills clients, and over which channel, is     *)
(* InstanceLifecycle's subject: here it may happen at any time.  When the  *)
(* entry of a client has been removed from the map, the HTTP handlers      *)
(* answer 500 and change nothing, so its removal is not a step.  The row   *)
(* of the instance is InstanceRecord's.                                    *)
(***************************************************************************)
EXTENDS CeremonyStore, Sequences

CONSTANTS Tabs,           \* browser tabs that run the extension
          MaxSockets,     \* bound: calls of StartClient that build a client
          MaxPending,     \* bound: events of a socket not yet dispatched
          Codes,          \* bound: QR codes in a batch of events.QR
          QrcodeMaxCount  \* config.QrcodeMaxCount, 0 = no limit

ASSUME PairingAssumption ==
    /\ Instances # {}
    /\ MaxSockets \in Nat \ {0}
    /\ MaxPending \in Nat
    /\ Codes \in Nat
    /\ QrcodeMaxCount \in Nat

VARIABLES sock,       \* socket -> its client and its goroutines
          made,       \* sockets made so far
          client,     \* clientPointer: instance -> the socket registered last
          tab,        \* tab -> the extension's state
          opener,     \* history: instance -> the socket its last ceremony was
                      \*   opened for
          earned,     \* history: token -> the furthest message of its
                      \*   exchange that the server has accepted
          writer      \* history: instance -> the ceremony whose request wrote
                      \*   a stage of the present one last

pairingVars == <<sock, made, client, tab, opener, earned, writer>>
vars == <<storeVars, pairingVars>>
history == <<opener, earned, writer>>

Sockets == 1..MaxSockets

\* made: Connect is still to come; dead: there is no connection, nor will be.
Links == {"made", "dead", "new", "qr", "challenged", "responded", "coded",
          "paired"}

\* id: Store.ID has been set.  A logout removes it together with the connection.
Socket == [inst : Instances, id : BOOLEAN, link : Links,
           events : Seq({"qr", "request", "code", "error", "success"}),
           qr : {"off", "next", "logout"},
           count : 0..Codes]

Unmade == [inst |-> CHOOSE i \in Instances : TRUE, id |-> FALSE,
           link |-> "dead", events |-> <<>>, qr |-> "off", count |-> 0]

PairingInit ==
    /\ StoreInit
    /\ sock = [g \in Sockets |-> Unmade]
    /\ made = 0
    /\ client = [i \in Instances |-> 0]
    /\ tab = [k \in Tabs |-> [token |-> None, button |-> "none",
                              pc |-> "idle", inst |-> None, to |-> 0]]
    /\ opener = [i \in Instances |-> 0]
    /\ earned = [t \in Tokens |-> "none"]
    /\ writer = [i \in Instances |-> None]

-----------------------------------------------------------------------------
(* Clients. *)

Alive(g) == sock[g].link \notin {"made", "dead"}

\* Disconnect: the library drops what it has not dispatched yet.  It does nothing
\* to a client whose Connect is still to come.
Closed(s) ==
    IF s.link = "made" THEN s ELSE [s EXCEPT !.link = "dead", !.events = <<>>]

\* StartClient for instance i, called by a request, a reconnection or a kill
\* branch, puts its client into the map, over whatever is there: that no
\* registered client was connected has been looked up before.
StartClient(i) ==
    /\ made < MaxSockets
    /\ made' = made + 1
    /\ sock' = [sock EXCEPT ![made + 1] = [Unmade EXCEPT !.inst = i, !.link = "made"]]
    /\ client' = [client EXCEPT ![i] = made + 1]
    /\ UNCHANGED <<storeVars, tab, history>>

\* The call fails, at the proxy's settings or in Connect, or opens a connection:
\* with the device the row's Jid names, or with a new one, when there is no Jid
\* or no such device.
Connect(g) ==
    /\ sock[g].link = "made"
    /\ \/ sock' = [sock EXCEPT ![g].link = "dead"]
       \/ sock' = [sock EXCEPT ![g].link = "new"]
       \/ sock' = [sock EXCEPT ![g] = [@ EXCEPT !.link = "paired", !.id = TRUE]]
    /\ UNCHANGED <<storeVars, made, client, tab, history>>

\* A client is disconnected: by the loop of its call, which receives the kill of
\* a QR rotation, its own or another's, or of whoever else sends one; or by a
\* request or ReconnectClient, which find it in the map.
Disconnect(g) ==
    /\ sock' = [sock EXCEPT ![g] = Closed(@)]
    /\ UNCHANGED <<storeVars, made, client, tab, history>>

ClientStep(g) == Connect(g) \/ Disconnect(g)

-----------------------------------------------------------------------------
(* The WhatsApp server and the whatsmeow library: external. *)

Reporting(s, to, event) == [s EXCEPT !.link = to, !.events = Append(@, event)]

\* The server moves socket g from one of these links to another and the
\* library queues the event.
Emits(g, from, to, event) ==
    /\ sock[g].link \in from
    /\ Len(sock[g].events) < MaxPending
    /\ sock' = [sock EXCEPT ![g] = Reporting(@, to, event)]

ServerStep(g) ==
    /\ \/ Emits(g, {"new"}, "qr", "qr")
       \/ /\ Emits(g, {"qr"}, "challenged", "request")
          /\ minted # Tokens
          /\ \A n \in DOMAIN sock[g].events : sock[g].events[n] # "request"
       \/ Emits(g, {"responded"}, "coded", "code")
       \/ Emits(g, {"qr", "challenged", "responded", "coded"}, "qr", "error")
       \/ Emits(g, {"qr"}, "paired", "success")
       \/ Alive(g) /\ sock' = [sock EXCEPT ![g].link = "dead"]
    /\ UNCHANGED <<storeVars, made, client, tab, history>>

-----------------------------------------------------------------------------
(* myEventHandler on the next event of socket g. *)

Dispatch(g, event) ==
    /\ sock[g].events # <<>>
    /\ Head(sock[g].events) = event

Dispatched(s) == [s EXCEPT !.events = Tail(@)]

\* events.QR: handleQRCodes starts its goroutine on the batch.
HandleQR(g) ==
    /\ Dispatch(g, "qr")
    /\ sock' = [sock EXCEPT ![g] = [Dispatched(@) EXCEPT !.qr = "next"]]
    /\ UNCHANGED <<storeVars, made, client, tab, history>>

\* events.PairPasskeyRequest: a new ceremony, unless the key cannot be encoded.
HandlePasskeyRequest(g) ==
    /\ Dispatch(g, "request")
    /\ \/ /\ \E t \in Tokens : Start(sock[g].inst, t)
          /\ opener' = [opener EXCEPT ![sock[g].inst] = g]
          /\ writer' = [writer EXCEPT ![sock[g].inst] = None]
       \/ SetError(sock[g].inst) /\ UNCHANGED <<opener, writer>>
    /\ sock' = [sock EXCEPT ![g] = Dispatched(@)]
    /\ UNCHANGED <<made, client, tab, earned>>

HandlePasskeyConfirmation(g) ==
    /\ Dispatch(g, "code")
    /\ SetConfirmation(sock[g].inst)
    /\ sock' = [sock EXCEPT ![g] = Dispatched(@)]
    /\ UNCHANGED <<made, client, tab, history>>

HandlePasskeyError(g) ==
    /\ Dispatch(g, "error")
    /\ SetError(sock[g].inst)
    /\ sock' = [sock EXCEPT ![g] = Dispatched(@)]
    /\ UNCHANGED <<made, client, tab, history>>

\* A PairSuccess handler that leaves the ceremony in the store.
HandlePairSuccessKeepsCeremony(g) ==
    /\ Dispatch(g, "success")
    /\ sock' = [sock EXCEPT ![g] = [Dispatched(@) EXCEPT !.id = TRUE]]
    /\ UNCHANGED <<storeVars, made, client, tab, history>>

\* events.PairSuccess: the library has set Store.ID, and the ceremony is over.  The
\* row is one that can be read: the handler panics on one that cannot.
HandlePairSuccess(g) ==
    /\ Dispatch(g, "success")
    /\ Clear(sock[g].inst)
    /\ sock' = [sock EXCEPT ![g] = [Dispatched(@) EXCEPT !.id = TRUE]]
    /\ UNCHANGED <<made, client, tab, history>>

HandleEvent(g) ==
    \/ HandleQR(g)
    \/ HandlePasskeyRequest(g)
    \/ HandlePasskeyConfirmation(g)
    \/ HandlePasskeyError(g)
    \/ HandlePairSuccess(g)

-----------------------------------------------------------------------------
(* handleQRCodes and teardownQR, in the goroutine of socket g. *)

\* What the rotation looks at before each code and after the last one.
Superseded(g) == sock[g].id \/ HasActiveByInstance(sock[g].inst)

\* The goroutine of socket s leaves its loop for the next stage of its end.  It
\* never looks at count again, which is the MyClient's: that gets no second
\* batch.
Leaving(s, stage) == [s EXCEPT !.qr = stage, !.count = 0]

RotationOver(g) == [sock EXCEPT ![g] = Leaving(@, "off")]

QRStops(g) ==
    /\ sock[g].qr = "next"
    /\ Superseded(g)
    /\ sock' = RotationOver(g)
    /\ UNCHANGED <<storeVars, made, client, tab, history>>

\* A rotation that goes on after the last code of the batch.
QRShowsPastTheEnd(g) ==
    /\ sock[g].qr = "next"
    /\ ~Superseded(g)
    /\ sock' = [sock EXCEPT ![g].count = @ + 1]
    /\ UNCHANGED <<storeVars, made, client, tab, history>>

\* The next code: published, or found to be the one that reaches the limit.
QRShows(g) ==
    LET n == sock[g].count + 1 IN
    /\ sock[g].qr = "next" /\ sock[g].count < Codes
    /\ ~Superseded(g)
    /\ sock' = [sock EXCEPT ![g] = IF QrcodeMaxCount > 0 /\ n >= QrcodeMaxCount
                                   THEN Leaving(@, "logout")
                                   ELSE [@ EXCEPT !.count = n]]
    /\ UNCHANGED <<storeVars, made, client, tab, history>>

\* Logout of a connected client: an unpaired one answers with an error, one
\* that has paired since is unlinked from the phone.  Then teardownQR sends its
\* kill, which any loop of the instance may receive (Disconnect), or nobody.
QRLogout(g) ==
    /\ sock[g].qr = "logout"
    /\ sock' = [sock EXCEPT ![g] =
                   IF Alive(g) /\ sock[g].id THEN Leaving(Closed(@), "off")
                   ELSE Leaving(@, "off")]
    /\ UNCHANGED <<storeVars, made, client, tab, history>>

\* The codes of the batch have run out: teardownQR sends its kill.
QRExhausted(g) ==
    /\ sock[g].qr = "next"
    /\ ~Superseded(g)
    /\ sock' = RotationOver(g)
    /\ UNCHANGED <<storeVars, made, client, tab, history>>

QRStep(g) ==
    \/ QRStops(g)
    \/ QRShows(g)
    \/ QRLogout(g)
    \/ QRExhausted(g)

-----------------------------------------------------------------------------
(* The extension and the public HTTP handlers. *)

\* The user opens the link of a ceremony in tab k.
OpenTab(k, t) ==
    /\ tab[k].pc = "idle"
    /\ t \in minted /\ t # tab[k].token
    /\ tab' = [tab EXCEPT ![k] = [@ EXCEPT !.token = t, !.button = "none"]]
    /\ UNCHANGED <<storeVars, sock, made, client, history>>

\* GET /passkey-ceremony/:token, and what the extension makes of the answer: a
\* stage sets the button, except that "error" leaves it as it is, as does a 404.
Poll(k) ==
    LET s == tab[k] IN
    /\ s.token # None /\ s.pc = "idle"
    /\ Lookup
    /\ tab' = [tab EXCEPT ![k].button =
                 IF ~Visible(s.token) THEN @
                 ELSE LET stage == byToken[s.token].stage IN
                      CASE stage = "challenge" -> "auth"
                        [] stage = "confirmation" -> "confirm"
                        [] stage = "error" -> @
                        [] OTHER -> "none"]
    /\ UNCHANGED <<sock, made, client, history>>

\* What the send behind each button needs of the server.
Needs(button) == IF button = "auth" THEN "challenged" ELSE "coded"

\* POST .../response or .../confirm: the token and the client are looked up; a
\* 404 or a 500 changes nothing.  The extension keeps the button after an error.
Post(k) ==
    LET t == tab[k].token IN
    /\ tab[k].pc = "idle" /\ tab[k].button # "none"
    /\ t # None /\ Visible(t) /\ client[byToken[t].inst] # 0
    /\ tab' = [tab EXCEPT ![k] = [@ EXCEPT !.pc = "sending",
                                          !.inst = byToken[t].inst,
                                          !.to = client[byToken[t].inst]]]
    /\ UNCHANGED <<storeVars, sock, made, client, history>>

\* SendPasskeyResponse or SendPasskeyConfirmation reaches the server: external.
Accepted(k) ==
    LET g == tab[k].to
        button == tab[k].button IN
    /\ tab[k].pc = "sending"
    /\ sock[g].link = Needs(button)
    /\ sock' = [sock EXCEPT ![g].link = IF button = "auth" THEN "responded" ELSE "qr"]
    /\ earned' = [earned EXCEPT ![tab[k].token] =
                    IF button = "auth" /\ @ # "confirmed"
                    THEN "responded" ELSE "confirmed"]
    /\ tab' = [tab EXCEPT ![k].pc = "accepted"]
    /\ UNCHANGED <<storeVars, made, client, opener, writer>>

\* The request is over.
Idle(s) == [s EXCEPT !.pc = "idle", !.inst = None, !.to = 0]

\* The stage that follows the message is written, by instance: whichever
\* ceremony the instance has now gets it.
WriteStage(k) ==
    LET i == tab[k].inst IN
    /\ IF tab[k].button = "auth"
       THEN SetAwaitingConfirmation(i) ELSE SetConfirmed(i)
    /\ writer' = IF HasCeremony(i)
                 THEN [writer EXCEPT ![i] = tab[k].token] ELSE writer
    /\ UNCHANGED <<sock, made, client, opener, earned>>

\* The send returned.
SendReturns(k) ==
    /\ tab[k].pc = "accepted"
    /\ WriteStage(k)
    /\ tab' = [tab EXCEPT ![k] = [Idle(@) EXCEPT !.button = "none"]]

\* A failing send whose error is logged and then ignored.
SendFailsOn(k) ==
    /\ tab[k].pc \in {"sending", "accepted"}
    /\ WriteStage(k)
    /\ tab' = [tab EXCEPT ![k] = Idle(@)]

\* The send failed or its 45 s ran out, whether the server got it or not.
SendFails(k) ==
    /\ tab[k].pc \in {"sending", "accepted"}
    /\ SetError(tab[k].inst)
    /\ tab' = [tab EXCEPT ![k] = Idle(@)]
    /\ UNCHANGED <<sock, made, client, history>>

TabStep(k) ==
    \/ \E t \in Tokens : OpenTab(k, t)
    \/ Poll(k)
    \/ Post(k)
    \/ Accepted(k)
    \/ SendReturns(k)
    \/ SendFails(k)

-----------------------------------------------------------------------------
PassTime == Tick /\ UNCHANGED pairingVars

Next ==
    \/ \E i \in Instances : StartClient(i)
    \/ \E g \in Sockets :
          \/ ClientStep(g)
          \/ ServerStep(g)
          \/ HandleEvent(g)
          \/ QRStep(g)
    \/ \E k \in Tabs : TabStep(k)
    \/ PassTime

Spec == PairingInit /\ [][Next]_vars

-----------------------------------------------------------------------------
(* Properties. *)

PairingTypeOK ==
    /\ StoreTypeOK
    /\ sock \in [Sockets -> Socket]
    /\ made \in 0..MaxSockets
    /\ client \in [Instances -> 0..MaxSockets]
    /\ tab \in [Tabs -> [token : Tokens \cup {None},
                         button : {"none", "auth", "confirm"},
                         pc : {"idle", "sending", "accepted"},
                         inst : Instances \cup {None}, to : 0..MaxSockets]]
    /\ opener \in [Instances -> 0..MaxSockets]
    /\ earned \in [Tokens -> {"none", "responded", "confirmed"}]
    /\ writer \in [Instances -> Tokens \cup {None}]

\* A ceremony does not outlive the pairing of the client it was opened for,
\* however late a request or an event of it writes its stage: a ceremony that
\* is in the store after a pairing was opened for another client, an orphan or
\* a successor, that has not paired.
NoCeremonyAfterPairing ==
    \A t \in Tokens : Live(t) => ~sock[opener[byToken[t].inst]].id

Suffices(stage, message) ==
    \/ message = "confirmed"
    \/ message = "responded" /\ stage = "awaiting_confirmation"

\* The stage of t was earned by ceremony u.
EarnedBy(t, u) ==
    /\ u \in Tokens /\ Suffices(byToken[t].stage, earned[u])
    /\ u = t \/ ~Live(u)

\* A stage past the challenge was earned: the server has accepted the message
\* it stands for in the exchange of this ceremony or, where the request was
\* overtaken by a new ceremony, of one of the same instance that is over.  A
\* send that fails or times out never passes for an accepted one.
StagesAreEarned ==
    \A t \in Tokens :
        Live(t) /\ byToken[t].stage \in {"awaiting_confirmation", "confirmed"} =>
            EarnedBy(t, writer[byToken[t].inst])
=============================================================================
