----------------------- MODULE InstanceLifecycleProofs -----------------------
(***************************************************************************)
(* Proofs about the lifecycle of an instance's client, for any number of   *)
(* requests, calls and channels.                                           *)
(*                                                                         *)
(* First for every set of operations: the type invariant, ConnectedIsPolled*)
(* and KilledStaysOut.  They are inductive together with NumbersInOrder,   *)
(* which says that the call a Spawn begins is a new one.                   *)
(*                                                                         *)
(* Then NoOrphan, when all that happens is kills by the event handlers and *)
(* the QR rotation: there is then one active call, the last.               *)
(***************************************************************************)
EXTENDS InstanceLifecycle, TLAPS

\* Calls that have not begun have touched nothing.
NumbersInOrder ==
    \A g \in Calls :
        g > calls => /\ call[g].phase = "none"
                     /\ call[g].link = "off" /\ ~call[g].redial

CoreType ==
    /\ client \in 0..MaxCalls
    /\ my \in 0..MaxCalls
    /\ call \in [Calls -> CallState]
    /\ calls \in 0..MaxCalls
    /\ req \in [Requests -> ReqState]

CoreInv ==
    /\ CoreType
    /\ NumbersInOrder
    /\ KilledStaysOut
    /\ ConnectedIsPolled

\* Spawn begins call number calls + 1 and changes no other one.
LEMMA SpawnNumbers ==
  ASSUME CoreInv, NEW c \in [Calls -> CallState], Spawn(c)
  PROVE  /\ calls + 1 \in Calls
         /\ calls' \in 0..MaxCalls
         /\ calls' = calls + 1
         /\ call' \in [Calls -> CallState]
         /\ \A g \in Calls : g # calls + 1 => call'[g] = c[g]
         /\ call'[calls + 1].phase = "guard"
         /\ call'[calls + 1].link = c[calls + 1].link
         /\ call'[calls + 1].again = c[calls + 1].again
         /\ call'[calls + 1].redial = c[calls + 1].redial
         /\ call'[calls + 1].stray = c[calls + 1].stray
<1>1. calls \in Nat /\ calls < MaxCalls /\ MaxCalls \in Nat
  BY LifecycleAssumption DEF CoreInv, CoreType, Spawn
<1>2. calls + 1 \in Calls /\ calls + 1 \in 0..MaxCalls
  BY <1>1 DEF Calls
<1>3. call' \in [Calls -> CallState]
  BY <1>2 DEF Spawn, CallState, Phases
<1>4. QED
  BY <1>2, <1>3 DEF Spawn, CallState

\* The calls may lose connections, for good or to be connected again, and nothing
\* else of interest changes.
Calm(c) ==
    /\ c \in [Calls -> CallState]
    /\ \A g \in Calls : /\ c[g].phase = call[g].phase
                        /\ c[g].link \in {call[g].link, "off"}
                        /\ c[g].stray = call[g].stray
                        /\ c[g].redial => call[g].redial \/ Connected(g)

\* The calls as they are are calm, and so is a disconnection.
LEMMA OffIsCalm ==
  ASSUME CoreInv
  PROVE  /\ Calm(call)
         /\ \A g \in 0..MaxCalls : Calm(Off(g))
         /\ Calm(Drop)
<1>1. call \in [Calls -> CallState]
  BY DEF CoreInv, CoreType
<1>2. Calm(call)
  BY <1>1 DEF Calm
<1>3. ASSUME NEW g \in Calls
      PROVE  Calm([call EXCEPT ![g].link = "off"])
  BY <1>1 DEF Calm, CallState
<1>4. ASSUME NEW g \in 0..MaxCalls
      PROVE  Calm(Off(g))
  <2>1. CASE g = 0
    BY <1>2, <2>1 DEF Off
  <2>2. CASE g # 0
    <3>1. g \in Calls
      BY <2>2, LifecycleAssumption DEF Calls
    <3>2. QED
      BY <1>3, <2>2, <3>1 DEF Off
  <2>3. QED
    BY <2>1, <2>2
<1>5. Calm(Drop)
  <2>1. Drop \in [Calls -> CallState]
    BY <1>1 DEF Drop, CallState
  <2>2. \A g \in Calls : /\ Drop[g].phase = call[g].phase
                         /\ Drop[g].link \in {call[g].link, "off"}
                         /\ Drop[g].stray = call[g].stray
                         /\ Drop[g].redial = call[g].redial
    BY <1>1 DEF Drop, CallState
  <2>3. QED
    BY <2>1, <2>2 DEF Calm
<1>6. QED
  BY <1>2, <1>4, <1>5

\* A step that disconnects clients, takes entries out of the maps, and moves
\* requests keeps the invariant.
LEMMA CalmKeepsInv ==
  ASSUME CoreInv, Calm(call'), calls' = calls, client' \in {client, 0},
         my' \in {my, 0}, req' \in [Requests -> ReqState]
  PROVE  CoreInv'
<1>1. CoreType'
  BY LifecycleAssumption DEF CoreInv, CoreType, Calm
<1>2. NumbersInOrder'
  BY DEF CoreInv, NumbersInOrder, Calm, Connected
<1>3. KilledStaysOut'
  BY DEF CoreInv, KilledStaysOut, Calm, Calls
<1>4. ConnectedIsPolled'
  BY DEF CoreInv, ConnectedIsPolled, Calm, Connected, Calls
<1>5. QED
  BY <1>1, <1>2, <1>3, <1>4 DEF CoreInv

\* So does one that also begins a call.
LEMMA SpawnKeepsInv ==
  ASSUME CoreInv, NEW c, Calm(c), Spawn(c), client' \in {client, 0},
         my' \in {my, 0}, req' \in [Requests -> ReqState]
  PROVE  CoreInv'
<1> DEFINE n == calls + 1
<1>1. /\ n \in Calls
      /\ calls' \in 0..MaxCalls
      /\ calls' = n
      /\ call' \in [Calls -> CallState]
      /\ \A g \in Calls : g # n => call'[g] = c[g]
      /\ call'[n].phase = "guard"
      /\ call'[n].link = c[n].link
      /\ c \in [Calls -> CallState]
  BY SpawnNumbers DEF Calm
<1>2. calls \in Nat
  BY DEF CoreInv, CoreType
<1>3. call[n].phase = "none"
  BY <1>1, <1>2 DEF CoreInv, NumbersInOrder
<1>4. c[n].link = "off"
  BY <1>1, <1>2 DEF CoreInv, NumbersInOrder, Calm
<1>5. CoreType'
  BY <1>1, LifecycleAssumption DEF CoreInv, CoreType
<1>6. NumbersInOrder'
  BY <1>1, <1>2 DEF CoreInv, NumbersInOrder, Calm, Calls, Connected
<1>7. KilledStaysOut'
  BY <1>1 DEF CoreInv, KilledStaysOut, Calm, Calls
<1>8. ConnectedIsPolled'
  BY <1>1, <1>4 DEF CoreInv, ConnectedIsPolled, Calm, Connected, Calls
<1>9. QED
  BY <1>5, <1>6, <1>7, <1>8 DEF CoreInv

\* Either way: what every action does that is not a step of a StartClient call.
LEMMA OtherStepsKeepInv ==
  ASSUME CoreInv, client' \in {client, 0}, my' \in {my, 0},
         req' \in [Requests -> ReqState],
         \/ Calm(call') /\ calls' = calls
         \/ \E c : Calm(c) /\ Spawn(c)
  PROVE  CoreInv'
<1>1. CASE Calm(call') /\ calls' = calls
  BY <1>1, CalmKeepsInv
<1>2. CASE \E c : Calm(c) /\ Spawn(c)
  <2>1. PICK c : Calm(c) /\ Spawn(c)
    BY <1>2
  <2>2. QED
    BY <2>1, SpawnKeepsInv
<1>3. QED
  BY <1>1, <1>2

-----------------------------------------------------------------------------
\* The ways a request moves keep its type.
LEMMA RequestMoves ==
  ASSUME CoreInv, NEW r \in Requests
  PROVE  /\ \A at \in Places :
               Goto(r, at) => req' \in [Requests -> ReqState]
         /\ Return(r) => req' \in [Requests -> ReqState]
         /\ \A g \in 0..MaxCalls : Use(r, g) => req' \in [Requests -> ReqState]
         /\ req[r].client \in 0..MaxCalls
  BY LifecycleAssumption
  DEF CoreInv, CoreType, ReqState, Places, Goto, Return, Use

\* Arrive begins an operation of its request.
LEMMA ArriveMovesRequests ==
  ASSUME CoreInv, NEW r \in Requests, Arrive(r)
  PROVE  req' \in [Requests -> ReqState]
<1>1. req \in [Requests -> ReqState]
  BY DEF CoreInv, CoreType
<1>2. PICK op \in RequestOps :
         req' = [req EXCEPT ![r] = [op |-> op, at |-> "start", client |-> 0]]
  BY DEF Arrive
<1>3. [op |-> op, at |-> "start", client |-> 0] \in ReqState
  BY LifecycleAssumption DEF ReqState, Places
<1>4. QED
  BY <1>1, <1>2, <1>3

\* A close moves its own request and those whose send panics.
LEMMA CloseMovesRequests ==
  ASSUME CoreInv, NEW r \in Requests, NEW there \in Places, Close(r, there),
         chan \notin closed
  PROVE  req' \in [Requests -> ReqState]
<1> DEFINE onIt == {b \in blocked : b.on = chan}
           Moved(s) == IF s = r THEN [req[s] EXCEPT !.at = there]
                       ELSE IF \E b \in onIt : b.by = s
                            THEN [op |-> req[s].op, at |-> "idle", client |-> 0]
                            ELSE req[s]
<1>1. req' = [s \in Requests |-> Moved(s)]
  BY DEF Close, SendPanics
<1>2. ASSUME NEW s \in Requests
      PROVE  Moved(s) \in ReqState
  <2>1. req[s] \in ReqState
    BY DEF CoreInv, CoreType
  <2>2. [req[s] EXCEPT !.at = there] \in ReqState
    BY <2>1 DEF ReqState
  <2>3. [op |-> req[s].op, at |-> "idle", client |-> 0] \in ReqState
    BY <2>1, LifecycleAssumption DEF ReqState, Places
  <2>4. QED
    BY <2>1, <2>2, <2>3
<1> HIDE DEF Moved
<1>3. QED
  BY <1>1, <1>2

LEMMA CloseKeepsRequests ==
  ASSUME CoreInv, NEW r \in Requests, NEW there \in Places, Close(r, there)
  PROVE  req' \in [Requests -> ReqState]
<1>1. CASE chan \notin closed
  BY <1>1, CloseMovesRequests
<1>2. CASE chan \in closed
  BY <1>2, RequestMoves DEF Close
<1>3. QED
  BY <1>1, <1>2

\* No request step breaks the invariant.
LEMMA RequestStepKeepsInv ==
  ASSUME CoreInv, NEW r \in Requests, Arrive(r) \/ RequestStep(r)
  PROVE  CoreInv'
<1> USE OffIsCalm, RequestMoves, OtherStepsKeepInv DEF Places
<1>0. /\ client \in 0..MaxCalls
      /\ req \in [Requests -> ReqState]
  BY DEF CoreInv, CoreType
<1>1. CASE Arrive(r)
  <2>1. req' \in [Requests -> ReqState]
    BY <1>1, ArriveMovesRequests
  <2>2. QED
    BY <1>1, <2>1 DEF Arrive
<1>2. CASE Ensure(r)
  BY <1>0, <1>2 DEF Ensure, StartInstance, StartInstanceFails
<1>3. CASE Ensured(r)
  BY <1>0, <1>3 DEF Ensured
<1>4. CASE ConnectRequest(r)
  BY <1>4 DEF ConnectRequest
<1>5. CASE Reconnect(r)
  BY <1>0, <1>5 DEF Reconnect, Forget, ForgetPanics
<1>6. CASE Reconnected(r)
  BY <1>6 DEF Reconnected, StartInstance, StartInstanceFails
<1>7. CASE Disconnect(r)
  BY <1>7 DEF Disconnect, SendsKill
<1>8. CASE Disconnected(r)
  BY <1>8 DEF Disconnected
<1>9. CASE Logout(r) \/ LogoutSaves(r) \/ LogoutSends(r)
  BY <1>9 DEF Logout, LogoutSaves, LogoutSends, SendsKill
<1>10. CASE LoggedOut(r)
  BY <1>10 DEF LoggedOut
<1>11. CASE GetQr(r)
  BY <1>11 DEF GetQr, StartInstance, StartInstanceFails
<1>12. CASE Pair(r)
  BY <1>12 DEF Pair, StartInstance, StartInstanceFails
<1>13. CASE Delete(r) \/ DeleteForgets(r)
  BY <1>0, <1>13 DEF Delete, DeleteForgets
<1>13a. CASE DeleteCloses(r) \/ DeleteClears(r)
  <2>1. req' \in [Requests -> ReqState]
    BY <1>13a, CloseKeepsRequests DEF DeleteCloses, DeleteClears
  <2>2. QED
    BY <1>0, <1>13a, <2>1 DEF DeleteCloses, DeleteClears
<1>14. CASE DeleteRow(r)
  BY <1>14 DEF DeleteRow
<1>15. CASE ForceReconnect(r)
  BY <1>0, <1>15 DEF ForceReconnect
<1>16. CASE ForceStarts(r)
  BY <1>16 DEF ForceStarts
<1>17. CASE KillTimesOut(r)
  BY <1>0, <1>17 DEF KillTimesOut
<1>18. QED
  BY <1>1, <1>2, <1>3, <1>4, <1>5, <1>6, <1>7, <1>8, <1>9, <1>10, <1>11, <1>12,
     <1>13, <1>13a, <1>14, <1>15, <1>16, <1>17
  DEF RequestStep

\* Nor does a step of a StartClient call.
LEMMA CallStepKeepsInv ==
  ASSUME CoreInv, NEW g \in Calls, CallStep(g)
  PROVE  CoreInv'
<1>1. /\ call \in [Calls -> CallState]
      /\ req \in [Requests -> ReqState]
      /\ client \in 0..MaxCalls /\ my \in 0..MaxCalls
      /\ calls \in 0..MaxCalls
      /\ g \in 0..MaxCalls /\ g # 0
  BY LifecycleAssumption DEF CoreInv, CoreType, Calls
<1> USE DEF CoreInv
<1>2. CASE Guard(g)
  <2>1. CoreType'
    BY <1>1, <1>2 DEF CoreType, Guard, CallState, Phases
  <2>2. QED
    BY <1>2, <2>1
    DEF Guard, NumbersInOrder, KilledStaysOut, ConnectedIsPolled, Connected,
        CoreType
<1>3. CASE Register(g) \/ RegisterMine(g)
  <2>1. /\ call' \in [Calls -> CallState]
        /\ \A h \in Calls : h # g => call'[h] = call[h]
        /\ call[g].phase \in {"building", "named"}
        /\ call'[g].phase \in {"ended", "named", "connecting"}
        /\ UNCHANGED <<calls, req>>
        /\ client' \in {client, g} /\ my' \in {my, g}
    BY <1>1, <1>3 DEF Register, RegisterMine, CallState, Phases
  <2>1a. /\ call'[g].link = call[g].link
         /\ call'[g].stray = call[g].stray
         /\ call'[g].redial = call[g].redial
    BY <1>1, <1>3 DEF Register, RegisterMine, CallState
  <2>2. CoreType'
    BY <1>1, <2>1 DEF CoreType
  <2>3. NumbersInOrder'
    BY <2>1, <2>1a DEF NumbersInOrder
  <2>4. KilledStaysOut'
    BY <2>1 DEF KilledStaysOut
  <2>5. ConnectedIsPolled'
    BY <2>1, <2>1a DEF ConnectedIsPolled, Connected
  <2>6. QED
    BY <2>2, <2>3, <2>4, <2>5
<1>4. CASE Connect(g)
  <2>1. /\ call' \in [Calls -> CallState]
        /\ \A h \in Calls : h # g => call'[h] = call[h]
        /\ call[g].phase = "connecting"
        /\ \/ call'[g].phase = "ended" /\ call'[g].link = call[g].link
           \/ call'[g].phase = "loop"
        /\ call'[g].stray = call[g].stray /\ call'[g].redial = call[g].redial
        /\ UNCHANGED <<calls, client, my, req>>
    BY <1>1, <1>4 DEF Connect, CallState, Phases
  <2>2. CoreType'
    BY <1>1, <2>1 DEF CoreType
  <2>3. NumbersInOrder'
    BY <2>1 DEF NumbersInOrder
  <2>4. KilledStaysOut'
    BY <2>1 DEF KilledStaysOut
  <2>5. ConnectedIsPolled'
    BY <2>1 DEF ConnectedIsPolled, Connected
  <2>6. QED
    BY <2>2, <2>3, <2>4, <2>5
<1>5. CASE ReceiveKill(g)
  <2> DEFINE c == [call EXCEPT ![g].phase = "killed", ![g].link = "off"]
             n == calls + 1
  <2>1. c \in [Calls -> CallState] /\ Spawn(c)
    BY <1>1, <1>5 DEF ReceiveKill, CallState, Phases
  <2>2. /\ n \in Calls
        /\ calls' \in 0..MaxCalls
        /\ calls' = n
        /\ call' \in [Calls -> CallState]
        /\ \A h \in Calls : h # n => call'[h] = c[h]
        /\ call'[n].phase = "guard"
        /\ call'[n].link = c[n].link
    BY <2>1, SpawnNumbers
  <2>3. call[n].phase = "none"
    BY <1>1, <2>2 DEF NumbersInOrder
  <2>4. call[n].link = "off" /\ n # g
    BY <1>1, <1>5, <2>2, <2>3 DEF ReceiveKill, NumbersInOrder
  <2>5. CoreType'
    BY <1>1, <1>5, <2>2, LifecycleAssumption DEF CoreType, ReceiveKill
  <2>6. NumbersInOrder'
    BY <1>1, <1>5, <2>2 DEF ReceiveKill, NumbersInOrder, Calls
  <2>7. KilledStaysOut'
    BY <1>5, <2>2 DEF ReceiveKill, KilledStaysOut, Calls
  <2>8. ConnectedIsPolled'
    <3>1. /\ \A h \in Calls : h # g => c[h] = call[h]
          /\ c[g].link = "off"
      BY <1>1 DEF CallState
    <3> HIDE DEF c
    <3>2. \A h \in Calls : h # n /\ h # g => call'[h] = call[h]
      BY <2>2, <3>1
    <3>3. call'[g].link = "off" /\ call'[n].link = "off"
      BY <2>2, <2>4, <3>1
    <3>4. QED
      BY <3>2, <3>3 DEF ConnectedIsPolled, Connected
  <2>9. QED
    BY <2>5, <2>6, <2>7, <2>8
<1>6. QED
  BY <1>2, <1>3, <1>4, <1>5 DEF CallStep

\* Nor does an event.
LEMMA EventStepKeepsInv ==
  ASSUME CoreInv, NEW g \in Calls, EventStep(g)
  PROVE  CoreInv'
<1>0. /\ call \in [Calls -> CallState]
      /\ req \in [Requests -> ReqState]
      /\ client \in 0..MaxCalls
      /\ g \in 0..MaxCalls /\ g # 0
  BY LifecycleAssumption DEF CoreInv, CoreType, Calls
<1>1. CASE HandleConnected(g)
  <2> DEFINE c == [call EXCEPT ![g].link = "in"]
  <2>1. c \in [Calls -> CallState]
    BY <1>0 DEF CallState
  <2>2. \A h \in Calls : /\ c[h].phase = call[h].phase
                         /\ c[h].stray = call[h].stray
                         /\ c[h].redial = call[h].redial
                         /\ h # g => c[h].link = call[h].link
    BY <1>0 DEF CallState
  <2>3. call' = [c EXCEPT ![g].qr = FALSE]
    BY <1>1 DEF HandleConnected
  <2> HIDE DEF c
  <2>4. call' \in [Calls -> CallState]
    BY <2>1, <2>3 DEF CallState
  <2>5. \A h \in Calls : /\ call'[h].phase = call[h].phase
                         /\ call'[h].stray = call[h].stray
                         /\ call'[h].redial = call[h].redial
                         /\ h # g => call'[h].link = call[h].link
    BY <2>1, <2>2, <2>3 DEF CallState
  <2>6. UNCHANGED <<client, my, calls, req>> /\ Connected(g)
    BY <1>1 DEF HandleConnected
  <2>7. CoreType'
    BY <2>4, <2>6 DEF CoreInv, CoreType
  <2>8. NumbersInOrder'
    BY <2>5, <2>6 DEF CoreInv, NumbersInOrder, Connected
  <2>9. KilledStaysOut' /\ ConnectedIsPolled'
    BY <1>0, <2>5, <2>6
    DEF CoreInv, KilledStaysOut, ConnectedIsPolled, Connected
  <2>10. QED
    BY <2>7, <2>8, <2>9 DEF CoreInv
<1>2. CASE HandleDisconnected(g)
  <2> DEFINE c == [call EXCEPT ![g].link = "off"]
  <2>1. Calm(c)
    BY <1>0, OffIsCalm DEF Off
  <2>2. PICK a \in {"no", "asked", "starting"} : call' = [c EXCEPT ![g].again = a]
    BY <1>0, <1>2 DEF HandleDisconnected, CallState
  <2> HIDE DEF c
  <2>3. Calm(call')
    BY <2>1, <2>2 DEF Calm, CallState
  <2>4. QED
    BY <1>0, <1>2, <2>3, OtherStepsKeepInv DEF HandleDisconnected
<1>3. CASE ReconnectForgets(g)
  <2>1. Calm(Drop)
    BY OffIsCalm
  <2>2. Calm([Drop EXCEPT ![g].again = "starting"])
    BY <2>1 DEF Calm, CallState
  <2>3. Calm(call') /\ calls' = calls /\ UNCHANGED req
    BY <1>3, <2>1, <2>2 DEF ReconnectForgets, Forget, ForgetPanics
  <2>4. client' \in {client, 0} /\ my' \in {my, 0}
    BY <1>3 DEF ReconnectForgets, Forget, ForgetPanics
  <2>5. QED
    BY <1>0, <2>3, <2>4, OtherStepsKeepInv
<1>4. CASE ReconnectStarts(g)
  <2>1. Calm([call EXCEPT ![g].again = "no"])
    BY <1>0 DEF Calm, CallState
  <2>2. QED
    BY <1>0, <1>4, <2>1, OtherStepsKeepInv DEF ReconnectStarts
<1>5. CASE HandleLoggedOut(g)
  BY <1>0, <1>5, OffIsCalm, OtherStepsKeepInv DEF HandleLoggedOut
<1>6. CASE QRTimeout(g)
  <2>1. Calm(call')
    BY <1>0, <1>6 DEF QRTimeout, Calm, CallState
  <2>2. QED
    BY <1>0, <1>6, <2>1, OtherStepsKeepInv DEF QRTimeout
<1>7. CASE HandleUndecryptable(g)
  <2> DEFINE c == [call EXCEPT ![g].link = "off"]
  <2>1. Calm(c) /\ call' = [c EXCEPT ![g].redial = TRUE] /\ Connected(g)
    BY <1>0, <1>7, OffIsCalm DEF Off, HandleUndecryptable, LoggedIn, Connected
  <2> HIDE DEF c
  <2>2. c \in [Calls -> CallState]
    BY <2>1 DEF Calm
  <2>3. call' \in [Calls -> CallState]
    BY <2>1, <2>2 DEF CallState
  <2>4. \A h \in Calls : /\ call'[h].phase = c[h].phase
                         /\ call'[h].link = c[h].link
                         /\ call'[h].stray = c[h].stray
                         /\ h # g => call'[h].redial = c[h].redial
    BY <2>1, <2>2 DEF CallState
  <2>5. Calm(call')
    BY <2>1, <2>3, <2>4 DEF Calm
  <2>6. QED
    BY <1>0, <1>7, <2>5, OtherStepsKeepInv DEF HandleUndecryptable
<1>8. CASE Redial(g)
  <2>1. UNCHANGED <<client, my, calls, req>> /\ call[g].redial
    BY <1>8 DEF Redial
  <2>2. /\ call' \in [Calls -> CallState]
        /\ \A h \in Calls : h # g => call'[h] = call[h]
        /\ call'[g].phase = call[g].phase
        /\ \/ call'[g].link = call[g].link /\ call'[g].stray = call[g].stray
           \/ call'[g].link = "on" /\ call'[g].stray = (call[g].phase # "loop")
    <3> DEFINE c == [call EXCEPT ![g].redial = FALSE]
               d == [c EXCEPT ![g].link = "on"]
    <3>1. c \in [Calls -> CallState] /\ \A h \in Calls : h # g => c[h] = call[h]
      BY <1>0 DEF CallState
    <3>2. c[g].phase = call[g].phase /\ c[g].link = call[g].link
          /\ c[g].stray = call[g].stray
      BY <1>0 DEF CallState
    <3>3. \/ call' = c
          \/ call' = [d EXCEPT ![g].stray = (call[g].phase # "loop")]
      BY <1>0, <1>8 DEF Redial, CallState
    <3> HIDE DEF c
    <3>4. d \in [Calls -> CallState] /\ \A h \in Calls : h # g => d[h] = call[h]
      BY <3>1 DEF CallState
    <3>5. d[g].phase = call[g].phase /\ d[g].link = "on"
      BY <3>1, <3>2 DEF CallState
    <3> HIDE DEF d
    <3>6. CASE call' = c
      BY <3>1, <3>2, <3>6
    <3>7. CASE call' = [d EXCEPT ![g].stray = (call[g].phase # "loop")]
      <4>1. PICK b \in BOOLEAN : b = (call[g].phase # "loop")
        OBVIOUS
      <4>2. call' = [d EXCEPT ![g].stray = b]
        BY <3>7, <4>1
      <4>3. /\ call' \in [Calls -> CallState]
            /\ \A h \in Calls : h # g => call'[h] = d[h]
            /\ call'[g].phase = d[g].phase /\ call'[g].link = d[g].link
            /\ call'[g].stray = b
        BY <3>4, <4>2 DEF CallState
      <4>4. QED
        BY <3>4, <3>5, <4>1, <4>3
    <3>8. QED
      BY <3>3, <3>6, <3>7
  <2>3. g <= calls
    BY <1>0, <2>1 DEF CoreInv, CoreType, NumbersInOrder, Calls
  <2>4. NumbersInOrder'
    BY <2>1, <2>2, <2>3 DEF CoreInv, NumbersInOrder
  <2>5. KilledStaysOut' /\ ConnectedIsPolled'
    BY <2>1, <2>2 DEF CoreInv, KilledStaysOut, ConnectedIsPolled, Connected
  <2>6. CoreType'
    BY <2>1, <2>2 DEF CoreInv, CoreType
  <2>7. QED
    BY <2>4, <2>5, <2>6 DEF CoreInv
<1>9. QED
  BY <1>1, <1>2, <1>3, <1>4, <1>5, <1>6, <1>7, <1>8 DEF EventStep

-----------------------------------------------------------------------------
\* The invariant holds of every behaviour.
THEOREM LifecycleInvariance == Spec => []CoreInv
<1>1. LifecycleInit => CoreInv
  <2> SUFFICES ASSUME LifecycleInit PROVE CoreInv
    OBVIOUS
  <2>1. CoreType
    BY LifecycleAssumption
    DEF LifecycleInit, NotCalled, CoreType, CallState, Phases, ReqState, Places,
        RequestOps
  <2>2. QED
    BY <2>1
    DEF LifecycleInit, NotCalled, CoreInv, NumbersInOrder, KilledStaysOut,
        ConnectedIsPolled, Connected, Calls
<1>2. CoreInv /\ [Next]_vars => CoreInv'
  <2> SUFFICES ASSUME CoreInv, [Next]_vars PROVE CoreInv'
    OBVIOUS
  <2>0. req \in [Requests -> ReqState]
    BY DEF CoreInv, CoreType
  <2>1. CASE Startup
    BY <2>0, <2>1, OffIsCalm, OtherStepsKeepInv DEF Startup, StartInstance
  <2>2. ASSUME NEW g \in Calls, CallStep(g) \/ EventStep(g)
        PROVE  CoreInv'
    BY <2>2, CallStepKeepsInv, EventStepKeepsInv
  <2>3. ASSUME NEW p \in parked, PresenceTicks(p) \/ PresenceTakesKill(p)
        PROVE  CoreInv'
    BY <2>0, <2>3, OffIsCalm, OtherStepsKeepInv
    DEF PresenceTicks, PresenceTakesKill
  <2>4. ASSUME NEW r \in Requests, Arrive(r) \/ RequestStep(r)
        PROVE  CoreInv'
    BY <2>4, RequestStepKeepsInv
  <2>5. CASE UNCHANGED vars
    BY <2>0, <2>5, OffIsCalm, OtherStepsKeepInv DEF vars
  <2>6. QED
    BY <2>1, <2>2, <2>3, <2>4, <2>5 DEF Next
<1>3. QED
  BY <1>1, <1>2, PTL DEF Spec

\* Whatever overlaps, a killed client is never found in the maps again.
THEOREM KilledClientsStayOut == Spec => []KilledStaysOut
<1>1. CoreInv => KilledStaysOut
  BY DEF CoreInv
<1>2. QED
  BY <1>1, LifecycleInvariance, PTL

\* Whatever overlaps, every connected client has its loop, but for one that its
\* event handler connected when the loop was over.
THEOREM ConnectedClientsArePolled == Spec => []ConnectedIsPolled
<1>1. CoreInv => ConnectedIsPolled
  BY DEF CoreInv
<1>2. QED
  BY <1>1, LifecycleInvariance, PTL

-----------------------------------------------------------------------------
(* The channels: what waits, waits on one that has been made.               *)

ChannelsOK ==
    /\ chan \in 0..channels
    /\ channels \in 0..MaxChannels
    /\ closed \subseteq 1..channels
    /\ blocked \subseteq [by : Senders, on : 0..channels]
    /\ parked \subseteq [by : Calls, on : 0..channels]
    /\ row \in BOOLEAN /\ crashed \in BOOLEAN

\* What a step may do to them: make a channel, empty the map, close what it holds,
\* and have somebody wait on what it holds before or after.
ChannelStep ==
    /\ \/ channels' = channels
       \/ channels < MaxChannels /\ channels' = channels + 1
    /\ chan' \in {chan, 0, channels'}
    /\ closed' \subseteq closed \cup ({chan} \ {0})
    /\ blocked' \subseteq blocked \cup [by : Senders, on : {chan, chan'}]
    /\ parked' \subseteq parked \cup [by : Calls, on : {chan}]
    /\ row' \in BOOLEAN /\ crashed' \in BOOLEAN

LEMMA ChannelStepKeeps ==
  ASSUME ChannelsOK, ChannelStep
  PROVE  ChannelsOK'
<1>1. /\ MaxChannels \in Nat /\ channels \in Nat /\ channels' \in 0..MaxChannels
      /\ channels <= channels'
  BY LifecycleAssumption DEF ChannelsOK, ChannelStep
<1>2. chan \in 0..channels' /\ chan' \in 0..channels'
  BY <1>1 DEF ChannelsOK, ChannelStep
<1>3. 0..channels \subseteq 0..channels'
  BY <1>1
<1>4. ASSUME NEW b \in blocked'
      PROVE  b \in [by : Senders, on : 0..channels']
  <2>1. CASE b \in blocked
    BY <1>3, <2>1 DEF ChannelsOK
  <2>2. CASE b \in [by : Senders, on : {chan, chan'}]
    BY <1>2, <2>2
  <2>3. QED
    BY <2>1, <2>2 DEF ChannelStep
<1>5. ASSUME NEW p \in parked'
      PROVE  p \in [by : Calls, on : 0..channels']
  <2>1. CASE p \in parked
    BY <1>3, <2>1 DEF ChannelsOK
  <2>2. CASE p \in [by : Calls, on : {chan}]
    BY <1>2, <2>2
  <2>3. QED
    BY <2>1, <2>2 DEF ChannelStep
<1>6. Senders' = Senders /\ Calls' = Calls
  BY DEF Senders, Calls
<1>7. ASSUME NEW c \in closed'
      PROVE  c \in 1..channels'
  <2>1. CASE c \in closed
    BY <1>1, <2>1 DEF ChannelsOK
  <2>2. CASE c \in {chan} \ {0}
    BY <1>1, <1>2, <2>2
  <2>3. QED
    BY <2>1, <2>2 DEF ChannelStep
<1>8. QED
  BY <1>1, <1>2, <1>4, <1>5, <1>6, <1>7 DEF ChannelsOK, ChannelStep

\* A send waits on what is in the map.
LEMMA SendIsChannelStep ==
  ASSUME NEW who \in Senders, Send(who)
  PROVE  blocked' \subseteq blocked \cup [by : Senders, on : {chan, chan'}]
BY DEF Send

\* Closing what the map holds.
LEMMA CloseIsChannelStep ==
  ASSUME ChannelsOK, NEW r \in Requests, NEW there, Close(r, there), chan # 0,
         UNCHANGED <<chan, row, channels, parked>>
  PROVE  ChannelStep
<1>1. CASE chan \in closed
  BY <1>1 DEF Close, SendPanics, ChannelsOK, ChannelStep
<1>2. CASE chan \notin closed
  <2>1. blocked' \subseteq blocked /\ closed' = closed \cup {chan}
    BY <1>2 DEF Close, SendPanics
  <2>2. crashed' \in BOOLEAN
    BY <1>2 DEF Close, SendPanics
  <2>3. QED
    BY <2>1, <2>2 DEF ChannelsOK, ChannelStep
<1>3. QED
  BY <1>1, <1>2

\* What requests, calls and events do to the channels.
LEMMA RequestStepsChannels ==
  ASSUME ChannelsOK, NEW r \in Requests, Arrive(r) \/ RequestStep(r)
  PROVE  ChannelStep
<1>0. r \in Senders /\ row \in BOOLEAN /\ crashed \in BOOLEAN
  BY DEF Senders, ChannelsOK
<1>1. CASE Arrive(r) \/ Ensure(r) \/ Ensured(r) \/ Reconnected(r)
  BY <1>0, <1>1 DEF Arrive, Ensure, Ensured, Reconnected, StartInstance,
                    StartInstanceFails, MakeChannel, ChannelStep
<1>2. CASE ConnectRequest(r)
  BY <1>0, <1>2 DEF ConnectRequest, MakeChannel, ChannelStep
<1>3. CASE Reconnect(r)
  BY <1>0, <1>3 DEF Reconnect, Forget, ForgetPanics, SendPanics, ChannelStep
<1>4. CASE Disconnect(r) \/ LogoutSends(r)
  <2>1. crashed' \in BOOLEAN
    BY <1>0, <1>4 DEF Disconnect, LogoutSends, SendsKill, Send, SendPanics
  <2>2. blocked' \subseteq blocked \cup [by : Senders, on : {chan, chan'}]
    BY <1>0, <1>4, SendIsChannelStep
    DEF Disconnect, LogoutSends, SendsKill, SendPanics
  <2>3. UNCHANGED <<chan, channels, closed, row, parked>>
    BY <1>4 DEF Disconnect, LogoutSends
  <2>4. QED
    BY <1>0, <2>1, <2>2, <2>3 DEF ChannelStep
<1>5. CASE Logout(r) \/ LogoutSaves(r)
  BY <1>0, <1>5 DEF Logout, LogoutSaves, ChannelStep
<1>6. CASE GetQr(r) \/ Pair(r)
  BY <1>0, <1>6 DEF GetQr, Pair, StartInstance, StartInstanceFails, MakeChannel,
                    ChannelStep
<1>7. CASE Delete(r) \/ DeleteForgets(r)
  BY <1>0, <1>7 DEF Delete, DeleteForgets, ChannelStep
<1>8. CASE DeleteCloses(r) \/ DeleteClears(r)
  <2>1. UNCHANGED <<chan, row, channels, parked>>
    BY <1>8 DEF DeleteCloses, DeleteClears
  <2>2. CASE chan = 0 /\ UNCHANGED <<closed, blocked, crashed>>
    BY <1>0, <2>1, <2>2 DEF ChannelStep
  <2>3. CASE chan # 0 /\ \E there \in Places : Close(r, there)
    BY <2>1, <2>3, CloseIsChannelStep
  <2>4. QED
    BY <1>8, <2>2, <2>3 DEF DeleteCloses, DeleteClears, Places
<1>9. CASE DeleteRow(r) \/ Disconnected(r) \/ LoggedOut(r) \/ ForceStarts(r)
  BY <1>0, <1>9 DEF DeleteRow, Disconnected, LoggedOut, ForceStarts, ChannelStep
<1>10. CASE ForceReconnect(r)
  <2>1. blocked' \subseteq blocked \cup [by : Senders, on : {chan, chan'}]
    BY <1>0, <1>10 DEF ForceReconnect
  <2>2. \/ channels' = channels /\ chan' = chan
        \/ MakeChannel
    BY <1>10 DEF ForceReconnect
  <2>3. UNCHANGED <<row, closed, parked, crashed>>
    BY <1>10 DEF ForceReconnect
  <2>4. QED
    BY <1>0, <2>1, <2>2, <2>3 DEF MakeChannel, ChannelStep
<1>11. CASE KillTimesOut(r)
  BY <1>0, <1>11 DEF KillTimesOut, ChannelStep
<1>12. QED
  BY <1>1, <1>2, <1>3, <1>4, <1>5, <1>6, <1>7, <1>8, <1>9, <1>10, <1>11
  DEF RequestStep

LEMMA CallsStepChannels ==
  ASSUME ChannelsOK, NEW g \in Calls, CallStep(g) \/ EventStep(g)
  PROVE  ChannelStep
<1>0. /\ <<"loggedout", g>> \in Senders /\ <<"qr", g>> \in Senders
      /\ row \in BOOLEAN /\ crashed \in BOOLEAN
  BY DEF Senders, ChannelsOK
<1>1. CASE CallStep(g)
  BY <1>0, <1>1 DEF CallStep, Guard, Register, RegisterMine, Connect, ReceiveKill,
                    TakeKill, ChannelStep
<1>2. CASE HandleConnected(g)
  <2>1. parked' \subseteq parked \cup [by : Calls, on : {chan}]
    BY <1>2 DEF HandleConnected
  <2>2. QED
    BY <1>0, <1>2, <2>1 DEF HandleConnected, ChannelStep
<1>3. CASE HandleDisconnected(g) \/ HandleUndecryptable(g) \/ Redial(g)
  BY <1>0, <1>3 DEF HandleDisconnected, HandleUndecryptable, Redial, ChannelStep
<1>4. CASE ReconnectForgets(g) \/ ReconnectStarts(g)
  BY <1>0, <1>4 DEF ReconnectForgets, ReconnectStarts, Forget, ForgetPanics,
                    SendPanics, MakeChannel, ChannelStep
<1>5. CASE HandleLoggedOut(g) \/ QRTimeout(g)
  <2>1. UNCHANGED <<chan, row, channels, closed, parked>>
    BY <1>5 DEF HandleLoggedOut, QRTimeout
  <2>2. crashed' \in BOOLEAN
    BY <1>0, <1>5 DEF HandleLoggedOut, QRTimeout, Send, SendPanics
  <2>3. blocked' \subseteq blocked \cup [by : Senders, on : {chan, chan'}]
    BY <1>0, <1>5, SendIsChannelStep DEF HandleLoggedOut, QRTimeout, SendPanics
  <2>4. QED
    BY <1>0, <2>1, <2>2, <2>3 DEF ChannelStep
<1>6. QED
  BY <1>1, <1>2, <1>3, <1>4, <1>5 DEF EventStep

-----------------------------------------------------------------------------
(* The kills of requests: a request has at most one, and stands at it.       *)

KillsOK ==
    \A b \in blocked :
        b.by \in Requests =>
            /\ req[b.by].at = "kill"
            /\ \A c \in blocked : c.by = b.by => c = b

\* Those who are not requests may send, anyone's send may be received, and
\* requests with no send are free to move.
LEMMA FreeMovesKeepKills ==
  ASSUME KillsOK, \A b \in blocked' : b \in blocked \/ b.by \notin Requests,
         \A s \in Requests : Waits(s) => req'[s] = req[s]
  PROVE  KillsOK'
  BY DEF KillsOK, Waits

\* A request with no send may begin one.
LEMMA OwnKillKeepsKills ==
  ASSUME KillsOK, NEW r \in Requests, ~Waits(r), NEW on,
         blocked' = blocked \cup {[by |-> r, on |-> on]},
         req'[r].at = "kill", \A s \in Requests \ {r} : req'[s] = req[s]
  PROVE  KillsOK'
  BY DEF KillsOK, Waits

LEMMA OthersStay ==
  ASSUME CoreInv, NEW r \in Requests
  PROVE  /\ \A at : Goto(r, at) =>
               /\ \A s \in Requests \ {r} : req'[s] = req[s]
               /\ req'[r].at = at
         /\ Return(r) => \A s \in Requests \ {r} : req'[s] = req[s]
         /\ \A g : Use(r, g) => \A s \in Requests \ {r} : req'[s] = req[s]
<1>1. req \in [Requests -> ReqState]
  BY DEF CoreInv, CoreType
<1>2. ASSUME NEW at, Goto(r, at)
      PROVE  req'[r].at = at
  BY <1>1, <1>2 DEF Goto, ReqState
<1>3. QED
  BY <1>1, <1>2 DEF Goto, Return, Use

\* A close ends the request whose send panics, with its send.
LEMMA CloseKeepsKills ==
  ASSUME CoreInv, KillsOK, NEW r \in Requests, NEW there, Close(r, there), ~Waits(r)
  PROVE  KillsOK'
<1>1. CASE chan \in closed
  <2>1. blocked' = blocked /\ \A s \in Requests \ {r} : req'[s] = req[s]
    BY <1>1, OthersStay DEF Close, SendPanics
  <2>2. QED
    BY <2>1, FreeMovesKeepKills
<1>2. CASE chan \notin closed
  <2> DEFINE onIt == {b \in blocked : b.on = chan}
  <2>1. /\ blocked' = blocked \ onIt
        /\ \A s \in Requests \ {r} : (\A b \in onIt : b.by # s) => req'[s] = req[s]
    BY <1>2 DEF Close, SendPanics
  <2>2. ASSUME NEW b \in blocked', b.by \in Requests
        PROVE  req'[b.by] = req[b.by]
    <3>1. b \in blocked /\ b \notin onIt
      BY <2>1
    <3>2. \A c \in onIt : c.by # b.by
      BY <2>2, <3>1 DEF KillsOK
    <3>3. b.by # r
      BY <3>1 DEF Waits
    <3>4. QED
      BY <2>1, <2>2, <3>2, <3>3
  <2>3. QED
    BY <2>1, <2>2 DEF KillsOK
<1>3. QED
  BY <1>1, <1>2

\* The requests keep account of their kills.
LEMMA RequestStepKeepsKills ==
  ASSUME CoreInv, KillsOK, NEW r \in Requests, Arrive(r) \/ RequestStep(r)
  PROVE  KillsOK'
<1>1. req[r].at # "kill" => ~Waits(r)
  BY DEF KillsOK, Waits
<1>2. req \in [Requests -> ReqState]
  BY DEF CoreInv, CoreType
<1>3. ASSUME ~Waits(r), blocked' = blocked,
             \A s \in Requests \ {r} : req'[s] = req[s]
      PROVE  KillsOK'
  BY <1>3, FreeMovesKeepKills
<1>4. CASE Arrive(r)
  <2>1. \A s \in Requests \ {r} : req'[s] = req[s]
    BY <1>2, <1>4 DEF Arrive
  <2>2. QED
    BY <1>1, <1>3, <1>4, <2>1 DEF Arrive
<1>5. CASE \/ Ensure(r) \/ Ensured(r) \/ ConnectRequest(r) \/ Reconnected(r)
           \/ GetQr(r) \/ Pair(r) \/ Delete(r) \/ DeleteForgets(r) \/ DeleteRow(r)
           \/ Logout(r) \/ LogoutSaves(r) \/ Reconnect(r)
  <2>1. blocked' = blocked /\ req[r].at # "kill"
    BY <1>5 DEF Ensure, Ensured, ConnectRequest, Reconnected, GetQr, Pair, Delete,
                DeleteForgets, DeleteRow, Logout, LogoutSaves, Reconnect, Forget,
                ForgetPanics, SendPanics, At
  <2>2. \A s \in Requests \ {r} : req'[s] = req[s]
    BY <1>5, OthersStay
    DEF Ensure, Ensured, ConnectRequest, Reconnected, GetQr, Pair, Delete,
        DeleteForgets, DeleteRow, Logout, LogoutSaves, Reconnect
  <2>3. QED
    BY <1>1, <1>3, <2>1, <2>2
<1>6. CASE Disconnect(r) \/ LogoutSends(r)
  <2>1. ~Waits(r)
    BY <1>1, <1>6 DEF Disconnect, LogoutSends, At
  <2>2. CASE Send(r) /\ Goto(r, "kill")
    BY <2>1, <2>2, OthersStay, OwnKillKeepsKills DEF Send
  <2>3. CASE blocked' = blocked /\ Return(r)
    BY <1>3, <2>1, <2>3, OthersStay
  <2>4. QED
    BY <1>6, <2>2, <2>3 DEF Disconnect, LogoutSends, SendsKill, SendPanics
<1>7. CASE DeleteCloses(r) \/ DeleteClears(r)
  <2>1. ~Waits(r)
    BY <1>1, <1>7 DEF DeleteCloses, DeleteClears, At
  <2>2. CASE \E there : Close(r, there)
    BY <2>1, <2>2, CloseKeepsKills
  <2>3. CASE blocked' = blocked /\ \E at : Goto(r, at)
    BY <1>3, <2>1, <2>3, OthersStay
  <2>4. QED
    BY <1>7, <2>2, <2>3 DEF DeleteCloses, DeleteClears
<1>8. CASE ForceReconnect(r)
  <2>1. ~Waits(r)
    BY <1>1, <1>8 DEF ForceReconnect, At
  <2>2. CASE blocked' = blocked \cup {[by |-> r, on |-> chan']} /\ Goto(r, "kill")
    <3>1. PICK on : on = chan'
      OBVIOUS
    <3>2. QED
      BY <2>1, <2>2, <3>1, OthersStay, OwnKillKeepsKills
  <2>3. CASE blocked' = blocked /\ Return(r)
    BY <1>3, <2>1, <2>3, OthersStay
  <2>4. QED
    BY <1>8, <2>2, <2>3 DEF ForceReconnect
<1>9. CASE KillTimesOut(r)
  <2>1. blocked' \subseteq blocked /\ req' = req
    BY <1>9 DEF KillTimesOut
  <2>2. QED
    BY <2>1, FreeMovesKeepKills
<1>10. CASE Disconnected(r) \/ LoggedOut(r) \/ ForceStarts(r)
  BY <1>3, <1>10, OthersStay DEF Disconnected, LoggedOut, ForceStarts
<1>11. QED
  BY <1>4, <1>5, <1>6, <1>7, <1>8, <1>9, <1>10 DEF RequestStep

\* Nobody else moves a request, and what else is sent is not a request's.
LEMMA CallsStepKeepsKills ==
  ASSUME KillsOK, NEW g \in Calls, CallStep(g) \/ EventStep(g)
  PROVE  KillsOK'
<1>1. <<"loggedout", g>> \notin Requests /\ <<"qr", g>> \notin Requests
  <2>1. <<"loggedout", g>> \in {"loggedout", "qr"} \X (1..MaxCalls)
    BY DEF Calls
  <2>2. <<"qr", g>> \in {"loggedout", "qr"} \X (1..MaxCalls)
    BY DEF Calls
  <2>3. QED
    BY <2>1, <2>2, LifecycleAssumption
<1>2. req' = req
  BY DEF CallStep, EventStep, Guard, Register, RegisterMine, Connect, ReceiveKill,
         HandleConnected, HandleDisconnected, HandleUndecryptable, Redial,
         ReconnectForgets, ReconnectStarts, HandleLoggedOut, QRTimeout
<1>3. CASE CallStep(g)
  <2>1. blocked' \subseteq blocked
    BY <1>3 DEF CallStep, Guard, Register, RegisterMine, Connect, ReceiveKill,
                TakeKill
  <2>2. QED
    BY <1>2, <2>1, FreeMovesKeepKills
<1>4. CASE EventStep(g)
  <2>1. \A b \in blocked' : b \in blocked \/ b.by \notin Requests
    <3>1. CASE HandleLoggedOut(g) \/ QRTimeout(g)
      <4>1. blocked' \subseteq blocked \cup [by : {<<"loggedout", g>>, <<"qr", g>>},
                                          on : {chan}]
        BY <3>1 DEF HandleLoggedOut, QRTimeout, Send, SendPanics
      <4>2. QED
        BY <1>1, <4>1
    <3>2. CASE blocked' = blocked
      BY <3>2
    <3>3. QED
      BY <1>4, <3>1, <3>2
      DEF EventStep, HandleConnected, HandleDisconnected, HandleUndecryptable,
          Redial, ReconnectForgets, ReconnectStarts, Forget, ForgetPanics,
          SendPanics
  <2>2. QED
    BY <1>2, <2>1, FreeMovesKeepKills
<1>5. QED
  BY <1>3, <1>4

\* The type invariant of the lifecycle, with the channels and the kills.
THEOREM LifecycleTypeInvariance == Spec => []LifecycleTypeOK
<1>1. LifecycleInit => ChannelsOK
  <2> SUFFICES ASSUME LifecycleInit PROVE ChannelsOK
    OBVIOUS
  <2>1. /\ chan = 0 /\ channels = 0 /\ blocked = {} /\ parked = {} /\ closed = {}
        /\ row = TRUE /\ crashed = FALSE
    BY DEF LifecycleInit
  <2>2. 0 \in 0..0 /\ 0 \in 0..MaxChannels
    BY LifecycleAssumption
  <2>3. QED
    BY <2>1, <2>2 DEF ChannelsOK
<1>2. ChannelsOK /\ [Next]_vars => ChannelsOK'
  <2> SUFFICES ASSUME ChannelsOK, [Next]_vars PROVE ChannelStep
    BY ChannelStepKeeps
  <2>0. row \in BOOLEAN /\ crashed \in BOOLEAN
    BY DEF ChannelsOK
  <2>1. CASE Startup
    BY <2>0, <2>1 DEF Startup, StartInstance, MakeChannel, ChannelStep
  <2>2. ASSUME NEW g \in Calls, CallStep(g) \/ EventStep(g)
        PROVE  ChannelStep
    BY <2>2, CallsStepChannels
  <2>3. ASSUME NEW p \in parked, PresenceTicks(p) \/ PresenceTakesKill(p)
        PROVE  ChannelStep
    <3>1. p.by \in Calls
      BY DEF ChannelsOK
    <3>2. QED
      BY <2>0, <2>3, <3>1 DEF PresenceTicks, PresenceTakesKill, ChannelStep
  <2>4. ASSUME NEW r \in Requests, Arrive(r) \/ RequestStep(r)
        PROVE  ChannelStep
    BY <2>4, RequestStepsChannels
  <2>5. CASE UNCHANGED vars
    BY <2>0, <2>5 DEF vars, ChannelStep
  <2>6. QED
    BY <2>1, <2>2, <2>3, <2>4, <2>5 DEF Next
<1>3. LifecycleInit => KillsOK
  BY DEF LifecycleInit, KillsOK
<1>4. CoreInv /\ KillsOK /\ [Next]_vars => KillsOK'
  <2> SUFFICES ASSUME CoreInv, KillsOK, [Next]_vars PROVE KillsOK'
    OBVIOUS
  <2>1. CASE req' = req /\ blocked' \subseteq blocked
    BY <2>1, FreeMovesKeepKills
  <2>2. ASSUME NEW g \in Calls, CallStep(g) \/ EventStep(g)
        PROVE  KillsOK'
    BY <2>2, CallsStepKeepsKills
  <2>3. ASSUME NEW r \in Requests, Arrive(r) \/ RequestStep(r)
        PROVE  KillsOK'
    BY <2>3, RequestStepKeepsKills
  <2>4. QED
    BY <2>1, <2>2, <2>3
    DEF Next, vars, Startup, PresenceTicks, PresenceTakesKill
<1>5. CoreInv /\ ChannelsOK /\ KillsOK => LifecycleTypeOK
  BY DEF CoreInv, CoreType, ChannelsOK, KillsOK, LifecycleTypeOK
<1>6. QED
  BY <1>1, <1>2, <1>3, <1>4, <1>5, LifecycleInvariance, PTL DEF Spec

-----------------------------------------------------------------------------
\* Nobody but the event handlers and the QR rotation sends a kill, no server
\* closes a socket without logging it out, and no handler connects a client.
KillsOnly == Ops \subseteq {"loggedout", "qrtimeout", "presence"}

Active(g) == call[g].phase \in {"guard", "building", "named", "connecting", "loop"}

\* No event handler has done anything to the clients of f but send kills.
Untouched(f) == \A h \in Calls : f[h].again = "no" /\ ~f[h].redial /\ ~f[h].stray

\* One chain of calls, each begun by the kill of the one before it.
OneChain ==
    /\ Untouched(call)
    /\ \A g \in Calls :
          /\ Active(g) => g = calls
          /\ call[g].phase \in {"named", "connecting", "loop"} => client = g
    /\ \A r \in Requests : req[r].at = "idle"

\* Steps that leave phases, registrations and requests alone keep the chain.
LEMMA QuietStepsKeepChain ==
  ASSUME CoreInv, OneChain, UNCHANGED <<calls, client, req>>,
         \A g \in Calls : /\ call'[g].phase = call[g].phase
                          /\ call'[g].again = call[g].again
                          /\ call'[g].redial = call[g].redial
                          /\ call'[g].stray = call[g].stray
  PROVE  OneChain'
  BY DEF OneChain, Active, Untouched

\* The steps of a call keep the chain.
LEMMA CallStepKeepsChain ==
  ASSUME CoreInv, OneChain, NEW g \in Calls, CallStep(g)
  PROVE  OneChain'
<1>1. call \in [Calls -> CallState] /\ calls \in Nat
  BY DEF CoreInv, CoreType
<1>2. CASE Guard(g) \/ Register(g) \/ RegisterMine(g) \/ Connect(g)
  <2>1. g = calls /\ UNCHANGED <<calls, req>>
    BY <1>2 DEF OneChain, Active, Guard, Register, RegisterMine, Connect
  <2>2. \A h \in Calls : h # g => call'[h] = call[h]
    BY <1>1, <1>2 DEF Guard, Register, RegisterMine, Connect
  <2>3. /\ call'[g].again = call[g].again
        /\ call'[g].redial = call[g].redial
        /\ call'[g].stray = call[g].stray
    BY <1>1, <1>2 DEF Guard, Register, RegisterMine, Connect, CallState
  <2>4. call'[g].phase \in {"named", "connecting", "loop"} => client' = g
    <3>1. CASE Guard(g)
      BY <1>1, <3>1 DEF Guard, CallState
    <3>2. CASE Register(g)
      BY <1>1, <3>2 DEF Register, CallState
    <3>3. CASE RegisterMine(g) \/ Connect(g)
      BY <1>1, <3>3 DEF RegisterMine, Connect, CallState, OneChain
    <3>4. QED
      BY <1>2, <3>1, <3>2, <3>3
  <2>5. Untouched(call')
    BY <2>2, <2>3 DEF OneChain, Untouched
  <2>6. QED
    BY <2>1, <2>2, <2>4, <2>5 DEF OneChain, Active, Untouched
<1>3. CASE ReceiveKill(g)
  <2> DEFINE c == [call EXCEPT ![g].phase = "killed", ![g].link = "off"]
             n == calls + 1
  <2>1. c \in [Calls -> CallState] /\ Spawn(c) /\ UNCHANGED req
    BY <1>1, <1>3 DEF ReceiveKill, CallState, Phases
  <2>2. /\ \A h \in Calls : h # g => c[h] = call[h]
        /\ c[g].phase = "killed"
        /\ c[g].again = call[g].again
        /\ c[g].redial = call[g].redial
        /\ c[g].stray = call[g].stray
    BY <1>1 DEF CallState
  <2>3. /\ n \in Calls
        /\ calls' = n
        /\ \A h \in Calls : h # n => call'[h] = c[h]
        /\ call'[n].phase = "guard"
        /\ call'[n].again = c[n].again
        /\ call'[n].redial = c[n].redial
        /\ call'[n].stray = c[n].stray
    BY <2>1, SpawnNumbers
  <2> HIDE DEF c
  <2>4. g = calls
    BY <1>3 DEF ReceiveKill, OneChain, Active
  <2>5. \A h \in Calls : h # n => ~(Active(h))'
    BY <2>2, <2>3, <2>4 DEF OneChain, Active
  <2>6. Untouched(call')
    BY <2>2, <2>3 DEF OneChain, Untouched
  <2>7. \A h \in Calls : call'[h].phase \notin {"named", "connecting", "loop"}
    BY <2>3, <2>5 DEF Active
  <2>8. QED
    BY <2>1, <2>3, <2>5, <2>6, <2>7 DEF OneChain, Untouched
<1>4. QED
  BY <1>2, <1>3 DEF CallStep

\* When all kills come from the event handlers and the QR rotation, and no handler
\* connects a client again, then however late, many or misdirected to a presence
\* goroutine they are, no connected client is ever out of the map.
THEOREM KillsDoNotOrphan ==
  ASSUME KillsOnly
  PROVE  Spec => []NoOrphan
<1>1. LifecycleInit => OneChain
  BY DEF LifecycleInit, NotCalled, OneChain, Active, Untouched
<1>2. CoreInv /\ OneChain /\ [Next]_vars => OneChain'
  <2> SUFFICES ASSUME CoreInv, OneChain, [Next]_vars PROVE OneChain'
    OBVIOUS
  <2>0. call \in [Calls -> CallState] /\ calls \in Nat
    BY DEF CoreInv, CoreType
  <2>1. CASE Startup
    <3>1. Spawn(call) /\ UNCHANGED <<client, req>> /\ calls = 0
      BY <2>1 DEF Startup, StartInstance
    <3>2. /\ calls' = 1
          /\ \A h \in Calls : h # 1 => call'[h] = call[h]
          /\ call'[1].phase = "guard"
          /\ call'[1].again = call[1].again /\ call'[1].redial = call[1].redial
          /\ call'[1].stray = call[1].stray /\ 1 \in Calls
      BY <2>0, <3>1, SpawnNumbers
    <3>3. Untouched(call) /\ \A h \in Calls : ~Active(h)
      BY <3>1 DEF OneChain, Calls
    <3>4. Untouched(call')
      BY <3>2, <3>3 DEF Untouched
    <3>5. QED
      BY <3>1, <3>2, <3>3, <3>4 DEF OneChain, Active, Untouched
  <2>2. ASSUME NEW g \in Calls, CallStep(g)
        PROVE  OneChain'
    BY <2>2, CallStepKeepsChain
  <2>3. ASSUME NEW g \in Calls, EventStep(g)
        PROVE  OneChain'
    <3>1. /\ call[g].again = "no" /\ ~call[g].redial
          /\ "closed" \notin Ops /\ "redial" \notin Ops
      BY KillsOnly DEF OneChain, Untouched, KillsOnly
    <3>2. HandleConnected(g) \/ HandleLoggedOut(g) \/ QRTimeout(g)
      BY <2>3, <3>1 DEF EventStep, HandleDisconnected, ReconnectForgets,
                        ReconnectStarts, HandleUndecryptable, Redial
    <3>3. /\ UNCHANGED <<calls, client, req>>
          /\ \A h \in Calls : /\ call'[h].phase = call[h].phase
                              /\ call'[h].again = call[h].again
                              /\ call'[h].redial = call[h].redial
                              /\ call'[h].stray = call[h].stray
      <4>1. CASE HandleConnected(g)
        BY <2>0, <4>1 DEF HandleConnected, CallState
      <4>2. CASE HandleLoggedOut(g)
        BY <2>0, <4>2 DEF HandleLoggedOut, Off, CallState
      <4>3. CASE QRTimeout(g)
        BY <2>0, <4>3 DEF QRTimeout, CallState
      <4>4. QED
        BY <3>2, <4>1, <4>2, <4>3
    <3>4. QED
      BY <3>3, QuietStepsKeepChain
  <2>4. ASSUME NEW p \in parked, PresenceTicks(p) \/ PresenceTakesKill(p)
        PROVE  OneChain'
    BY <2>4, QuietStepsKeepChain DEF PresenceTicks, PresenceTakesKill
  <2>5. ASSUME NEW r \in Requests, Arrive(r) \/ RequestStep(r)
        PROVE  OneChain'
    <3>1. req[r].at = "idle" /\ Ops \cap RequestOps = {}
      BY DEF OneChain, KillsOnly, RequestOps
    <3>2. ~Arrive(r)
      BY <3>1 DEF Arrive
    <3>3. ~RequestStep(r)
      BY <3>1
      DEF RequestStep, At, Ensure, Ensured, ConnectRequest, Reconnect,
          Reconnected, Disconnect, Disconnected, Logout, LogoutSaves, LogoutSends,
          LoggedOut, GetQr, Pair, Delete, DeleteCloses, DeleteForgets,
          DeleteClears, DeleteRow, ForceReconnect, ForceStarts, KillTimesOut
    <3>4. QED
      BY <2>5, <3>2, <3>3
  <2>6. CASE UNCHANGED vars
    BY <2>6, QuietStepsKeepChain DEF vars
  <2>7. QED
    BY <2>1, <2>2, <2>3, <2>4, <2>5, <2>6 DEF Next
<1>3. CoreInv /\ OneChain => NoOrphan
  BY DEF CoreInv, OneChain, Untouched, ConnectedIsPolled, NoOrphan
<1>4. QED
  BY <1>1, <1>2, <1>3, LifecycleInvariance, PTL DEF Spec
=============================================================================
