---------------------------- MODULE PairingProofs ----------------------------
(***************************************************************************)
(* Proofs about the ceremony store, for every set of instances and tokens, *)
(* every TTL and every bound on the clock; and about pairing, which is     *)
(* built on it, for any number of instances, tokens, tabs, sockets and QR  *)
(* codes, clients that overlap included.                                   *)
(*                                                                         *)
(* StoreInv is inductive.  IndexesAgree alone is not: a token drawn by     *)
(* Start must not be the key of a live entry of another instance, which is *)
(* what LiveWereMinted gives.                                              *)
(*                                                                         *)
(* PairingInv is inductive: the store's own invariant and the types; that  *)
(* a socket reports nothing after its pairing (Sound), so that it opens no *)
(* ceremony then; whom the ceremony of an instance was opened for; and     *)
(* what a request under way knows and has earned.                          *)
(***************************************************************************)
EXTENDS Pairing, SequenceTheorems, TLAPS

-----------------------------------------------------------------------------
(* The ceremony store.                                                      *)

\* The empty store satisfies the invariant.
LEMMA StoreInitInv == StoreInit => StoreInv
  BY StoreAssumption
  DEF StoreInit, StoreInv, StoreTypeOK, IndexesAgree, LiveWereMinted, Live

\* prune keeps the two maps well-typed and inverse to each other, and adds
\* no entry.
LEMMA PruneKeepsIndexes ==
  ASSUME StoreInv
  PROVE  /\ PrunedTokens \in [Tokens -> Entry \cup {None}]
         /\ PrunedInst \in [Instances -> Tokens \cup {None}]
         /\ \A t \in Tokens : PrunedTokens[t] # None =>
               /\ PrunedTokens[t] = byToken[t]
               /\ t \in minted
               /\ byToken[t].inst \in Instances
               /\ PrunedInst[byToken[t].inst] = t
         /\ \A i \in Instances : PrunedInst[i] # None =>
               /\ PrunedInst[i] = byInst[i]
               /\ PrunedInst[i] \in Tokens
               /\ PrunedTokens[PrunedInst[i]] # None
               /\ byToken[PrunedInst[i]].inst = i
<1> USE StoreAssumption
    DEF StoreInv, StoreTypeOK, IndexesAgree, LiveWereMinted, Live
<1>1. PrunedTokens \in [Tokens -> Entry \cup {None}]
  BY DEF PrunedTokens
<1>2. PrunedInst \in [Instances -> Tokens \cup {None}]
  BY DEF PrunedInst
<1>3. ASSUME NEW t \in Tokens, byToken[t] # None
      PROVE  byToken[t] \in Entry /\ byToken[t].inst \in Instances
  BY <1>3 DEF Entry
<1>4. ASSUME NEW t \in Tokens, PrunedTokens[t] # None
      PROVE  /\ PrunedTokens[t] = byToken[t]
             /\ t \in minted
             /\ byToken[t].inst \in Instances
             /\ PrunedInst[byToken[t].inst] = t
  BY <1>3, <1>4 DEF PrunedTokens, PrunedInst, Visible
<1>5. ASSUME NEW i \in Instances, PrunedInst[i] # None
      PROVE  /\ PrunedInst[i] = byInst[i]
             /\ PrunedInst[i] \in Tokens
             /\ PrunedTokens[PrunedInst[i]] # None
             /\ byToken[PrunedInst[i]].inst = i
  BY <1>5 DEF PrunedTokens, PrunedInst, Visible, HasCeremony
<1>6. QED
  BY <1>1, <1>2, <1>4, <1>5

\* A new ceremony keeps the store consistent.
LEMMA StartKeepsInv ==
  ASSUME StoreInv, NEW i \in Instances, NEW t \in Tokens, Start(i, t)
  PROVE  StoreInv'
<1> DEFINE e == [inst |-> i, stage |-> "challenge", key |-> TRUE,
                 code |-> FALSE, err |-> FALSE, expires |-> now + TTL]
<1>1. e \in Entry
  BY StoreAssumption DEF Entry, Stages, StoreInv, StoreTypeOK
<1>2. \A u \in Tokens : byToken'[u] =
         IF u = t THEN e ELSE IF u = PrunedInst[i] THEN None ELSE PrunedTokens[u]
  BY DEF Start
<1>3. \A j \in Instances : byInst'[j] = IF j = i THEN t ELSE PrunedInst[j]
  BY PruneKeepsIndexes DEF Start
<1>4. StoreTypeOK'
  BY <1>1, PruneKeepsIndexes DEF Start, StoreInv, StoreTypeOK
<1>5. PrunedTokens[t] = None
  BY PruneKeepsIndexes DEF Start
<1>6. e # None /\ e.inst = i
  BY <1>1, StoreAssumption
<1> HIDE DEF e
<1>7. IndexesAgree'
  <2>1. ASSUME NEW j \in Instances, byInst'[j] # None
        PROVE  byToken'[byInst'[j]] # None /\ byToken'[byInst'[j]].inst = j
    BY <1>2, <1>3, <1>5, <1>6, <2>1, PruneKeepsIndexes
  <2>2. ASSUME NEW u \in Tokens, byToken'[u] # None
        PROVE  byInst'[byToken'[u].inst] = u
    BY <1>2, <1>3, <1>5, <1>6, <2>2, PruneKeepsIndexes
  <2>3. QED
    BY <2>1, <2>2 DEF IndexesAgree, Live
<1>8. LiveWereMinted'
  BY <1>2, PruneKeepsIndexes DEF LiveWereMinted, Live, Start
<1>9. QED
  BY <1>4, <1>7, <1>8 DEF StoreInv

\* Whatever fields a writer by instance sets, the store stays consistent: the
\* entry keeps its instance and its token.
LEMMA SetStateKeepsInv ==
  ASSUME StoreInv, NEW i \in Instances, NEW stage \in Stages, NEW key, NEW code,
         NEW err,
         HasCeremony(i) => key \in BOOLEAN /\ code \in BOOLEAN /\ err \in BOOLEAN,
         SetStateByInstance(i, stage, key, code, err)
  PROVE  StoreInv'
<1> USE StoreAssumption
<1>1. CASE ~HasCeremony(i)
  BY <1>1 DEF SetStateByInstance, StoreInv, StoreTypeOK, IndexesAgree,
              LiveWereMinted, Live
<1>2. CASE HasCeremony(i)
  <2> DEFINE t == byInst[i]
             e == [inst |-> byToken[t].inst, stage |-> stage, key |-> key,
                   code |-> code, err |-> err, expires |-> now + TTL]
  <2>1. /\ t \in Tokens
        /\ Live(t)
        /\ byToken[t].inst = i
    BY <1>2 DEF HasCeremony, StoreInv, StoreTypeOK, IndexesAgree
  <2>2. e \in Entry
    BY <1>2, <2>1 DEF Entry, StoreInv, StoreTypeOK
  <2>3. e # None /\ e.inst = i
    BY <2>1, <2>2
  <2>4. byToken' = [byToken EXCEPT ![t] = e] /\ UNCHANGED <<byInst, minted, now>>
    BY <1>2 DEF SetStateByInstance
  <2> HIDE DEF e
  <2>5. \A u \in Tokens : byToken'[u] = IF u = t THEN e ELSE byToken[u]
    BY <2>4 DEF StoreInv, StoreTypeOK
  <2>6. StoreTypeOK'
    BY <2>2, <2>4 DEF StoreInv, StoreTypeOK
  <2>7. IndexesAgree'
    BY <2>1, <2>3, <2>4, <2>5 DEF StoreInv, StoreTypeOK, IndexesAgree, Live
  <2>8. LiveWereMinted'
    BY <2>1, <2>4, <2>5 DEF StoreInv, LiveWereMinted, Live
  <2>9. QED
    BY <2>6, <2>7, <2>8 DEF StoreInv
<1>3. QED
  BY <1>1, <1>2

\* The fields of the entry of an instance that has a ceremony are booleans.
LEMMA OldFieldsType ==
  ASSUME StoreInv, NEW i \in Instances, HasCeremony(i)
  PROVE  OldKey(i) \in BOOLEAN /\ OldCode(i) \in BOOLEAN
<1>1. byToken[byInst[i]] \in Entry
  BY StoreAssumption DEF HasCeremony, Live, StoreInv, StoreTypeOK
<1>2. QED
  BY <1>1 DEF Entry, OldKey, OldCode

\* The four writers by instance.
LEMMA WritersKeepInv ==
  ASSUME StoreInv, NEW i \in Instances,
         \/ SetConfirmation(i)
         \/ SetAwaitingConfirmation(i)
         \/ SetConfirmed(i)
         \/ SetError(i)
  PROVE  StoreInv'
<1> USE OldFieldsType DEF Stages
<1>1. CASE SetConfirmation(i)
  BY <1>1, SetStateKeepsInv DEF SetConfirmation
<1>2. CASE SetAwaitingConfirmation(i)
  BY <1>2, SetStateKeepsInv DEF SetAwaitingConfirmation
<1>3. CASE SetConfirmed(i)
  BY <1>3, SetStateKeepsInv DEF SetConfirmed
<1>4. CASE SetError(i)
  BY <1>4, SetStateKeepsInv DEF SetError
<1>5. QED
  BY <1>1, <1>2, <1>3, <1>4

\* Clear, Lookup and the clock keep the store consistent.
LEMMA RemovalsKeepInv ==
  ASSUME StoreInv,
         \/ \E i \in Instances : Clear(i)
         \/ Lookup
         \/ Tick
  PROVE  StoreInv'
<1>1. ASSUME NEW i \in Instances, Clear(i)
      PROVE  StoreInv'
  BY <1>1, StoreAssumption
  DEF Clear, StoreInv, StoreTypeOK, IndexesAgree, LiveWereMinted, Live
<1>2. CASE Lookup
  BY <1>2, PruneKeepsIndexes
  DEF Lookup, StoreInv, StoreTypeOK, IndexesAgree, LiveWereMinted, Live
<1>3. CASE Tick
  BY <1>3
  DEF Tick, StoreInv, StoreTypeOK, IndexesAgree, LiveWereMinted, Live
<1>4. QED
  BY <1>1, <1>2, <1>3

\* Every step of the store keeps the invariant.
LEMMA StoreStepInv ==
  StoreInv /\ [StoreNext]_storeVars => StoreInv'
<1> SUFFICES ASSUME StoreInv, [StoreNext]_storeVars
             PROVE  StoreInv'
  OBVIOUS
<1>1. CASE UNCHANGED storeVars
  BY <1>1
  DEF storeVars, StoreInv, StoreTypeOK, IndexesAgree, LiveWereMinted, Live
<1>2. CASE StoreNext
  BY <1>2, StartKeepsInv, WritersKeepInv, RemovalsKeepInv DEF StoreNext
<1>3. QED
  BY <1>1, <1>2

\* The invariant holds in every behaviour of the store.
THEOREM StoreInvariance == StoreSpec => []StoreInv
  BY StoreInitInv, StoreStepInv, PTL DEF StoreSpec

\* The type invariant of the store.
THEOREM StoreTypeInvariance == StoreSpec => []StoreTypeOK
<1>1. StoreInv => StoreTypeOK
  BY DEF StoreInv
<1>2. QED
  BY <1>1, StoreInvariance, PTL

\* The two maps stay inverse to each other, whatever the interleaving of the
\* event handlers and the HTTP handlers.
THEOREM IndexesAgreement == StoreSpec => []IndexesAgree
<1>1. StoreInv => IndexesAgree
  BY DEF StoreInv
<1>2. QED
  BY <1>1, StoreInvariance, PTL

\* One write keeps the content of every entry fitting its stage, provided the
\* fields written fit theirs.
LEMMA SetStateKeepsContent ==
  ASSUME StoreInv, StageContent, NEW i \in Instances, NEW stage \in Stages,
         NEW key, NEW code, NEW err,
         HasCeremony(i) =>
            /\ stage # "challenge"
            /\ stage = "awaiting_confirmation" => ~key
            /\ stage = "confirmation" => code
            /\ err <=> stage = "error",
         SetStateByInstance(i, stage, key, code, err)
  PROVE  StageContent'
<1>1. CASE ~HasCeremony(i)
  BY <1>1 DEF SetStateByInstance, StageContent, Live
<1>2. CASE HasCeremony(i)
  <2> DEFINE t == byInst[i]
             e == [inst |-> byToken[t].inst, stage |-> stage, key |-> key,
                   code |-> code, err |-> err, expires |-> now + TTL]
  <2>1. byToken' = [byToken EXCEPT ![t] = e]
    BY <1>2 DEF SetStateByInstance
  <2>2. \A u \in Tokens : byToken'[u] = IF u = t THEN e ELSE byToken[u]
    BY <2>1 DEF StoreInv, StoreTypeOK
  <2>3. QED
    BY <1>2, <2>2 DEF StageContent, Live
<1>3. QED
  BY <1>1, <1>2

\* What an entry carries fits its stage in every behaviour of the store.
THEOREM StageContentInvariance == StoreSpec => []StageContent
<1>1. StoreInit => StageContent
  BY DEF StoreInit, StageContent, Live
<1>2. StoreInv /\ StageContent /\ [StoreNext]_storeVars => StageContent'
  <2> SUFFICES ASSUME StoreInv, StageContent, [StoreNext]_storeVars
               PROVE  StageContent'
    OBVIOUS
  <2>1. ASSUME NEW i \in Instances, NEW t \in Tokens, Start(i, t)
        PROVE  StageContent'
    BY <2>1 DEF Start, PrunedTokens, StageContent, Live
  <2>2. ASSUME NEW i \in Instances, SetConfirmation(i)
        PROVE  StageContent'
    BY <2>2, SetStateKeepsContent, OldFieldsType DEF SetConfirmation, Stages
  <2>3. ASSUME NEW i \in Instances, SetAwaitingConfirmation(i)
        PROVE  StageContent'
    BY <2>3, SetStateKeepsContent, OldFieldsType DEF SetAwaitingConfirmation, Stages
  <2>4. ASSUME NEW i \in Instances, SetConfirmed(i)
        PROVE  StageContent'
    BY <2>4, SetStateKeepsContent, OldFieldsType DEF SetConfirmed, Stages
  <2>5. ASSUME NEW i \in Instances, SetError(i)
        PROVE  StageContent'
    BY <2>5, SetStateKeepsContent, OldFieldsType DEF SetError, Stages
  <2>6. ASSUME NEW i \in Instances, Clear(i)
        PROVE  StageContent'
    BY <2>6 DEF Clear, StageContent, Live
  <2>7. CASE Lookup
    BY <2>7 DEF Lookup, PrunedTokens, StageContent, Live
  <2>8. CASE Tick
    BY <2>8 DEF Tick, StageContent, Live
  <2>9. CASE UNCHANGED storeVars
    BY <2>9 DEF storeVars, StageContent, Live
  <2>10. QED
    BY <2>1, <2>2, <2>3, <2>4, <2>5, <2>6, <2>7, <2>8, <2>9 DEF StoreNext
<1>3. QED
  BY <1>1, <1>2, StoreInvariance, PTL DEF StoreSpec

\* No step of the store brings an entry back or hands it to another instance.
TokensStay ==
    \A t \in Tokens :
        /\ t \in minted => t \in minted'
        /\ t \in minted /\ ~Live(t) => ~Live(t)'
        /\ Live(t) /\ Live(t)' => byToken'[t].inst = byToken[t].inst

LEMMA StoreKeepsTokens ==
  ASSUME StoreInv, [StoreNext]_storeVars
  PROVE  TokensStay
<1>0. CASE UNCHANGED storeVars
  BY <1>0 DEF storeVars, TokensStay, Live
<1>1. ASSUME NEW i \in Instances, NEW t \in Tokens, Start(i, t)
      PROVE  TokensStay
  BY <1>1
  DEF Start, PrunedTokens, StoreInv, LiveWereMinted, Live, Visible, TokensStay
<1>2. ASSUME NEW i \in Instances, NEW stage, NEW key, NEW code, NEW err,
             SetStateByInstance(i, stage, key, code, err)
      PROVE  TokensStay
  BY <1>2
  DEF SetStateByInstance, HasCeremony, StoreInv, StoreTypeOK, Live, TokensStay
<1>3. ASSUME NEW i \in Instances, Clear(i)
      PROVE  TokensStay
  BY <1>3 DEF Clear, Live, TokensStay
<1>4. CASE Lookup
  BY <1>4 DEF Lookup, PrunedTokens, Live, TokensStay
<1>5. CASE Tick
  BY <1>5 DEF Tick, Live, TokensStay
<1>6. QED
  BY <1>0, <1>1, <1>2, <1>3, <1>4, <1>5
  DEF StoreNext, SetConfirmation, SetAwaitingConfirmation, SetConfirmed, SetError

\* A token whose entry is gone stays without one, and a token never changes
\* its instance.
THEOREM TokensAreForever == StoreSpec => TokensNeverReturn
<1> DEFINE Kept == \A t \in Tokens :
              /\ t \in minted /\ ~Live(t) => ~Live(t)'
              /\ Live(t) /\ Live(t)' => byToken'[t].inst = byToken[t].inst
<1>1. StoreInv /\ [StoreNext]_storeVars => [Kept]_storeVars
  BY StoreKeepsTokens DEF TokensStay
<1>2. QED
  BY <1>1, StoreInvariance, PTL DEF StoreSpec, TokensNeverReturn

-----------------------------------------------------------------------------
(* Pairing: the invariant.                                                  *)

TabType ==
    [token : Tokens \cup {None}, button : {"none", "auth", "confirm"},
     pc : {"idle", "sending", "accepted"},
     inst : Instances \cup {None}, to : 0..MaxSockets]

PairingTypes ==
    /\ sock \in [Sockets -> Socket]
    /\ made \in 0..MaxSockets
    /\ client \in [Instances -> 0..MaxSockets]
    /\ tab \in [Tabs -> TabType]
    /\ opener \in [Instances -> 0..MaxSockets]
    /\ earned \in [Tokens -> {"none", "responded", "confirmed"}]
    /\ writer \in [Instances -> Tokens \cup {None}]

\* What a socket reports ends with its pairing, which leaves it at the link
\* "paired" until the connection is lost; before Connect there is nothing.
Sound(s) ==
    /\ s.id => s.events = <<>> /\ s.link \in {"paired", "dead"}
    /\ s.link = "made" => s.events = <<>>
    /\ \A n \in DOMAIN s.events : s.events[n] = "success" =>
          n = Len(s.events) /\ s.link \in {"paired", "dead"}

SocketsInv ==
    /\ \A g \in Sockets : Sound(sock[g])
    /\ \A g \in Sockets : g > made => sock[g].events = <<>> /\ sock[g].link = "dead"

\* The socket a ceremony was opened for belongs to its instance, has been
\* connected, and has not paired.
OpenedFor(i, g) ==
    /\ g \in Sockets /\ g <= made
    /\ sock[g].inst = i
    /\ sock[g].link # "made"
    /\ ~sock[g].id

OpenersInv ==
    \A t \in Tokens : Live(t) => OpenedFor(byToken[t].inst, opener[byToken[t].inst])

\* A request under way has looked its token up, and one that the server has
\* accepted has earned the stage it writes.
EarnedFor(s) ==
    IF s.button = "auth" THEN earned[s.token] \in {"responded", "confirmed"}
    ELSE earned[s.token] = "confirmed"

RequestKnows(s) ==
    s.pc # "idle" =>
        /\ s.button # "none"
        /\ s.inst \in Instances
        /\ s.token \in minted
        /\ Live(s.token) => byToken[s.token].inst = s.inst
        /\ s.pc = "accepted" => EarnedFor(s)

RequestsInv == \A k \in Tabs : RequestKnows(tab[k])

TokensMinted == \A k \in Tabs : tab[k].token # None => tab[k].token \in minted

WritersMinted == \A i \in Instances : writer[i] # None => writer[i] \in minted

PairingInv ==
    /\ StoreInv /\ PairingTypes /\ SocketsInv /\ OpenersInv
    /\ TokensMinted /\ RequestsInv /\ WritersMinted /\ StagesAreEarned

-----------------------------------------------------------------------------
(* Types.                                                                   *)

LEMMA PairingInitTypes == PairingInit => PairingTypes /\ SocketsInv
<1> SUFFICES ASSUME PairingInit
             PROVE  PairingTypes /\ SocketsInv
  OBVIOUS
<1>1. Unmade \in Socket
  BY PairingAssumption DEF Unmade, Socket, Links
<1>2. PairingTypes
  BY <1>1, PairingAssumption DEF PairingInit, PairingTypes, TabType
<1>3. \A g \in Sockets : sock[g].id = FALSE /\ sock[g].link = "dead"
                             /\ sock[g].events = <<>>
  BY DEF PairingInit, Unmade
<1>4. SocketsInv
  BY <1>3 DEF SocketsInv, Sound
<1>5. QED
  BY <1>2, <1>4

\* The store's steps are those of the store's own specification.
LEMMA StoreSteps ==
  ASSUME PairingTypes, RequestsInv, [Next]_vars
  PROVE  [StoreNext]_storeVars
<1>0. CASE UNCHANGED vars
  BY <1>0 DEF vars
<1>1. ASSUME NEW g \in Sockets, HandleEvent(g)
      PROVE  [StoreNext]_storeVars
  <2>1. sock[g].inst \in Instances
    BY DEF PairingTypes, Socket
  <2>2. QED
    BY <1>1, <2>1
    DEF HandleEvent, HandleQR, HandlePasskeyRequest, HandlePasskeyConfirmation,
        HandlePasskeyError, HandlePairSuccess, StoreNext
<1>2. ASSUME NEW k \in Tabs, TabStep(k)
      PROVE  [StoreNext]_storeVars
  <2>1. tab[k].pc # "idle" => tab[k].inst \in Instances
    BY DEF RequestsInv, RequestKnows
  <2>2. QED
    BY <1>2, <2>1
    DEF TabStep, OpenTab, Poll, Post, Accepted, SendReturns, SendFails,
        WriteStage, StoreNext
<1>3. ASSUME NEW i \in Instances, StartClient(i)
      PROVE  UNCHANGED storeVars
  BY <1>3 DEF StartClient
<1>4. ASSUME NEW g \in Sockets, ClientStep(g) \/ ServerStep(g) \/ QRStep(g)
      PROVE  UNCHANGED storeVars
  BY <1>4 DEF ClientStep, Connect, Disconnect, ServerStep, QRStep, QRStops,
              QRShows, QRLogout, QRExhausted
<1>5. CASE PassTime
  BY <1>5 DEF PassTime, StoreNext
<1>6. QED
  BY <1>0, <1>1, <1>2, <1>3, <1>4, <1>5 DEF Next

-----------------------------------------------------------------------------
(* What happens to one socket.                                              *)

\* Socket g becomes t, and no more than this.
Moves(g, t) ==
    /\ sock' = [sock EXCEPT ![g] = t]
    /\ t \in Socket /\ Sound(t)
    /\ t.inst = sock[g].inst
    /\ t.link = "made" => sock[g].link = "made"
    /\ g <= made \/ (t.link = "dead" /\ t.events = <<>>)

\* It does not pair, either.
MovesUnpaired(g, t) == Moves(g, t) /\ (t.id => sock[g].id)

LEMMA ClosedMoves ==
  ASSUME NEW s \in Socket, Sound(s)
  PROVE  /\ Closed(s) \in Socket /\ Sound(Closed(s))
         /\ Closed(s).inst = s.inst /\ Closed(s).id = s.id
         /\ Closed(s).link = "made" => s.link = "made"
         /\ s.link # "made" => Closed(s).link = "dead" /\ Closed(s).events = <<>>
<1>1. CASE s.link = "made"
  BY <1>1 DEF Closed
<1>2. CASE s.link # "made"
  <2> DEFINE t == [s EXCEPT !.link = "dead", !.events = <<>>]
  <2>1. /\ t \in Socket /\ t.inst = s.inst /\ t.id = s.id
        /\ t.link = "dead" /\ t.events = <<>>
    BY EmptySeq DEF Socket, Links
  <2>2. Closed(s) = t
    BY <1>2 DEF Closed
  <2> HIDE DEF t
  <2>3. QED
    BY <1>2, <2>1, <2>2 DEF Sound
<1>3. QED
  BY <1>1, <1>2

LEMMA LeavingMoves ==
  ASSUME NEW s \in Socket, Sound(s), NEW stage \in {"off", "logout"}
  PROVE  /\ Leaving(s, stage) \in Socket /\ Sound(Leaving(s, stage))
         /\ Leaving(s, stage).inst = s.inst /\ Leaving(s, stage).id = s.id
         /\ Leaving(s, stage).link = s.link
         /\ Leaving(s, stage).events = s.events
<1> DEFINE t == Leaving(s, stage)
<1>1. /\ t \in Socket /\ t.inst = s.inst /\ t.id = s.id /\ t.link = s.link
      /\ t.events = s.events
  <2>1. 0 \in 0..Codes
    BY PairingAssumption
  <2>2. QED
    BY <2>1 DEF Leaving, Socket
<1> HIDE DEF t
<1>2. Sound(t)
  BY <1>1 DEF Sound
<1>3. QED
  BY <1>1, <1>2 DEF t

LEMMA ConnectMoves ==
  ASSUME PairingTypes, SocketsInv, NEW g \in Sockets, Connect(g)
  PROVE  \E t : Moves(g, t)
<1> DEFINE s == sock[g]
<1>1. s \in Socket /\ Sound(s) /\ s.link = "made" /\ s.events = <<>> /\ ~s.id
  BY DEF PairingTypes, SocketsInv, Connect, Sound
<1>2. g <= made
  BY <1>1, PairingAssumption DEF SocketsInv, PairingTypes, Sockets
<1>3. ASSUME NEW link \in {"dead", "new"}, sock' = [sock EXCEPT ![g].link = link]
      PROVE  Moves(g, [s EXCEPT !.link = link])
  <2> DEFINE t == [s EXCEPT !.link = link]
  <2>1. /\ t \in Socket /\ t.inst = s.inst /\ t.link = link /\ t.events = <<>>
        /\ t.id = s.id
    BY <1>1 DEF Socket, Links
  <2>2. sock' = [sock EXCEPT ![g] = t]
    BY <1>3
  <2> HIDE DEF t
  <2>3. Sound(t)
    BY <1>1, <2>1 DEF Sound
  <2>4. QED
    BY <1>2, <2>1, <2>2, <2>3 DEF Moves, t
<1>4. CASE sock' = [sock EXCEPT ![g] = [s EXCEPT !.link = "paired", !.id = TRUE]]
  <2> DEFINE t == [s EXCEPT !.link = "paired", !.id = TRUE]
  <2>1. /\ t \in Socket /\ t.inst = s.inst /\ t.link = "paired" /\ t.events = <<>>
    BY <1>1 DEF Socket, Links
  <2> HIDE DEF t
  <2>2. Sound(t)
    BY <2>1 DEF Sound
  <2>3. QED
    BY <1>2, <1>4, <2>1, <2>2 DEF Moves, t
<1>5. QED
  BY <1>3, <1>4 DEF Connect

LEMMA DisconnectMoves ==
  ASSUME PairingTypes, SocketsInv, NEW g \in Sockets, Disconnect(g)
  PROVE  \E t : MovesUnpaired(g, t)
<1> DEFINE t == Closed(sock[g])
<1>1. sock[g] \in Socket /\ Sound(sock[g])
  BY DEF PairingTypes, SocketsInv
<1>2. /\ t \in Socket /\ Sound(t) /\ t.inst = sock[g].inst /\ t.id = sock[g].id
      /\ t.link = "made" => sock[g].link = "made"
      /\ sock[g].link # "made" => t.link = "dead" /\ t.events = <<>>
  BY <1>1, ClosedMoves
<1>3. sock' = [sock EXCEPT ![g] = t]
  BY DEF Disconnect
<1> HIDE DEF t
<1>4. g <= made \/ sock[g].link # "made"
  BY PairingAssumption DEF SocketsInv, PairingTypes, Sockets
<1>5. QED
  BY <1>2, <1>3, <1>4 DEF Moves, MovesUnpaired

LEMMA ServerMoves ==
  ASSUME PairingTypes, SocketsInv, NEW g \in Sockets, ServerStep(g)
  PROVE  \E t : MovesUnpaired(g, t)
<1> DEFINE s == sock[g]
<1>1. s \in Socket /\ Sound(s)
  BY DEF PairingTypes, SocketsInv
<1>2. s.link # "dead" => g <= made
  BY PairingAssumption DEF SocketsInv, PairingTypes, Sockets
<1>3. ASSUME NEW from, NEW to \in Links,
             NEW event \in {"qr", "request", "code", "error", "success"},
             Emits(g, from, to, event),
             \A l \in from : l \in Links \ {"made", "dead", "paired"},
             to \notin {"made", "dead"}, event = "success" => to = "paired"
      PROVE  \E t : MovesUnpaired(g, t)
  <2> DEFINE t == Reporting(s, to, event)
  <2>0. Emits(g, from, to, event)
    BY <1>3
  <2>1. s.link \in from /\ sock' = [sock EXCEPT ![g] = t]
    BY <2>0 DEF Emits
  <2>2. /\ t \in Socket /\ t.inst = s.inst /\ t.id = s.id /\ t.link = to
        /\ t.events = Append(s.events, event)
    <3>1. Append(s.events, event) \in Seq({"qr", "request", "code", "error", "success"})
      BY <1>1 DEF Socket
    <3>2. QED
      BY <1>1, <3>1 DEF Socket, Reporting
  <2> HIDE DEF t
  <2>3. ~s.id /\ s.events \in Seq({"qr", "request", "code", "error", "success"})
    BY <1>1, <1>3, <2>1 DEF Sound, Socket
  <2>4. \A n \in DOMAIN s.events : s.events[n] # "success"
    BY <1>1, <1>3, <2>1 DEF Sound
  <2>5. Sound(t)
    BY <1>3, <2>2, <2>3, <2>4 DEF Sound
  <2>6. QED
    BY <1>2, <1>3, <2>1, <2>2, <2>3, <2>5 DEF Moves, MovesUnpaired
<1>4. CASE Alive(g) /\ sock' = [sock EXCEPT ![g].link = "dead"]
  <2> DEFINE t == [s EXCEPT !.link = "dead"]
  <2>1. /\ t \in Socket /\ t.inst = s.inst /\ t.id = s.id /\ t.link = "dead"
        /\ t.events = s.events
    BY <1>1 DEF Socket, Links
  <2>2. sock' = [sock EXCEPT ![g] = t] /\ g <= made
    BY <1>2, <1>4 DEF Alive
  <2> HIDE DEF t
  <2>3. Sound(t)
    BY <1>1, <2>1 DEF Sound
  <2>4. QED
    BY <2>1, <2>2, <2>3 DEF Moves, MovesUnpaired
<1>5. QED
  <2>1. CASE Emits(g, {"new"}, "qr", "qr")
    BY <1>3, <2>1 DEF Links
  <2>2. CASE Emits(g, {"qr"}, "challenged", "request")
    BY <1>3, <2>2 DEF Links
  <2>3. CASE Emits(g, {"responded"}, "coded", "code")
    BY <1>3, <2>3 DEF Links
  <2>4. CASE Emits(g, {"qr", "challenged", "responded", "coded"}, "qr", "error")
    BY <1>3, <2>4 DEF Links
  <2>5. CASE Emits(g, {"qr"}, "paired", "success")
    BY <1>3, <2>5 DEF Links
  <2>6. QED
    BY <1>4, <2>1, <2>2, <2>3, <2>4, <2>5 DEF ServerStep

LEMMA HandleMoves ==
  ASSUME PairingTypes, SocketsInv, NEW g \in Sockets, HandleEvent(g)
  PROVE  /\ sock[g].events # <<>> /\ g <= made
         /\ \E t : Moves(g, t)
         /\ ~HandlePairSuccess(g) => \E t : MovesUnpaired(g, t)
<1> DEFINE s == sock[g]
           d == Dispatched(s)
<1>1. s \in Socket /\ Sound(s)
  BY DEF PairingTypes, SocketsInv
<1>2. s.events # <<>>
  BY DEF HandleEvent, HandleQR, HandlePasskeyRequest, HandlePasskeyConfirmation,
         HandlePasskeyError, HandlePairSuccess, Dispatch
<1>3. g <= made
  BY <1>2, PairingAssumption DEF SocketsInv, PairingTypes, Sockets
<1>4. /\ d \in Socket /\ d.inst = s.inst /\ d.id = s.id /\ d.link = s.link
      /\ d.events = Tail(s.events)
  <2>1. Tail(s.events) \in Seq({"qr", "request", "code", "error", "success"})
    BY <1>1, <1>2 DEF Socket
  <2>2. QED
    BY <1>1, <2>1 DEF Dispatched, Socket
<1>5. /\ s.events \in Seq({"qr", "request", "code", "error", "success"})
      /\ ~s.id /\ s.link # "made"
  BY <1>1, <1>2 DEF Socket, Sound
<1> HIDE DEF d
<1>6. Sound(d)
  <2>1. ASSUME NEW n \in DOMAIN d.events, d.events[n] = "success"
        PROVE  n = Len(d.events) /\ d.link \in {"paired", "dead"}
    <3>1. /\ n + 1 \in DOMAIN s.events /\ s.events[n + 1] = "success"
          /\ Len(d.events) = Len(s.events) - 1
      BY <1>2, <1>4, <1>5, <2>1
    <3>2. QED
      BY <1>1, <1>4, <1>5, <2>1, <3>1 DEF Sound
  <2>2. QED
    BY <1>4, <1>5, <2>1 DEF Sound
<1>7. CASE sock' = [sock EXCEPT ![g] = d]
  BY <1>2, <1>3, <1>4, <1>5, <1>6, <1>7 DEF Moves, MovesUnpaired
<1>8. CASE sock' = [sock EXCEPT ![g] = [d EXCEPT !.qr = "next"]]
  <2> DEFINE t == [d EXCEPT !.qr = "next"]
  <2>1. /\ t \in Socket /\ t.inst = s.inst /\ t.id = s.id /\ t.link = s.link
        /\ t.events = d.events
    BY <1>4 DEF Socket
  <2> HIDE DEF t
  <2>2. Sound(t)
    BY <1>4, <1>6, <2>1 DEF Sound
  <2>3. sock' = [sock EXCEPT ![g] = t]
    BY <1>8 DEF t
  <2>4. QED
    BY <1>2, <1>3, <1>5, <2>1, <2>2, <2>3 DEF Moves, MovesUnpaired
<1>9. CASE HandlePairSuccess(g)
  <2> DEFINE t == [d EXCEPT !.id = TRUE]
  <2>1. /\ t \in Socket /\ t.inst = s.inst /\ t.link = s.link
        /\ t.events = d.events
    BY <1>4 DEF Socket
  <2>2. sock' = [sock EXCEPT ![g] = t]
    BY <1>9 DEF HandlePairSuccess, d
  <2> HIDE DEF t
  <2>3. 1 \in DOMAIN s.events /\ s.events[1] = "success"
    BY <1>2, <1>5, <1>9 DEF HandlePairSuccess, Dispatch
  <2>4. Len(s.events) = 1 /\ s.link \in {"paired", "dead"}
    BY <1>1, <2>3 DEF Sound
  <2>5. t.events = <<>>
    <3> DEFINE e == t.events
    <3>1. e \in Seq({"qr", "request", "code", "error", "success"})
      BY <2>1 DEF Socket
    <3>2. Len(e) = 0
      BY <1>2, <1>4, <1>5, <2>1, <2>4, HeadTailProperties
    <3> HIDE DEF e
    <3>3. QED
      BY <3>1, <3>2, EmptySeq DEF e
  <2>6. Sound(t)
    BY <2>1, <2>4, <2>5 DEF Sound
  <2>7. QED
    BY <1>2, <1>3, <1>5, <1>9, <2>1, <2>2, <2>6 DEF Moves
<1>10. QED
  BY <1>7, <1>8, <1>9
  DEF HandleEvent, HandleQR, HandlePasskeyRequest, HandlePasskeyConfirmation,
      HandlePasskeyError, d

LEMMA RotationMoves ==
  ASSUME PairingTypes, SocketsInv, NEW g \in Sockets, QRStep(g)
  PROVE  \E t : MovesUnpaired(g, t)
<1> DEFINE s == sock[g]
<1>1. s \in Socket /\ Sound(s)
  BY DEF PairingTypes, SocketsInv
<1>2. g <= made \/ (s.link = "dead" /\ s.events = <<>>)
  BY PairingAssumption DEF SocketsInv, PairingTypes, Sockets
<1>3. ASSUME NEW stage \in {"off", "logout"},
             sock' = [sock EXCEPT ![g] = Leaving(s, stage)]
      PROVE  MovesUnpaired(g, Leaving(s, stage))
  BY <1>1, <1>2, <1>3, LeavingMoves DEF Moves, MovesUnpaired
<1>4. CASE sock' = [sock EXCEPT ![g] = Leaving(Closed(s), "off")]
  <2> DEFINE c == Closed(s)
             t == Leaving(c, "off")
  <2>1. /\ c \in Socket /\ Sound(c) /\ c.inst = s.inst /\ c.id = s.id
        /\ c.link = "made" => s.link = "made"
        /\ g <= made \/ (c.link = "dead" /\ c.events = <<>>)
    BY <1>1, <1>2, ClosedMoves
  <2> HIDE DEF c
  <2>2. /\ t \in Socket /\ Sound(t) /\ t.inst = c.inst /\ t.id = c.id
        /\ t.link = c.link /\ t.events = c.events
    BY <2>1, LeavingMoves
  <2>3. sock' = [sock EXCEPT ![g] = t]
    BY <1>4 DEF c
  <2> HIDE DEF t
  <2>4. QED
    BY <2>1, <2>2, <2>3 DEF Moves, MovesUnpaired
<1>5. ASSUME sock[g].count < Codes,
             sock' = [sock EXCEPT ![g] = [s EXCEPT !.count = sock[g].count + 1]]
      PROVE  \E t : MovesUnpaired(g, t)
  <2> DEFINE t == [s EXCEPT !.count = sock[g].count + 1]
  <2>1. /\ t \in Socket /\ t.inst = s.inst /\ t.id = s.id /\ t.link = s.link
        /\ t.events = s.events
    BY <1>1, <1>5, PairingAssumption DEF Socket
  <2>2. sock' = [sock EXCEPT ![g] = t]
    BY <1>5
  <2> HIDE DEF t
  <2>3. Sound(t)
    BY <1>1, <2>1 DEF Sound
  <2>4. QED
    BY <1>2, <2>1, <2>2, <2>3 DEF Moves, MovesUnpaired
<1>6. CASE QRStops(g) \/ QRExhausted(g)
  BY <1>3, <1>6 DEF QRStops, QRExhausted, RotationOver
<1>7. CASE QRShows(g)
  <2>1. CASE sock' = [sock EXCEPT ![g] = Leaving(s, "logout")]
    BY <1>3, <2>1
  <2>2. CASE sock' = [sock EXCEPT ![g] = [s EXCEPT !.count = sock[g].count + 1]]
    BY <1>5, <1>7, <2>2 DEF QRShows
  <2>3. QED
    BY <1>7, <2>1, <2>2 DEF QRShows
<1>8. CASE QRLogout(g)
  BY <1>3, <1>4, <1>8 DEF QRLogout
<1>9. QED
  BY <1>6, <1>7, <1>8 DEF QRStep

LEMMA AcceptedMoves ==
  ASSUME PairingTypes, SocketsInv, NEW k \in Tabs, Accepted(k)
  PROVE  UNCHANGED sock \/ \E g \in Sockets : \E t : MovesUnpaired(g, t)
<1> DEFINE g == tab[k].to
           s == sock[g]
<1>1. PICK link \in {"responded", "qr"} : sock' = [sock EXCEPT ![g].link = link]
  BY DEF Accepted
<1>2. CASE g \notin Sockets
  BY <1>1, <1>2 DEF PairingTypes
<1>3. CASE g \in Sockets
  <2>1. s \in Socket /\ Sound(s) /\ s.link \in {"challenged", "coded"}
    BY <1>3 DEF PairingTypes, SocketsInv, Accepted, Needs
  <2>2. g <= made
    BY <1>3, <2>1, PairingAssumption DEF SocketsInv, PairingTypes, Sockets
  <2> DEFINE t == [s EXCEPT !.link = link]
  <2>3. /\ t \in Socket /\ t.inst = s.inst /\ t.id = s.id /\ t.link = link
        /\ t.events = s.events
    BY <2>1 DEF Socket, Links
  <2>4. sock' = [sock EXCEPT ![g] = t]
    BY <1>1
  <2> HIDE DEF t
  <2>5. Sound(t)
    BY <2>1, <2>3 DEF Sound
  <2>6. QED
    BY <1>3, <2>2, <2>3, <2>4, <2>5 DEF Moves, MovesUnpaired
<1>4. QED
  BY <1>2, <1>3

-----------------------------------------------------------------------------
(* The types and the sockets.                                               *)

LEMMA MovesKeep ==
  ASSUME PairingTypes, SocketsInv, NEW g \in Sockets, NEW t, Moves(g, t),
         UNCHANGED made
  PROVE  sock' \in [Sockets -> Socket] /\ SocketsInv'
<1>1. /\ sock' \in [Sockets -> Socket]
      /\ \A h \in Sockets : sock'[h] = IF h = g THEN t ELSE sock[h]
  BY DEF Moves, PairingTypes
<1>2. \A h \in Sockets : Sound(sock'[h])
  BY <1>1 DEF Moves, SocketsInv
<1>3. \A h \in Sockets :
        h > made' => sock'[h].events = <<>> /\ sock'[h].link = "dead"
  BY <1>1, PairingAssumption DEF Moves, SocketsInv, PairingTypes, Sockets
<1>4. QED
  BY <1>1, <1>2, <1>3 DEF SocketsInv, Sound

\* A step but StartClient leaves the sockets alone or moves one of them.
LEMMA SocketsStep ==
  ASSUME PairingTypes, SocketsInv, [Next]_vars,
         ~ \E i \in Instances : StartClient(i)
  PROVE  UNCHANGED made /\ (UNCHANGED sock \/ \E g \in Sockets : \E t : Moves(g, t))
<1>1. UNCHANGED made
  BY DEF Next, vars, pairingVars, ClientStep, Connect, Disconnect,
         ServerStep, HandleEvent, HandleQR, HandlePasskeyRequest,
         HandlePasskeyConfirmation, HandlePasskeyError, HandlePairSuccess, QRStep,
         QRStops, QRShows, QRLogout, QRExhausted, TabStep, OpenTab, Poll, Post,
         Accepted, SendReturns, SendFails, WriteStage, PassTime
<1>2. ASSUME NEW g \in Sockets,
             ClientStep(g) \/ ServerStep(g) \/ HandleEvent(g) \/ QRStep(g)
      PROVE  \E t : Moves(g, t)
  BY <1>2, ConnectMoves, DisconnectMoves, ServerMoves, HandleMoves, RotationMoves
  DEF ClientStep, MovesUnpaired
<1>3. ASSUME NEW k \in Tabs, TabStep(k)
      PROVE  UNCHANGED sock \/ \E g \in Sockets : \E t : Moves(g, t)
  BY <1>3, AcceptedMoves
  DEF TabStep, OpenTab, Poll, Post, SendReturns, SendFails, WriteStage,
      MovesUnpaired
<1>4. CASE UNCHANGED vars \/ PassTime
  BY <1>4 DEF vars, pairingVars, PassTime
<1>5. QED
  BY <1>1, <1>2, <1>3, <1>4 DEF Next

LEMMA StartClientSockets ==
  ASSUME PairingTypes, SocketsInv, NEW i \in Instances, StartClient(i)
  PROVE  /\ made + 1 \in Sockets /\ made' = made + 1
         /\ sock' \in [Sockets -> Socket] /\ SocketsInv'
         /\ \A h \in Sockets : h # made + 1 => sock'[h] = sock[h]
<1> DEFINE t == [Unmade EXCEPT !.inst = i, !.link = "made"]
<1>1. made + 1 \in Sockets /\ made' = made + 1 /\ made \in Nat
  BY PairingAssumption DEF StartClient, PairingTypes, Sockets
<1>2. t \in Socket /\ t.link = "made" /\ t.events = <<>> /\ t.id = FALSE
  <2> DEFINE a == [Unmade EXCEPT !.inst = i]
  <2>1. /\ Unmade \in Socket /\ Unmade.id = FALSE /\ Unmade.events = <<>>
    BY PairingAssumption, EmptySeq DEF Unmade, Socket, Links
  <2>2. a \in Socket /\ a.id = FALSE /\ a.events = <<>>
    BY <2>1 DEF Socket
  <2>3. t = [a EXCEPT !.link = "made"]
    OBVIOUS
  <2> HIDE DEF a, t
  <2>4. QED
    BY <2>2, <2>3 DEF Socket, Links
<1>3. sock' = [sock EXCEPT ![made + 1] = t]
  BY DEF StartClient
<1> HIDE DEF t
<1>4. /\ sock' \in [Sockets -> Socket]
      /\ \A h \in Sockets : sock'[h] = IF h = made + 1 THEN t ELSE sock[h]
  BY <1>1, <1>2, <1>3 DEF PairingTypes
<1>5. Sound(t)
  BY <1>2 DEF Sound
<1>6. \A h \in Sockets : Sound(sock'[h])
  BY <1>4, <1>5 DEF SocketsInv
<1>7. \A h \in Sockets :
        h > made' => sock'[h].events = <<>> /\ sock'[h].link = "dead"
  BY <1>1, <1>4 DEF SocketsInv, Sockets
<1>8. QED
  BY <1>1, <1>4, <1>6, <1>7 DEF SocketsInv, Sound

LEMMA SocketsKeep ==
  ASSUME PairingTypes, SocketsInv, [Next]_vars
  PROVE  sock' \in [Sockets -> Socket] /\ SocketsInv'
<1>1. CASE \E i \in Instances : StartClient(i)
  BY <1>1, StartClientSockets
<1>2. CASE ~ \E i \in Instances : StartClient(i)
  <2>1. CASE UNCHANGED <<sock, made>>
    BY <2>1 DEF PairingTypes, SocketsInv, Sound
  <2>2. QED
    BY <1>2, <2>1, SocketsStep, MovesKeep
<1>3. QED
  BY <1>1, <1>2

LEMMA TabBecomes ==
  ASSUME PairingTypes, NEW k \in Tabs, NEW s \in TabType,
         tab' = [tab EXCEPT ![k] = s]
  PROVE  /\ tab' \in [Tabs -> TabType]
         /\ \A j \in Tabs : tab'[j] = IF j = k THEN s ELSE tab[j]
  BY DEF PairingTypes

\* What a tab may become.
Follows(k, s) ==
    /\ s \in TabType
    /\ s.token = tab[k].token \/ s.token \in minted
    /\ s.pc # "idle" => Post(k) \/ Accepted(k)
    /\ tab' = [tab EXCEPT ![k] = s]

LEMMA TabsStep ==
  ASSUME StoreInv, PairingTypes, NEW k \in Tabs, TabStep(k)
  PROVE  \E s : Follows(k, s)
<1> DEFINE s == tab[k]
<1>1. s \in TabType
  BY DEF PairingTypes
<1>2. ASSUME NEW t \in Tokens, OpenTab(k, t)
      PROVE  Follows(k, [s EXCEPT !.token = t, !.button = "none"])
  <2>1. s.pc = "idle" /\ t \in minted
    BY <1>2 DEF OpenTab
  <2>2. [s EXCEPT !.token = t, !.button = "none"] \in TabType
    BY <1>1 DEF TabType
  <2>3. /\ [s EXCEPT !.token = t, !.button = "none"].token = t
        /\ [s EXCEPT !.token = t, !.button = "none"].pc = "idle"
    BY <1>1, <2>1 DEF TabType
  <2>4. tab' = [tab EXCEPT ![k] = [s EXCEPT !.token = t, !.button = "none"]]
    BY <1>2 DEF OpenTab
  <2>5. QED
    BY <2>1, <2>2, <2>3, <2>4 DEF Follows
<1>3. CASE Poll(k)
  <2>1. PICK b \in {"none", "auth", "confirm"} : tab' = [tab EXCEPT ![k].button = b]
    <3>1. s.button \in {"none", "auth", "confirm"}
      BY <1>1 DEF TabType
    <3>2. QED
      BY <1>3, <3>1 DEF Poll
  <2>2. s.pc = "idle"
    BY <1>3 DEF Poll
  <2> DEFINE t == [s EXCEPT !.button = b]
  <2>3. t \in TabType /\ t.token = s.token /\ t.pc = s.pc
    BY <1>1 DEF TabType
  <2>4. tab' = [tab EXCEPT ![k] = t]
    BY <2>1
  <2> HIDE DEF t
  <2>5. QED
    BY <2>2, <2>3, <2>4 DEF Follows
<1>4. CASE Post(k)
  <2>1. s.token \in Tokens /\ byToken[s.token].inst \in Instances
    <3>1. s.token \in Tokens
      BY <1>1, <1>4, StoreAssumption DEF Post, Visible, Live, TabType
    <3>2. QED
      BY <1>4, <3>1 DEF Post, Visible, Live, StoreInv, StoreTypeOK, Entry
  <2>2. client[byToken[s.token].inst] \in 0..MaxSockets
    BY <2>1 DEF PairingTypes
  <2> DEFINE t == [s EXCEPT !.pc = "sending", !.inst = byToken[s.token].inst,
                            !.to = client[byToken[s.token].inst]]
  <2>3. t \in TabType /\ t.token = s.token
    BY <1>1, <2>1, <2>2 DEF TabType
  <2>4. tab' = [tab EXCEPT ![k] = t]
    BY <1>4 DEF Post
  <2> HIDE DEF t
  <2>5. QED
    BY <1>4, <2>3, <2>4 DEF Follows
<1>5. CASE Accepted(k)
  <2> DEFINE t == [s EXCEPT !.pc = "accepted"]
  <2>1. t \in TabType /\ t.token = s.token
    BY <1>1 DEF TabType
  <2>2. tab' = [tab EXCEPT ![k] = t]
    BY <1>5 DEF Accepted
  <2> HIDE DEF t
  <2>3. QED
    BY <1>5, <2>1, <2>2 DEF Follows
<1>6. /\ Idle(s) \in TabType /\ Idle(s).token = s.token /\ Idle(s).pc = "idle"
  <2>1. 0 \in 0..MaxSockets
    BY PairingAssumption
  <2>2. QED
    BY <1>1, <2>1 DEF Idle, TabType
<1>7. CASE SendFails(k)
  <2>1. tab' = [tab EXCEPT ![k] = Idle(s)]
    BY <1>7 DEF SendFails
  <2>2. QED
    BY <1>6, <2>1 DEF Follows
<1>8. CASE SendReturns(k)
  <2> DEFINE i == Idle(s)
             t == [i EXCEPT !.button = "none"]
  <2>1. i \in TabType /\ i.token = s.token /\ i.pc = "idle"
    BY <1>6
  <2>2. tab' = [tab EXCEPT ![k] = t]
    BY <1>8 DEF SendReturns
  <2> HIDE DEF i
  <2>3. t \in TabType /\ t.token = s.token /\ t.pc = "idle"
    BY <2>1 DEF TabType
  <2> HIDE DEF t
  <2>4. QED
    BY <2>2, <2>3 DEF Follows
<1>9. QED
  BY <1>2, <1>3, <1>4, <1>5, <1>7, <1>8 DEF TabStep

LEMMA TypesStep ==
  ASSUME StoreInv, PairingTypes, SocketsInv, [Next]_vars
  PROVE  PairingTypes'
<1>1. sock' \in [Sockets -> Socket]
  BY SocketsKeep
<1>2. made' \in 0..MaxSockets /\ client' \in [Instances -> 0..MaxSockets]
  <2>1. ASSUME NEW i \in Instances, StartClient(i)
        PROVE  made' \in 0..MaxSockets /\ client' \in [Instances -> 0..MaxSockets]
    <3>1. made + 1 \in 0..MaxSockets
      BY <2>1, PairingAssumption DEF StartClient, PairingTypes
    <3>2. QED
      BY <2>1, <3>1 DEF StartClient, PairingTypes
  <2>2. CASE UNCHANGED <<made, client>>
    BY <2>2 DEF PairingTypes
  <2>3. QED
    BY <2>1, <2>2
    DEF Next, vars, pairingVars, ClientStep, Connect, Disconnect, ServerStep,
        HandleEvent, HandleQR, HandlePasskeyRequest, HandlePasskeyConfirmation,
        HandlePasskeyError, HandlePairSuccess, QRStep, QRStops, QRShows, QRLogout,
        QRExhausted, TabStep, OpenTab, Poll, Post, Accepted, SendReturns,
        SendFails, WriteStage, PassTime
<1>3. tab' \in [Tabs -> TabType]
  <2>1. CASE UNCHANGED tab
    BY <2>1 DEF PairingTypes
  <2>2. ASSUME NEW k \in Tabs, TabStep(k)
        PROVE  tab' \in [Tabs -> TabType]
    BY <2>2, TabsStep, TabBecomes DEF Follows
  <2>3. QED
    BY <2>1, <2>2
    DEF Next, vars, pairingVars, StartClient, ClientStep, Connect,
        Disconnect, ServerStep, HandleEvent, HandleQR, HandlePasskeyRequest,
        HandlePasskeyConfirmation, HandlePasskeyError, HandlePairSuccess, QRStep,
        QRStops, QRShows, QRLogout, QRExhausted, PassTime
<1>4. /\ opener' \in [Instances -> 0..MaxSockets]
      /\ earned' \in [Tokens -> {"none", "responded", "confirmed"}]
      /\ writer' \in [Instances -> Tokens \cup {None}]
  <2>1. CASE UNCHANGED history
    BY <2>1 DEF history, PairingTypes
  <2>2. ASSUME NEW g \in Sockets, HandlePasskeyRequest(g)
        PROVE  /\ UNCHANGED earned
               /\ opener' \in [Instances -> 0..MaxSockets]
               /\ writer' \in [Instances -> Tokens \cup {None}]
    <3>1. g \in 0..MaxSockets
      BY PairingAssumption DEF Sockets
    <3>2. QED
      BY <2>2, <3>1 DEF HandlePasskeyRequest, PairingTypes
  <2>3. ASSUME NEW k \in Tabs, Accepted(k) \/ WriteStage(k)
        PROVE  /\ UNCHANGED opener
               /\ earned' \in [Tokens -> {"none", "responded", "confirmed"}]
               /\ writer' \in [Instances -> Tokens \cup {None}]
    <3>1. tab[k].token \in Tokens \cup {None}
      BY DEF PairingTypes, TabType
    <3>2. CASE Accepted(k)
      BY <3>2 DEF Accepted, PairingTypes
    <3>3. CASE WriteStage(k)
      BY <3>1, <3>3 DEF WriteStage, PairingTypes
    <3>4. QED
      BY <2>3, <3>2, <3>3
  <2>4. QED
    BY <2>1, <2>2, <2>3 DEF PairingTypes,
        Next, vars, pairingVars, history, StartClient, ClientStep, Connect,
        Disconnect, ServerStep, HandleEvent, HandleQR,
        HandlePasskeyConfirmation, HandlePasskeyError, HandlePairSuccess, QRStep,
        QRStops, QRShows, QRLogout, QRExhausted, TabStep, OpenTab, Poll, Post,
        SendReturns, SendFails, PassTime
<1>5. QED
  BY <1>1, <1>2, <1>3, <1>4 DEF PairingTypes

-----------------------------------------------------------------------------
(* Whom the ceremonies were opened for.                                     *)

\* A writer by instance, Clear, Lookup and the clock bring no entry in.
LEMMA NoNewEntries ==
  ASSUME StoreInv,
         \/ \E i \in Instances : \/ SetConfirmation(i) \/ SetError(i)
                                 \/ SetAwaitingConfirmation(i) \/ SetConfirmed(i)
                                 \/ Clear(i)
         \/ Lookup \/ Tick \/ UNCHANGED storeVars
  PROVE  \A t \in Tokens :
            Live(t)' => Live(t) /\ byToken'[t].inst = byToken[t].inst
<1> DEFINE Kept == \A t \in Tokens :
              Live(t)' => Live(t) /\ byToken'[t].inst = byToken[t].inst
<1>1. ASSUME NEW i \in Instances, NEW stage, NEW key, NEW code, NEW err,
             SetStateByInstance(i, stage, key, code, err)
      PROVE  Kept
  BY <1>1 DEF SetStateByInstance, HasCeremony, StoreInv, StoreTypeOK, Live
<1>2. ASSUME NEW i \in Instances, Clear(i)
      PROVE  Kept
  BY <1>2 DEF Clear, Live
<1>3. CASE Lookup
  BY <1>3 DEF Lookup, PrunedTokens, Live
<1>4. CASE Tick \/ UNCHANGED storeVars
  BY <1>4 DEF Tick, storeVars, Live
<1>5. QED
  BY <1>1, <1>2, <1>3, <1>4
  DEF SetConfirmation, SetAwaitingConfirmation, SetConfirmed, SetError

\* A new ceremony is the only one of its instance, and takes no other's entry.
LEMMA StartOpens ==
  ASSUME StoreInv, NEW i \in Instances, NEW t \in Tokens, Start(i, t)
  PROVE  \A u \in Tokens : Live(u)' =>
            \/ u = t /\ byToken'[u].inst = i /\ byToken'[u].stage = "challenge"
            \/ u # t /\ Live(u) /\ byToken'[u] = byToken[u] /\ byToken[u].inst # i
<1> SUFFICES ASSUME NEW u \in Tokens, Live(u)', u # t
             PROVE  Live(u) /\ byToken'[u] = byToken[u] /\ byToken[u].inst # i
  BY DEF Start
<1>1. PrunedTokens[u] # None /\ byToken'[u] = PrunedTokens[u] /\ u # PrunedInst[i]
  BY DEF Start, Live
<1>2. QED
  BY <1>1, PruneKeepsIndexes DEF Live

LEMMA OpenersStep ==
  ASSUME StoreInv, PairingTypes, SocketsInv, RequestsInv, OpenersInv, [Next]_vars
  PROVE  OpenersInv'
<1> DEFINE NoEntries == \A t \in Tokens :
              Live(t)' => Live(t) /\ byToken'[t].inst = byToken[t].inst
           Opens(t) == opener[byToken[t].inst]
<1>1. ASSUME NoEntries, UNCHANGED <<opener, made>>,
             \A g \in Sockets : \/ sock'[g] = sock[g]
                                \/ /\ sock'[g].inst = sock[g].inst
                                   /\ sock[g].link # "made" /\ ~sock[g].id =>
                                        sock'[g].link # "made" /\ ~sock'[g].id
      PROVE  OpenersInv'
  BY <1>1 DEF OpenersInv, OpenedFor
<1>2. ASSUME UNCHANGED <<opener, made, sock>>, NoEntries
      PROVE  OpenersInv'
  BY <1>1, <1>2
<1>3. ASSUME NEW g \in Sockets, NEW t, Moves(g, t), NoEntries,
             UNCHANGED <<opener, made>>,
             t.id => sock[g].id \/ sock[g].link = "made"
      PROVE  OpenersInv'
  <2>1. \A h \in Sockets : sock'[h] = IF h = g THEN t ELSE sock[h]
    BY <1>3 DEF Moves, PairingTypes
  <2>2. QED
    BY <1>1, <1>3, <2>1 DEF Moves
<1>4. CASE UNCHANGED vars \/ PassTime
  <2>1. UNCHANGED <<opener, made, sock>> /\ (UNCHANGED storeVars \/ Tick)
    BY <1>4 DEF vars, pairingVars, PassTime, history
  <2>2. QED
    BY <1>2, <2>1, NoNewEntries
<1>5. ASSUME NEW i \in Instances, StartClient(i)
      PROVE  OpenersInv'
  <2>1. /\ made' = made + 1 /\ made \in Nat
        /\ \A h \in Sockets : h # made + 1 => sock'[h] = sock[h]
    BY <1>5, StartClientSockets, PairingAssumption DEF PairingTypes
  <2>2. UNCHANGED <<byToken, opener>>
    BY <1>5 DEF StartClient, storeVars, history
  <2>3. ASSUME NEW j, NEW h, OpenedFor(j, h)
        PROVE  OpenedFor(j, h)'
    BY <2>1, <2>3 DEF OpenedFor, Sockets
  <2>4. QED
    BY <2>2, <2>3 DEF OpenersInv, Live
<1>6. ASSUME NEW g \in Sockets, ClientStep(g) \/ ServerStep(g) \/ QRStep(g)
      PROVE  OpenersInv'
  <2>1. UNCHANGED <<storeVars, opener, made>>
    BY <1>6 DEF ClientStep, Connect, Disconnect, ServerStep, QRStep, QRStops,
                QRShows, QRLogout, QRExhausted, history
  <2>2. NoEntries
    BY <2>1, NoNewEntries
  <2>3. CASE Connect(g)
    <3>1. PICK t : Moves(g, t)
      BY <2>3, ConnectMoves
    <3>2. sock[g].link = "made"
      BY <2>3 DEF Connect
    <3>3. QED
      BY <1>3, <2>1, <2>2, <3>1, <3>2
  <2>4. CASE Disconnect(g) \/ ServerStep(g) \/ QRStep(g)
    <3>1. PICK t : MovesUnpaired(g, t)
      BY <2>4, DisconnectMoves, ServerMoves, RotationMoves
    <3>2. QED
      BY <1>3, <2>1, <2>2, <3>1 DEF MovesUnpaired
  <2>5. QED
    BY <1>6, <2>3, <2>4 DEF ClientStep
<1>7. ASSUME NEW g \in Sockets, HandleEvent(g)
      PROVE  OpenersInv'
  <2>0. PICK i \in Instances : i = sock[g].inst
    BY DEF PairingTypes, Socket
  <2>1. i \in Instances /\ Sound(sock[g]) /\ sock[g].events # <<>> /\ g <= made
    BY <1>7, HandleMoves DEF SocketsInv
  <2>2. sock[g].link # "made" /\ ~sock[g].id
    BY <2>1 DEF Sound
  <2>3. UNCHANGED made
    BY <1>7 DEF HandleEvent, HandleQR, HandlePasskeyRequest,
         HandlePasskeyConfirmation, HandlePasskeyError, HandlePairSuccess
  <2>4. ASSUME NEW u \in Tokens, Start(i, u), HandlePasskeyRequest(g),
               opener' = [opener EXCEPT ![i] = g]
        PROVE  OpenersInv'
    <3>0. ~HandlePairSuccess(g)
      BY <2>4 DEF HandlePasskeyRequest, HandlePairSuccess, Dispatch
    <3>1. PICK t : MovesUnpaired(g, t)
      BY <1>7, <3>0, HandleMoves
    <3>2. \A h \in Sockets : sock'[h] = IF h = g THEN t ELSE sock[h]
      BY <3>1 DEF MovesUnpaired, Moves, PairingTypes
    <3>3. ASSUME NEW j, NEW h, OpenedFor(j, h)
          PROVE  OpenedFor(j, h)'
      BY <2>3, <3>1, <3>2, <3>3 DEF OpenedFor, MovesUnpaired, Moves
    <3>4. OpenedFor(i, g)'
      <4>1. OpenedFor(i, g)
        BY <2>0, <2>1, <2>2 DEF OpenedFor
      <4>2. QED
        BY <3>3, <4>1
    <3>5. ASSUME NEW v \in Tokens, Live(v)'
          PROVE  OpenedFor(byToken[v].inst, opener[byToken[v].inst])'
      <4>1. CASE v = u
        <5>1. byToken'[v].inst = i /\ opener'[i] = g
          BY <2>1, <2>4, <3>5, <4>1, StartOpens DEF PairingTypes
        <5>2. QED
          BY <3>4, <5>1 DEF OpenedFor
      <4>2. CASE v # u
        <5>1. Live(v) /\ byToken'[v] = byToken[v] /\ byToken[v].inst # i
          BY <2>1, <2>4, <3>5, <4>2, StartOpens
        <5>2. byToken[v].inst \in Instances
          BY <5>1, StoreAssumption DEF StoreInv, StoreTypeOK, Live, Entry
        <5>3. opener'[byToken'[v].inst] = opener[byToken[v].inst]
          BY <2>4, <5>1, <5>2 DEF PairingTypes
        <5>4. OpenedFor(byToken[v].inst, opener[byToken[v].inst])
          BY <5>1 DEF OpenersInv
        <5>5. QED
          BY <3>3, <5>1, <5>3, <5>4 DEF OpenedFor
      <4>3. QED
        BY <4>1, <4>2
    <3>6. QED
      BY <3>5 DEF OpenersInv
  <2>5. CASE ~HandlePairSuccess(g) /\ UNCHANGED opener
    <3>1. PICK t : MovesUnpaired(g, t)
      BY <1>7, <2>5, HandleMoves
    <3>2. \/ SetConfirmation(i) \/ SetError(i) \/ UNCHANGED storeVars
          \/ \E u \in Tokens : Start(i, u) /\ HandlePasskeyRequest(g)
                              /\ opener' = [opener EXCEPT ![i] = g]
      BY <1>7, <2>0, <2>5 DEF HandleEvent, HandleQR, HandlePasskeyRequest,
         HandlePasskeyConfirmation, HandlePasskeyError
    <3>3. CASE SetConfirmation(i) \/ SetError(i) \/ UNCHANGED storeVars
      <4>1. NoEntries
        BY <2>1, <3>3, NoNewEntries
      <4>2. QED
        BY <1>3, <2>3, <2>5, <3>1, <4>1 DEF MovesUnpaired
    <3>4. QED
      BY <2>4, <3>2, <3>3
  <2>6. CASE HandlePairSuccess(g)
    <3>1. PICK t : Moves(g, t)
      BY <1>7, HandleMoves
    <3>2. \A h \in Sockets : sock'[h] = IF h = g THEN t ELSE sock[h]
      BY <3>1 DEF Moves, PairingTypes
    <3>3. Clear(i) /\ UNCHANGED opener
      BY <2>0, <2>6 DEF HandlePairSuccess, history
    <3>4. ASSUME NEW v \in Tokens, Live(v)'
          PROVE  OpenedFor(byToken[v].inst, opener[byToken[v].inst])'
      <4>1. Live(v) /\ byToken'[v].inst = byToken[v].inst /\ v # byInst[i]
        BY <2>1, <3>3, <3>4, NoNewEntries DEF Clear, Live
      <4>2. byToken[v].inst # i
        BY <2>1, <4>1 DEF StoreInv, IndexesAgree
      <4>3. OpenedFor(byToken[v].inst, opener[byToken[v].inst])
        BY <4>1 DEF OpenersInv
      <4>4. opener[byToken[v].inst] # g
        BY <2>0, <4>2, <4>3 DEF OpenedFor
      <4>5. QED
        BY <2>3, <3>2, <3>3, <4>1, <4>3, <4>4 DEF OpenedFor
    <3>5. QED
      BY <3>4 DEF OpenersInv
  <2>7. QED
    BY <1>7, <2>0, <2>4, <2>5, <2>6
    DEF HandleEvent, HandleQR, HandlePasskeyRequest,
        HandlePasskeyConfirmation, HandlePasskeyError, history
<1>8. ASSUME NEW k \in Tabs, TabStep(k)
      PROVE  OpenersInv'
  <2>1. UNCHANGED <<opener, made>>
    BY <1>8 DEF TabStep, OpenTab, Poll, Post, Accepted, SendReturns, SendFails,
                WriteStage, history
  <2>2. NoEntries
    <3>1. tab[k].pc # "idle" => tab[k].inst \in Instances
      BY DEF RequestsInv, RequestKnows
    <3>2. QED
      BY <1>8, <3>1, NoNewEntries
      DEF TabStep, OpenTab, Poll, Post, Accepted, SendReturns, SendFails, WriteStage
  <2>3. CASE Accepted(k)
    BY <1>2, <1>3, <2>1, <2>2, <2>3, AcceptedMoves DEF MovesUnpaired
  <2>4. CASE UNCHANGED sock
    BY <1>2, <2>1, <2>2, <2>4
  <2>5. QED
    BY <1>8, <2>3, <2>4
    DEF TabStep, OpenTab, Poll, Post, SendReturns, SendFails, WriteStage
<1>9. QED
  BY <1>4, <1>5, <1>6, <1>7, <1>8 DEF Next

-----------------------------------------------------------------------------
(* What the requests know, and who wrote the stages.                        *)

LEMMA MintedStep ==
  ASSUME StoreInv, PairingTypes, RequestsInv, TokensMinted, WritersMinted, TokensStay,
         [Next]_vars
  PROVE  TokensMinted' /\ WritersMinted'
<1>1. ASSUME NEW k \in Tabs, TabStep(k)
      PROVE  TokensMinted'
  <2>1. PICK s : Follows(k, s)
    BY <1>1, TabsStep
  <2>2. \A j \in Tabs : tab'[j] = IF j = k THEN s ELSE tab[j]
    BY <2>1, TabBecomes DEF Follows
  <2>3. s.token # None => s.token \in minted
    BY <2>1 DEF Follows, TokensMinted
  <2>4. \A j \in Tabs : tab'[j].token # None => tab'[j].token \in minted
    BY <2>2, <2>3 DEF TokensMinted
  <2>5. QED
    BY <2>2, <2>4, StoreAssumption
    DEF TokensMinted, TokensStay, StoreInv, StoreTypeOK
<1>2. UNCHANGED tab => TokensMinted'
  BY DEF TokensMinted, TokensStay, StoreInv, StoreTypeOK
<1>3. TokensMinted'
  BY <1>1, <1>2
  DEF Next, vars, pairingVars, StartClient, ClientStep, Connect,
      Disconnect, ServerStep, HandleEvent, HandleQR, HandlePasskeyRequest,
      HandlePasskeyConfirmation, HandlePasskeyError, HandlePairSuccess, QRStep,
      QRStops, QRShows, QRLogout, QRExhausted, PassTime
<1>4. UNCHANGED writer => WritersMinted'
  BY DEF WritersMinted, TokensStay, StoreInv, StoreTypeOK
<1>5. ASSUME NEW i \in Instances, NEW u, u = None \/ u \in minted,
             writer' = [writer EXCEPT ![i] = u]
      PROVE  WritersMinted'
  <2>1. \A j \in Instances : writer'[j] = IF j = i THEN u ELSE writer[j]
    BY <1>5 DEF PairingTypes
  <2>2. QED
    BY <1>5, <2>1 DEF WritersMinted, TokensStay, StoreInv, StoreTypeOK
<1>6. ASSUME NEW g \in Sockets, HandlePasskeyRequest(g)
      PROVE  WritersMinted'
  <2>1. sock[g].inst \in Instances
    BY DEF PairingTypes, Socket
  <2>2. QED
    BY <1>4, <1>5, <1>6, <2>1 DEF HandlePasskeyRequest
<1>7. ASSUME NEW k \in Tabs, TabStep(k)
      PROVE  WritersMinted'
  <2>1. CASE UNCHANGED writer
    BY <1>4, <2>1
  <2>2. CASE SendReturns(k)
    <3>1. tab[k].inst \in Instances /\ tab[k].token \in minted
      BY <2>2 DEF SendReturns, RequestsInv, RequestKnows
    <3>2. QED
      BY <1>4, <1>5, <2>2, <3>1 DEF SendReturns, WriteStage
  <2>3. QED
    BY <1>7, <2>1, <2>2 DEF TabStep, OpenTab, Poll, Post, Accepted, SendFails, history
<1>8. WritersMinted'
  BY <1>4, <1>6, <1>7
  DEF Next, vars, pairingVars, history, StartClient, ClientStep, Connect,
      Disconnect, ServerStep, HandleEvent, HandleQR,
      HandlePasskeyConfirmation, HandlePasskeyError, HandlePairSuccess, QRStep,
      QRStops, QRShows, QRLogout, QRExhausted, PassTime
<1>9. QED
  BY <1>3, <1>8

\* What the server has accepted stays accepted.
EarnedStays ==
    \A t \in Tokens :
        /\ earned[t] \in {"responded", "confirmed"}
              => earned'[t] \in {"responded", "confirmed"}
        /\ earned[t] = "confirmed" => earned'[t] = "confirmed"

LEMMA EarnedStep ==
  ASSUME PairingTypes, [Next]_vars
  PROVE  EarnedStays
<1>1. CASE UNCHANGED earned
  BY <1>1 DEF EarnedStays
<1>2. ASSUME NEW k \in Tabs, Accepted(k)
      PROVE  EarnedStays
  BY <1>2 DEF Accepted, EarnedStays, PairingTypes
<1>3. QED
  BY <1>1, <1>2
  DEF Next, vars, pairingVars, history, StartClient, ClientStep, Connect,
      Disconnect, ServerStep, HandleEvent, HandleQR, HandlePasskeyRequest,
      HandlePasskeyConfirmation, HandlePasskeyError, HandlePairSuccess, QRStep,
      QRStops, QRShows, QRLogout, QRExhausted, PassTime, TabStep, OpenTab, Poll,
      Post, SendReturns, SendFails, WriteStage

LEMMA RequestsStep ==
  ASSUME StoreInv, PairingTypes, RequestsInv, TokensMinted, TokensStay, EarnedStays,
         [Next]_vars
  PROVE  RequestsInv'
<1>1. ASSUME NEW s, RequestKnows(s)
      PROVE  RequestKnows(s)'
  <2>1. CASE s.pc = "idle"
    BY <2>1 DEF RequestKnows
  <2>2. CASE s.pc # "idle"
    <3>1. s.token \in Tokens /\ s.token \in minted
      BY <1>1, <2>2 DEF RequestKnows, StoreInv, StoreTypeOK
    <3>2. s.token \in minted' /\ (Live(s.token)' => byToken'[s.token].inst = s.inst)
      BY <1>1, <2>2, <3>1 DEF RequestKnows, TokensStay
    <3>3. EarnedFor(s) => EarnedFor(s)'
      BY <3>1 DEF EarnedFor, EarnedStays
    <3>4. QED
      BY <1>1, <2>2, <3>2, <3>3 DEF RequestKnows
  <2>3. QED
    BY <2>1, <2>2
<1>2. CASE UNCHANGED tab
  BY <1>1, <1>2 DEF RequestsInv
<1>3. ASSUME NEW k \in Tabs, TabStep(k)
      PROVE  RequestsInv'
  <2>1. PICK s : Follows(k, s)
    BY <1>3, TabsStep
  <2>2. \A j \in Tabs : tab'[j] = IF j = k THEN s ELSE tab[j]
    BY <2>1, TabBecomes DEF Follows
  <2>3. tab[k] \in TabType /\ tab \in [Tabs -> TabType] /\ tab'[k] = s
    BY <2>2 DEF PairingTypes
  <2>4. ASSUME s.pc # "idle"
        PROVE  RequestKnows(s)'
    <3>1. CASE Post(k)
      <4>1. /\ s.button # "none" /\ s.pc = "sending" /\ s.token = tab[k].token
            /\ s.inst = byToken[s.token].inst /\ Live(s.token) /\ s.token # None
        <5>1. s = [tab[k] EXCEPT !.pc = "sending",
                                 !.inst = byToken[tab[k].token].inst,
                                 !.to = client[byToken[tab[k].token].inst]]
          BY <2>3, <3>1 DEF Post
        <5>2. /\ tab[k].button # "none" /\ Live(tab[k].token)
              /\ tab[k].token # None
          BY <3>1 DEF Post, Visible
        <5>3. QED
          BY <2>3, <5>1, <5>2 DEF TabType
      <4>2. s.token \in minted /\ s.token \in Tokens
        BY <4>1 DEF TokensMinted, StoreInv, StoreTypeOK
      <4>3. s.inst \in Instances
        BY <4>1, <4>2, StoreAssumption DEF StoreInv, StoreTypeOK, Live, Entry
      <4>4. RequestKnows(s)
        BY <4>1, <4>2, <4>3 DEF RequestKnows
      <4>5. QED
        BY <1>1, <4>4
    <3>2. CASE Accepted(k)
      <4>1. /\ s.pc = "accepted" /\ tab[k].pc = "sending"
            /\ s.token = tab[k].token /\ s.button = tab[k].button
            /\ s.inst = tab[k].inst
        <5>1. s = [tab[k] EXCEPT !.pc = "accepted"] /\ tab[k].pc = "sending"
          BY <2>3, <3>2 DEF Accepted
        <5>2. QED
          BY <2>3, <5>1 DEF TabType
      <4>2. RequestKnows(tab[k])
        BY DEF RequestsInv
      <4>3. s.token \in Tokens
        BY <4>1, <4>2 DEF RequestKnows, StoreInv, StoreTypeOK
      <4>4. EarnedFor(s)'
        BY <2>3, <3>2, <4>1, <4>3 DEF Accepted, EarnedFor, PairingTypes
      <4>5. /\ s.button # "none" /\ s.inst \in Instances
            /\ s.token \in minted'
            /\ Live(s.token)' => byToken'[s.token].inst = s.inst
        <5>1. UNCHANGED storeVars
          BY <3>2 DEF Accepted
        <5>2. QED
          BY <4>1, <4>2, <5>1 DEF RequestKnows, storeVars, Live
      <4>6. QED
        BY <4>1, <4>4, <4>5 DEF RequestKnows
    <3>3. QED
      BY <2>1, <2>4, <3>1, <3>2 DEF Follows
  <2>5. RequestKnows(s)'
    BY <2>4 DEF RequestKnows
  <2>6. \A j \in Tabs : RequestKnows(tab[j])'
    <3> SUFFICES ASSUME NEW j \in Tabs
                 PROVE  RequestKnows(tab[j])'
      OBVIOUS
    <3>1. CASE j = k
      BY <2>2, <2>5, <3>1 DEF RequestKnows, EarnedFor
    <3>2. CASE j # k
      <4>1. PICK r : r = tab[j]
        OBVIOUS
      <4>2. RequestKnows(r)'
        BY <1>1, <4>1 DEF RequestsInv
      <4>3. tab'[j] = r
        BY <2>2, <3>2, <4>1
      <4>4. QED
        BY <4>2, <4>3 DEF RequestKnows, EarnedFor
    <3>3. QED
      BY <3>1, <3>2
  <2>7. QED
    BY <2>6 DEF RequestsInv
<1>4. QED
  BY <1>2, <1>3
  DEF Next, vars, pairingVars, StartClient, ClientStep, Connect,
      Disconnect, ServerStep, HandleEvent, HandleQR, HandlePasskeyRequest,
      HandlePasskeyConfirmation, HandlePasskeyError, HandlePairSuccess, QRStep,
      QRStops, QRShows, QRLogout, QRExhausted, PassTime

\* A step that writes none of the two stages, and whose new ceremonies take no
\* other's place unnoticed, leaves what was earned earned.
LEMMA StagesStay ==
  ASSUME StoreInv, StagesAreEarned, WritersMinted, TokensStay, EarnedStays,
         \A t \in Tokens :
            Live(t)' /\ byToken'[t].stage \in {"awaiting_confirmation", "confirmed"} =>
               /\ Live(t) /\ byToken'[t].stage = byToken[t].stage
               /\ byToken'[t].inst = byToken[t].inst
               /\ writer'[byToken[t].inst] = writer[byToken[t].inst]
  PROVE  StagesAreEarned'
<1> SUFFICES ASSUME NEW t \in Tokens, Live(t)',
                    byToken'[t].stage \in {"awaiting_confirmation", "confirmed"}
             PROVE  EarnedBy(t, writer[byToken[t].inst])'
  BY DEF StagesAreEarned
<1> DEFINE u == writer[byToken[t].inst]
<1>1. /\ Live(t) /\ byToken'[t].stage = byToken[t].stage
      /\ writer'[byToken'[t].inst] = u
  OBVIOUS
<1>2. /\ u \in Tokens /\ Suffices(byToken[t].stage, earned[u])
      /\ u = t \/ ~Live(u)
  BY <1>1 DEF StagesAreEarned, EarnedBy
<1>3. Suffices(byToken[t].stage, earned'[u])
  BY <1>2 DEF Suffices, EarnedStays
<1>4. byToken[t].inst \in Instances
  BY <1>1, StoreAssumption DEF StoreInv, StoreTypeOK, Live, Entry
<1>5. u \in minted
  BY <1>2, <1>4, StoreAssumption DEF WritersMinted
<1>6. u = t \/ ~Live(u)'
  BY <1>2, <1>5 DEF TokensStay
<1>7. QED
  BY <1>1, <1>2, <1>3, <1>6 DEF EarnedBy, Suffices

\* What a writer by instance does to the entries.
LEMMA SetStateStages ==
  ASSUME StoreInv, NEW i \in Instances, NEW stage, NEW key, NEW code, NEW err,
         SetStateByInstance(i, stage, key, code, err)
  PROVE  \A t \in Tokens :
            \/ byToken'[t] = byToken[t]
            \/ /\ HasCeremony(i) /\ t = byInst[i] /\ Live(t)
               /\ byToken'[t].stage = stage /\ byToken'[t].inst = byToken[t].inst
  BY DEF SetStateByInstance, HasCeremony, StoreInv, StoreTypeOK, Live

LEMMA RequestWritesStage ==
  ASSUME StoreInv, PairingTypes, RequestsInv, WritersMinted, StagesAreEarned,
         TokensStay, EarnedStays, NEW k \in Tabs, SendReturns(k)
  PROVE  StagesAreEarned'
<1>1. PICK i \in Instances : i = tab[k].inst
  BY DEF SendReturns, RequestsInv, RequestKnows
<1>2. PICK u : u = tab[k].token
  OBVIOUS
<1>3. PICK stage :
         stage = IF tab[k].button = "auth" THEN "awaiting_confirmation" ELSE "confirmed"
  OBVIOUS
<1>4. \E key, code, err : SetStateByInstance(i, stage, key, code, err)
  BY <1>1, <1>3 DEF SendReturns, WriteStage, SetAwaitingConfirmation, SetConfirmed
<1>5. /\ writer' = IF HasCeremony(i) THEN [writer EXCEPT ![i] = u] ELSE writer
      /\ UNCHANGED <<byInst, minted, earned>>
  BY <1>1, <1>2, <1>4 DEF SendReturns, WriteStage, SetStateByInstance
<1>6. /\ u \in Tokens /\ Suffices(stage, earned[u])
      /\ Live(u) => byToken[u].inst = i
  <2>1. RequestKnows(tab[k]) /\ tab[k].pc = "accepted"
    BY DEF RequestsInv, SendReturns
  <2>2. QED
    BY <1>1, <1>2, <1>3, <2>1
    DEF RequestKnows, EarnedFor, Suffices, StoreInv, StoreTypeOK
<1>7. CASE ~HasCeremony(i)
  <2>1. \A t \in Tokens : byToken'[t] = byToken[t]
    BY <1>4, <1>7, SetStateStages
  <2>2. QED
    BY <1>5, <1>7, <2>1, StagesStay DEF Live
<1>8. CASE HasCeremony(i)
  <2>1. byInst[i] \in Tokens /\ Live(byInst[i]) /\ byToken[byInst[i]].inst = i
    BY <1>8 DEF HasCeremony, StoreInv, StoreTypeOK, IndexesAgree
  <2>2. \A t \in Tokens :
          \/ byToken'[t] = byToken[t]
          \/ t = byInst[i] /\ byToken'[t].stage = stage /\ byToken'[t].inst = i
    BY <1>4, <2>1, SetStateStages
  <2>3. writer' = [writer EXCEPT ![i] = u]
    BY <1>5, <1>8
  <2> SUFFICES ASSUME NEW t \in Tokens, Live(t)',
                      byToken'[t].stage \in {"awaiting_confirmation", "confirmed"}
               PROVE  EarnedBy(t, writer[byToken[t].inst])'
    BY DEF StagesAreEarned
  <2>4. CASE t = byInst[i]
    <3>1. byToken'[t].stage = stage \/ byToken'[t] = byToken[t]
      BY <2>2
    <3>2. byToken'[t].inst = i /\ writer'[i] = u
      BY <2>1, <2>2, <2>3, <2>4 DEF PairingTypes
    <3>3. u = t \/ ~Live(u)'
      <4>1. Live(u) => u = t
        BY <1>6, <2>4 DEF StoreInv, IndexesAgree
      <4>2. u \in minted
        BY <1>2 DEF SendReturns, RequestsInv, RequestKnows
      <4>3. QED
        BY <1>6, <4>1, <4>2 DEF TokensStay
    <3>4. byToken'[t].stage = stage
      <4>1. byToken'[t] = [inst |-> byToken[t].inst, stage |-> stage,
                           key |-> byToken'[t].key, code |-> byToken'[t].code,
                           err |-> byToken'[t].err, expires |-> byToken'[t].expires]
        BY <1>4, <1>8, <2>1, <2>4 DEF SetStateByInstance, StoreInv, StoreTypeOK
      <4>2. QED
        BY <4>1
    <3>5. QED
      BY <1>5, <1>6, <3>2, <3>3, <3>4 DEF EarnedBy
  <2>5. CASE t # byInst[i]
    <3>1. byToken'[t] = byToken[t] /\ Live(t)
      BY <2>2, <2>5 DEF Live
    <3>2. byToken[t].inst \in Instances /\ byToken[t].inst # i
      BY <2>5, <3>1, StoreAssumption
      DEF StoreInv, StoreTypeOK, IndexesAgree, Live, Entry
    <3>3. writer'[byToken'[t].inst] = writer[byToken[t].inst]
      BY <2>3, <3>1, <3>2 DEF PairingTypes
    <3> DEFINE v == writer[byToken[t].inst]
    <3>4. EarnedBy(t, v)
      BY <3>1 DEF StagesAreEarned
    <3>5. v \in minted
      BY <3>2, <3>4, StoreAssumption DEF WritersMinted, EarnedBy
    <3>6. QED
      BY <1>5, <3>1, <3>3, <3>4, <3>5 DEF EarnedBy, TokensStay
  <2>6. QED
    BY <2>4, <2>5
<1>9. QED
  BY <1>7, <1>8

LEMMA StagesStep ==
  ASSUME StoreInv, PairingTypes, SocketsInv, RequestsInv, WritersMinted,
         StagesAreEarned, TokensStay, EarnedStays, [Next]_vars
  PROVE  StagesAreEarned'
<1> DEFINE Stay == \A t \in Tokens :
              Live(t)' /\ byToken'[t].stage \in {"awaiting_confirmation", "confirmed"} =>
                 Live(t) /\ byToken'[t] = byToken[t]
<1>1. ASSUME Stay, UNCHANGED writer
      PROVE  StagesAreEarned'
  BY <1>1, StagesStay
<1>2. ASSUME UNCHANGED storeVars \/ Lookup \/ Tick
      PROVE  Stay
  BY <1>2 DEF storeVars, Lookup, Tick, PrunedTokens, Live
<1>3. ASSUME NEW i \in Instances, SetConfirmation(i) \/ SetError(i)
      PROVE  Stay
  <2>1. PICK stage \in {"confirmation", "error"} :
          \E key, code, err : SetStateByInstance(i, stage, key, code, err)
    BY <1>3 DEF SetConfirmation, SetError
  <2>2. QED
    BY <2>1, SetStateStages DEF Live
<1>4. ASSUME NEW i \in Instances, Clear(i)
      PROVE  Stay
  BY <1>4 DEF Clear, Live
<1>5. ASSUME NEW g \in Sockets, HandleEvent(g)
      PROVE  StagesAreEarned'
  <2>1. PICK i \in Instances : i = sock[g].inst
    BY DEF PairingTypes, Socket
  <2>2. ASSUME NEW t \in Tokens, Start(i, t), writer' = [writer EXCEPT ![i] = None]
        PROVE  StagesAreEarned'
    <3>1. \A u \in Tokens :
            Live(u)' /\ byToken'[u].stage \in {"awaiting_confirmation", "confirmed"} =>
               Live(u) /\ byToken'[u] = byToken[u] /\ byToken[u].inst # i
      BY <2>2, StartOpens
    <3>2. \A u \in Tokens : Live(u) => byToken[u].inst \in Instances
      BY StoreAssumption DEF StoreInv, StoreTypeOK, Live, Entry
    <3>3. \A j \in Instances : j # i => writer'[j] = writer[j]
      BY <2>2 DEF PairingTypes
    <3>4. QED
      BY <3>1, <3>2, <3>3, StagesStay
  <2>3. QED
    BY <1>1, <1>2, <1>3, <1>4, <1>5, <2>1, <2>2
    DEF HandleEvent, HandleQR, HandlePasskeyRequest, HandlePasskeyConfirmation,
        HandlePasskeyError, HandlePairSuccess, history
<1>6. ASSUME NEW k \in Tabs, TabStep(k)
      PROVE  StagesAreEarned'
  <2>1. CASE SendReturns(k)
    BY <2>1, RequestWritesStage
  <2>2. CASE SendFails(k)
    <3>1. tab[k].inst \in Instances
      BY <2>2 DEF SendFails, RequestsInv, RequestKnows
    <3>2. QED
      BY <1>1, <1>3, <2>2, <3>1 DEF SendFails, history
  <2>3. QED
    BY <1>1, <1>2, <1>6, <2>1, <2>2
    DEF TabStep, OpenTab, Poll, Post, Accepted, history
<1>7. CASE \/ UNCHANGED vars \/ PassTime
           \/ \E i \in Instances : StartClient(i)
           \/ \E g \in Sockets : ClientStep(g) \/ ServerStep(g) \/ QRStep(g)
  <2>1. UNCHANGED writer /\ (UNCHANGED storeVars \/ Tick)
    BY <1>7 DEF vars, pairingVars, PassTime, StartClient, ClientStep,
                Connect, Disconnect, ServerStep, QRStep, QRStops, QRShows, QRLogout,
                QRExhausted, history
  <2>2. QED
    BY <1>1, <1>2, <2>1
<1>8. QED
  BY <1>5, <1>6, <1>7 DEF Next

-----------------------------------------------------------------------------
(* The theorems.                                                            *)

LEMMA PairingInitInv == PairingInit => PairingInv
<1> SUFFICES ASSUME PairingInit
             PROVE  PairingInv
  OBVIOUS
<1>1. StoreInv
  BY StoreInitInv DEF PairingInit
<1>2. \A t \in Tokens : ~Live(t)
  BY DEF PairingInit, StoreInit, Live
<1>3. OpenersInv /\ StagesAreEarned
  BY <1>2 DEF OpenersInv, StagesAreEarned
<1>4. TokensMinted /\ RequestsInv /\ WritersMinted
  BY DEF PairingInit, TokensMinted, RequestsInv, RequestKnows, WritersMinted
<1>5. QED
  BY <1>1, <1>3, <1>4, PairingInitTypes DEF PairingInv

LEMMA PairingStepInv == PairingInv /\ [Next]_vars => PairingInv'
<1> SUFFICES ASSUME PairingInv, [Next]_vars
             PROVE  PairingInv'
  OBVIOUS
<1> USE DEF PairingInv
<1>1. StoreInv' /\ TokensStay
  BY StoreSteps, StoreStepInv, StoreKeepsTokens
<1>2. PairingTypes' /\ SocketsInv' /\ OpenersInv'
  BY TypesStep, SocketsKeep, OpenersStep
<1>3. EarnedStays
  BY EarnedStep
<1>4. TokensMinted' /\ WritersMinted' /\ RequestsInv'
  BY <1>1, <1>3, MintedStep, RequestsStep
<1>5. StagesAreEarned'
  BY <1>1, <1>3, StagesStep
<1>6. QED
  BY <1>1, <1>2, <1>4, <1>5

\* The invariant of pairing, whatever clients of an instance overlap: the store
\* is consistent, a socket reports nothing after its pairing, and a request
\* under way has earned what it is about to write.
THEOREM PairingSafety == Spec => []PairingInv
  BY PairingInitInv, PairingStepInv, PTL DEF Spec

\* The state is well-typed, and a client never shows more codes than the batch
\* it was given: the rotation stops at its end.
THEOREM PairingTypeInvariance == Spec => []PairingTypeOK
<1>1. PairingInv => PairingTypeOK
  BY DEF PairingInv, StoreInv, PairingTypes, TabType, PairingTypeOK
<1>2. QED
  BY <1>1, PairingSafety, PTL

\* No ceremony outlives the pairing of the client it was opened for, whichever
\* clients of the instance it overlaps with and however late its requests and
\* its events are.
THEOREM PairingEndsCeremony == Spec => []NoCeremonyAfterPairing
<1>1. PairingInv => NoCeremonyAfterPairing
  BY DEF PairingInv, OpenersInv, OpenedFor, NoCeremonyAfterPairing
<1>2. QED
  BY <1>1, PairingSafety, PTL

\* A stage past the challenge was earned by the ceremony it is the stage of, or by
\* one of the instance that is over and whose request came late.
THEOREM StagesEarned == Spec => []StagesAreEarned
<1>1. PairingInv => StagesAreEarned
  BY DEF PairingInv
<1>2. QED
  BY <1>1, PairingSafety, PTL
=============================================================================
