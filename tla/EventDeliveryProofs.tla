-------------------------- MODULE EventDeliveryProofs --------------------------
(***************************************************************************)
(* Theorems about EventDelivery, for every number of deliveries, retries,  *)
(* connections and every set of settings.                                  *)
(***************************************************************************)
EXTENDS EventDelivery, TLAPS

\* The stages from which a delivery has yet to be done with a destination.
Before(s) ==
    IF s = "amqp" THEN {"idle"} \cup AmqpStages
    ELSE IF s = "nats" THEN {"idle", "nats"} \cup AmqpStages
    ELSE IF s = "websocket" THEN {"idle", "nats", "websocket"} \cup AmqpStages
    ELSE {"idle", "nats", "websocket", "hook"} \cup AmqpStages

\* A destination whose turn is not over has no verdict and no copy.
Fresh ==
    \A d \in Deliveries, s \in Sinks :
        task[d].pc \in Before(s) => verdict[d][s] = "none" /\ copies[d][s] = 0

\* A webhook goroutine at work has no verdict, and enough attempts are behind it.
PostsCounted ==
    \A d \in Deliveries, u \in Hooks :
        post[d][u] > 0 =>
            /\ task[d].pc = "over"
            /\ verdict[d][u] = "none"
            /\ copies[d][u] + post[d][u] <= WebhookTries

DeliveryInv == DeliveryTypeOK /\ Fresh /\ PostsCounted /\ NilIsSomeoneElses

\* Delivery d goes on and keeps the contract; the others stay where they are.
Advances(d) ==
    /\ task' \in [Deliveries -> TaskState]
    /\ copies' \in [Deliveries -> [Sinks -> Nat]]
    /\ verdict' \in [Deliveries -> [Sinks -> {"none", "sent", "unsent", "error"}]]
    /\ Fresh' /\ PostsCounted'
    /\ [Contract!ContractNext]_(Contract!contractVars)
    /\ \A e \in Deliveries \ {d} : task'[e] = task[e]

Chain == {"amqp", "nats", "websocket"}

\* The next destination comes after this one.
LEMMA AfterIsLater ==
    ASSUME NEW sink \in Chain, NEW s
    PROVE  /\ After(sink, s) \in Stages \ (AmqpStages \cup {"idle"})
           /\ After(sink, s) \notin Before(sink)
           /\ \A r \in Sinks : After(sink, s) \in Before(r) => Before(sink) \subseteq Before(r)
BY DEF Chain, After, FromNats, FromWebsocket, FromHook, Before, Stages,
       AmqpStages, Sinks, Hooks

\* A Produce that returns keeps the contract.
LEMMA ReportAdvances ==
    ASSUME DeliveryInv, NEW d \in Deliveries, NEW sink \in Chain,
           NEW v \in {"sent", "unsent", "error"}, NEW k \in 0..1,
           v = "unsent" => k = 0,
           task[d].pc \in Before(sink),
           Report(d, sink, v, k), post' = post
    PROVE  Advances(d) /\ task'[d].pc # "channel"
<1> DEFINE next == IF v = "error" /\ task[d].set.kind = "instance" THEN "over"
                    ELSE After(sink, task[d].set)
<1>1. /\ next \in Stages \ (AmqpStages \cup {"idle"})
      /\ next \notin Before(sink)
      /\ \A r \in Sinks : next \in Before(r) => Before(sink) \subseteq Before(r)
  BY AfterIsLater DEF Before, Stages, AmqpStages
<1> HIDE DEF next
<1>2. /\ sink \in Sinks /\ sink \notin Hooks
      /\ verdict[d][sink] = "none" /\ copies[d][sink] = 0
  BY DEF DeliveryInv, Fresh, Chain, Sinks, Hooks
<1>3. task[d] \in TaskState
  BY DEF DeliveryInv, DeliveryTypeOK
<1>4. /\ task' = [task EXCEPT ![d] = Task(next, task[d].set)]
      /\ copies' = [copies EXCEPT ![d][sink] = @ + k]
      /\ verdict' = [verdict EXCEPT ![d][sink] = v]
  BY DEF Report, next
<1>5. Task(next, task[d].set) \in TaskState /\ Task(next, task[d].set).pc = next
  BY <1>1, <1>3, DeliveryAssumption DEF Task, TaskState
<1>6. /\ task' \in [Deliveries -> TaskState] /\ task'[d].pc = next
      /\ \A e \in Deliveries \ {d} : task'[e] = task[e]
  BY <1>4, <1>5 DEF DeliveryInv, DeliveryTypeOK
<1>7. /\ copies' \in [Deliveries -> [Sinks -> Nat]]
      /\ verdict' \in [Deliveries -> [Sinks -> {"none", "sent", "unsent", "error"}]]
      /\ \A e \in Deliveries, r \in Sinks : e # d \/ r # sink =>
            copies'[e][r] = copies[e][r] /\ verdict'[e][r] = verdict[e][r]
  BY <1>2, <1>4 DEF DeliveryInv, DeliveryTypeOK
<1>8. Fresh'
  <2> SUFFICES ASSUME NEW e \in Deliveries, NEW r \in Sinks,
                      task'[e].pc \in Before(r)
               PROVE  verdict'[e][r] = "none" /\ copies'[e][r] = 0
    BY DEF Fresh
  <2>1. CASE e # d
    BY <2>1, <1>6, <1>7 DEF DeliveryInv, Fresh
  <2>2. CASE e = d
    BY <2>2, <1>1, <1>6, <1>7 DEF DeliveryInv, Fresh
  <2> QED BY <2>1, <2>2
<1>9. PostsCounted'
  <2> SUFFICES ASSUME NEW e \in Deliveries, NEW u \in Hooks, post[e][u] > 0
               PROVE  /\ task'[e].pc = "over" /\ verdict'[e][u] = "none"
                      /\ copies'[e][u] + post[e][u] <= WebhookTries
    BY DEF PostsCounted
  <2>1. u \in Sinks /\ u # sink
    BY <1>2 DEF Sinks
  <2>2. task[e].pc = "over"
    BY DEF DeliveryInv, PostsCounted
  <2>3. e # d
    BY <2>2 DEF Before, AmqpStages
  <2> QED BY <2>1, <2>3, <1>6, <1>7 DEF DeliveryInv, PostsCounted
<1>10. Contract!ContractNext
  <2>1. Contract!Progress(d, sink, k, v)
    BY <1>2, <1>4 DEF Contract!Progress
  <2> QED BY <2>1, <1>2 DEF Contract!ContractNext, Contract!Verdicts
<1> QED BY <1>1, <1>6, <1>7, <1>8, <1>9, <1>10 DEF Advances, AmqpStages

\* A goroutine that stays with its destination, or has none yet, tells nothing.
LEMMA ContinueAdvances ==
    ASSUME DeliveryInv, NEW d \in Deliveries, NEW t \in TaskState,
           task[d].pc # "over",
           \A r \in Sinks : t.pc \in Before(r) => task[d].pc \in Before(r),
           Continues(d, t), post' = post
    PROVE  Advances(d) /\ task'[d] = t
<1>1. /\ task' = [task EXCEPT ![d] = t]
      /\ copies' = copies /\ verdict' = verdict
  BY DEF Continues
<1>2. /\ task' \in [Deliveries -> TaskState] /\ task'[d] = t
      /\ \A e \in Deliveries \ {d} : task'[e] = task[e]
  BY <1>1 DEF DeliveryInv, DeliveryTypeOK
<1>3. Fresh'
  <2> SUFFICES ASSUME NEW e \in Deliveries, NEW r \in Sinks,
                      task'[e].pc \in Before(r)
               PROVE  verdict[e][r] = "none" /\ copies[e][r] = 0
    BY <1>1 DEF Fresh
  <2>1. task[e].pc \in Before(r)
    BY <1>2
  <2> QED BY <2>1 DEF DeliveryInv, Fresh
<1>4. PostsCounted'
  BY <1>1, <1>2 DEF DeliveryInv, PostsCounted
<1>5. UNCHANGED Contract!contractVars
  BY <1>1 DEF Contract!contractVars
<1> QED BY <1>1, <1>2, <1>3, <1>4, <1>5 DEF Advances, DeliveryInv, DeliveryTypeOK

\* Every stage of the RabbitMQ producer comes before every verdict.
LEMMA AmqpComesFirst ==
    ASSUME NEW stage \in AmqpStages, NEW r \in Sinks
    PROVE  stage \in Before(r)
BY DEF Before

\* A round that ends keeps the contract, and does not open a channel itself.
LEMMA RoundOverAdvances ==
    ASSUME DeliveryInv, NEW d \in Deliveries, task[d].pc \in AmqpStages,
           NEW channel \in 0..MaxConns, NEW open \in BOOLEAN,
           NEW failed \in BOOLEAN, RoundOver(d, channel, open, failed),
           post' = post
    PROVE  Advances(d) /\ task'[d].pc # "channel"
<1>1. task[d] \in TaskState
  BY DEF DeliveryInv, DeliveryTypeOK
<1>2. "amqp" \in Chain /\ "amqp" \in Sinks /\ task[d].pc \in Before("amqp")
  BY AmqpComesFirst DEF Chain, Sinks
<1>3. CASE task[d].round < MaxRetries
  <2> DEFINE t == Round(d, task[d].round + 1, channel, open)
  <2>1. t \in TaskState /\ t.pc = "publish"
    BY <1>1, <1>3, DeliveryAssumption DEF Round, TaskState, Stages, AmqpStages
  <2>2. Continues(d, t)
    BY <1>3 DEF RoundOver
  <2> HIDE DEF t
  <2>3. \A r \in Sinks : task[d].pc \in Before(r)
    BY AmqpComesFirst
  <2>4. task[d].pc # "over"
    BY DEF AmqpStages
  <2>5. Advances(d) /\ task'[d] = t
    BY <2>1, <2>2, <2>3, <2>4, ContinueAdvances
  <2> QED BY <2>1, <2>5
<1>4. CASE ~(task[d].round < MaxRetries)
  <2> DEFINE v == IF failed THEN "error" ELSE "unsent"
  <2>1. Report(d, "amqp", v, 0) /\ v \in {"sent", "unsent", "error"}
    BY <1>4 DEF RoundOver
  <2> HIDE DEF v
  <2> QED BY <1>2, <2>1, ReportAdvances
<1> QED BY <1>3, <1>4

-----------------------------------------------------------------------------
(* The steps. *)

Kept == DeliveryInv' /\ [Contract!ContractNext]_(Contract!contractVars)

\* An advance that leaves the connection alone, or makes it somebody's nil.
LEMMA AdvanceKeeps ==
    ASSUME DeliveryInv, NEW d \in Deliveries, Advances(d),
           task'[d].pc = "channel" => conn' # 0,
           \/ conn' = conn /\ nilBy' = nilBy
           \/ conn' \in Conns /\ nilBy' = None
           \/ conn' = 0 /\ nilBy' = d,
           link' \in [Conns -> {"unused", "up", "broken", "closed"}],
           UNCHANGED <<amqpUrl, natsConn, post>>, crashed' \in BOOLEAN
    PROVE  Kept
<1>1. DeliveryTypeOK'
  BY DeliveryAssumption DEF DeliveryInv, DeliveryTypeOK, Advances, Conns
<1>2. NilIsSomeoneElses'
  <2> SUFFICES ASSUME NEW e \in Deliveries, task'[e].pc = "channel", conn' = 0
               PROVE  nilBy' \in Deliveries \ {e}
    BY DEF NilIsSomeoneElses
  <2>1. e # d /\ task[e].pc = "channel"
    BY DEF Advances
  <2> QED BY <2>1 DEF DeliveryInv, NilIsSomeoneElses, Conns
<1> QED BY <1>1, <1>2 DEF Kept, DeliveryInv, Advances

\* The steps outside of the RabbitMQ producer that go on with the chain.
LEMMA ChainSteps ==
    ASSUME DeliveryInv, NEW d \in Deliveries, Begin(d) \/ Nats(d) \/ Websocket(d)
    PROVE  Kept
<1>1. CASE Begin(d)
  <2>1. PICK s \in Settings : Continues(d, Task(FromAmqp(s), s))
    BY <1>1 DEF Begin
  <2>2. /\ Task(FromAmqp(s), s) \in TaskState
        /\ Task(FromAmqp(s), s).pc # "channel"
    BY DeliveryAssumption DEF Task, TaskState, Stages, AmqpStages, FromAmqp,
       FromNats, FromWebsocket, FromHook
  <2>3. task[d].pc = "idle" /\ \A r \in Sinks : task[d].pc \in Before(r)
    BY <1>1 DEF Begin, At, Before
  <2>4. Advances(d) /\ task'[d].pc # "channel"
    BY <1>1, <2>1, <2>2, <2>3, ContinueAdvances DEF Begin
  <2> QED BY <1>1, <2>4, AdvanceKeeps DEF Begin, amqpVars, DeliveryInv, DeliveryTypeOK
<1>2. CASE Nats(d)
  <2>1. PICK v \in {"sent", "unsent", "error"}, k \in 0..1 :
           Report(d, "nats", v, k) /\ (v = "unsent" => k = 0)
    BY <1>2 DEF Nats
  <2>2. "nats" \in Chain /\ task[d].pc \in Before("nats")
    BY <1>2 DEF Chain, Nats, At, Before
  <2>3. Advances(d) /\ task'[d].pc # "channel"
    BY <1>2, <2>1, <2>2, ReportAdvances DEF Nats
  <2> QED BY <1>2, <2>3, AdvanceKeeps DEF Nats, amqpVars, DeliveryInv, DeliveryTypeOK
<1>3. CASE Websocket(d)
  <2>1. PICK v \in {"sent", "unsent", "error"}, k \in 0..1 :
           Report(d, "websocket", v, k) /\ (v = "unsent" => k = 0)
    BY <1>3 DEF Websocket
  <2>2. "websocket" \in Chain /\ task[d].pc \in Before("websocket")
    BY <1>3 DEF Chain, Websocket, At, Before
  <2>3. Advances(d) /\ task'[d].pc # "channel"
    BY <1>3, <2>1, <2>2, ReportAdvances DEF Websocket
  <2> QED BY <1>3, <2>3, AdvanceKeeps DEF Websocket, amqpVars, DeliveryInv, DeliveryTypeOK
<1> QED BY <1>1, <1>2, <1>3

\* Every step of the RabbitMQ producer.
LEMMA AmqpSteps ==
    ASSUME DeliveryInv, NEW d \in Deliveries, AmqpStep(d)
    PROVE  Kept
<1>1. task[d] \in TaskState
  BY DEF DeliveryInv, DeliveryTypeOK
<1>2. /\ conn \in 0..MaxConns /\ amqpUrl \in BOOLEAN /\ crashed \in BOOLEAN
      /\ link \in [Conns -> {"unused", "up", "broken", "closed"}]
  BY DEF DeliveryInv, DeliveryTypeOK
<1>3. "amqp" \in Chain
  BY DEF Chain
<1>4. ASSUME NEW stage \in AmqpStages, task[d].pc = stage
      PROVE  /\ task[d].pc # "over" /\ task[d].pc \in Before("amqp")
             /\ \A r \in Sinks : task[d].pc \in Before(r)
  BY <1>4, AmqpComesFirst DEF AmqpStages, Sinks
<1>5. ASSUME NEW v \in {"sent", "unsent", "error"}, NEW k \in 0..1,
             v = "unsent" => k = 0, task[d].pc \in AmqpStages,
             Report(d, "amqp", v, k), post' = post
      PROVE  Advances(d) /\ task'[d].pc # "channel"
  BY <1>3, <1>4, <1>5, ReportAdvances
<1>6. ASSUME NEW t \in TaskState, task[d].pc \in AmqpStages, Continues(d, t),
             post' = post
      PROVE  Advances(d) /\ task'[d] = t
  BY <1>4, <1>6, ContinueAdvances
<1>7. CASE AmqpEnsure(d)
  <2>1. task[d].pc \in AmqpStages /\ post' = post
    BY <1>7 DEF AmqpEnsure, At, AmqpStages
  <2>2. CASE amqpUrl
    <3> DEFINE t == [task[d] EXCEPT !.pc = IF IsOpen(conn) THEN "channel" ELSE "dial"]
    <3>1. t \in TaskState
      BY <1>1 DEF TaskState, Stages, AmqpStages
    <3>2. Continues(d, t)
      BY <1>7, <2>2 DEF AmqpEnsure, Continues
    <3>3. t.pc = "channel" => conn # 0
      BY <1>1 DEF TaskState, IsOpen
    <3> HIDE DEF t
    <3>4. Advances(d) /\ task'[d] = t
      BY <1>6, <2>1, <3>1, <3>2
    <3> QED BY <1>2, <1>7, <3>3, <3>4, AdvanceKeeps DEF AmqpEnsure, amqpVars
  <2>3. CASE ~amqpUrl
    <3>1. Report(d, "amqp", "error", 0)
      BY <1>7, <2>3 DEF AmqpEnsure
    <3>2. Advances(d) /\ task'[d].pc # "channel"
      BY <1>5, <2>1, <3>1
    <3> QED BY <1>2, <1>7, <3>2, AdvanceKeeps DEF AmqpEnsure, amqpVars
  <2> QED BY <2>2, <2>3
<1>8. CASE AmqpDials(d)
  <2> DEFINE t == [task[d] EXCEPT !.pc = "channel"]
  <2>1. t \in TaskState
    BY <1>1 DEF TaskState, Stages, AmqpStages
  <2>2. Continues(d, t) /\ task[d].pc \in AmqpStages /\ post' = post
    BY <1>8 DEF AmqpDials, Continues, At, AmqpStages
  <2> HIDE DEF t
  <2>3. Advances(d)
    BY <1>6, <2>1, <2>2
  <2>4. conn' \in Conns /\ conn' # 0 /\ nilBy' = None
    BY <1>8 DEF AmqpDials, Conns
  <2>5. link' \in [Conns -> {"unused", "up", "broken", "closed"}]
    BY <1>2, <1>8 DEF AmqpDials
  <2> QED BY <1>2, <1>8, <2>3, <2>4, <2>5, AdvanceKeeps DEF AmqpDials
<1>9. CASE AmqpDialFails(d)
  <2>1. /\ task[d].pc \in AmqpStages /\ task[d].pc = "dial" /\ post' = post
    BY <1>9 DEF AmqpDialFails, At, AmqpStages
  <2>2. Advances(d) /\ task'[d].pc # "channel"
    <3>1. CASE task[d].dials + 1 < DialTries
      <4> DEFINE t == [task[d] EXCEPT !.dials = @ + 1]
      <4>1. t \in TaskState /\ t.pc = "dial"
        BY <1>1, <2>1, <3>1, DeliveryAssumption DEF TaskState
      <4>2. Continues(d, t)
        BY <1>9, <3>1 DEF AmqpDialFails, Continues
      <4> HIDE DEF t
      <4> QED BY <1>6, <2>1, <4>1, <4>2
    <3>2. CASE ~(task[d].dials + 1 < DialTries) /\ task[d].round = 0
      <4>1. Report(d, "amqp", "error", 0)
        BY <1>9, <3>2 DEF AmqpDialFails
      <4> QED BY <1>5, <2>1, <4>1
    <3>3. CASE ~(task[d].dials + 1 < DialTries) /\ task[d].round # 0
      <4>1. RoundOver(d, task[d].channel, task[d].open, TRUE)
        BY <1>9, <3>3 DEF AmqpDialFails
      <4>2. task[d].channel \in 0..MaxConns /\ task[d].open \in BOOLEAN
        BY <1>1 DEF TaskState
      <4> QED BY <2>1, <4>1, <4>2, RoundOverAdvances
    <3> QED BY <3>1, <3>2, <3>3
  <2> QED BY <1>2, <1>9, <2>2, AdvanceKeeps DEF AmqpDialFails
<1>10. CASE AmqpChannel(d)
  <2>1. task[d].pc \in AmqpStages /\ post' = post
    BY <1>10 DEF AmqpChannel, At, AmqpStages
  <2>2. Advances(d) /\ task'[d].pc # "channel"
    <3>1. CASE task[d].round > 0
      <4>1. RoundOver(d, conn, TRUE, FALSE)
        BY <1>10, <3>1 DEF AmqpChannel
      <4> QED BY <1>2, <2>1, <4>1, RoundOverAdvances
    <3>2. CASE ~(task[d].round > 0) /\ task[d].set.amqp \in {"enabled", "global"}
      <4>1. Continues(d, Round(d, 1, conn, TRUE))
        BY <1>10, <3>2 DEF AmqpChannel
      <4>2. Round(d, 1, conn, TRUE) \in TaskState /\ Round(d, 1, conn, TRUE).pc = "publish"
        BY <1>1, <1>2, DeliveryAssumption DEF Round, TaskState, Stages, AmqpStages
      <4> QED BY <1>6, <2>1, <4>1, <4>2
    <3>3. CASE ~(task[d].round > 0) /\ task[d].set.amqp \notin {"enabled", "global"}
      <4>1. Report(d, "amqp", "unsent", 0)
        BY <1>10, <3>3 DEF AmqpChannel
      <4> QED BY <1>5, <2>1, <4>1
    <3> QED BY <3>1, <3>2, <3>3
  <2> QED BY <1>2, <1>10, <2>2, AdvanceKeeps DEF AmqpChannel, amqpVars
<1>11. CASE AmqpChannelFails(d)
  <2>1. task[d].pc \in AmqpStages /\ post' = post
    BY <1>11 DEF AmqpChannelFails, At, AmqpStages
  <2>2. Advances(d) /\ task'[d].pc # "channel"
    <3>1. CASE task[d].round = 0
      <4>1. Report(d, "amqp", "error", 0)
        BY <1>11, <3>1 DEF AmqpChannelFails
      <4> QED BY <1>5, <2>1, <4>1
    <3>2. CASE task[d].round # 0
      <4>1. RoundOver(d, 0, FALSE, TRUE)
        BY <1>11, <3>2 DEF AmqpChannelFails
      <4>2. 0 \in 0..MaxConns
        BY DeliveryAssumption
      <4> QED BY <2>1, <4>1, <4>2, RoundOverAdvances
    <3> QED BY <3>1, <3>2
  <2> QED BY <1>2, <1>11, <2>2, AdvanceKeeps DEF AmqpChannelFails, amqpVars
<1>12. CASE AmqpCrashes(d)
  BY <1>12 DEF AmqpCrashes, amqpVars, Kept, DeliveryInv, DeliveryTypeOK, Fresh,
     PostsCounted, NilIsSomeoneElses, Contract!contractVars
<1>13. CASE AmqpPublishes(d)
  <2>1. task[d].pc \in AmqpStages /\ post' = post
    BY <1>13 DEF AmqpPublishes, At, AmqpStages
  <2>2. PICK k \in 0..1 : Report(d, "amqp", "sent", k)
    BY <1>13 DEF AmqpPublishes
  <2>3. Advances(d) /\ task'[d].pc # "channel"
    BY <1>5, <2>1, <2>2
  <2> QED BY <1>2, <1>13, <2>3, AdvanceKeeps DEF AmqpPublishes, amqpVars
<1>14. CASE AmqpWriteFails(d)
  <2>1. task[d].pc \in AmqpStages /\ post' = post
    BY <1>14 DEF AmqpWriteFails, At, AmqpStages
  <2>2. /\ RoundOver(d, task[d].channel, TRUE, TRUE)
        /\ task[d].channel \in 0..MaxConns
    BY <1>1, <1>14 DEF AmqpWriteFails, TaskState
  <2>3. Advances(d) /\ task'[d].pc # "channel"
    BY <2>1, <2>2, RoundOverAdvances
  <2> QED BY <1>2, <1>14, <2>3, AdvanceKeeps DEF AmqpWriteFails, amqpVars
<1>15. CASE AmqpClosed(d)
  <2> DEFINE t == [task[d] EXCEPT !.pc = "amqp"]
  <2>1. t \in TaskState /\ t.pc = "amqp"
    BY <1>1 DEF TaskState, Stages, AmqpStages
  <2>2. Continues(d, t) /\ task[d].pc \in AmqpStages /\ post' = post
    BY <1>15 DEF AmqpClosed, At, AmqpStages
  <2> HIDE DEF t
  <2>3. Advances(d) /\ task'[d].pc # "channel"
    BY <1>6, <2>1, <2>2
  <2> QED BY <1>2, <1>15, <2>3, AdvanceKeeps DEF AmqpClosed, amqpVars
<1> QED BY <1>7, <1>8, <1>9, <1>10, <1>11, <1>12, <1>13, <1>14, <1>15 DEF AmqpStep

\* A post to u: k copies arrive, v is the verdict and n attempts are left.
Posts(d, u, k, v, n) ==
    /\ copies' = [copies EXCEPT ![d][u] = @ + k]
    /\ verdict' = [verdict EXCEPT ![d][u] = v]
    /\ post' = [post EXCEPT ![d][u] = n]
    /\ n < post[d][u]
    /\ n > 0 => v = "none"
    /\ v = "sent" => k = 1

\* The webhooks: their goroutines are started, and post.
LEMMA HookSteps ==
    ASSUME DeliveryInv, NEW d \in Deliveries,
           Hook(d) \/ \E u \in Hooks : PostAccepted(d, u) \/ PostFails(d, u)
    PROVE  Kept
<1>1. CASE Hook(d)
  <2> DEFINE t == Task("over", task[d].set)
             left == [u \in Hooks |-> IF u = "hook" \/ GlobalHook THEN WebhookTries ELSE 0]
  <2>1. task[d] \in TaskState /\ task[d].pc = "hook"
    BY <1>1 DEF DeliveryInv, DeliveryTypeOK, Hook, At
  <2>2. t \in TaskState /\ t.pc = "over"
    BY <2>1, DeliveryAssumption DEF Task, TaskState, Stages, AmqpStages
  <2>3. left \in [Hooks -> 0..WebhookTries]
    BY DeliveryAssumption
  <2>4. /\ task' = [task EXCEPT ![d] = t] /\ post' = [post EXCEPT ![d] = left]
        /\ UNCHANGED <<amqpVars, natsConn, crashed, copies, verdict>>
    BY <1>1 DEF Hook, Continues
  <2> HIDE DEF t, left
  <2>5. /\ task' \in [Deliveries -> TaskState] /\ task'[d].pc = "over"
        /\ \A e \in Deliveries \ {d} : task'[e] = task[e] /\ post'[e] = post[e]
        /\ post' \in [Deliveries -> [Hooks -> 0..WebhookTries]]
    BY <2>2, <2>3, <2>4 DEF DeliveryInv, DeliveryTypeOK
  <2>6. DeliveryTypeOK'
    BY <2>4, <2>5 DEF DeliveryInv, DeliveryTypeOK, amqpVars
  <2>7. Fresh'
    <3> SUFFICES ASSUME NEW e \in Deliveries, NEW r \in Sinks,
                        task'[e].pc \in Before(r)
                 PROVE  verdict[e][r] = "none" /\ copies[e][r] = 0
      BY <2>4 DEF Fresh
    <3>1. e # d
      BY <2>5 DEF Before, AmqpStages
    <3> QED BY <2>5, <3>1 DEF DeliveryInv, Fresh
  <2>8. PostsCounted'
    <3> SUFFICES ASSUME NEW e \in Deliveries, NEW u \in Hooks, post'[e][u] > 0
                 PROVE  /\ task'[e].pc = "over" /\ verdict[e][u] = "none"
                        /\ copies[e][u] + post'[e][u] <= WebhookTries
      BY <2>4 DEF PostsCounted
    <3>1. CASE e # d
      BY <2>5, <3>1 DEF DeliveryInv, PostsCounted
    <3>2. CASE e = d
      <4>1. u \in Sinks /\ task[d].pc \in Before(u)
        BY <2>1 DEF Sinks, Hooks, Before
      <4>2. verdict[d][u] = "none" /\ copies[d][u] = 0
        BY <4>1 DEF DeliveryInv, Fresh
      <4> QED BY <2>5, <3>2, <4>2, DeliveryAssumption
    <3> QED BY <3>1, <3>2
  <2>9. NilIsSomeoneElses'
    BY <2>4, <2>5 DEF DeliveryInv, NilIsSomeoneElses, amqpVars
  <2> QED BY <2>4, <2>6, <2>7, <2>8, <2>9 DEF Kept, DeliveryInv, Contract!contractVars
<1>2. ASSUME NEW u \in Hooks, PostAccepted(d, u) \/ PostFails(d, u)
      PROVE  Kept
  <2>1. PICK k \in 0..1, v \in {"none", "sent", "error"}, n \in 0..WebhookTries :
           Posts(d, u, k, v, n)
    <3>1. post[d][u] \in 1..WebhookTries
      BY <1>2, DeliveryAssumption DEF DeliveryInv, DeliveryTypeOK, PostAccepted, PostFails
    <3>2. CASE PostAccepted(d, u)
      <4>1. Posts(d, u, 1, "sent", 0)
        BY <3>1, <3>2 DEF PostAccepted, Posts
      <4> QED BY <4>1, DeliveryAssumption
    <3>3. CASE PostFails(d, u)
      <4>1. PICK k \in 0..1 : copies' = [copies EXCEPT ![d][u] = @ + k]
        BY <3>3 DEF PostFails
      <4>2. CASE post[d][u] = 1
        <5>1. 0 < post[d][u] /\ ~(0 > 0)
          BY <4>2
        <5>2. verdict' = [verdict EXCEPT ![d][u] = "error"]
          BY <3>3, <4>2 DEF PostFails
        <5>3. post' = [post EXCEPT ![d][u] = 0]
          <6>1. post' = [post EXCEPT ![d][u] = post[d][u] - 1]
            BY <3>3 DEF PostFails
          <6>2. post[d][u] - 1 = 0
            BY <4>2
          <6> QED BY <6>1, <6>2, Zenon
        <5>4. Posts(d, u, k, "error", 0)
          BY <4>1, <5>1, <5>2, <5>3, Zenon DEF Posts
        <5> QED BY <5>4, DeliveryAssumption
      <4>3. CASE post[d][u] # 1
        <5>1. post[d][u] - 1 \in 0..WebhookTries /\ post[d][u] - 1 < post[d][u]
          BY <3>1, DeliveryAssumption
        <5>2. verdict[d][u] = "none" /\ u \in Sinks
          BY <3>1 DEF DeliveryInv, PostsCounted, Sinks
        <5>3. verdict = [verdict EXCEPT ![d][u] = "none"]
          BY <5>2 DEF DeliveryInv, DeliveryTypeOK
        <5>4. Posts(d, u, k, "none", post[d][u] - 1)
          BY <3>3, <4>1, <4>3, <5>1, <5>3 DEF PostFails, Posts
        <5> QED BY <5>1, <5>4
      <4> QED BY <4>2, <4>3
    <3> QED BY <1>2, <3>2, <3>3
  <2>2. UNCHANGED <<amqpVars, natsConn, task, crashed>>
    BY <1>2 DEF PostAccepted, PostFails
  <2>3. /\ u \in Sinks /\ u \notin Chain
        /\ task[d].pc = "over" /\ verdict[d][u] = "none"
        /\ copies[d][u] \in Nat /\ post[d][u] \in 0..WebhookTries
        /\ copies[d][u] + post[d][u] <= WebhookTries
    BY <2>1, DeliveryAssumption DEF DeliveryInv, DeliveryTypeOK, PostsCounted, Posts,
       Sinks, Hooks, Chain
  <2>4. /\ copies' \in [Deliveries -> [Sinks -> Nat]] /\ copies'[d][u] = copies[d][u] + k
        /\ \A e \in Deliveries, r \in Sinks : e # d \/ r # u =>
              copies'[e][r] = copies[e][r]
    BY <2>1, <2>3 DEF DeliveryInv, DeliveryTypeOK, Posts
  <2>5. /\ verdict' \in [Deliveries -> [Sinks -> {"none", "sent", "unsent", "error"}]]
        /\ verdict'[d][u] = v
        /\ \A e \in Deliveries, r \in Sinks : e # d \/ r # u =>
              verdict'[e][r] = verdict[e][r]
    BY <2>1, <2>3 DEF DeliveryInv, DeliveryTypeOK, Posts
  <2>6. /\ post' \in [Deliveries -> [Hooks -> 0..WebhookTries]] /\ post'[d][u] = n
        /\ \A e \in Deliveries, r \in Hooks : e # d \/ r # u => post'[e][r] = post[e][r]
    BY <2>1 DEF DeliveryInv, DeliveryTypeOK, Posts
  <2>7. DeliveryTypeOK'
    BY <2>2, <2>4, <2>5, <2>6 DEF DeliveryInv, DeliveryTypeOK, amqpVars
  <2>8. Fresh'
    <3> SUFFICES ASSUME NEW e \in Deliveries, NEW r \in Sinks,
                        task[e].pc \in Before(r)
                 PROVE  verdict'[e][r] = "none" /\ copies'[e][r] = 0
      BY <2>2 DEF Fresh
    <3>1. e # d
      BY <2>3 DEF Before, AmqpStages
    <3> QED BY <2>4, <2>5, <3>1 DEF DeliveryInv, Fresh
  <2>9. PostsCounted'
    <3> SUFFICES ASSUME NEW e \in Deliveries, NEW r \in Hooks, post'[e][r] > 0
                 PROVE  /\ task[e].pc = "over" /\ verdict'[e][r] = "none"
                        /\ copies'[e][r] + post'[e][r] <= WebhookTries
      BY <2>2 DEF PostsCounted
    <3>1. r \in Sinks
      BY DEF Sinks
    <3>2. CASE e # d \/ r # u
      <4>1. /\ post[e][r] > 0 /\ post'[e][r] = post[e][r]
            /\ verdict'[e][r] = verdict[e][r] /\ copies'[e][r] = copies[e][r]
        BY <2>4, <2>5, <2>6, <3>1, <3>2
      <4> QED BY <4>1 DEF DeliveryInv, PostsCounted
    <3>3. CASE e = d /\ r = u
      BY <2>1, <2>3, <2>4, <2>5, <2>6, <3>3, DeliveryAssumption DEF Posts
    <3> QED BY <3>2, <3>3
  <2>10. NilIsSomeoneElses'
    BY <2>2 DEF DeliveryInv, NilIsSomeoneElses, amqpVars
  <2>11. Contract!Progress(d, u, k, v)
    BY <2>1, <2>3, DeliveryAssumption DEF Contract!Progress, Posts
  <2> QED BY <2>3, <2>7, <2>8, <2>9, <2>10, <2>11
          DEF Kept, DeliveryInv, Contract!ContractNext, Contract!Verdicts
<1> QED BY <1>1, <1>2

\* The broker and the network change no delivery.
LEMMA ExternalSteps ==
    ASSUME DeliveryInv,
           \/ \E c \in Conns : LinkBreaks(c) \/ LinkCloses(c)
           \/ \E d \in Deliveries : ChannelCloses(d)
    PROVE  Kept
<1>1. ASSUME NEW c \in Conns, LinkBreaks(c) \/ LinkCloses(c)
      PROVE  Kept
  <2>1. /\ link' \in [Conns -> {"unused", "up", "broken", "closed"}]
        /\ UNCHANGED <<amqpUrl, conn, nilBy, natsConn, task, post, crashed,
                       copies, verdict>>
    BY <1>1 DEF LinkBreaks, LinkCloses, DeliveryInv, DeliveryTypeOK
  <2> QED BY <2>1 DEF Kept, DeliveryInv, DeliveryTypeOK, Fresh, PostsCounted,
             NilIsSomeoneElses, Contract!contractVars
<1>2. ASSUME NEW d \in Deliveries, ChannelCloses(d)
      PROVE  Kept
  <2> DEFINE t == [task[d] EXCEPT !.open = FALSE]
  <2>1. task[d] \in TaskState /\ task[d].pc = "publish"
    BY <1>2 DEF ChannelCloses, At, DeliveryInv, DeliveryTypeOK
  <2>2. t \in TaskState /\ t.pc = "publish"
    BY <2>1 DEF TaskState
  <2>3. Continues(d, t) /\ UNCHANGED <<amqpVars, natsConn, post, crashed>>
    BY <1>2 DEF ChannelCloses, Continues
  <2> HIDE DEF t
  <2>4. Advances(d) /\ task'[d] = t
    BY <2>1, <2>2, <2>3, ContinueAdvances, AmqpComesFirst DEF AmqpStages
  <2> QED BY <2>2, <2>3, <2>4, AdvanceKeeps DEF amqpVars, DeliveryInv, DeliveryTypeOK
<1> QED BY <1>1, <1>2

LEMMA DeliveryStep == DeliveryInv /\ [Next]_vars => Kept
<1> SUFFICES ASSUME DeliveryInv, [Next]_vars
             PROVE  Kept
  OBVIOUS
<1>1. CASE UNCHANGED vars
  BY <1>1 DEF vars, amqpVars, Kept, DeliveryInv, DeliveryTypeOK, Fresh,
     PostsCounted, NilIsSomeoneElses, Contract!contractVars
<1>2. CASE Next
  BY <1>2, ChainSteps, AmqpSteps, HookSteps, ExternalSteps DEF Next
<1> QED BY <1>1, <1>2

LEMMA DeliveryStart == DeliveryInit => DeliveryInv /\ Contract!ContractInit
<1> SUFFICES ASSUME DeliveryInit
             PROVE  DeliveryInv /\ Contract!ContractInit
  OBVIOUS
<1>1. Task("idle", None) \in TaskState /\ Task("idle", None).pc = "idle"
  BY DeliveryAssumption DEF Task, TaskState, Stages
<1>2. task \in [Deliveries -> TaskState] /\ \A d \in Deliveries : task[d].pc = "idle"
  BY <1>1 DEF DeliveryInit
<1>3. conn \in 0..MaxConns /\ link \in [Conns -> {"unused", "up", "broken", "closed"}]
  BY DeliveryAssumption DEF DeliveryInit
<1>4. post \in [Deliveries -> [Hooks -> 0..WebhookTries]]
  BY DeliveryAssumption DEF DeliveryInit
<1>5. /\ copies \in [Deliveries -> [Sinks -> Nat]]
      /\ verdict \in [Deliveries -> [Sinks -> {"none", "sent", "unsent", "error"}]]
  BY DEF DeliveryInit
<1>6. DeliveryTypeOK
  BY <1>2, <1>3, <1>4, <1>5 DEF DeliveryInit, DeliveryTypeOK
<1>7. Fresh /\ PostsCounted /\ NilIsSomeoneElses
  BY <1>2 DEF DeliveryInit, Fresh, PostsCounted, NilIsSomeoneElses
<1> QED BY <1>6, <1>7 DEF DeliveryInv, DeliveryInit, Contract!ContractInit

-----------------------------------------------------------------------------
(* The theorems. *)

\* What the argument needs of the goroutines, the posts and the connection
\* holds in every reachable state.
THEOREM DeliveryInvariance == Spec => []DeliveryInv
<1>1. DeliveryInit => DeliveryInv
  BY DeliveryStart
<1>2. DeliveryInv /\ [Next]_vars => DeliveryInv'
  BY DeliveryStep DEF Kept
<1> QED BY <1>1, <1>2, PTL DEF Spec

\* The type invariant: the rounds, the posts and the verdicts stay within the
\* limits of the configuration.
THEOREM DeliveryTypeInvariance == Spec => []DeliveryTypeOK
BY DeliveryInvariance, PTL DEF DeliveryInv

\* publishWithRetry, sendWebhookWithRetry and the chains of whatsmeow.go deliver
\* by the contract, whatever the broker, the network and the other deliveries do.
THEOREM DeliveriesKeepTheContract == Spec => DeliversByContract
<1>1. DeliveryInit => Contract!ContractInit
  BY DeliveryStart
<1>2. DeliveryInv /\ [Next]_vars => [Contract!ContractNext]_(Contract!contractVars)
  BY DeliveryStep DEF Kept
<1> QED BY <1>1, <1>2, DeliveryInvariance, PTL
        DEF Spec, DeliversByContract, Contract!ContractSpec

\* A nil connection is somebody else's failed reconnection: ensureConnection is
\* enough for a producer that is used by one goroutine.
THEOREM NilComesFromOthers == Spec => []NilIsSomeoneElses
BY DeliveryInvariance, PTL DEF DeliveryInv
=============================================================================
