---------------------------- MODULE EventDelivery ----------------------------
(***************************************************************************)
(* Delivering events to RabbitMQ, NATS, a WebSocket and webhooks.          *)
(*                                                                         *)
(* A delivery is one goroutine that carries one event: CallWebhook, which  *)
(* serves the destinations of an instance one after the other and stops at *)
(* the first that fails, or SendToGlobalQueues, which serves the global    *)
(* queues and does not.  All of them share the one *amqp.Connection of the *)
(* RabbitMQ producer and replace it when it is closed, with no lock.       *)
(* Webhooks have a goroutine per URL.                                      *)
(*                                                                         *)
(* The broker, the network and the client libraries are external: a        *)
(* connection breaks before the client notices, a write to a broken        *)
(* connection may be lost without an error, a channel may be closed, every *)
(* dial and every round trip may fail.                                     *)
(***************************************************************************)
EXTENDS Integers

CONSTANTS Deliveries,     \* goroutines
          Settings,       \* what an event may be configured for
          GlobalHook,     \* WEBHOOK_URL is set
          MaxRetries,     \* maxRetries of the RabbitMQ producer (3)
          DialTries,      \* attempts of one reconnect (3)
          WebhookTries,   \* attempts of a webhook (5)
          MaxConns,       \* bound: connections made
          None

\* "true" is what the documentation enables a destination with, "enabled" is
\* what the producers look for, "global" is SendToGlobalQueues's own.
Modes == {"off", "enabled", "true", "global"}

Setting == [kind : {"instance", "global"}, amqp : Modes, nats : Modes,
            websocket : BOOLEAN, hook : BOOLEAN]

ASSUME DeliveryAssumption ==
    /\ Settings \subseteq Setting
    /\ GlobalHook \in BOOLEAN
    /\ MaxRetries \in Nat \ {0}
    /\ DialTries \in Nat \ {0}
    /\ WebhookTries \in Nat \ {0}
    /\ MaxConns \in Nat \ {0}
    /\ None \notin Deliveries

VARIABLES amqpUrl,    \* AMQP_URL is set
          natsConn,   \* NATS was reachable at startup
          conn,       \* p.conn of the RabbitMQ producer: a connection, 0 = nil
          link,       \* connection -> its state
          nilBy,      \* the delivery that set p.conn to nil, or None
          task,       \* delivery -> its goroutine
          post,       \* delivery -> webhook URL -> attempts left
          crashed,    \* a nil pointer was dereferenced: the process is gone
          copies,     \* delivery -> destination -> copies that have arrived
          verdict     \* delivery -> destination -> how its Produce ended

amqpVars == <<amqpUrl, conn, link, nilBy>>
vars == <<amqpVars, natsConn, task, post, crashed, copies, verdict>>

Conns == 1..MaxConns
Hooks == {"hook", "globalhook"}
Sinks == {"amqp", "nats", "websocket"} \cup Hooks

\* amqp: ensureConnection; dial: reconnect; channel: conn.Channel(); publish:
\* the loop of publishWithRetry, in whose rounds amqp, dial, channel recur.
AmqpStages == {"amqp", "dial", "channel", "publish"}
Stages == AmqpStages \cup {"idle", "nats", "websocket", "hook", "over"}

\* The destinations are served in this order, each when the setting asks for it.
FromHook(s) == IF s.hook THEN "hook" ELSE "over"
FromWebsocket(s) == IF s.websocket THEN "websocket" ELSE FromHook(s)
FromNats(s) == IF s.nats # "off" THEN "nats" ELSE FromWebsocket(s)
FromAmqp(s) == IF s.amqp # "off" THEN "amqp" ELSE FromNats(s)

After(sink, s) ==
    IF sink = "amqp" THEN FromNats(s)
    ELSE IF sink = "nats" THEN FromWebsocket(s) ELSE FromHook(s)

\* The state of a goroutine that is at this stage and in no Produce.
Task(stage, s) == [pc |-> stage, set |-> s, round |-> 0, dials |-> 0,
                   channel |-> 0, open |-> FALSE]

\* main connects to RabbitMQ at startup, or fails to and goes on.
DeliveryInit ==
    /\ amqpUrl \in BOOLEAN
    /\ natsConn \in BOOLEAN
    /\ conn \in IF amqpUrl THEN {0, 1} ELSE {0}
    /\ link = [c \in Conns |-> IF c = conn THEN "up" ELSE "unused"]
    /\ nilBy = None
    /\ task = [d \in Deliveries |-> Task("idle", None)]
    /\ post = [d \in Deliveries |-> [u \in Hooks |-> 0]]
    /\ crashed = FALSE
    /\ copies = [d \in Deliveries |-> [s \in Sinks |-> 0]]
    /\ verdict = [d \in Deliveries |-> [s \in Sinks |-> "none"]]

-----------------------------------------------------------------------------
(* The chain of destinations. *)

At(d, stage) == ~crashed /\ task[d].pc = stage

\* Produce for this destination returns: k copies have arrived by this step and
\* v is what has become of the event.  An error ends the chain of an instance.
Report(d, sink, v, k) ==
    LET s == task[d].set IN
    /\ task' = [task EXCEPT ![d] =
                  Task(IF v = "error" /\ s.kind = "instance" THEN "over"
                       ELSE After(sink, s), s)]
    /\ copies' = [copies EXCEPT ![d][sink] = @ + k]
    /\ verdict' = [verdict EXCEPT ![d][sink] = v]

\* Produce goes on.
Continues(d, t) ==
    /\ task' = [task EXCEPT ![d] = t]
    /\ UNCHANGED <<copies, verdict>>

\* An event is to be delivered: go CallWebhook or go SendToGlobalQueues.
Begin(d) ==
    /\ At(d, "idle")
    /\ \E s \in Settings : Continues(d, Task(FromAmqp(s), s))
    /\ UNCHANGED <<amqpVars, natsConn, post, crashed>>

\* A NATS connection that was not made at startup stays nil, and a mode other
\* than "enabled" and "global" publishes nothing: Produce returns nil for both.
\* The library buffers what it sends; what it buffers may be lost.
Nats(d) ==
    /\ At(d, "nats")
    /\ IF natsConn /\ task[d].set.nats \in {"enabled", "global"}
       THEN \/ \E k \in 0..1 : Report(d, "nats", "sent", k)
            \/ Report(d, "nats", "error", 0)
       ELSE Report(d, "nats", "unsent", 0)
    /\ UNCHANGED <<amqpVars, natsConn, post, crashed>>

\* The connection registered for the instance, if there is one, is written to.
Websocket(d) ==
    /\ At(d, "websocket")
    /\ \/ Report(d, "websocket", "unsent", 0)
       \/ \E k \in 0..1 : Report(d, "websocket", "sent", k)
       \/ Report(d, "websocket", "error", 0)
    /\ UNCHANGED <<amqpVars, natsConn, post, crashed>>

\* The webhook producer starts a goroutine per URL.  Only an instance with a
\* webhook of its own gets here, for the global URL too.
Hook(d) ==
    /\ At(d, "hook")
    /\ Continues(d, Task("over", task[d].set))
    /\ post' = [post EXCEPT ![d] =
                  [u \in Hooks |-> IF u = "hook" \/ GlobalHook THEN WebhookTries ELSE 0]]
    /\ UNCHANGED <<amqpVars, natsConn, crashed>>

-----------------------------------------------------------------------------
(* The goroutine of a webhook. *)

PostAccepted(d, u) ==
    /\ ~crashed /\ post[d][u] > 0
    /\ copies' = [copies EXCEPT ![d][u] = @ + 1]
    /\ verdict' = [verdict EXCEPT ![d][u] = "sent"]
    /\ post' = [post EXCEPT ![d][u] = 0]
    /\ UNCHANGED <<amqpVars, natsConn, task, crashed>>

\* No answer, or one outside of 2xx, whether a copy has arrived or not.
PostFails(d, u) ==
    /\ ~crashed /\ post[d][u] > 0
    /\ \E k \in 0..1 : copies' = [copies EXCEPT ![d][u] = @ + k]
    /\ verdict' = IF post[d][u] = 1 THEN [verdict EXCEPT ![d][u] = "error"]
                  ELSE verdict
    /\ post' = [post EXCEPT ![d][u] = @ - 1]
    /\ UNCHANGED <<amqpVars, natsConn, task, crashed>>

-----------------------------------------------------------------------------
(* The RabbitMQ producer. *)

IsOpen(c) == c # 0 /\ link[c] \in {"up", "broken"}

\* The goroutine in one more round of publishWithRetry, on this channel.
Round(d, n, channel, open) ==
    [pc |-> "publish", set |-> task[d].set, round |-> n, dials |-> 0,
     channel |-> channel, open |-> open]

\* A loop that forgets to count the round.
RoundNotCounted(d, channel, open, failed) ==
    Continues(d, Round(d, task[d].round, channel, open))

\* A loop that allows one round too many.
OneRoundTooMany(d, channel, open, failed) ==
    IF task[d].round <= MaxRetries
    THEN Continues(d, Round(d, task[d].round + 1, channel, open))
    ELSE Report(d, "amqp", IF failed THEN "error" ELSE "unsent", 0)

\* A round is over without a publication.  After the last one err is returned,
\* which is nil if that round has opened a new channel.
RoundOver(d, channel, open, failed) ==
    IF task[d].round < MaxRetries
    THEN Continues(d, Round(d, task[d].round + 1, channel, open))
    ELSE Report(d, "amqp", IF failed THEN "error" ELSE "unsent", 0)

\* Produce and ensureConnection look at the connection.
AmqpEnsure(d) ==
    /\ At(d, "amqp")
    /\ IF amqpUrl
       THEN /\ task' = [task EXCEPT ![d].pc = IF IsOpen(conn) THEN "channel"
                                              ELSE "dial"]
            /\ UNCHANGED <<copies, verdict>>
       ELSE Report(d, "amqp", "error", 0)
    /\ UNCHANGED <<amqpVars, natsConn, post, crashed>>

\* One attempt of reconnect succeeds: the new connection takes the place of
\* whatever is there, also of one that another goroutine has just made.
AmqpDials(d) ==
    /\ At(d, "dial")
    /\ \E c \in Conns :
          /\ link[c] = "unused"
          /\ link' = [link EXCEPT ![c] = "up"]
          /\ conn' = c
    /\ nilBy' = None
    /\ task' = [task EXCEPT ![d].pc = "channel"]
    /\ UNCHANGED <<amqpUrl, natsConn, post, crashed, copies, verdict>>

\* A reconnect whose failure passes for a success.
AmqpDialFailsQuietly(d) ==
    /\ At(d, "dial")
    /\ conn' = 0
    /\ nilBy' = d
    /\ task' = [task EXCEPT ![d].pc = "channel"]
    /\ UNCHANGED <<amqpUrl, link, natsConn, post, crashed, copies, verdict>>

\* One attempt fails: DialConfig's nil is assigned to p.conn all the same.  The
\* last failure is the end of Produce, or of this round of its loop.
AmqpDialFails(d) ==
    /\ At(d, "dial")
    /\ conn' = 0
    /\ nilBy' = d
    /\ IF task[d].dials + 1 < DialTries
       THEN /\ task' = [task EXCEPT ![d].dials = @ + 1]
            /\ UNCHANGED <<copies, verdict>>
       ELSE IF task[d].round = 0
            THEN Report(d, "amqp", "error", 0)
            ELSE RoundOver(d, task[d].channel, task[d].open, TRUE)
    /\ UNCHANGED <<amqpUrl, link, natsConn, post, crashed>>

\* p.conn.Channel() succeeds.  The first channel is configured and its queue
\* declared, and a mode other than "enabled" and "global" publishes nothing.
AmqpChannel(d) ==
    /\ At(d, "channel")
    /\ conn # 0 /\ link[conn] = "up"
    /\ IF task[d].round > 0
       THEN RoundOver(d, conn, TRUE, FALSE)
       ELSE IF task[d].set.amqp \in {"enabled", "global"}
            THEN Continues(d, Round(d, 1, conn, TRUE))
            ELSE Report(d, "amqp", "unsent", 0)
    /\ UNCHANGED <<amqpVars, natsConn, post, crashed>>

\* It fails: in the loop, its nil is assigned to the channel.
AmqpChannelFails(d) ==
    /\ At(d, "channel")
    /\ conn # 0
    /\ IF task[d].round = 0
       THEN Report(d, "amqp", "error", 0)
       ELSE RoundOver(d, 0, FALSE, TRUE)
    /\ UNCHANGED <<amqpVars, natsConn, post, crashed>>

\* A connection or a channel that is nil by now is used.  Nothing recovers the
\* panic of this goroutine.
AmqpCrashes(d) ==
    /\ \/ At(d, "channel") /\ conn = 0
       \/ At(d, "publish") /\ task[d].channel = 0
    /\ crashed' = TRUE
    /\ UNCHANGED <<amqpVars, natsConn, task, post, copies, verdict>>

Usable(d) == task[d].open /\ IsOpen(task[d].channel)

\* A loop that goes on after a publication.
AmqpPublishesAgain(d) ==
    /\ At(d, "publish") /\ Usable(d)
    /\ copies' = [copies EXCEPT ![d]["amqp"] = @ + 1]
    /\ task' = [task EXCEPT ![d].round = IF @ < MaxRetries THEN @ + 1 ELSE @]
    /\ UNCHANGED <<amqpVars, natsConn, post, crashed, verdict>>

\* channel.Publish returns nil.  The confirmation that the channel was set up
\* for is not waited for: what went to a broken connection is lost.
AmqpPublishes(d) ==
    /\ At(d, "publish") /\ Usable(d)
    /\ Report(d, "amqp", "sent", IF link[task[d].channel] = "up" THEN 1 ELSE 0)
    /\ UNCHANGED <<amqpVars, natsConn, post, crashed>>

\* It fails on a broken connection: the round is over, the channel stays.
AmqpWriteFails(d) ==
    /\ At(d, "publish") /\ Usable(d)
    /\ link[task[d].channel] = "broken"
    /\ RoundOver(d, task[d].channel, TRUE, TRUE)
    /\ UNCHANGED <<amqpVars, natsConn, post, crashed>>

\* It fails with 504, channel/connection is not open: ensureConnection.
AmqpClosed(d) ==
    /\ At(d, "publish")
    /\ task[d].channel # 0 /\ ~Usable(d)
    /\ Continues(d, [task[d] EXCEPT !.pc = "amqp"])
    /\ UNCHANGED <<amqpVars, natsConn, post, crashed>>

AmqpStep(d) ==
    \/ AmqpEnsure(d)
    \/ AmqpDials(d)
    \/ AmqpDialFails(d)
    \/ AmqpChannel(d)
    \/ AmqpChannelFails(d)
    \/ AmqpCrashes(d)
    \/ AmqpPublishes(d)
    \/ AmqpWriteFails(d)
    \/ AmqpClosed(d)

-----------------------------------------------------------------------------
(* The broker and the network: external. *)

LinkBreaks(c) ==
    /\ ~crashed /\ link[c] = "up"
    /\ link' = [link EXCEPT ![c] = "broken"]
    /\ UNCHANGED <<amqpUrl, conn, nilBy, natsConn, task, post, crashed, copies,
                   verdict>>

\* The client notices: heartbeats stay away, or the broker closes it.
LinkCloses(c) ==
    /\ ~crashed /\ IsOpen(c)
    /\ link' = [link EXCEPT ![c] = "closed"]
    /\ UNCHANGED <<amqpUrl, conn, nilBy, natsConn, task, post, crashed, copies,
                   verdict>>

\* The broker closes a channel and leaves its connection open.
ChannelCloses(d) ==
    /\ At(d, "publish") /\ Usable(d)
    /\ task' = [task EXCEPT ![d].open = FALSE]
    /\ UNCHANGED <<amqpVars, natsConn, post, crashed, copies, verdict>>

-----------------------------------------------------------------------------
Next ==
    \/ \E d \in Deliveries :
          \/ Begin(d)
          \/ AmqpStep(d)
          \/ Nats(d)
          \/ Websocket(d)
          \/ Hook(d)
          \/ ChannelCloses(d)
          \/ \E u \in Hooks : PostAccepted(d, u) \/ PostFails(d, u)
    \/ \E c \in Conns : LinkBreaks(c) \/ LinkCloses(c)

Spec == DeliveryInit /\ [][Next]_vars

\* Dials time out after 30 s and a heartbeat every 30 s closes a dead
\* connection under a round trip: the calls of the RabbitMQ producer return.
\* Those of the others need not: the HTTP client has no timeout and the
\* WebSocket no write deadline.
FairSpec == Spec /\ \A d \in Deliveries : WF_vars(AmqpStep(d))
-----------------------------------------------------------------------------
(* Properties. *)

InAmqp(d) == task[d].pc \in AmqpStages

TaskState ==
    [pc : Stages, set : Settings \cup {None}, round : 0..MaxRetries,
     dials : 0..(DialTries - 1), channel : 0..MaxConns, open : BOOLEAN]

DeliveryTypeOK ==
    /\ amqpUrl \in BOOLEAN /\ natsConn \in BOOLEAN /\ crashed \in BOOLEAN
    /\ conn \in 0..MaxConns
    /\ link \in [Conns -> {"unused", "up", "broken", "closed"}]
    /\ nilBy \in Deliveries \cup {None}
    /\ task \in [Deliveries -> TaskState]
    /\ post \in [Deliveries -> [Hooks -> 0..WebhookTries]]
    /\ copies \in [Deliveries -> [Sinks -> Nat]]
    /\ verdict \in [Deliveries -> [Sinks -> {"none", "sent", "unsent", "error"}]]

\* What every destination is promised, whatever the others and the other
\* goroutines do: RabbitMQ, NATS and the WebSocket get an event at most once in
\* all the rounds of a delivery, a webhook as often as it is tried, nothing
\* arrives after the verdict, and a webhook reported as sent has arrived.
Contract ==
    INSTANCE DeliveryContract WITH
        Acknowledged <- Hooks,
        Limit <- [s \in Sinks |-> IF s \in Hooks THEN WebhookTries ELSE 1]

DeliversByContract == Contract!ContractSpec

\* A goroutine that is about to open a channel never finds the connection nil
\* by its own doing or from the start: another one's reconnection has failed
\* since it looked.
NilIsSomeoneElses ==
    \A d \in Deliveries :
        task[d].pc = "channel" /\ conn = 0 => nilBy \in Deliveries \ {d}

\* The RabbitMQ producer gives up: no sequence of closed connections and failed
\* reconnections keeps a delivery in its loops for ever.
AmqpProduceReturns ==
    \A d \in Deliveries : InAmqp(d) ~> (~InAmqp(d) \/ crashed)
=============================================================================
