--------------------------- MODULE MCEventDelivery ---------------------------
(* EventDelivery for TLC: the settings a delivery may have. *)
EXTENDS EventDelivery

\* The setting of an instance with these destinations.
Of(amqp, nats, websocket, hook) ==
    [kind |-> "instance", amqp |-> amqp, nats |-> nats,
     websocket |-> websocket, hook |-> hook]

\* An event of the global queues.
Global == [kind |-> "global", amqp |-> "global", nats |-> "global",
           websocket |-> FALSE, hook |-> FALSE]

\* RabbitMQ as the program enables it and as the documentation does, what an
\* instance may have besides, and the global queues.
MCSettings ==
    {Of("enabled", "off", FALSE, FALSE), Of("true", "true", FALSE, FALSE),
     Of("off", "off", TRUE, TRUE), Global}
=============================================================================
