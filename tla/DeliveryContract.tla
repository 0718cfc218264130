--------------------------- MODULE DeliveryContract ---------------------------
(***************************************************************************)
(* What the producers of pkg/events promise of one event at one of its     *)
(* destinations, whatever the broker, the network and the other goroutines *)
(* do: copies arrive until a verdict is reached, never more than Limit of  *)
(* them, and the verdict tells something about them.                       *)
(***************************************************************************)
EXTENDS Naturals

CONSTANTS Deliveries,     \* deliveries of an event, one goroutine each
          Sinks,          \* destinations
          Acknowledged,   \* destinations whose "sent" means that a copy arrived
          Limit           \* destination -> most copies it may get

VARIABLES copies,   \* delivery -> destination -> copies that have arrived
          verdict   \* delivery -> destination -> how its Produce ended

contractVars == <<copies, verdict>>

\* sent: handed over without an error; unsent: Produce returned nil, and so
\* reports a success, without handing the event over.
Verdicts == {"none", "sent", "unsent", "error"}

ContractInit ==
    /\ copies = [d \in Deliveries |-> [s \in Sinks |-> 0]]
    /\ verdict = [d \in Deliveries |-> [s \in Sinks |-> "none"]]

\* A step of delivery d towards destination s: n copies arrive and the verdict
\* becomes v.
Progress(d, s, n, v) ==
    /\ verdict[d][s] = "none"
    /\ copies[d][s] + n <= Limit[s]
    /\ v = "unsent" => copies[d][s] + n = 0
    /\ v = "sent" /\ s \in Acknowledged => copies[d][s] + n > 0
    /\ copies' = [copies EXCEPT ![d][s] = @ + n]
    /\ verdict' = [verdict EXCEPT ![d][s] = v]

ContractNext ==
    \E d \in Deliveries, s \in Sinks, n \in 0..1, v \in Verdicts :
        Progress(d, s, n, v)

ContractSpec == ContractInit /\ [][ContractNext]_contractVars
=============================================================================
