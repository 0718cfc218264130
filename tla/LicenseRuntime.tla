---------------------------- MODULE LicenseRuntime ----------------------------
(***************************************************************************)
(* The license of the process (pkg/core): the key it runs with, the row    *)
(* that keeps it over a restart, the gate in front of the API, and the     *)
(* message counters that heartbeats report.                                *)
(*                                                                         *)
(*   /license/activate  --exchange, save, activate-->  licensing server    *)
(*   API request        --GateMiddleware-->            handlers            *)
(*   send, receive      --counter--> heartbeat -->     licensing server    *)
(*                                                                         *)
(* Activations and heartbeats run beside each other.  The hashes of the    *)
(* key are the key they were computed from; a counter is the set of the    *)
(* messages it has counted, so that "in one place" can be said of each.    *)
(* The tier and customer rows are left out: nothing reads them back.  The  *)
(* licensing server is external: it accepts, refuses or cannot be reached. *)
(***************************************************************************)
EXTENDS Naturals

CONSTANTS Requests,   \* concurrent calls of /license/activate
          Keys,       \* API keys
          NoKey,
          EnvKeys,    \* what GLOBAL_API_KEY may be at a start, NoKey if unset
          Operator,   \* EVOLUTION_OPERATOR_EMAIL is set
          Messages,   \* messages sent or received
          MaxBoots    \* bound: starts of the process

ASSUME LicenseAssumption ==
    /\ NoKey \notin Keys
    /\ EnvKeys \subseteq Keys \cup {NoKey}
    /\ Operator \in BOOLEAN
    /\ MaxBoots \in Nat \ {0}
    /\ {"ticker", "counter", "seal"} \cap Requests = {}

VARIABLES row,       \* the api_key row of the configuration table
          boot,      \* how far InitializeRuntime is
          boots,     \* starts so far
          key,       \* rc._kni
          hash,      \* rc._s6a
          seal,      \* _x1n, which ActivateIntegrity sets
          active,    \* rc._txz
          url,       \* a registration URL is shown: rc._v8
          act,       \* activation -> where it is and its key
          late,      \* history: activations with a seal of a key that is no
                     \* longer the runtime's; "seal" if it is the one in place
          accepted,  \* keys the server has handed out or accepted: this process
          refused,   \* keys whose activation it did not confirm: this process
          counter,   \* messages counted since the last heartbeat
          beat,      \* heartbeat -> where it is and what it has taken
          reported,  \* messages in a heartbeat the server confirmed
          lost       \* messages a process took with it

license == <<row, boot, boots, key, hash, seal, active, url, act, late,
             accepted, refused>>
counts == <<counter, beat, reported, lost>>
vars == <<license, counts>>

MaybeKey == Keys \cup {NoKey}
Kinds == {"sent", "recv"}

\* One heartbeat follows each activation; the ticker's are one at a time.
Beats == Requests \cup {"ticker"}

\* key is what the exchange gave, sealed what its seal was computed from.
NoActivation == [at |-> "idle", key |-> NoKey, sealed |-> NoKey]
NoBeat == [at |-> "idle", holds |-> [k \in Kinds |-> {}]]

LicenseInit ==
    /\ row = NoKey
    /\ boot = "start" /\ boots = 1
    /\ key = NoKey /\ hash = NoKey /\ seal = NoKey
    /\ active = FALSE /\ url = FALSE
    /\ act = [r \in Requests |-> NoActivation]
    /\ late = {} /\ accepted = {} /\ refused = {}
    /\ counter = [k \in Kinds |-> {}]
    /\ beat = [b \in Beats |-> NoBeat]
    /\ reported = {} /\ lost = {}

-----------------------------------------------------------------------------
(* InitializeRuntime: a saved key, GLOBAL_API_KEY, or the operator's e-mail; *)
(* without any the process runs with the gate closed.                       *)

\* The runtime becomes active with key k.
Activate(k) ==
    /\ key' = k /\ hash' = k /\ seal' = k
    /\ active' = TRUE
    /\ boot' = "up"

\* A saved key is enough; the server is told later and its answer is ignored.
BootSaved ==
    /\ boot = "start" /\ row # NoKey
    /\ Activate(row)
    /\ accepted' = accepted \cup {row}
    /\ UNCHANGED <<row, refused>>

BootGlobal ==
    /\ boot = "start" /\ row = NoKey
    /\ \/ \E k \in EnvKeys \ {NoKey} :
            /\ row' \in {k, row}
            /\ Activate(k)
            /\ accepted' = accepted \cup {k}
       \/ /\ EnvKeys # {NoKey}
          /\ boot' = "up"
          /\ UNCHANGED <<row, key, hash, seal, active, accepted>>
    /\ UNCHANGED refused

\* The server hands out a key; saving it may fail here too.
BootAutomatic ==
    /\ boot = "start" /\ row = NoKey /\ NoKey \in EnvKeys
    /\ \/ /\ Operator
          /\ \E k \in Keys :
               /\ row' \in {k, row}
               /\ Activate(k)
               /\ accepted' = accepted \cup {k}
       \/ /\ boot' = "up"
          /\ UNCHANGED <<row, key, hash, seal, active, accepted>>
    /\ UNCHANGED refused

InitializeRuntime ==
    /\ BootSaved \/ BootGlobal \/ BootAutomatic
    /\ UNCHANGED <<boots, url, act, late, counts>>

-----------------------------------------------------------------------------
(* /license/register and /license/activate.                                 *)

\* An answer that comes after an activation shows its URL all the same.
Register ==
    /\ boot = "up" /\ url = FALSE
    /\ url' = TRUE
    /\ UNCHANGED <<row, boot, boots, key, hash, seal, active, act, late,
                   accepted, refused, counts>>

ActivateRequested(r) ==
    /\ boot = "up" /\ act[r].at = "idle" /\ ~active
    /\ act' = [act EXCEPT ![r].at = "exchange"]
    /\ UNCHANGED <<row, boot, boots, key, hash, seal, active, url, late,
                   accepted, refused, counts>>

\* The code is exchanged for a key, or the request fails; a second exchange
\* with the key as the code may yield another key.
Exchange(r) ==
    /\ act[r].at = "exchange"
    /\ \/ \E k \in Keys :
            act' = [act EXCEPT ![r] = [at |-> "take", key |-> k, sealed |-> NoKey]]
       \/ act' = [act EXCEPT ![r] = NoActivation]
    /\ UNCHANGED <<row, boot, boots, key, hash, seal, active, url, late,
                   accepted, refused, counts>>

\* The runtime has the key before anybody has validated it, ...
TakeKey(r) ==
    /\ act[r].at = "take"
    /\ key' = act[r].key
    /\ url' = FALSE
    /\ late' = late \cup {q \in Requests : act[q].at = "store"}
    /\ act' = [act EXCEPT ![r].at = "save"]
    /\ UNCHANGED <<row, boot, boots, hash, seal, active, accepted, refused,
                   counts>>

\* ... and so has the table, unless saving fails, which is only logged.
SaveKey(r) ==
    /\ act[r].at = "save"
    /\ row' \in {act[r].key, row}
    /\ act' = [act EXCEPT ![r].at = "validate"]
    /\ UNCHANGED <<boot, boots, key, hash, seal, active, url, late, accepted,
                   refused, counts>>

\* An activation that is marked active before the server has answered.
MarkUnvalidated(r) ==
    /\ act[r].at = "validate"
    /\ active' = TRUE
    /\ act' = [act EXCEPT ![r].at = "hash"]
    /\ UNCHANGED <<row, boot, boots, key, hash, seal, url, late, accepted,
                   refused, counts>>

\* A refusal that clears the key, as a refused GLOBAL_API_KEY does at a start.
ValidateClearsKey(r) ==
    /\ act[r].at = "validate"
    /\ \/ /\ accepted' = accepted \cup {key}
          /\ act' = [act EXCEPT ![r].at = "hash"]
          /\ UNCHANGED <<key, refused>>
       \/ /\ refused' = refused \cup {key}
          /\ act' = [act EXCEPT ![r] = NoActivation]
          /\ key' = NoKey
          /\ UNCHANGED accepted
    /\ UNCHANGED <<row, boot, boots, hash, seal, active, url, late, counts>>

\* The server is asked about the key the runtime has by then.
Validate(r) ==
    /\ act[r].at = "validate"
    /\ \/ /\ accepted' = accepted \cup {key}
          /\ act' = [act EXCEPT ![r].at = "hash"]
          /\ UNCHANGED refused
       \/ /\ refused' = refused \cup {key}
          /\ act' = [act EXCEPT ![r] = NoActivation]
          /\ UNCHANGED accepted
    /\ UNCHANGED <<row, boot, boots, key, hash, seal, active, url, late, counts>>

\* A hash of the key the activation was called with.
HashOwnKey(r) ==
    /\ act[r].at = "hash"
    /\ hash' = act[r].key
    /\ act' = [act EXCEPT ![r].at = "mark"]
    /\ UNCHANGED <<row, boot, boots, key, seal, active, url, late, accepted,
                   refused, counts>>

\* The hash is that of the runtime's key.
HashKey(r) ==
    /\ act[r].at = "hash"
    /\ hash' = key
    /\ act' = [act EXCEPT ![r].at = "mark"]
    /\ UNCHANGED <<row, boot, boots, key, seal, active, url, late, accepted,
                   refused, counts>>

MarkActive(r) ==
    /\ act[r].at = "mark"
    /\ active' = TRUE
    /\ act' = [act EXCEPT ![r].at = "seal"]
    /\ UNCHANGED <<row, boot, boots, key, hash, seal, url, late, accepted,
                   refused, counts>>

\* ActivateIntegrity reads the key without the lock, ...
ComputeSeal(r) ==
    /\ act[r].at = "seal"
    /\ act' = [act EXCEPT ![r].at = "store", ![r].sealed = key]
    /\ UNCHANGED <<row, boot, boots, key, hash, seal, active, url, late,
                   accepted, refused, counts>>

\* ... and stores the seal; then the first heartbeat, in a goroutine of its own.
StoreSeal(r) ==
    /\ act[r].at = "store" /\ beat[r].at = "idle"
    /\ seal' = act[r].sealed
    /\ late' = (late \ {r, "seal"}) \cup (IF r \in late THEN {"seal"} ELSE {})
    /\ act' = [act EXCEPT ![r] = NoActivation]
    /\ beat' = [beat EXCEPT ![r].at = "sent"]
    /\ UNCHANGED <<row, boot, boots, key, hash, active, url, accepted, refused,
                   counter, reported, lost>>

\* ValidateContext, which GateMiddleware asks before every API request.
GateOpen == active /\ hash = key

-----------------------------------------------------------------------------
(* Counters and heartbeats.                                                 *)

Tracked == counter["sent"] \cup counter["recv"] \cup reported \cup lost
           \cup UNION {beat[b].holds[k] : b \in Beats, k \in Kinds}

TrackMessage ==
    /\ boot = "up"
    /\ \E m \in Messages \ Tracked, k \in Kinds :
         counter' = [counter EXCEPT ![k] = @ \cup {m}]
    /\ UNCHANGED <<license, beat, reported, lost>>

Tick ==
    /\ active /\ beat["ticker"].at = "idle"
    /\ beat' = [beat EXCEPT !["ticker"].at = "sent"]
    /\ UNCHANGED <<license, counter, reported, lost>>

\* A heartbeat that reads its counters and does not reset them.
SwapKeepsCounter(b) ==
    /\ \E k \in Kinds :
         /\ beat[b].at = k
         /\ beat' = [beat EXCEPT ![b].at = IF k = "sent" THEN "recv" ELSE "post",
                                 ![b].holds = [@ EXCEPT ![k] = counter[k]]]
    /\ UNCHANGED <<license, counter, reported, lost>>

\* The two counters are taken one after the other.
SwapCounter(b) ==
    /\ \E k \in Kinds :
         /\ beat[b].at = k
         /\ beat' = [beat EXCEPT ![b].at = IF k = "sent" THEN "recv" ELSE "post",
                                 ![b].holds = [@ EXCEPT ![k] = counter[k]]]
         /\ counter' = [counter EXCEPT ![k] = {}]
    /\ UNCHANGED <<license, reported, lost>>

\* The server's 200 arrives.  A heartbeat it received whose answer is lost fails
\* here, and its messages are reported again: reported has what is confirmed.
HeartbeatConfirmed(b) ==
    /\ beat[b].at = "post"
    /\ reported' = reported \cup beat[b].holds["sent"] \cup beat[b].holds["recv"]
    /\ beat' = [beat EXCEPT ![b] = NoBeat]
    /\ UNCHANGED <<license, counter, lost>>

\* A failure that sets the counters back instead of adding to them.
HeartbeatFailsAndSets(b) ==
    /\ beat[b].at = "post"
    /\ counter' = beat[b].holds
    /\ beat' = [beat EXCEPT ![b] = NoBeat]
    /\ UNCHANGED <<license, reported, lost>>

\* What a heartbeat took goes back, added to what was counted meanwhile.
HeartbeatFails(b) ==
    /\ beat[b].at = "post"
    /\ counter' = [k \in Kinds |-> counter[k] \cup beat[b].holds[k]]
    /\ beat' = [beat EXCEPT ![b] = NoBeat]
    /\ UNCHANGED <<license, reported, lost>>

\* A crash, or Shutdown, which tells the server but reports no counts.
Restart ==
    /\ boots < MaxBoots /\ boots' = boots + 1
    /\ boot' = "start"
    /\ key' = NoKey /\ hash' = NoKey /\ seal' = NoKey
    /\ active' = FALSE /\ url' = FALSE
    /\ act' = [r \in Requests |-> NoActivation]
    /\ late' = {} /\ accepted' = {} /\ refused' = {}
    /\ lost' = Tracked \ reported
    /\ counter' = [k \in Kinds |-> {}]
    /\ beat' = [b \in Beats |-> NoBeat]
    /\ UNCHANGED <<row, reported>>

Activation(r) ==
    \/ ActivateRequested(r) \/ Exchange(r) \/ TakeKey(r) \/ SaveKey(r)
    \/ Validate(r) \/ HashKey(r) \/ MarkActive(r)
    \/ ComputeSeal(r) \/ StoreSeal(r)

Heartbeat(b) ==
    SwapCounter(b) \/ HeartbeatConfirmed(b) \/ HeartbeatFails(b)

Next ==
    \/ InitializeRuntime \/ Register \/ TrackMessage \/ Tick \/ Restart
    \/ \E r \in Requests : Activation(r)
    \/ \E b \in Beats : Heartbeat(b)

Spec == LicenseInit /\ [][Next]_vars

-----------------------------------------------------------------------------
(* Properties.                                                              *)

LicenseTypeOK ==
    /\ row \in MaybeKey /\ key \in MaybeKey /\ hash \in MaybeKey
    /\ seal \in MaybeKey
    /\ boot \in {"start", "up"} /\ boots \in 1..MaxBoots
    /\ active \in BOOLEAN /\ url \in BOOLEAN
    /\ act \in [Requests -> [at : {"idle", "exchange", "take", "save", "validate",
                                   "hash", "mark", "seal", "store"},
                            key : MaybeKey, sealed : MaybeKey]]
    /\ late \subseteq Requests \cup {"seal"}
    /\ accepted \subseteq Keys /\ refused \subseteq Keys
    /\ counter \in [Kinds -> SUBSET Messages]
    /\ beat \in [Beats -> [at : {"idle", "post"} \cup Kinds,
                           holds : [Kinds -> SUBSET Messages]]]
    /\ reported \subseteq Messages /\ lost \subseteq Messages

\* Once the activations are over an active runtime lets requests through, and
\* its seal is that of its key.  Two exceptions, both of overlapping activations:
\* a key that one of them brought after the hash was computed and that the
\* server then refused (the gate stays shut, and /license/activate says "already
\* active"); and a seal computed before another one's key came and stored after
\* that one's seal, which is of the older key and opens the gate all the same.
GateOpens ==
    active /\ (\A r \in Requests : act[r].at = "idle")
      => \/ key \in refused
         \/ GateOpen /\ (seal = key \/ "seal" \in late)

\* The runtime is active only if the server has handed out or accepted a key
\* in this process, or the table had one.
ActiveIsEarned == active => accepted # {}

\* A counted message is in one place: a counter, one heartbeat under way,
\* what the server confirmed, or what a process that ended took with it.
Places == [kind : Kinds, of : {"counter"}] \cup [kind : Kinds, of : Beats]

Holds(p) == IF p.of = "counter" THEN counter[p.kind] ELSE beat[p.of].holds[p.kind]

CountedOnce ==
    /\ \A p, q \in Places : p # q => Holds(p) \cap Holds(q) = {}
    /\ \A p \in Places : Holds(p) \cap (reported \cup lost) = {}
    /\ reported \cap lost = {}

\* No message is forgotten while the process lives: a step moves it from one
\* place to another.
NoneForgotten == [][Tracked \subseteq Tracked']_vars
=============================================================================
