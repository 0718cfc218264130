------------------------- MODULE LicenseRuntimeProofs -------------------------
(***************************************************************************)
(* Proofs about the license runtime, for every number of activations, keys *)
(* and messages and every bound on the starts.                             *)
(*                                                                         *)
(* The two halves of the state change apart: the license and the counters. *)
(* KeyTaken says that an activation past TakeKey left a key in the         *)
(* runtime, Repairing that whoever makes the hash or the seal stale is     *)
(* still under way and will mend it, was refused, or was overtaken by a    *)
(* late seal; SealsInOrder that a seal not stored yet is that of the key   *)
(* or known to be late; TakenInOrder that a heartbeat has nothing of a     *)
(* counter it has not taken yet.                                           *)
(***************************************************************************)
EXTENDS LicenseRuntime, TLAPS

ActStates == {"idle", "exchange", "take", "save", "validate", "hash", "mark",
              "seal", "store"}

Acts == [Requests -> [at : ActStates, key : MaybeKey, sealed : MaybeKey]]

\* An activation from TakeKey on has a key, and so has the runtime after it.
KeyTaken ==
    /\ \A r \in Requests : act[r].at \in {"take", "save"} => act[r].key # NoKey
    /\ \A r \in Requests :
         act[r].at \in {"save", "validate", "hash", "mark", "seal", "store"}
           => key # NoKey
    /\ active => key # NoKey

\* Past Validate, or active: the server has given or accepted a key.
Earned ==
    /\ \A r \in Requests : act[r].at \in {"hash", "mark", "seal", "store"}
         => accepted # {}
    /\ ActiveIsEarned

Under(S) == \E r \in Requests : act[r].at \in S

\* A seal that will be stored and is that of the runtime's key.
FreshSeal == \E r \in Requests \ late : act[r].at = "store"

\* A stale hash or seal has an activation under way that will renew it.
Repairing ==
    \/ key = NoKey
    \/ key \in refused
    \/ /\ hash = key \/ Under({"save", "validate", "hash"})
       /\ \/ seal = key \/ "seal" \in late \/ FreshSeal
          \/ Under({"save", "validate", "hash", "mark", "seal"})

\* Only a computed seal is late, and one that is not is that of the key.  No
\* activation runs before the process is up.
SealsInOrder ==
    /\ \A r \in Requests : r \in late => act[r].at = "store"
    /\ \A r \in Requests \ late : act[r].at = "store" => act[r].sealed = key
    /\ boot = "start" => ~Under(ActStates \ {"idle"})

\* The counters are taken in the order sent, recv.
TakenInOrder ==
    \A b \in Beats :
      /\ beat[b].at \in {"idle", "sent"} => beat[b].holds["sent"] = {}
      /\ beat[b].at # "post" => beat[b].holds["recv"] = {}

LicenseInv == LicenseTypeOK /\ KeyTaken /\ Earned /\ SealsInOrder /\ Repairing

CountInv == LicenseTypeOK /\ TakenInOrder /\ CountedOnce

\* The steps that change the license leave the counters alone or start a
\* heartbeat; the steps of the counters leave the license alone.
LicenseStep ==
    \/ InitializeRuntime \/ Register \/ \E r \in Requests : Activation(r)

CountStep ==
    TrackMessage \/ Tick \/ \E b \in Beats : Heartbeat(b)

-----------------------------------------------------------------------------
(* The license.                                                             *)

\* The initial states satisfy the invariant.
LEMMA LicenseInitInv == LicenseInit => LicenseInv
<1> SUFFICES ASSUME LicenseInit PROVE LicenseInv
  OBVIOUS
<1> USE LicenseAssumption DEF LicenseInit
<1>1. LicenseTypeOK
  <2>1. /\ act \in [Requests -> [at : {"idle"}, key : MaybeKey, sealed : MaybeKey]]
        /\ counter \in [Kinds -> SUBSET Messages]
        /\ beat \in [Beats -> [at : {"idle"}, holds : [Kinds -> SUBSET Messages]]]
    BY DEF NoActivation, NoBeat, MaybeKey
  <2>2. boots \in 1..MaxBoots
    OBVIOUS
  <2>3. QED
    BY <2>1, <2>2 DEF LicenseTypeOK, MaybeKey
<1>2. KeyTaken /\ Earned /\ SealsInOrder /\ Repairing
  BY DEF KeyTaken, Earned, ActiveIsEarned, SealsInOrder, Under, Repairing,
         NoActivation
<1>3. QED
  BY <1>1, <1>2 DEF LicenseInv

\* A start takes a key from the table, the environment or the server.
LEMMA BootKeepsInv == LicenseInv /\ InitializeRuntime => LicenseInv'
<1> SUFFICES ASSUME LicenseInv, InitializeRuntime PROVE LicenseInv'
  OBVIOUS
<1> USE LicenseAssumption DEF LicenseInv, LicenseTypeOK, MaybeKey
<1>1. /\ boot = "start"
      /\ UNCHANGED <<boots, url, act, late, counter, beat, reported, lost, refused>>
  BY DEF InitializeRuntime, BootSaved, BootGlobal, BootAutomatic, counts
<1>2. \/ \E k \in Keys : /\ row' \in {k, row}
                         /\ Activate(k)
                         /\ accepted' = accepted \cup {k}
      \/ boot' = "up" /\ UNCHANGED <<row, key, hash, seal, active, accepted>>
  BY DEF InitializeRuntime, BootSaved, BootGlobal, BootAutomatic
<1>3. ASSUME NEW k \in Keys, row' \in {k, row}, Activate(k),
             accepted' = accepted \cup {k}
      PROVE  LicenseInv'
  <2>1. LicenseTypeOK'
    BY <1>1, <1>3 DEF Activate
  <2>2. KeyTaken'
    BY <1>1, <1>3 DEF Activate, KeyTaken
  <2>3. Earned' /\ Repairing' /\ SealsInOrder'
    BY <1>1, <1>3 DEF Activate, Earned, ActiveIsEarned, Repairing, SealsInOrder,
                      Under, ActStates
  <2>4. QED
    BY <2>1, <2>2, <2>3
<1>4. ASSUME boot' = "up", UNCHANGED <<row, key, hash, seal, active, accepted>>
      PROVE  LicenseInv'
  BY <1>1, <1>4 DEF KeyTaken, Earned, ActiveIsEarned, Repairing, Under,
                    SealsInOrder, FreshSeal
<1>5. QED
  BY <1>2, <1>3, <1>4

\* What an activation's step makes of its own record.
LEMMA ActivationRecord ==
  ASSUME LicenseTypeOK, NEW r \in Requests, Activation(r)
  PROVE  /\ act' \in Acts
         /\ \A q \in Requests : q # r => act'[q] = act[q]
         /\ act'[r].key = act[r].key \/ act[r].at = "exchange"
                                     \/ act'[r].at = "idle"
<1> USE DEF Acts
<1>1. act \in Acts /\ key \in MaybeKey
  BY DEF LicenseTypeOK, ActStates
<1>2. \/ act' = [act EXCEPT ![r] = NoActivation]
      \/ /\ act[r].at = "exchange"
         /\ \E k \in Keys :
              act' = [act EXCEPT ![r] = [at |-> "take", key |-> k, sealed |-> NoKey]]
      \/ act' = [act EXCEPT ![r].at = "store", ![r].sealed = key]
      \/ \E at \in ActStates : act' = [act EXCEPT ![r].at = at]
  BY DEF Activation, ActivateRequested, Exchange, TakeKey, SaveKey, Validate,
         HashKey, MarkActive, ComputeSeal, StoreSeal, ActStates
<1>3. CASE act' = [act EXCEPT ![r] = NoActivation]
  BY <1>1, <1>3 DEF NoActivation, ActStates, MaybeKey
<1>4. ASSUME NEW k \in Keys, act[r].at = "exchange",
             act' = [act EXCEPT ![r] = [at |-> "take", key |-> k, sealed |-> NoKey]]
      PROVE  act' \in Acts /\ \A q \in Requests : q # r => act'[q] = act[q]
  BY <1>1, <1>4 DEF ActStates, MaybeKey
<1>5. ASSUME NEW at \in ActStates, act' = [act EXCEPT ![r].at = at]
      PROVE  /\ act' \in Acts
             /\ \A q \in Requests : q # r => act'[q] = act[q]
             /\ act'[r].key = act[r].key
  BY <1>1, <1>5
<1>6. CASE act' = [act EXCEPT ![r].at = "store", ![r].sealed = key]
  BY <1>1, <1>6 DEF ActStates
<1>7. QED
  BY <1>2, <1>3, <1>4, <1>5, <1>6

\* The steps of an activation keep the state well-typed.
LEMMA ActivationKeepsTypes ==
  ASSUME LicenseInv, NEW r \in Requests, Activation(r)
  PROVE  LicenseTypeOK'
<1> USE LicenseAssumption DEF LicenseInv
<1>1. act' \in Acts
  BY ActivationRecord
<1>2. /\ row \in MaybeKey /\ key \in MaybeKey /\ hash \in MaybeKey
      /\ seal \in MaybeKey /\ act[r].key \in MaybeKey
      /\ act[r].sealed \in MaybeKey /\ late \subseteq Requests \cup {"seal"}
      /\ accepted \subseteq Keys /\ refused \subseteq Keys
  BY DEF LicenseTypeOK
<1>3. row' \in MaybeKey /\ key' \in MaybeKey /\ hash' \in MaybeKey
      /\ seal' \in MaybeKey /\ late' \subseteq Requests \cup {"seal"}
  BY <1>2 DEF Activation, ActivateRequested, Exchange, TakeKey, SaveKey,
              Validate, HashKey, MarkActive, ComputeSeal, StoreSeal
<1>4. /\ boot' \in {"start", "up"} /\ boots' \in 1..MaxBoots
      /\ active' \in BOOLEAN /\ url' \in BOOLEAN
      /\ counter' = counter /\ reported' = reported /\ lost' = lost
  BY DEF LicenseTypeOK, counts, Activation, ActivateRequested, Exchange,
         TakeKey, SaveKey, Validate, HashKey, MarkActive, ComputeSeal, StoreSeal
<1>5. accepted' \subseteq Keys /\ refused' \subseteq Keys
  BY <1>2 DEF Activation, ActivateRequested, Exchange, TakeKey, SaveKey,
              Validate, HashKey, MarkActive, ComputeSeal, StoreSeal,
              KeyTaken, MaybeKey
<1>6. beat' = beat \/ beat' = [beat EXCEPT ![r].at = "sent"]
  BY DEF counts, Activation, ActivateRequested, Exchange, TakeKey, SaveKey,
         Validate, HashKey, MarkActive, ComputeSeal, StoreSeal
<1>7. beat' \in [Beats -> [at : {"idle", "post"} \cup Kinds,
                           holds : [Kinds -> SUBSET Messages]]]
  BY <1>6 DEF LicenseTypeOK, Kinds, Beats
<1>8. QED
  BY <1>1, <1>3, <1>4, <1>5, <1>7 DEF LicenseTypeOK, Acts, ActStates

\* ... and never leave a stale hash without somebody to renew it.
LEMMA ActivationKeepsInv ==
  ASSUME LicenseInv, NEW r \in Requests, Activation(r)
  PROVE  LicenseInv'
<1> USE LicenseAssumption DEF LicenseInv
<1>1. LicenseTypeOK'
  BY ActivationKeepsTypes
<1>2. /\ act' \in Acts
      /\ \A q \in Requests : q # r => act'[q] = act[q]
      /\ act'[r].key = act[r].key \/ act[r].at = "exchange"
                                  \/ act'[r].at = "idle"
  BY ActivationRecord
<1>3. act \in Acts /\ late \subseteq Requests \cup {"seal"} /\ "seal" \notin Requests
  BY DEF LicenseTypeOK, Acts, ActStates
<1>4. boot' = "up" /\ boot = "up"
  <2>1. boot' = boot /\ (act[r].at = "idle" => boot = "up")
    BY DEF Activation, ActivateRequested, Exchange, TakeKey, SaveKey, Validate,
           HashKey, MarkActive, ComputeSeal, StoreSeal
  <2>2. act[r].at \in ActStates
    BY <1>3 DEF Acts
  <2>3. QED
    BY <2>1, <2>2 DEF SealsInOrder, Under, LicenseTypeOK
<1>5. ASSUME UNCHANGED <<late, key>>, act[r].at # "store", act'[r].at # "store"
      PROVE  SealsInOrder'
  <2>1. r \notin late
    BY <1>5 DEF SealsInOrder
  <2>2. QED
    BY <1>2, <1>4, <1>5, <2>1 DEF SealsInOrder
<1>6. CASE ActivateRequested(r)
  <2>1. act'[r].at = "exchange" /\ act[r].at = "idle"
    BY <1>3, <1>6 DEF ActivateRequested, Acts
  <2>2. UNCHANGED <<boot, late, key, hash, seal, active, accepted, refused>>
    BY <1>6 DEF ActivateRequested, Acts
  <2>3. KeyTaken' /\ Earned'
    BY <1>2, <2>1, <2>2 DEF KeyTaken, Earned, ActiveIsEarned
  <2>4. SealsInOrder'
    BY <2>1, <2>2, <1>5
  <2>5. Repairing'
    BY <1>2, <2>1, <2>2 DEF Repairing, Under, FreshSeal
  <2>6. QED
    BY <1>1, <2>3, <2>4, <2>5
<1>7. CASE Exchange(r)
  <2>1. /\ act[r].at = "exchange"
        /\ \/ act'[r].at = "take" /\ act'[r].key # NoKey
           \/ act'[r].at = "idle"
    BY <1>3, <1>7 DEF Exchange, NoActivation, Acts
  <2>2. UNCHANGED <<boot, late, key, hash, seal, active, accepted, refused>>
    BY <1>7 DEF Exchange
  <2>3. KeyTaken' /\ Earned'
    BY <1>2, <2>1, <2>2 DEF KeyTaken, Earned, ActiveIsEarned
  <2>4. SealsInOrder'
    BY <2>1, <2>2, <1>5
  <2>5. Repairing'
    BY <1>2, <2>1, <2>2 DEF Repairing, Under, FreshSeal
  <2>6. QED
    BY <1>1, <2>3, <2>4, <2>5
<1>8. CASE TakeKey(r)
  <2>1. act[r].at = "take" /\ act'[r].at = "save" /\ act'[r].key = act[r].key
    BY <1>3, <1>8 DEF TakeKey, Acts
  <2>2. key' # NoKey /\ UNCHANGED <<hash, seal, active, accepted, refused>>
        /\ late' = late \cup {q \in Requests : act[q].at = "store"}
    BY <1>8 DEF TakeKey, KeyTaken
  <2>3. KeyTaken' /\ Earned'
    BY <1>2, <2>1, <2>2 DEF KeyTaken, Earned, ActiveIsEarned
  <2>4. SealsInOrder'
    BY <1>2, <1>3, <1>4, <2>1, <2>2 DEF SealsInOrder
  <2>5. Repairing'
    BY <1>2, <2>1, <2>2 DEF Repairing, Under, FreshSeal
  <2>6. QED
    BY <1>1, <2>3, <2>4, <2>5
<1>9. CASE SaveKey(r)
  <2>1. act[r].at = "save" /\ act'[r].at = "validate"
    BY <1>3, <1>9 DEF SaveKey, Acts
  <2>2. UNCHANGED <<boot, late, key, hash, seal, active, accepted, refused>>
    BY <1>9 DEF SaveKey, Acts
  <2>3. KeyTaken' /\ Earned'
    BY <1>2, <2>1, <2>2 DEF KeyTaken, Earned, ActiveIsEarned
  <2>4. SealsInOrder'
    BY <2>1, <2>2, <1>5
  <2>5. Repairing'
    BY <1>2, <2>1, <2>2 DEF Repairing, Under, FreshSeal
  <2>6. QED
    BY <1>1, <2>3, <2>4, <2>5
<1>10. CASE Validate(r)
  <2>1. /\ act[r].at = "validate"
        /\ \/ act'[r].at = "hash" /\ accepted' = accepted \cup {key}
              /\ refused' = refused
           \/ act'[r].at = "idle" /\ accepted' = accepted
              /\ refused' = refused \cup {key}
    BY <1>3, <1>10 DEF Validate, NoActivation, Acts
  <2>2. UNCHANGED <<boot, late, key, hash, seal, active>>
    BY <1>10 DEF Validate
  <2>3. KeyTaken' /\ Earned'
    BY <1>2, <2>1, <2>2 DEF KeyTaken, Earned, ActiveIsEarned
  <2>4. SealsInOrder'
    BY <2>1, <2>2, <1>5
  <2>5. Repairing'
    BY <1>2, <2>1, <2>2 DEF Repairing, Under, FreshSeal
  <2>6. QED
    BY <1>1, <2>3, <2>4, <2>5
<1>11. CASE HashKey(r)
  <2>1. act[r].at = "hash" /\ act'[r].at = "mark" /\ hash' = key
    BY <1>3, <1>11 DEF HashKey, Acts
  <2>2. UNCHANGED <<boot, late, key, seal, active, accepted, refused>>
    BY <1>11 DEF HashKey, Acts
  <2>3. KeyTaken' /\ Earned'
    BY <1>2, <2>1, <2>2 DEF KeyTaken, Earned, ActiveIsEarned
  <2>4. SealsInOrder'
    BY <2>1, <2>2, <1>5
  <2>5. Repairing'
    BY <1>2, <2>1, <2>2 DEF Repairing, Under, FreshSeal
  <2>6. QED
    BY <1>1, <2>3, <2>4, <2>5
<1>12. CASE MarkActive(r)
  <2>1. act[r].at = "mark" /\ act'[r].at = "seal" /\ active'
    BY <1>3, <1>12 DEF MarkActive, Acts
  <2>2. UNCHANGED <<boot, late, key, hash, seal, accepted, refused>>
    BY <1>12 DEF MarkActive, Acts
  <2>3. KeyTaken' /\ Earned'
    BY <1>2, <2>1, <2>2 DEF KeyTaken, Earned, ActiveIsEarned
  <2>4. SealsInOrder'
    BY <2>1, <2>2, <1>5
  <2>5. Repairing'
    BY <1>2, <2>1, <2>2 DEF Repairing, Under, FreshSeal
  <2>6. QED
    BY <1>1, <2>3, <2>4, <2>5
<1>13. CASE ComputeSeal(r)
  <2>1. act[r].at = "seal" /\ act'[r].at = "store" /\ act'[r].sealed = key
    BY <1>3, <1>13 DEF ComputeSeal, Acts
  <2>2. UNCHANGED <<boot, late, key, hash, seal, active, accepted, refused>>
    BY <1>13 DEF ComputeSeal
  <2>3. KeyTaken' /\ Earned'
    BY <1>2, <2>1, <2>2 DEF KeyTaken, Earned, ActiveIsEarned
  <2>4. SealsInOrder'
    BY <1>2, <1>4, <2>1, <2>2 DEF SealsInOrder
  <2>5. r \notin late
    BY <2>1 DEF SealsInOrder
  <2>6. Repairing'
    BY <1>2, <2>1, <2>2, <2>5 DEF Repairing, Under, FreshSeal
  <2>7. QED
    BY <1>1, <2>3, <2>4, <2>6
<1>14. CASE StoreSeal(r)
  <2>1. /\ act[r].at = "store" /\ act'[r].at = "idle" /\ seal' = act[r].sealed
        /\ late' = (late \ {r, "seal"}) \cup (IF r \in late THEN {"seal"} ELSE {})
    BY <1>3, <1>14 DEF StoreSeal, NoActivation, Acts
  <2>2. UNCHANGED <<boot, key, hash, active, accepted, refused>>
    BY <1>14 DEF StoreSeal
  <2>3. KeyTaken' /\ Earned'
    BY <1>2, <2>1, <2>2 DEF KeyTaken, Earned, ActiveIsEarned
  <2>4. SealsInOrder'
    BY <1>2, <1>3, <1>4, <2>1, <2>2 DEF SealsInOrder
  <2>5. "seal" \in late' \/ seal' = key
    BY <2>1 DEF SealsInOrder
  <2>6. Repairing'
    BY <1>2, <2>1, <2>2, <2>5 DEF Repairing, Under
  <2>7. QED
    BY <1>1, <2>3, <2>4, <2>6
<1>15. QED
  BY <1>6, <1>7, <1>8, <1>9, <1>10, <1>11, <1>12, <1>13, <1>14 DEF Activation

-----------------------------------------------------------------------------
(* The counters.                                                            *)

\* The initial states satisfy the invariant.
LEMMA CountInitInv == LicenseInit => TakenInOrder /\ CountedOnce
<1> SUFFICES ASSUME LicenseInit PROVE TakenInOrder /\ CountedOnce
  OBVIOUS
<1>1. /\ \A b \in Beats : beat[b].holds = [k \in Kinds |-> {}]
      /\ counter = [k \in Kinds |-> {}] /\ reported = {} /\ lost = {}
  BY DEF LicenseInit, NoBeat
<1>2. TakenInOrder
  BY <1>1 DEF TakenInOrder, Kinds
<1>3. \A p \in Places : Holds(p) = {}
  BY <1>1 DEF Places, Holds
<1>4. CountedOnce
  BY <1>1, <1>3 DEF CountedOnce
<1>5. QED
  BY <1>2, <1>4

\* A heartbeat's start leaves what every heartbeat holds.
LEMMA SameHoldings ==
  ASSUME CountInv, NEW b \in Beats,
         beat[b].at = "idle", beat' = [beat EXCEPT ![b].at = "sent"],
         UNCHANGED <<counter, reported, lost>>
  PROVE  TakenInOrder' /\ CountedOnce' /\ Tracked' = Tracked
<1> USE DEF CountInv, LicenseTypeOK
<1>1. /\ beat'[b].at = "sent" /\ beat'[b].holds = beat[b].holds
      /\ \A c \in Beats : c # b => beat'[c] = beat[c]
  OBVIOUS
<1>2. \A c \in Beats : beat'[c].holds = beat[c].holds
  BY <1>1
<1>3. TakenInOrder'
  BY <1>1, <1>2 DEF TakenInOrder
<1>4. \A p \in Places : Holds(p)' = Holds(p)
  BY <1>2 DEF Places, Holds
<1>5. CountedOnce'
  BY <1>4 DEF CountedOnce
<1>6. Tracked' = Tracked
  BY <1>2 DEF Tracked
<1>7. QED
  BY <1>3, <1>5, <1>6

\* The counters do not see the license, nor its restart of a heartbeat.
LEMMA LicenseKeepsCounts ==
  ASSUME CountInv, LicenseStep
  PROVE  TakenInOrder' /\ CountedOnce' /\ Tracked' = Tracked
<1>1. CASE UNCHANGED counts
  BY <1>1 DEF counts, CountInv, TakenInOrder, CountedOnce, Places, Holds, Tracked
<1>2. ASSUME NEW r \in Requests, StoreSeal(r)
      PROVE  TakenInOrder' /\ CountedOnce' /\ Tracked' = Tracked
  BY <1>2, SameHoldings DEF StoreSeal, Beats
<1>3. QED
  BY <1>1, <1>2 DEF LicenseStep, InitializeRuntime, Register, Activation,
                    ActivateRequested, Exchange, TakeKey, SaveKey, Validate,
                    HashKey, MarkActive, ComputeSeal

\* Where a message is, by the parts of Tracked.
LEMMA TrackedByPlace ==
  ASSUME NEW m
  PROVE  m \in Tracked <=> \/ m \in reported \cup lost
                           \/ \E k \in Kinds : m \in counter[k]
                           \/ \E k \in Kinds, b \in Beats : m \in beat[b].holds[k]
  BY DEF Tracked, Kinds

\* The places: the counters and the heartbeats.
LEMMA PlaceOf ==
  /\ \A k \in Kinds : [kind |-> k, of |-> "counter"] \in Places
  /\ \A k \in Kinds : Holds([kind |-> k, of |-> "counter"]) = counter[k]
  /\ \A k \in Kinds, b \in Beats : [kind |-> k, of |-> b] \in Places
  /\ \A k \in Kinds, b \in Beats :
       Holds([kind |-> k, of |-> b]) = beat[b].holds[k]
  /\ \A p \in Places : /\ p.kind \in Kinds
                       /\ p = [kind |-> p.kind, of |-> p.of]
                       /\ p.of = "counter" \/ p.of \in Beats
  /\ "counter" \notin Beats
<1>1. "counter" \notin Beats
  BY LicenseAssumption DEF Beats
<1>2. QED
  BY <1>1 DEF Places, Holds

\* The same after a step.
LEMMA PlaceOfNext ==
  /\ \A k \in Kinds : Holds([kind |-> k, of |-> "counter"])' = counter'[k]
  /\ \A k \in Kinds, b \in Beats :
       Holds([kind |-> k, of |-> b])' = beat'[b].holds[k]
<1>1. "counter" \notin Beats
  BY LicenseAssumption DEF Beats
<1>2. QED
  BY <1>1 DEF Places, Holds

\* A new message is in no other place.
LEMMA TrackKeepsCounts ==
  ASSUME CountInv, TrackMessage
  PROVE  TakenInOrder' /\ CountedOnce' /\ Tracked \subseteq Tracked'
<1> USE DEF CountInv
<1>1. PICK m \in Messages \ Tracked, k \in Kinds :
        counter' = [counter EXCEPT ![k] = @ \cup {m}]
  BY DEF TrackMessage
<1>2. UNCHANGED <<beat, reported, lost>>
  BY DEF TrackMessage
<1>3. counter \in [Kinds -> SUBSET Messages]
  BY DEF LicenseTypeOK
<1>4. \A p \in Places : Holds(p)' = Holds(p) \/ Holds(p)' = Holds(p) \cup {m}
  BY <1>1, <1>2, <1>3 DEF Places, Holds
<1>5. \A p, q \in Places : p # q => Holds(p)' = Holds(p) \/ Holds(q)' = Holds(q)
  BY <1>1, <1>2, <1>3, PlaceOf, PlaceOfNext
<1>6. \A p \in Places : m \notin Holds(p)
  BY <1>1, PlaceOf, TrackedByPlace
<1>7. m \notin reported /\ m \notin lost
  BY <1>1, TrackedByPlace
<1>8. CountedOnce'
  BY <1>2, <1>4, <1>5, <1>6, <1>7 DEF CountedOnce
<1>9. TakenInOrder'
  BY <1>2 DEF TakenInOrder
<1>10. Tracked \subseteq Tracked'
  BY <1>1, <1>2, <1>3 DEF Tracked, Kinds
<1>11. QED
  BY <1>8, <1>9, <1>10

\* A swap moves what one counter has to a heartbeat that has nothing of it.
LEMMA SwapKeepsCounts ==
  ASSUME CountInv, NEW b \in Beats, SwapCounter(b)
  PROVE  TakenInOrder' /\ CountedOnce' /\ Tracked \subseteq Tracked'
<1> USE DEF CountInv
<1>1. PICK k \in Kinds :
        /\ beat[b].at = k
        /\ beat' = [beat EXCEPT ![b].at = IF k = "sent" THEN "recv" ELSE "post",
                                ![b].holds = [@ EXCEPT ![k] = counter[k]]]
        /\ counter' = [counter EXCEPT ![k] = {}]
  BY DEF SwapCounter
<1>2. UNCHANGED <<reported, lost>>
  BY DEF SwapCounter
<1>3. /\ counter \in [Kinds -> SUBSET Messages]
      /\ beat \in [Beats -> [at : {"idle", "post"} \cup Kinds,
                             holds : [Kinds -> SUBSET Messages]]]
  BY DEF LicenseTypeOK
<1>4. /\ beat'[b].at = IF k = "sent" THEN "recv" ELSE "post"
      /\ beat'[b].holds = [beat[b].holds EXCEPT ![k] = counter[k]]
      /\ \A c \in Beats : c # b => beat'[c] = beat[c]
  BY <1>1, <1>3
<1>5. beat[b].holds[k] = {}
  BY <1>1 DEF TakenInOrder, Kinds
<1>6. /\ beat'[b].holds[k] = counter[k] /\ counter'[k] = {}
      /\ \A l \in Kinds : l # k => /\ beat'[b].holds[l] = beat[b].holds[l]
                                   /\ counter'[l] = counter[l]
      /\ \A c \in Beats, l \in Kinds :
           c # b => beat'[c].holds[l] = beat[c].holds[l]
  BY <1>1, <1>3, <1>4
<1>7. TakenInOrder'
  <2>1. CASE k = "sent"
    <3>1. beat'[b].at = "recv" /\ beat'[b].holds["recv"] = {}
      BY <1>1, <1>4, <1>6, <2>1 DEF TakenInOrder, Kinds
    <3>2. QED
      BY <1>4, <3>1 DEF TakenInOrder
  <2>2. CASE k = "recv"
    <3>1. beat'[b].at = "post"
      BY <1>4, <2>2
    <3>2. QED
      BY <1>4, <3>1 DEF TakenInOrder
  <2>3. QED
    BY <2>1, <2>2 DEF Kinds
<1>8. /\ Holds([kind |-> k, of |-> "counter"])' = {}
      /\ Holds([kind |-> k, of |-> b])' = Holds([kind |-> k, of |-> "counter"])
      /\ \A p \in Places :
           \/ p = [kind |-> k, of |-> "counter"]
           \/ p = [kind |-> k, of |-> b]
           \/ Holds(p)' = Holds(p)
  BY <1>6, PlaceOf, PlaceOfNext
<1>9. CountedOnce'
  BY <1>2, <1>8, PlaceOf DEF CountedOnce
<1>10. Tracked \subseteq Tracked'
  BY <1>2, <1>5, <1>6 DEF Tracked, Kinds
<1>11. QED
  BY <1>7, <1>9, <1>10

\* What a heartbeat that ends holds goes to reported or back to the counters.
LEMMA EndKeepsCounts ==
  ASSUME CountInv, NEW b \in Beats, HeartbeatConfirmed(b) \/ HeartbeatFails(b)
  PROVE  TakenInOrder' /\ CountedOnce' /\ Tracked \subseteq Tracked'
<1> USE DEF CountInv
<1>1. /\ counter \in [Kinds -> SUBSET Messages]
      /\ beat \in [Beats -> [at : {"idle", "post"} \cup Kinds,
                             holds : [Kinds -> SUBSET Messages]]]
  BY DEF LicenseTypeOK
<1>2. beat' = [beat EXCEPT ![b] = NoBeat] /\ lost' = lost
  BY DEF HeartbeatConfirmed, HeartbeatFails
<1>3. /\ beat'[b] = NoBeat
      /\ \A c \in Beats : c # b => beat'[c] = beat[c]
  BY <1>1, <1>2
<1>4. /\ \A l \in Kinds : beat'[b].holds[l] = {}
      /\ beat'[b].at = "idle"
  BY <1>3 DEF NoBeat
<1>5. TakenInOrder'
  BY <1>3, <1>4 DEF TakenInOrder, Kinds
<1>6. CASE HeartbeatConfirmed(b)
  <2>1. /\ counter' = counter
        /\ reported' = reported \cup beat[b].holds["sent"]
                                \cup beat[b].holds["recv"]
    BY <1>6 DEF HeartbeatConfirmed
  <2>2. /\ \A l \in Kinds : Holds([kind |-> l, of |-> b])' = {}
        /\ \A p \in Places : p.of # b => Holds(p)' = Holds(p)
    BY <1>3, <1>4, <2>1, PlaceOf, PlaceOfNext
  <2>3. reported' = reported \cup Holds([kind |-> "sent", of |-> b])
                             \cup Holds([kind |-> "recv", of |-> b])
    BY <2>1, PlaceOf DEF Kinds
  <2>4. CountedOnce'
    BY <1>2, <2>2, <2>3, PlaceOf DEF CountedOnce, Kinds
  <2>5. Tracked \subseteq Tracked'
    BY <1>2, <1>3, <2>1 DEF Tracked, Kinds
  <2>6. QED
    BY <1>5, <2>4, <2>5
<1>7. CASE HeartbeatFails(b)
  <2>1. /\ reported' = reported
        /\ \A l \in Kinds : counter'[l] = counter[l] \cup beat[b].holds[l]
    BY <1>7 DEF HeartbeatFails
  <2>2. /\ \A l \in Kinds : Holds([kind |-> l, of |-> b])' = {}
        /\ \A l \in Kinds : Holds([kind |-> l, of |-> "counter"])'
                             = Holds([kind |-> l, of |-> "counter"])
                               \cup Holds([kind |-> l, of |-> b])
        /\ \A p \in Places :
             p.of # b /\ p.of # "counter" => Holds(p)' = Holds(p)
    BY <1>3, <1>4, <2>1, PlaceOf, PlaceOfNext
  <2>3. \A p \in Places :
          \/ Holds(p)' = {}
          \/ p.of # "counter" /\ p.of # b /\ Holds(p)' = Holds(p)
          \/ /\ p.of = "counter"
             /\ [kind |-> p.kind, of |-> b] \in Places
             /\ Holds(p)' = Holds(p) \cup Holds([kind |-> p.kind, of |-> b])
    BY <2>2, PlaceOf
  <2>4. \A p \in Places : Holds(p)' \cap (reported \cup lost) = {}
    BY <2>3 DEF CountedOnce
  <2>5. ASSUME NEW p \in Places, NEW q \in Places, p # q
        PROVE  Holds(p)' \cap Holds(q)' = {}
    <3>1. \A x \in Places : x.of = "counter" =>
            \E y \in Places : /\ y.of = b /\ y.kind = x.kind
                              /\ Holds(x)' = Holds(x) \cup Holds(y)
      <4> TAKE x \in Places
      <4> HAVE x.of = "counter"
      <4>1. Holds(x)' = Holds(x) \cup Holds([kind |-> x.kind, of |-> b])
        BY <2>2, PlaceOf
      <4>2. [kind |-> x.kind, of |-> b] \in Places
        BY PlaceOf
      <4>3. QED
        BY <4>1, <4>2
    <3>2. b # "counter" /\ (p.kind # q.kind \/ p.of # q.of)
      BY <2>5, PlaceOf
    <3>3. CASE p.of = "counter"
      <4>1. PICK r \in Places : /\ r.of = b /\ r.kind = p.kind
                                /\ Holds(p)' = Holds(p) \cup Holds(r)
        BY <3>1, <3>3
      <4>2. CASE q.of = "counter"
        <5>1. PICK t \in Places : /\ t.of = b /\ t.kind = q.kind
                                  /\ Holds(q)' = Holds(q) \cup Holds(t)
          BY <3>1, <4>2
        <5>2. p # q /\ p # t /\ r # q /\ r # t
          BY <3>2, <3>3, <4>1, <4>2, <5>1
        <5>3. QED
          BY <4>1, <5>1, <5>2 DEF CountedOnce
      <4>3. CASE q.of # "counter"
        <5>1. Holds(q)' = {} \/ (q.of # b /\ Holds(q)' = Holds(q))
          BY <2>3, <4>3
        <5>2. Holds(p) \cap Holds(q) = {}
          BY <2>5 DEF CountedOnce
        <5>3. q.of # b => Holds(r) \cap Holds(q) = {}
          BY <4>1 DEF CountedOnce
        <5>4. QED
          BY <4>1, <5>1, <5>2, <5>3
      <4>4. QED
        BY <4>2, <4>3
    <3>4. CASE p.of # "counter"
      <4>1. CASE q.of = "counter"
        <5>1. PICK t \in Places : /\ t.of = b /\ t.kind = q.kind
                                  /\ Holds(q)' = Holds(q) \cup Holds(t)
          BY <3>1, <4>1
        <5>2. QED
          <6>1. Holds(p)' = {} \/ (p.of # b /\ Holds(p)' = Holds(p))
            BY <2>3, <3>4
          <6>2. Holds(p) \cap Holds(q) = {}
            BY <2>5 DEF CountedOnce
          <6>3. p.of # b => Holds(p) \cap Holds(t) = {}
            BY <5>1 DEF CountedOnce
          <6>4. QED
            BY <5>1, <6>1, <6>2, <6>3
      <4>2. CASE q.of # "counter"
        BY <2>3, <2>5, <3>4, <4>2 DEF CountedOnce
      <4>3. QED
        BY <4>1, <4>2
    <3>5. QED
      BY <3>3, <3>4
  <2>6. CountedOnce'
    BY <1>2, <2>1, <2>4, <2>5 DEF CountedOnce
  <2>7. Tracked \subseteq Tracked'
    BY <1>2, <1>3, <2>1 DEF Tracked, Kinds
  <2>8. QED
    BY <1>5, <2>6, <2>7
<1>8. QED
  BY <1>6, <1>7

\* The counters' steps: each keeps its messages apart and forgets none.
LEMMA CountStepKeeps ==
  ASSUME CountInv, CountStep
  PROVE  TakenInOrder' /\ CountedOnce' /\ Tracked \subseteq Tracked'
<1>1. CASE TrackMessage
  BY <1>1, TrackKeepsCounts
<1>2. CASE Tick
  BY <1>2, SameHoldings DEF Tick, license, Beats
<1>3. ASSUME NEW b \in Beats, Heartbeat(b)
      PROVE  TakenInOrder' /\ CountedOnce' /\ Tracked \subseteq Tracked'
  BY <1>3, SwapKeepsCounts, EndKeepsCounts DEF Heartbeat
<1>4. QED
  BY <1>1, <1>2, <1>3 DEF CountStep

\* ... and keeps the state well-typed.
LEMMA CountStepTypes ==
  ASSUME LicenseTypeOK, CountStep
  PROVE  LicenseTypeOK'
<1> USE LicenseAssumption DEF LicenseTypeOK
<1>1. UNCHANGED license
  BY DEF CountStep, TrackMessage, Tick, Heartbeat, SwapCounter,
         HeartbeatConfirmed, HeartbeatFails
<1>2. CASE TrackMessage
  BY <1>1, <1>2 DEF TrackMessage, license
<1>3. CASE Tick
  <2>1. beat' = [beat EXCEPT !["ticker"].at = "sent"] /\ "ticker" \in Beats
    BY <1>3 DEF Tick, Beats
  <2>2. beat' \in [Beats -> [at : {"idle", "post"} \cup Kinds,
                             holds : [Kinds -> SUBSET Messages]]]
    BY <2>1 DEF Kinds
  <2>3. UNCHANGED <<counter, reported, lost>>
    BY <1>3 DEF Tick
  <2>4. QED
    BY <1>1, <2>2, <2>3 DEF license
<1>4. ASSUME NEW b \in Beats, SwapCounter(b) PROVE LicenseTypeOK'
  <2>1. PICK k \in Kinds :
          /\ beat' = [beat EXCEPT ![b].at = IF k = "sent" THEN "recv" ELSE "post",
                                  ![b].holds = [@ EXCEPT ![k] = counter[k]]]
          /\ counter' = [counter EXCEPT ![k] = {}]
    BY <1>4 DEF SwapCounter
  <2>2. counter' \in [Kinds -> SUBSET Messages]
    BY <2>1
  <2>3. /\ beat'[b] = [at |-> IF k = "sent" THEN "recv" ELSE "post",
                       holds |-> [beat[b].holds EXCEPT ![k] = counter[k]]]
        /\ \A c \in Beats : c # b => beat'[c] = beat[c]
        /\ beat' = [c \in Beats |-> beat'[c]]
    BY <2>1
  <2>4. beat' \in [Beats -> [at : {"idle", "post"} \cup Kinds,
                             holds : [Kinds -> SUBSET Messages]]]
    BY <2>3 DEF Kinds
  <2>5. UNCHANGED <<reported, lost>>
    BY <1>4 DEF SwapCounter
  <2>6. QED
    BY <1>1, <2>2, <2>4, <2>5 DEF license
<1>5. ASSUME NEW b \in Beats, HeartbeatConfirmed(b) PROVE LicenseTypeOK'
  BY <1>1, <1>5 DEF HeartbeatConfirmed, license, NoBeat, Kinds
<1>6. ASSUME NEW b \in Beats, HeartbeatFails(b) PROVE LicenseTypeOK'
  BY <1>1, <1>6 DEF HeartbeatFails, license, NoBeat, Kinds
<1>7. QED
  BY <1>2, <1>3, <1>4, <1>5, <1>6 DEF CountStep, Heartbeat

-----------------------------------------------------------------------------
(* The theorems.                                                            *)

\* A restart forgets the license and loses what was not reported.
LEMMA RestartKeepsInv ==
  ASSUME LicenseInv, CountInv, Restart
  PROVE  LicenseInv' /\ CountInv' /\ Tracked \subseteq Tracked'
<1> USE LicenseAssumption
<1>1. /\ \A b \in Beats : beat'[b].holds = [k \in Kinds |-> {}]
      /\ counter' = [k \in Kinds |-> {}]
      /\ reported' = reported /\ lost' = Tracked \ reported
  BY DEF Restart, NoBeat
<1>2. Tracked \subseteq Messages
  BY DEF CountInv, LicenseTypeOK, Tracked, Kinds
<1>3. LicenseTypeOK'
  <2>1. /\ act' \in [Requests -> [at : {"idle"}, key : MaybeKey,
                             sealed : MaybeKey]]
        /\ counter' \in [Kinds -> SUBSET Messages]
        /\ beat' \in [Beats -> [at : {"idle"}, holds : [Kinds -> SUBSET Messages]]]
    BY DEF Restart, NoActivation, NoBeat, MaybeKey
  <2>2. /\ boots' \in 1..MaxBoots /\ boot' = "start" /\ row' \in MaybeKey
        /\ key' = NoKey /\ hash' = NoKey /\ seal' = NoKey
        /\ active' = FALSE /\ url' = FALSE /\ accepted' = {} /\ refused' = {}
        /\ late' = {}
    BY DEF Restart, LicenseInv, LicenseTypeOK
  <2>3. QED
    BY <1>1, <1>2, <2>1, <2>2 DEF LicenseTypeOK, MaybeKey, LicenseInv
<1>4. KeyTaken' /\ Earned' /\ SealsInOrder' /\ Repairing'
  BY DEF Restart, KeyTaken, Earned, ActiveIsEarned, SealsInOrder, Under,
         Repairing, NoActivation
<1>5. TakenInOrder'
  BY <1>1 DEF TakenInOrder, Kinds
<1>6. \A p \in Places : Holds(p)' = {}
  BY <1>1 DEF Places, Holds
<1>7. CountedOnce'
  BY <1>1, <1>6 DEF CountedOnce
<1>8. Tracked \subseteq Tracked'
  BY <1>1 DEF Tracked
<1>9. QED
  BY <1>3, <1>4, <1>5, <1>7, <1>8 DEF LicenseInv, CountInv

\* Both invariants are inductive, and no step forgets a message.
LEMMA LicenseNextInv ==
  ASSUME LicenseInv, CountInv, [Next]_vars
  PROVE  LicenseInv' /\ CountInv' /\ Tracked \subseteq Tracked'
<1>1. CASE UNCHANGED vars
  BY <1>1 DEF vars, license, counts, LicenseInv, CountInv, LicenseTypeOK,
              KeyTaken, Earned, ActiveIsEarned, Repairing, Under, SealsInOrder,
              FreshSeal, TakenInOrder,
              CountedOnce, Places, Holds, Tracked
<1>2. CASE Restart
  BY <1>2, RestartKeepsInv
<1>3. CASE LicenseStep
  <2>1. LicenseInv'
    <3>1. CASE Register
      BY <3>1 DEF Register, counts, LicenseInv, LicenseTypeOK, KeyTaken, Earned,
                  ActiveIsEarned, Repairing, Under, SealsInOrder, FreshSeal
    <3>2. QED
      BY <1>3, <3>1, BootKeepsInv, ActivationKeepsInv DEF LicenseStep
  <2>2. QED
    BY <1>3, <2>1, LicenseKeepsCounts DEF CountInv, LicenseInv
<1>4. CASE CountStep
  <2>1. UNCHANGED license
    BY <1>4 DEF CountStep, TrackMessage, Tick, Heartbeat, SwapCounter,
                HeartbeatConfirmed, HeartbeatFails
  <2>2. LicenseTypeOK'
    BY <1>4, CountStepTypes DEF LicenseInv
  <2>3. KeyTaken' /\ Earned' /\ SealsInOrder' /\ Repairing'
    BY <2>1 DEF license, LicenseInv, KeyTaken, Earned, ActiveIsEarned,
                Repairing, Under, SealsInOrder, FreshSeal
  <2>4. QED
    BY <1>4, <2>2, <2>3, CountStepKeeps DEF LicenseInv, CountInv
<1>5. QED
  BY <1>1, <1>2, <1>3, <1>4 DEF Next, LicenseStep, CountStep

\* Every reachable state satisfies both.
THEOREM LicenseSafety == Spec => [](LicenseInv /\ CountInv)
<1>1. LicenseInit => LicenseInv /\ CountInv
  BY LicenseInitInv, CountInitInv DEF LicenseInv, CountInv
<1>2. (LicenseInv /\ CountInv) /\ [Next]_vars => (LicenseInv /\ CountInv)'
  BY LicenseNextInv
<1>3. QED
  BY <1>1, <1>2, PTL DEF Spec

\* Every reachable state is well-typed.
THEOREM LicenseTyped == Spec => []LicenseTypeOK
<1>1. LicenseInv => LicenseTypeOK
  BY DEF LicenseInv
<1>2. QED
  BY <1>1, LicenseSafety, PTL

\* ActivateCode and GateMiddleware: once activations are over the gate of an
\* active runtime is open, unless the server refused the key it has, and its
\* seal is of its key, unless one computed before another's key came last.
THEOREM GateOpensAfterActivations == Spec => []GateOpens
<1>1. LicenseInv => GateOpens
  BY DEF LicenseInv, LicenseTypeOK, KeyTaken, Repairing, Under, FreshSeal,
         GateOpens, GateOpen
<1>2. QED
  BY <1>1, LicenseSafety, PTL

\* InitializeRuntime and ActivateCode: no process is active without a key the
\* server gave or accepted, or that the table had.
THEOREM ActiveRuntimeIsEarned == Spec => []ActiveIsEarned
<1>1. LicenseInv => ActiveIsEarned
  BY DEF LicenseInv, Earned
<1>2. QED
  BY <1>1, LicenseSafety, PTL

\* The heartbeat's swaps and its failure: no message is counted twice.
THEOREM MessagesCountedOnce == Spec => []CountedOnce
<1>1. CountInv => CountedOnce
  BY DEF CountInv
<1>2. QED
  BY <1>1, LicenseSafety, PTL

\* ... and none is forgotten: the counts reported, held and lost never shrink.
THEOREM NoMessageForgotten == Spec => NoneForgotten
<1>1. LicenseInv /\ CountInv /\ [Next]_vars => [Tracked \subseteq Tracked']_vars
  BY LicenseNextInv
<1>2. QED
  BY <1>1, LicenseSafety, PTL DEF Spec, NoneForgotten
=============================================================================
