---------------------------- MODULE CeremonyStore ----------------------------
(***************************************************************************)
(* The in-memory store of passkey pairing ceremonies,                      *)
(* pkg/passkey/ceremony/store.go.                                          *)
(*                                                                         *)
(* Two maps kept under one mutex: byToken, from an ephemeral ceremony      *)
(* token to its entry, and byInst, from an instance to its active token.   *)
(* Three kinds of goroutines write them: the whatsmeow event handlers      *)
(* (Start, SetConfirmation, SetError, Clear), the public HTTP handlers     *)
(* (SetAwaitingConfirmation, SetConfirmed, SetError) and, through prune,   *)
(* every poll (Lookup).  The mutex makes each operation one step.          *)
(*                                                                         *)
(* Data: a token is a member of Tokens, chosen fresh where the code draws  *)
(* 32 random bytes; the public key, the code and the error text are the    *)
(* booleans "present".  Time: now is a clock, TTL is defaultTTL in its     *)
(* units.                                                                  *)
(***************************************************************************)
EXTENDS Naturals

CONSTANTS Instances,  \* instance ids
          Tokens,     \* ceremony tokens that may be drawn
          None,       \* "no such key", in either map
          TTL,        \* defaultTTL
          MaxTime     \* bound on the clock

VARIABLES byToken,  \* token -> entry, or None
          byInst,   \* instance -> token, or None
          minted,   \* the tokens drawn so far
          now       \* the clock

storeVars == <<byToken, byInst, minted, now>>

Stages == {"challenge", "awaiting_confirmation", "confirmation",
           "confirmed", "error"}

Entry == [inst : Instances, stage : Stages, key : BOOLEAN, code : BOOLEAN,
          err : BOOLEAN, expires : Nat]

ASSUME StoreAssumption ==
    /\ None \notin Tokens
    /\ None \notin Entry
    /\ TTL \in Nat
    /\ MaxTime \in Nat

-----------------------------------------------------------------------------
(* What the code reads. *)

Live(t) == byToken[t] # None

Expired(t) == now > byToken[t].expires

\* InstanceForToken(t) succeeds.  So does Lookup(t), which prunes first.
Visible(t) == Live(t) /\ ~Expired(t)

HasCeremony(i) == byInst[i] # None /\ Live(byInst[i])

\* StateByInstance(i) succeeds: what the manager's QR poll shows.
VisibleByInstance(i) == HasCeremony(i) /\ ~Expired(byInst[i])

\* The QR rotation asks this before it tears a socket down.
HasActiveByInstance(i) ==
    VisibleByInstance(i) /\ byToken[byInst[i]].stage # "error"

-----------------------------------------------------------------------------
(* What the code writes. *)

StoreInit ==
    /\ byToken = [t \in Tokens |-> None]
    /\ byInst = [i \in Instances |-> None]
    /\ minted = {}
    /\ now = 0

\* The maps that prune leaves behind: an expired entry goes, and with it the
\* index entry of its instance if that one names it.
PrunedTokens == [t \in Tokens |-> IF Visible(t) THEN byToken[t] ELSE None]

PrunedInst ==
    [i \in Instances |->
        IF HasCeremony(i) /\ Expired(byInst[i]) /\ byToken[byInst[i]].inst = i
        THEN None
        ELSE byInst[i]]

\* A Start that subtracts the TTL.
StartInThePast(i, t) ==
    /\ t \notin minted
    /\ minted' = minted \cup {t}
    /\ byToken' = [PrunedTokens EXCEPT ![t] =
                     [inst |-> i, stage |-> "challenge", key |-> TRUE,
                      code |-> FALSE, err |-> FALSE, expires |-> now - TTL]]
    /\ byInst' = [PrunedInst EXCEPT ![i] = t]
    /\ UNCHANGED now

\* A Start that hands the instance's live token out again.
StartReusesToken(i, t) ==
    /\ t \in Tokens
    /\ minted' = minted \cup {t}
    /\ byToken' = [u \in Tokens |->
                     IF u = t
                     THEN [inst |-> i, stage |-> "challenge", key |-> TRUE,
                           code |-> FALSE, err |-> FALSE, expires |-> now + TTL]
                     ELSE IF u = PrunedInst[i] THEN None ELSE PrunedTokens[u]]
    /\ byInst' = [PrunedInst EXCEPT ![i] = t]
    /\ UNCHANGED now

\* A new ceremony for i under the fresh token t replaces the one i has.
Start(i, t) ==
    /\ t \notin minted
    /\ minted' = minted \cup {t}
    /\ byToken' = [u \in Tokens |->
                     IF u = t
                     THEN [inst |-> i, stage |-> "challenge", key |-> TRUE,
                           code |-> FALSE, err |-> FALSE, expires |-> now + TTL]
                     ELSE IF u = PrunedInst[i] THEN None ELSE PrunedTokens[u]]
    /\ byInst' = [PrunedInst EXCEPT ![i] = t]
    /\ UNCHANGED now

\* The active ceremony of i, if it has one, gets these fields and lives for
\* another TTL.  Nothing checks that it has not expired already.
SetStateByInstance(i, stage, key, code, err) ==
    /\ byToken' =
         IF HasCeremony(i)
         THEN [byToken EXCEPT ![byInst[i]] =
                 [inst |-> byToken[byInst[i]].inst, stage |-> stage, key |-> key,
                  code |-> code, err |-> err, expires |-> now + TTL]]
         ELSE byToken
    /\ UNCHANGED <<byInst, minted, now>>

\* The fields a writer leaves alone.
OldKey(i) == byToken[byInst[i]].key
OldCode(i) == byToken[byInst[i]].code

SetConfirmation(i) ==
    SetStateByInstance(i, "confirmation", OldKey(i), TRUE, FALSE)

\* A SetAwaitingConfirmation that leaves the used challenge in the entry.
AwaitingKeepsKey(i) ==
    SetStateByInstance(i, "awaiting_confirmation", OldKey(i), OldCode(i), FALSE)

SetAwaitingConfirmation(i) ==
    SetStateByInstance(i, "awaiting_confirmation", FALSE, OldCode(i), FALSE)

SetConfirmed(i) ==
    SetStateByInstance(i, "confirmed", OldKey(i), OldCode(i), FALSE)

SetError(i) == SetStateByInstance(i, "error", OldKey(i), OldCode(i), TRUE)

\* A Clear that removes the entry and leaves the index behind.
ClearLeavesIndex(i) ==
    /\ byToken' = [t \in Tokens |-> IF t = byInst[i] THEN None ELSE byToken[t]]
    /\ UNCHANGED <<byInst, minted, now>>

Clear(i) ==
    /\ byToken' = [t \in Tokens |-> IF t = byInst[i] THEN None ELSE byToken[t]]
    /\ byInst' = [byInst EXCEPT ![i] = None]
    /\ UNCHANGED <<minted, now>>

\* Lookup(t) prunes whatever has expired, whichever token it is asked for.
Lookup ==
    /\ byToken' = PrunedTokens
    /\ byInst' = PrunedInst
    /\ UNCHANGED <<minted, now>>

Tick ==
    /\ now < MaxTime
    /\ now' = now + 1
    /\ UNCHANGED <<byToken, byInst, minted>>

StoreNext ==
    \/ \E i \in Instances :
          \/ \E t \in Tokens : Start(i, t)
          \/ SetConfirmation(i)
          \/ SetAwaitingConfirmation(i)
          \/ SetConfirmed(i)
          \/ SetError(i)
          \/ Clear(i)
    \/ Lookup
    \/ Tick

StoreSpec == StoreInit /\ [][StoreNext]_storeVars

-----------------------------------------------------------------------------
(* Properties. *)

StoreTypeOK ==
    /\ byToken \in [Tokens -> Entry \cup {None}]
    /\ byInst \in [Instances -> Tokens \cup {None}]
    /\ minted \in SUBSET Tokens
    /\ now \in Nat

\* The two maps are inverse to each other: the active token of an instance has
\* an entry of that instance, and an entry's instance has that token for its
\* active one.  Hence one ceremony per instance, and no entry that no writer
\* can reach any more.
IndexesAgree ==
    /\ \A i \in Instances :
          byInst[i] # None => Live(byInst[i]) /\ byToken[byInst[i]].inst = i
    /\ \A t \in Tokens : Live(t) => byInst[byToken[t].inst] = t

\* What an entry carries fits its stage, so the extension, which switches on
\* the stage alone, finds the field it then reads, and never a stale error.
StageContent ==
    \A t \in Tokens : Live(t) =>
        LET e == byToken[t] IN
        /\ e.stage = "challenge" => e.key /\ ~e.code
        /\ e.stage = "awaiting_confirmation" => ~e.key
        /\ e.stage = "confirmation" => e.code
        /\ e.err <=> e.stage = "error"

\* Every live token was drawn: with IndexesAgree, what makes a fresh token
\* harmless.
LiveWereMinted == \A t \in Tokens : Live(t) => t \in minted

\* The inductive invariant of the store.
StoreInv == StoreTypeOK /\ IndexesAgree /\ LiveWereMinted

\* Once the entry of a token is gone it stays gone, and while it is there it
\* belongs to the same instance: a link handed to a browser never turns into
\* a link to another pairing.
TokensNeverReturn ==
    [][\A t \in Tokens :
          /\ t \in minted /\ ~Live(t) => ~Live(t)'
          /\ Live(t) /\ Live(t)' => byToken'[t].inst = byToken[t].inst]_storeVars
=============================================================================
