----------------------------- MODULE EventRecords -----------------------------
(***************************************************************************)
(* What the event handler makes of what WhatsApp reports: rows of the      *)
(* tables of messages, votes and labels, and events for the instance's     *)
(* destinations and for the global queues.                                 *)
(*                                                                         *)
(* The handler of an instance takes one notice after another.  Labels are  *)
(* written there and then; everything else is a goroutine that nobody      *)
(* waits for, so rows are written in any order and by several instances.   *)
(* A row of messages belongs to a message, a row of votes to a poll and a  *)
(* voter, whichever instance saw it.  How an event is delivered once a     *)
(* route has been chosen is EventDelivery's; the files of a message, and   *)
(* the calls that mark it as read, are left out.                           *)
(***************************************************************************)
EXTENDS Integers, Sequences, FiniteSets, Bags, TLC

CONSTANTS Instances,
          Notices,     \* what WhatsApp may report
          Configs,     \* how the process and its instances may be set up
          MaxNotices   \* bound: notices

VARIABLES set,      \* the configuration
          history,  \* the notices so far: the n-th is notice n
          busy,     \* instance -> the notice its handler is held up by, or 0
          seen,     \* processedMessages: <<instance, message, status>>
          jobs,     \* goroutines
          rows,     \* table messages: message -> its row
          stored,   \* <<notice, message>> whose row was written
          votes,    \* table poll_votes of one poll: voter JID -> row
          labels,   \* table labels: <<instance, label>> -> its last notice
          given     \* bag of <<notice, event, route>>

tables == <<rows, stored, votes>>
vars == <<set, history, busy, seen, jobs, tables, labels, given>>

\* The events with a subscription of their own; the others are for those who
\* asked for "ALL".
Category ==
    "Message" :> "MESSAGE" @@ "SendMessage" :> "SEND_MESSAGE"
    @@ "Receipt" :> "READ_RECEIPT" @@ "Presence" :> "PRESENCE"
    @@ "HistorySync" :> "HISTORY_SYNC"
    @@ [e \in {"ChatPresence", "Archive"} |-> "CHAT_PRESENCE"]
    @@ [e \in {"CallOffer", "CallAccept", "CallTerminate", "CallOfferNotice",
               "CallRelayLatency"} |-> "CALL"]
    @@ [e \in {"Connected", "PairSuccess", "TemporaryBan", "LoggedOut",
               "ConnectFailure", "Disconnected"} |-> "CONNECTION"]
    @@ [e \in {"LabelEdit", "LabelAssociationChat", "LabelAssociationMessage"}
            |-> "LABEL"]
    @@ [e \in {"Contact", "PushName"} |-> "CONTACT"]
    @@ "Picture" :> "PICTURE" @@ "UserAbout" :> "USER_ABOUT"
    @@ [e \in {"GroupInfo", "JoinedGroup"} |-> "GROUP"]
    @@ [e \in {"NewsletterJoin", "NewsletterLeave"} |-> "NEWSLETTER"]
    @@ [e \in {"QRCode", "QRTimeout", "QRSuccess"} |-> "QRCODE"]

AllEventTypes == {Category[e] : e \in DOMAIN Category} \cup {"BUTTON_CLICK"}

\* What the handler passes on and does nothing else with.
Plain == {"Presence", "HistorySync", "ChatPresence", "CallAccept",
          "CallTerminate", "CallOfferNotice", "CallRelayLatency",
          "OfflineSyncCompleted", "ConnectFailure", "Disconnected",
          "LabelAssociationChat", "LabelAssociationMessage", "Contact",
          "PushName", "Picture", "UserAbout", "GroupInfo", "JoinedGroup",
          "NewsletterJoin", "NewsletterLeave", "TemporaryBan"}
Receipts == {"Read", "ReadSelf", "Delivered", "Played"}

\* What nobody is told of.  The handler of Archive means to, and panics before:
\* it takes the raw event for a map.  The library survives a handler's panic.
Silent == {"AppState", "IdentityChange", "StreamReplaced", "Undecryptable",
           "Archive"}
Kinds == Plain \cup Receipts \cup Silent
             \cup {"Message", "ViewOnce", "LabelEdit", "LoggedOut", "CallOffer"}

\* A sender is someone, and how it is named: by its number, by its LID, or by
\* its LID with the number beside it.  registered: the instance has a client in
\* the maps while the handler runs.
Notice == [inst : Instances, kind : Kinds, ids : Seq(STRING),
           chat : {"user", "group", "status", "newsletter"},
           who : STRING, as : {"number", "lid", "both"}, choice : STRING,
           detail : {"text", "referral", "button", "protocol"},
           registered : BOOLEAN]

\* subs: what Connect has stored for the instances; specific, amqp and nats:
\* AMQP_SPECIFIC_EVENTS and the two lists of groups, empty when it is off;
\* reports: bound: the notices of such a setting.
Config == [save : BOOLEAN, ignoreGroups : BOOLEAN, ignoreStatus : BOOLEAN,
           rejectCall : BOOLEAN,
           subs : SUBSET (AllEventTypes \cup {"ALL"}),
           specific : SUBSET STRING, amqp : SUBSET AllEventTypes,
           nats : SUBSET AllEventTypes, reports : SUBSET Notices]

ASSUME RecordsAssumption ==
    /\ MaxNotices \in Nat
    /\ Notices \subseteq Notice /\ \A x \in Notices : Len(x.ids) > 0
    /\ Configs \subseteq Config

Init == /\ set \in Configs
        /\ history = <<>>
        /\ busy = [i \in Instances |-> 0]
        /\ seen = {} /\ jobs = {} /\ stored = {}
        /\ rows = <<>> /\ votes = <<>> /\ labels = <<>>
        /\ given = EmptyBag

\* INSERT ... ON CONFLICT (key) DO UPDATE.
Upsert(table, key, row) ==
    [k \in DOMAIN table \cup {key} |-> IF k = key THEN row ELSE table[k]]

-----------------------------------------------------------------------------
(* The routes of an event.                                                  *)

\* Messages and receipts of groups and newsletters also go to those who asked
\* for these.
InstanceWants(e, chat) ==
    \/ "ALL" \in set.subs
    \/ e = "ButtonClick" /\ set.subs \cap {"BUTTON_CLICK", "MESSAGE"} # {}
    \/ e \in DOMAIN Category /\ Category[e] \in set.subs
    \/ /\ e \in {"Message", "SendMessage", "Receipt"}
       /\ \/ chat = "group" /\ "GROUP" \in set.subs
          \/ chat = "newsletter" /\ "NEWSLETTER" \in set.subs

AmqpWants(e) ==
    IF set.specific # {} THEN e \in set.specific
    ELSE e \in DOMAIN Category /\ Category[e] \in set.amqp

\* The map for NATS leaves two events out.
NatsWants(e) == /\ e \in DOMAIN Category \ {"Picture", "UserAbout"}
                /\ Category[e] \in set.nats

-----------------------------------------------------------------------------
(* The handler.                                                             *)

Job(what, n, arg) == [what |-> what, n |-> n, arg |-> arg]

\* go CallWebhook and go SendToGlobalQueues, which have nothing to do with each
\* other and are taken as one.
Dispatch(n, e) == {Job("tell", n, e)}

Taken(i, notice) ==
    /\ busy[i] = 0
    /\ Len(history) < MaxNotices
    /\ notice \in set.reports /\ notice.inst = i
    /\ history' = Append(history, notice)
    /\ UNCHANGED <<set, tables, given>>

\* Nothing of a group is left out.
IgnoresStatusOnly(notice) == notice.chat = "status" /\ set.ignoreStatus

\* A notice the instance, or the process, does not want to hear of.
Ignores(notice) == \/ notice.chat = "group" /\ set.ignoreGroups
                   \/ notice.chat = "status" /\ set.ignoreStatus

\* A voter is called as its notice calls it.
VoterAsNamed(notice) ==
    <<notice.who, IF notice.as = "number" THEN "number" ELSE "lid">>

\* The sender's JID without its device, and of two the one with the number.
Voter(notice) == <<notice.who, IF notice.as = "lid" THEN "lid" ELSE "number">>

\* A vote that cannot be decrypted is passed on like any message.
VoteJobs(n, notice) ==
    IF notice.choice = "" \/ ~notice.registered THEN {{}}
    ELSE {{}, {Job("vote", n, Voter(notice))}}

\* It is decrypted by the registered client, whichever reported it.  Where there
\* is none the library is called on nil: an error, or a panic of the handler.
MayPanic(notice) == notice.choice # "" /\ ~notice.registered

HandleMessage(i) == \E notice \in Notices :
    LET n == Len(history) + 1
        saves == IF set.save THEN {Job("row", n, notice.ids[1])} ELSE {}
        clicks == IF notice.detail = "button" THEN Dispatch(n, "ButtonClick")
                  ELSE {}
    IN  /\ notice.kind = "Message"
        /\ Taken(i, notice)
        /\ IF Ignores(notice) \/ notice.detail = "protocol" THEN jobs' = jobs
           ELSE \/ MayPanic(notice) /\ jobs' = jobs
                \/ \E vote \in VoteJobs(n, notice) :
                     jobs' = jobs \cup vote \cup saves \cup clicks
                             \cup Dispatch(n, "Message")
        /\ UNCHANGED <<busy, seen, labels>>

\* A read receipt is written for each of its messages not remembered, and is
\* passed on whatever they are; a delivery is of its first message only, and is
\* not passed on again.  A status is not ignored here.
HandleReceipt(i) == \E notice \in Notices :
    LET n == Len(history) + 1
        key(m) == <<i, m, notice.kind>>
        ids == {notice.ids[k] : k \in DOMAIN notice.ids}
        told == IF notice.kind = "Read" THEN {m \in ids : key(m) \notin seen}
                ELSE {notice.ids[1]}
        row == IF set.save THEN {Job("row", n, m) : m \in told} ELSE {}
        recorded == notice.kind \in {"Read", "Delivered"}
        dropped == \/ notice.chat = "group" /\ set.ignoreGroups
                   \/ notice.kind = "Played"
                   \/ notice.kind = "Delivered" /\ key(notice.ids[1]) \in seen
    IN  /\ notice.kind \in Receipts
        /\ Taken(i, notice)
        /\ seen' = IF recorded /\ ~dropped THEN seen \cup {key(m) : m \in told}
                   ELSE seen
        /\ jobs' = IF dropped THEN jobs
                   ELSE jobs \cup Dispatch(n, "Receipt")
                             \cup IF recorded THEN row ELSE {}
        /\ UNCHANGED <<busy, labels>>

\* A label is the account's, whoever reports it.
LabelOfAccount(i, notice) == <<notice.ids[1]>>

\* Labels have numbers of their own in each account.
LabelKey(i, notice) == <<i, notice.ids[1]>>

\* The write may fail; the event is passed on.
HandleLabelEdit(i) == \E notice \in Notices :
    LET n == Len(history) + 1 IN
    /\ notice.kind = "LabelEdit"
    /\ Taken(i, notice)
    /\ \/ labels' = Upsert(labels, LabelKey(i, notice), n)
       \/ UNCHANGED labels
    /\ jobs' = jobs \cup Dispatch(n, "LabelEdit")
    /\ UNCHANGED <<busy, seen>>

\* A call that is rejected is not passed on.
HandleCallOffer(i) == \E notice \in Notices :
    LET n == Len(history) + 1 IN
    /\ notice.kind = "CallOffer"
    /\ Taken(i, notice)
    /\ jobs' = IF set.rejectCall THEN jobs
               ELSE jobs \cup Dispatch(n, "CallOffer")
    /\ UNCHANGED <<busy, seen, labels>>

HandleOther(i) == \E notice \in Notices :
    LET n == Len(history) + 1 IN
    /\ notice.kind \in Plain \cup Silent \cup {"ViewOnce"}
    /\ Taken(i, notice)
    /\ jobs' = IF notice.kind \in Silent THEN jobs
               ELSE jobs \cup Dispatch(n, IF notice.kind = "ViewOnce"
                                          THEN "Message" ELSE notice.kind)
    /\ UNCHANGED <<busy, seen, labels>>

\* A logout is passed on, and then the handler waits for somebody to take the
\* kill.
HandleLoggedOut(i) == \E notice \in Notices :
    LET n == Len(history) + 1 IN
    /\ notice.kind = "LoggedOut"
    /\ Taken(i, notice)
    /\ busy' = [busy EXCEPT ![i] = n]
    /\ jobs' = jobs \cup Dispatch(n, "LoggedOut")
    /\ UNCHANGED <<seen, labels>>

\* After that it is passed on once more, with the other events.
KillTaken(i) ==
    /\ busy[i] # 0
    /\ busy' = [busy EXCEPT ![i] = 0]
    /\ jobs' = jobs \cup {Job(j.what, j.n, "LoggedOut again") :
                            j \in Dispatch(busy[i], "LoggedOut")}
    /\ UNCHANGED <<set, history, seen, tables, labels, given>>

\* The cache remembers for half an hour.
Forget == /\ \E key \in seen : seen' = seen \ {key}
          /\ UNCHANGED <<set, history, busy, jobs, tables, labels, given>>

-----------------------------------------------------------------------------
(* The goroutines.  A write that fails is logged and not tried again.        *)

Runs(j) == /\ j \in jobs
           /\ jobs' = jobs \ {j}
           /\ UNCHANGED <<set, history, busy, seen, labels>>

Row(n) == [n |-> n, referral |-> history[n].detail = "referral"]

\* Every column is taken from the notice.
InsertWhole(m, n) == rows' = Upsert(rows, m, Row(n))

\* A row that is there keeps its referral, unless the notice has one.
InsertMessage(m, n) ==
    rows' = Upsert(rows, m,
                   [Row(n) EXCEPT !.referral =
                      @ \/ (m \in DOMAIN rows /\ rows[m].referral)])

PersistMessage == \E j \in jobs :
    /\ j.what = "row"
    /\ Runs(j)
    /\ \/ InsertMessage(j.arg, j.n) /\ stored' = stored \cup {<<j.n, j.arg>>}
       \/ UNCHANGED <<rows, stored>>
    /\ UNCHANGED <<votes, given>>

\* A voter's row keeps the instance that wrote it first.
SavePollVote == \E j \in jobs :
    /\ j.what = "vote"
    /\ Runs(j)
    /\ \/ votes' = Upsert(votes, j.arg,
                          [n |-> j.n, inst |-> IF j.arg \in DOMAIN votes
                                               THEN votes[j.arg].inst
                                               ELSE history[j.n].inst])
       \/ UNCHANGED votes
    /\ UNCHANGED <<rows, stored, given>>

EventOf(j) == IF j.arg = "LoggedOut again" THEN "LoggedOut" ELSE j.arg

\* The routes that want the event.
CallWebhook(e, chat) == IF InstanceWants(e, chat) THEN {"instance"} ELSE {}
SendToGlobalQueues(e) ==
    {r \in {"amqp", "nats"} : IF r = "amqp" THEN AmqpWants(e) ELSE NatsWants(e)}

Tell == \E j \in jobs :
    LET e == EventOf(j) IN
    /\ j.what = "tell"
    /\ Runs(j)
    /\ given' = given (+) SetToBag({<<j.n, e, r>> :
                   r \in CallWebhook(e, history[j.n].chat)
                         \cup SendToGlobalQueues(e)})
    /\ UNCHANGED tables

Handle == \E i \in Instances :
    \/ HandleMessage(i) \/ HandleReceipt(i) \/ HandleLabelEdit(i)
    \/ HandleCallOffer(i) \/ HandleOther(i) \/ HandleLoggedOut(i) \/ KillTaken(i)

Next == \/ Handle \/ Forget
        \/ PersistMessage \/ SavePollVote \/ Tell

Spec == Init /\ [][Next]_vars

\* The results of the poll as an instance is told them: who voted.
PollVoters(i) == {v \in DOMAIN votes : votes[v].inst = i}

-----------------------------------------------------------------------------
(* Properties.                                                               *)

Quiet == jobs = {} /\ \A i \in Instances : busy[i] = 0

EventsTypeOK ==
    /\ set \in Configs
    /\ Len(history) <= MaxNotices
    /\ \A n \in DOMAIN history : history[n] \in Notices
    /\ \A i \in Instances : busy[i] \in {0} \cup DOMAIN history
    /\ \A j \in jobs : j.n \in DOMAIN history
    /\ \A m \in DOMAIN rows : rows[m].n \in DOMAIN history
    /\ \A v \in DOMAIN votes :
          votes[v].n \in DOMAIN history /\ votes[v].inst \in Instances
    /\ \A k \in DOMAIN labels : /\ labels[k] \in DOMAIN history
                                /\ k[1] = history[labels[k]].inst
    /\ IsABag(given)

\* The advertisement a message came from is never lost, whatever is written
\* after it: the receipts of its message, in any order and from any instance.
\* Status and time are those of one notice of that message, whole.
ReferralIsKept ==
    /\ \A s \in stored : history[s[1]].detail = "referral"
                            => rows[s[2]].referral
    /\ \A m \in DOMAIN rows : <<rows[m].n, m>> \in stored

\* The notices of votes that p cast.
Casts(p) == {n \in DOMAIN history :
                history[n].who = p /\ history[n].choice # ""}

\* The votes of p in all the results.
CountedFor(p) == {x \in Instances \X DOMAIN votes :
                     x[2] \in PollVoters(x[1]) /\ x[2][1] = p}

\* Who votes again, or is reported by several instances, is counted once in
\* the results, with one of the votes it cast; that is so of everyone whose
\* notices all give its number.
VotersCountOnce ==
    \A p \in {history[n].who : n \in DOMAIN history} :
        /\ \A v \in DOMAIN votes : v[1] = p => votes[v].n \in Casts(p)
        /\ (\A n \in Casts(p) : history[n].as # "lid")
              => Cardinality(CountedFor(p)) <= 1

\* What is not passed on: what the setup leaves out, or the code never tells.
Unwanted(x) ==
    \/ /\ x.chat = "group" /\ set.ignoreGroups
       /\ x.kind \in Receipts \cup {"Message"}
    \/ x.chat = "status" /\ set.ignoreStatus /\ x.kind = "Message"
    \/ x.kind = "CallOffer" /\ set.rejectCall
    \/ x.kind \in Silent \cup {"Played"}
    \/ x.kind = "Message" /\ x.detail = "protocol"

\* The event a notice is passed on as.
EventFor(x) == IF x.kind \in Receipts THEN "Receipt"
               ELSE IF x.kind = "ViewOnce" THEN "Message" ELSE x.kind

\* A delivery whose first message an earlier one of the instance began with.
Repeats(n) ==
    /\ history[n].kind = "Delivered"
    /\ \E m \in 1 .. n - 1 : /\ history[m].kind = "Delivered"
                            /\ history[m].inst = history[n].inst
                            /\ history[m].ids[1] = history[n].ids[1]

\* Notices that need not be told of.
Excused(n) == Repeats(n) \/ MayPanic(history[n])

\* Every route that wants event e of notice n has it.
Told(n, e) ==
    /\ InstanceWants(e, history[n].chat) => BagIn(<<n, e, "instance">>, given)
    /\ \A r \in SendToGlobalQueues(e) : BagIn(<<n, e, r>>, given)

\* From WhatsApp to the routes: an event is given to a route at most once, a
\* logout at most twice; nothing of a chat that is ignored is given; and when
\* all is done, what a subscriber or a global queue asked for was given to it,
\* unless it is ignored, rejected, not told at all, repeats an earlier one, or is
\* a vote that came while the instance had no client in the maps.
GivenAsAsked ==
    /\ \A g \in BagToSet(given) :
         /\ given[g] <= IF g[2] = "LoggedOut" THEN 2 ELSE 1
         /\ ~Unwanted(history[g[1]])
    /\ Quiet => \A n \in DOMAIN history :
         ~Unwanted(history[n]) /\ ~Excused(n) => Told(n, EventFor(history[n]))

=============================================================================
