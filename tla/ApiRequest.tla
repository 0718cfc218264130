----------------------------- MODULE ApiRequest -----------------------------
(***************************************************************************)
(* One request of the API, from its arrival to its answer: the key, the    *)
(* middleware, the handler's checks, the client it needs, and the steps of *)
(* its service, with the attempts a send may take.                         *)
(*                                                                         *)
(*   auth -> validate -> bind -> client (-> wait) (-> reconnect) -> step   *)
(*                                ^                                  |     *)
(*                                +---------- next attempt ----------+     *)
(*                                                                         *)
(* The instance's entry in the table of clients belongs to the others: it  *)
(* may come, lose its connection and go at any moment.  A panic ends the   *)
(* request with 500, which is what the router's recovery answers.          *)
(***************************************************************************)
EXTENDS Numbers, ApiHandlers, SendServices, FiniteSetsExt, TLC

CONSTANTS Ops,         \* the operations requested, among those of Routes
          Texts,       \* what a caller may write for a recipient
          Remotes,     \* the JIDs WhatsApp may name for a number
          Together     \* the sets of options a request may have

VARIABLES op,        \* the operation
          client,    \* the instance's client: "none", "down" or "up"
          checks,    \* whether the configuration checks a send's recipient
          phase,     \* where the request is
          content,   \* the kind of its body
          asked,     \* its recipient as written
          text,      \* and as the middleware left it
          opts,      \* its options
          attempt,   \* of the service
          tries,     \* for a client
          at,        \* the step under way
          to,        \* the recipient's JID
          lookup,    \* history: the number looked up for it, and WhatsApp's JID
          applied,   \* the steps that changed all they should at WhatsApp
          refused,   \* history: the steps of which WhatsApp refused a part
          copies,    \* messages WhatsApp has accepted
          events,    \* events given to the producers
          good, bad, \* the lists of a community's answer
          status     \* of the answer, 0 before it

request == <<op, checks, content, asked, text, opts>>
recipient == <<to, lookup>>
effects == <<applied, refused, copies, events, good, bad>>
vars == <<request, client, phase, attempt, tries, at, recipient, effects, status>>

Clients == {"none", "down", "up"}
Bodies == {"json", "broken", "form", "plain"}

-----------------------------------------------------------------------------
(* The routes: how a body is validated, what its recipient is called and     *)
(* whether it is a list, what the handler wants, how the service gets its    *)
(* client, how often it tries, and its steps.                                *)

Route(validate, field, needs, steps) ==
    [validate |-> validate, looks |-> {"number"}, field |-> field,
     many |-> FALSE, needs |-> needs, body |-> TRUE, forms |-> FALSE,
     ensure |-> "plain", attempts |-> 1, steps |-> steps]

Send(needs, steps)     == Route("format", "number", needs, steps)
Retried(r)   == [r EXCEPT !.ensure = "retry", !.attempts = 3]
Get(needs, steps) ==
    [Route("nothing", "", needs, steps) EXCEPT !.body = FALSE]
Looking(looks, r) == [r EXCEPT !.looks = looks]
Unensured(r) == [r EXCEPT !.ensure = "nothing"]
Listed(r)    == [r EXCEPT !.many = TRUE]
WithForms(r) == [r EXCEPT !.forms = TRUE]

SendRoutes ==
    "/send/text"     :> Retried(Send(SendTextNeeds, SendText))
    @@ "/send/link"  :> Retried(Send(SendLinkNeeds, SendLink))
    @@ "/send/media file" :>
           WithForms(Retried(Send(SendMediaNeeds, SendMediaFile)))
    @@ "/send/media url"  :> Retried(Send(SendMediaNeeds, SendMediaUrl))
    @@ "/send/poll"     :> Retried(Send(SendPollNeeds, SendPoll))
    @@ "/send/sticker"  :> Send(SendStickerNeeds, SendSticker)
    @@ "/send/location" :> Send(SendLocationNeeds, SendLocation)
    @@ "/send/contact"  :>
           Route("contact", "number", SendContactNeeds, SendContact)
    @@ "/send/button"   :> Send(SendButtonNeeds, SendButton)
    @@ "/send/list"     :> Unensured(Send(SendListNeeds, SendList))
    @@ "/send/carousel" :> Send(SendCarouselNeeds, SendCarousel)
    @@ "/send/status/text" :>
           Route("nothing", "", SendStatusTextNeeds, SendStatusText)
    @@ "/send/status/media file" :>
           WithForms(Route("nothing", "", SendStatusMediaNeeds,
                           SendStatusMediaFile))
    @@ "/send/status/media url" :>
           Route("nothing", "", SendStatusMediaNeeds, SendStatusMediaUrl)

UserRoutes ==
    "/user/info"     :> Listed(Route("number", "number", GetUserNeeds, GetUser))
    @@ "/user/check" :>
           Listed(Route("format", "number", CheckUserNeeds, CheckUser))
    @@ "/user/avatar"   :> Route("number", "number", GetAvatarNeeds, GetAvatar)
    @@ "/user/contacts" :> Get(GetContactsNeeds, GetContacts)
    @@ "/user/privacy"  :> Get(GetPrivacyNeeds, GetPrivacy)
    @@ "/user/privacy set" :> Route("nothing", "", SetPrivacyNeeds, SetPrivacy)
    @@ "/user/block" :>
           Route("number", "number", BlockContactNeeds, BlockContact)
    @@ "/user/unblock" :>
           Route("number", "number", UnblockContactNeeds, UnlockContact)
    @@ "/user/blocklist" :> Get(GetBlockListNeeds, GetBlockList)
    @@ "/user/profilePicture" :>
           Route("nothing", "", SetProfilePictureNeeds, SetProfilePicture)
    @@ "/user/profileName" :>
           Route("nothing", "", SetProfileNameNeeds, SetProfileName)
    @@ "/user/profileStatus" :>
           Route("nothing", "", SetProfileStatusNeeds, SetProfileStatus)

MessageRoutes ==
    "/message/react"       :> Route("fields", "number", ReactNeeds, React)
    @@ "/message/presence" :>
           Route("number", "number", ChatPresenceNeeds, ChatPresence)
    @@ "/message/markread" :>
           Route("number", "number", MarkReadNeeds, MarkRead)
    @@ "/message/markplayed" :>
           Route("number", "number", MarkPlayedNeeds, MarkPlayed)
    @@ "/message/downloadmedia" :>
           Route("nothing", "", DownloadMediaNeeds, DownloadMedia)
    @@ "/message/status" :>
           Route("nothing", "", GetMessageStatusNeeds, GetMessageStatus)
    @@ "/message/delete" :> Route("number", "chat", DeleteMessageEveryoneNeeds,
                                  DeleteMessageEveryone)
    @@ "/message/edit"   :> Route("number", "chat", EditMessageNeeds,
                                  EditMessage)

ChatRoutes ==
    "/chat/pin"          :> Route("number", "chat", ChatPinNeeds, ChatPin)
    @@ "/chat/unpin"     :> Route("number", "chat", ChatUnpinNeeds, ChatUnpin)
    @@ "/chat/archive"   :>
           Route("number", "chat", ChatArchiveNeeds, ChatArchive)
    @@ "/chat/unarchive" :>
           Route("number", "chat", ChatUnarchiveNeeds, ChatUnarchive)
    @@ "/chat/mute"      :> Route("number", "chat", ChatMuteNeeds, ChatMute)
    @@ "/chat/unmute"    :> Route("number", "chat", ChatUnmuteNeeds, ChatUnmute)
    @@ "/chat/history-sync" :>
           Route("nothing", "", HistorySyncRequestNeeds, HistorySyncRequest)

GroupRoutes ==
    "/group/list"    :> Get(ListGroupsNeeds, ListGroups)
    @@ "/group/info" :>
           Route("number", "groupJid", GetGroupInfoNeeds, GetGroupInfo)
    @@ "/group/invitelink" :> Route("number", "groupJid",
                                 GetGroupInviteLinkNeeds, GetGroupInviteLink)
    @@ "/group/invitelink reset" :> Route("number", "groupJid",
                                 GetGroupInviteLinkNeeds, GetGroupInviteLinkReset)
    @@ "/group/photo" :>
           Route("number", "groupJid", SetGroupPhotoNeeds, SetGroupPhoto)
    @@ "/group/name" :>
           Route("number", "groupJid", SetGroupNameNeeds, SetGroupName)
    @@ "/group/description" :> Route("number", "groupJid",
                                 SetGroupDescriptionNeeds, SetGroupDescription)
    @@ "/group/create" :> Listed(Route("many", "participants", CreateGroupNeeds,
                                       CreateGroup))
    @@ "/group/participant" :>
           Looking({"number", "participants"}, Listed(Route("fields",
               "participants", UpdateParticipantNeeds, UpdateParticipant)))
    @@ "/group/myall" :> Get(GetMyGroupsNeeds, GetMyGroups)
    @@ "/group/join"  :> Route("nothing", "", JoinGroupLinkNeeds, JoinGroupLink)
    @@ "/group/leave" :> Route("number", "", LeaveGroupNeeds, LeaveGroup)
    @@ "/group/settings" :> Route("number", "groupJid",
                                 UpdateGroupSettingsNeeds, UpdateGroupSettings)

LabelRoutes ==
    "/label/chat"       :> Route("number", "jid", ChatLabelNeeds, ChatLabel)
    @@ "/label/message" :>
           Route("nothing", "jid", MessageLabelNeeds, MessageLabel)
    @@ "/label/edit"    :> Route("nothing", "", EditLabelNeeds, EditLabel)
    @@ "/label/list"    :> Get(GetLabelsNeeds, GetLabels)
    @@ "/unlabel/chat"  :>
           Route("number", "jid", ChatUnlabelNeeds, ChatUnlabel)
    @@ "/unlabel/message" :>
           Route("nothing", "jid", MessageUnlabelNeeds, MessageUnlabel)

\* The middleware of a newsletter and of a community looks for a field their
\* bodies do not have.
Newsletter(needs, steps) ==
    Looking({"newsletterId"}, Route("fields", "", needs, steps))

OtherRoutes ==
    "/call/reject" :> Route("number", "", RejectCallNeeds, RejectCall)
    @@ "/community/create" :>
           Route("nothing", "", CreateCommunityNeeds, CreateCommunity)
    @@ "/community/add" :> Looking({"number", "communityId"},
           Route("fields", "communityJid", CommunityAddNeeds, CommunityAdd))
    @@ "/community/remove" :> Looking({"number", "communityId"},
           Route("fields", "communityJid", CommunityRemoveNeeds, CommunityRemove))
    @@ "/newsletter/create" :>
           Route("nothing", "", CreateNewsletterNeeds, CreateNewsletter)
    @@ "/newsletter/list" :> Get(ListNewsletterNeeds, ListNewsletter)
    @@ "/newsletter/info" :> Newsletter(GetNewsletterNeeds, GetNewsletter)
    @@ "/newsletter/link" :>
           Newsletter(GetNewsletterInviteNeeds, GetNewsletterInvite)
    @@ "/newsletter/subscribe" :>
           Newsletter(SubscribeNewsletterNeeds, SubscribeNewsletter)
    @@ "/newsletter/messages" :>
           Newsletter(GetNewsletterMessagesNeeds, GetNewsletterMessages)
    @@ "/polls/results" :> 
           Unensured(Get(GetPollResultsNeeds, GetPollResults))

Routes == SendRoutes @@ UserRoutes @@ MessageRoutes @@ ChatRoutes @@ GroupRoutes
          @@ LabelRoutes @@ OtherRoutes

-----------------------------------------------------------------------------
(* What the routes have in common, whatever else their services do.          *)

AnyStep == [kind : STRING, name : STRING, tolerant : BOOLEAN, raw : BOOLEAN,
            live : BOOLEAN, endless : BOOLEAN, when : SUBSET STRING]

Of(r, kinds) == {i \in DOMAIN r.steps : r.steps[i].kind \in kinds}

\* What asks WhatsApp for a change.
Changes == {"tell", "send", "link", "several", "unheard"}

\* A raw step whose recipient must have lost its "+".
Bare(s) == s.raw /\ s.name \notin WithPlus

Validators == {"nothing", "number", "format", "fields", "contact", "many"}

\* Every request takes this step, and goes on from it only when it succeeds.
Sure(s) == s.when = {} /\ ~s.tolerant

\* A message is sent once, after all that may start another attempt, and its
\* event is given away after it.
SendsOnce(r) ==
    /\ \A i \in Of(r, {"send"}) :
          Sure(r.steps[i]) /\ \A j \in Of(r, {"send", "resolve", "again"}) : j <= i
    /\ \A i \in Of(r, {"event"}) :
          /\ ~r.steps[i].tolerant /\ Of(r, {"event"}) = {i}
          /\ \E j \in Of(r, {"send"}) : j < i

\* No change asked of WhatsApp may fail unnoticed, and none goes with a 404.
TellsAll(r) ==
    /\ \A i \in Of(r, Changes) : ~r.steps[i].tolerant
    /\ Of(r, {"find"}) # {} => Of(r, Changes) = {}

\* A recipient is resolved once, before anything is told; one that is parsed
\* loses its "+" before it gets into a node that wants it bare.
Addresses(r) ==
    /\ \A i \in Of(r, {"resolve"}) :
          /\ Sure(r.steps[i]) /\ Of(r, {"resolve"}) = {i}
          /\ \A j \in Of(r, Changes) : i < j
          /\ \A j \in Of(r, {"parse"}) : j < i
    /\ Of(r, {"resolve"}) = {} =>
          \A j \in DOMAIN r.steps : Bare(r.steps[j]) =>
             \E i \in Of(r, {"canon"}) :
                /\ i < j /\ Sure(r.steps[i])
                /\ \A k \in Of(r, {"parse"}) : k < i

ASSUME OpsAssumption ==
    \A o \in Ops :
        /\ o \in DOMAIN Routes
        /\ Routes[o].validate \in Validators
        /\ Routes[o].attempts \in Nat \ {0}
        /\ Routes[o].steps \in Seq(AnyStep)
        /\ SendsOnce(Routes[o]) /\ TellsAll(Routes[o]) /\ Addresses(Routes[o])

\* No telephone number is as long as a group's.
ASSUME TextsAssumption ==
    \A t \in Texts :
        /\ t \in [at : {"", "empty", "user", "group", "lid", "broadcast",
                        "newsletter"},
                  plus : BOOLEAN, digits : Seq(0..9)]
        /\ t.at = "empty" => t.digits = <<>>
        /\ t.at = "user" => Len(t.digits) < 18

ASSUME RemotesAssumption ==
    \A t \in Remotes : t \in [at : {"user", "lid"}, plus : {FALSE},
                             digits : Seq(0..9)]

route == Routes[op]

-----------------------------------------------------------------------------
(* The steps of the request that its options, or its going to a group, call  *)
(* for.                                                                      *)

steps == route.steps
Applies(s) == /\ s.when \ {"group"} \subseteq opts
              /\ "group" \in s.when => text.at = "group"

\* The first of them after the n-th, or the end.
Following(n) ==
    Min({i \in n + 1 .. Len(steps) : Applies(steps[i])} \cup {Len(steps) + 1})

Options ==
    LET named == (UNION {steps[i].when : i \in DOMAIN steps}) \ {"group"}
        sends == route.validate \in {"format", "contact"}
    IN  {o \in SUBSET (named \cup IF sends THEN {"formatJid"} ELSE {}) :
            o \ {"formatJid"} \in Together}

\* Nothing was looked up for the recipient.
NoLookup == [query |-> Absent, jid |-> Absent]

Init == /\ op \in Ops
        /\ client \in Clients
        /\ checks \in BOOLEAN
        /\ phase = "auth"
        /\ content = "none"
        /\ asked = Absent /\ text = Absent
        /\ to = Absent /\ lookup = NoLookup
        /\ opts = {} /\ applied = {} /\ refused = {}
        /\ attempt = 1 /\ tries = 1 /\ at = 0
        /\ copies = 0 /\ events = 0
        /\ good = <<>> /\ bad = <<>>
        /\ status = 0

-----------------------------------------------------------------------------
(* How a request ends, or starts over.                                       *)

Answer(code) == phase' = "done" /\ status' = code
                /\ UNCHANGED <<attempt, tries, at>>

Begin == phase' = "step" /\ at' = Following(0)
         /\ UNCHANGED <<attempt, tries, status>>

GoOn == at' = Following(at) /\ UNCHANGED <<phase, attempt, tries, status>>

\* Every failure is worth another attempt.
RetriesAll(why) == TRUE

\* The client was lost, or a link could not be read.
Retries(why) == why \in {"offline", "again"}


\* One attempt too many.
FailOnceMore(why) ==
    IF Retries(why) /\ attempt <= route.attempts
    THEN /\ attempt' = attempt + 1
         /\ tries' = 1 /\ at' = 0 /\ phase' = "client"
         /\ UNCHANGED status
    ELSE Answer(500)

\* A failure that is worth it starts the next attempt, if there is one.
FailWith(why) ==
    IF Retries(why) /\ attempt < route.attempts
    THEN /\ attempt' = attempt + 1
         /\ tries' = 1 /\ at' = 0 /\ phase' = "client"
         /\ UNCHANGED status
    ELSE Answer(500)

-----------------------------------------------------------------------------
(* Before the service.                                                       *)

Auth == /\ phase = "auth"
        /\ \/ Answer(401)
           \/ phase' = "validate" /\ UNCHANGED <<attempt, tries, at, status>>
        /\ UNCHANGED <<request, client, recipient, effects>>

\* The body is looked into when it says it is JSON; of forms, two of the
\* validators look at the fields.
Validated(c, t, formatJid, phoneIsNumber) ==
    LET json ==
          [nothing |-> t,
           number  |-> ValidateNumberField(t, route.field),
           format  |-> ValidateNumberFieldWithFormatJid(t, route.field,
                                                        formatJid),
           fields  |-> ValidateJIDFields(route.looks, t, route.field,
                                         route.many),
           contact |-> ValidateContactFields(t, route.field, phoneIsNumber),
           many    |-> ValidateMultipleNumbers("participants", t, route.field)]
    IN  IF c = "json" THEN json[route.validate]
        ELSE IF c = "broken" /\ route.validate # "nothing" THEN Invalid
        ELSE IF c = "form" /\ route.validate \in {"number", "fields"}
        THEN ValidateFormFields(route.looks, t, route.field)
        ELSE t

Validate ==
    /\ phase = "validate"
    /\ \E c \in IF route.body THEN Bodies ELSE {"none"},
          t \in IF route.field = "" THEN {Absent} ELSE Texts \cup {Absent},
          o \in Options,
          phoneIsNumber \in {TRUE, route.validate # "contact"} :
        /\ content' = c
        /\ asked' = t
        /\ opts' = o
        /\ text' = Validated(c, t, "formatJid" \in o, phoneIsNumber)
        /\ IF text' = Invalid THEN Answer(400)
           ELSE phase' = "bind" /\ UNCHANGED <<attempt, tries, at, status>>
    /\ UNCHANGED <<op, checks, client, recipient, effects>>

\* Of a list only its being there is looked at.
Missing(t) == t = Absent \/ (IsEmpty(t) /\ ~route.many)

Readable == content # "broken" /\ (content = "form" => route.forms)

\* The body is done with.
Bind ==
    /\ phase = "bind"
    /\ \/ /\ \/ ~Readable
             \/ \E f \in route.needs : f = route.field => Missing(text)
          /\ Answer(400)
       \/ /\ Readable
          /\ route.field \in route.needs => ~Missing(text)
          /\ IF route.ensure = "nothing" THEN Begin
             ELSE phase' = "client" /\ UNCHANGED <<attempt, tries, at, status>>
    /\ content' = "none"
    /\ UNCHANGED <<op, checks, asked, text, opts, client, recipient, effects>>

-----------------------------------------------------------------------------
(* The client.  One that is not there is started and given two seconds; the  *)
(* retrying services also have it reconnected, twice in each attempt.        *)

Offline == IF route.ensure = "retry"
           THEN phase' = "reconnect" /\ UNCHANGED <<attempt, tries, at, status>>
           ELSE FailWith("offline")

EnsureClient ==
    /\ phase = "client"
    /\ \/ client = "up" /\ Begin
       \/ client # "up" /\ Offline
       \/ /\ client = "none"
          /\ phase' = "wait"
          /\ UNCHANGED <<attempt, tries, at, status>>
    /\ UNCHANGED <<request, client, recipient, effects>>

Waited == /\ phase = "wait"
          /\ IF client = "up" THEN Begin ELSE Offline
          /\ UNCHANGED <<request, client, recipient, effects>>

\* The last reconnection is asked for too, and not waited for.
Reconnect ==
    /\ phase = "reconnect"
    /\ client' \in Clients
    /\ IF tries < 2
       THEN /\ tries' = tries + 1 /\ phase' = "client"
            /\ UNCHANGED <<attempt, at, status>>
       ELSE FailWith("offline")
    /\ UNCHANGED <<request, recipient, effects>>

-----------------------------------------------------------------------------
(* The steps.                                                                *)

Doing(kinds) == /\ phase = "step"
                /\ at \in DOMAIN steps
                /\ steps[at].kind \in kinds
                /\ steps[at].live => client # "none"

\* An error that nobody looks at.
PassesOver(why) == GoOn

Fails(why) == IF steps[at].tolerant THEN GoOn ELSE FailWith(why)

\* A step that looks the client up finds none: it panics, or returns an error
\* when what it calls minds; one that reads its fields can only panic.
Gone == /\ phase = "step"
        /\ at \in DOMAIN steps
        /\ steps[at].live /\ client = "none"
        /\ \/ Answer(500)
           \/ steps[at].kind # "own" /\ Fails("client is nil")
        /\ UNCHANGED <<request, client, recipient, effects>>

ParseStep == /\ Doing({"parse"})
             /\ IF ParseJID(text) = Invalid
                THEN Fails("jid") /\ UNCHANGED to
                ELSE GoOn /\ to' = ParseJID(text)
             /\ UNCHANGED <<request, client, lookup, effects>>

CanonStep == /\ Doing({"canon"})
             /\ to' = CanonicalJID(to)
             /\ GoOn
             /\ UNCHANGED <<request, client, lookup, effects>>

AskStep == /\ Doing({"check", "find", "ask", "again", "hint"})
           /\ \/ GoOn
              \/ steps[at].kind = "find" /\ Answer(404)
              \/ steps[at].kind # "find" /\ Fails(steps[at].kind)
           /\ UNCHANGED <<request, client, recipient, effects>>

\* WhatsApp may have done what the caller is told has failed.
TellStep ==
    /\ Doing({"tell", "send"})
    /\ LET sends == steps[at].kind = "send"
       IN  /\ to' = IF sends THEN CanonicalJID(to) ELSE to
           /\ \/ /\ applied' = applied \cup {at}
                 /\ copies' = copies + IF sends THEN 1 ELSE 0
                 /\ GoOn \/ Fails("error")
              \/ Fails("error") /\ UNCHANGED <<applied, copies>>
    /\ UNCHANGED <<request, client, lookup, refused, events, good, bad>>

\* Of the people a change is for, WhatsApp may refuse some.
SeveralStep ==
    /\ Doing({"several", "unheard"})
    /\ \/ /\ applied' = applied \cup {at}
          /\ UNCHANGED <<refused, bad>>
          /\ GoOn \/ Fails("error")
       \/ /\ refused' = refused \cup {at}
          /\ bad' = IF steps[at].kind = "several"
                    THEN Append(bad, steps[at].name) ELSE bad
          /\ UNCHANGED applied
          /\ GoOn \/ Fails("error")
       \/ Fails("error") /\ UNCHANGED <<applied, refused, bad>>
    /\ UNCHANGED <<request, client, recipient, copies, events, good>>

\* The answer counts every group as linked, and those it could not link as
\* failed too: the list of the failed ones is what the other is built from.
LinkStep ==
    /\ Doing({"link"})
    /\ GoOn
    /\ \E linked \in BOOLEAN :
         /\ applied' = IF linked THEN applied \cup {at} ELSE applied
         /\ refused' = IF linked THEN refused ELSE refused \cup {at}
         /\ bad' = IF linked THEN bad ELSE Append(bad, steps[at].name)
         /\ good' = Append(bad', steps[at].name)
    /\ UNCHANGED <<request, client, recipient, copies, events>>

EventStep == /\ Doing({"event"})
             /\ events' = events + 1
             /\ GoOn
             /\ UNCHANGED <<request, client, recipient, applied, refused, copies,
                            good, bad>>

OwnStep == /\ Doing({"own"})
           /\ GoOn \/ (client = "none" /\ Answer(500))
           /\ UNCHANGED <<request, client, recipient, effects>>

PanicStep == /\ Doing({"panic"})
             /\ Answer(500)
             /\ UNCHANGED <<request, client, recipient, effects>>

-----------------------------------------------------------------------------
(* The recipient of a send.                                                  *)

Formats == steps[at].name = "always" \/ "formatJid" \in opts

Take(jid, l) == IF jid = Invalid THEN FailWith("jid") /\ UNCHANGED recipient
                ELSE GoOn /\ to' = jid /\ lookup' = l

\* WhatsApp is asked about the number as it was written, and then as it is
\* normalised.
Queries == {PrepareNumbersForWhatsAppCheck(text, f) : f \in BOOLEAN}

\* Groups and the like are not looked up, nor anyone when the configuration
\* does not want it.
ResolveUnchecked ==
    /\ Doing({"resolve"})
    /\ ~checks \/ text.at \in {"group", "broadcast", "newsletter", "lid"}
    /\ Take(ValidateMessageFields(text, Formats), NoLookup)
    /\ UNCHANGED <<request, client, effects>>

\* The look-up needs a client of its own, starting it when there is none.  A
\* query that fails leaves the number as it is; of one that does not, whatever
\* JID it names is taken.
ResolveChecked ==
    /\ Doing({"resolve"})
    /\ checks /\ text.at \notin {"group", "broadcast", "newsletter", "lid"}
    /\ \/ client = "none" /\ client' \in Clients
       \/ client # "none" /\ UNCHANGED client
    /\ \/ client' # "up" /\ FailWith("offline") /\ UNCHANGED recipient
       \/ /\ client' = "up"
          /\ Take(ValidateMessageFields(text, Formats), NoLookup)
       \/ /\ client' = "up"
          /\ FailWith("not registered") /\ UNCHANGED recipient
       \/ /\ client' = "up"
          /\ \E query \in Queries, remote \in Remotes :
                Take(ValidateMessageFields(remote, FALSE),
                     [query |-> query, jid |-> remote])
    /\ UNCHANGED <<request, effects>>

Finish == /\ phase = "step"
          /\ at = Len(steps) + 1
          /\ Answer(200)
          /\ UNCHANGED <<request, client, recipient, effects>>

-----------------------------------------------------------------------------
(* The others: a client comes, loses its connection, or goes.                *)

Drift == /\ phase # "done"
         /\ client' \in Clients \ {client}
         /\ UNCHANGED <<request, phase, attempt, tries, at, recipient, effects, status>>

Serve == \/ Auth \/ Validate \/ Bind
         \/ EnsureClient \/ Waited \/ Reconnect
         \/ Gone \/ ParseStep \/ CanonStep \/ AskStep \/ TellStep
         \/ SeveralStep \/ LinkStep
         \/ EventStep \/ OwnStep \/ PanicStep
         \/ ResolveUnchecked \/ ResolveChecked \/ Finish

Next == Serve \/ Drift

\* What the request waits for has no timeout: a download, a conversion.
Fetching == phase = "step" /\ at \in DOMAIN steps /\ steps[at].endless

\* The goroutine of the request runs on, unless it waits for what may never
\* come; nothing is asked of the others.
Spec == Init /\ [][Next]_vars /\ WF_vars(~Fetching /\ Serve)

-----------------------------------------------------------------------------
(* Properties.                                                               *)

ApiTypeOK ==
    /\ op \in Ops /\ client \in Clients /\ checks \in BOOLEAN
    /\ phase \in {"auth", "validate", "bind", "client", "wait", "reconnect",
                  "step", "done"}
    /\ content \in Bodies \cup {"none"}
    /\ asked \in Texts \cup {Absent}
    /\ attempt \in 1..route.attempts
    /\ tries \in 1..2
    /\ at \in 0 .. Len(steps) + 1
    /\ applied \subseteq DOMAIN steps /\ refused \subseteq DOMAIN steps
    /\ status \in {0, 200, 400, 401, 404, 500}
    /\ (phase = "done") = (status # 0)

\* However often a send is tried, WhatsApp accepts its message at most once,
\* and the producers are given no event of a message it has not accepted.
AtMostOneCopy == copies <= 1 /\ events <= copies

\* What the answer says is so.  A 200 means that what was asked of WhatsApp was
\* done, the event given away, and whatever WhatsApp refused to some of several
\* named in the answer, except by the update of a group's participants, which
\* does not look; a refusal, that nothing was done.  A failure says nothing: the
\* message may have gone.
AnswersAreTrue ==
    /\ status = 200 =>
         \A i \in {j \in DOMAIN steps : Applies(steps[j])} :
            /\ steps[i].kind \in {"tell", "send"} => i \in applied
            /\ steps[i].kind \in {"several", "link"} =>
                 i \in applied \/ \E k \in DOMAIN bad : bad[k] = steps[i].name
            /\ steps[i].kind = "unheard" => i \in applied \cup refused
            /\ steps[i].kind = "event" => events > 0
    /\ status \in {400, 401, 404} => applied = {} /\ refused = {}

\* The number a message goes to is the one its caller wrote, put through the
\* rules of the countries once, although the middleware and the service each
\* normalise it; only a user's JID is taken as it is, by those who do not format
\* it.  Where WhatsApp was asked, it was asked about that number, written or
\* normalised, and the message goes to the very JID it named.  The nodes built
\* by hand for a reaction, a receipt or a chat state carry no "+", as utils.go
\* asks; the typing of a send does, and so do those of WithPlus.
OneRecipient ==
    LET resolves == Of(route, {"resolve"})
        formatted == \E i \in resolves :
            steps[i].name = "always" \/ "formatJid" \in opts
        kept == IsJID(asked) /\ ~formatted
        national == IF asked.at \in {"", "user"} /\ Len(asked.digits) < 18
                    THEN National(asked.digits) ELSE asked.digits
    IN  phase = "step" /\ to # Absent /\ Doing(Changes) =>
          /\ Bare(steps[at]) /\ resolves = {} => ~to.plus
          /\ IF lookup = NoLookup
             THEN /\ to.at = CreateJID(asked).at
                  /\ to.digits = IF kept THEN asked.digits ELSE national
             ELSE /\ checks /\ to = lookup.jid
                  /\ lookup.query.digits \in {asked.digits, national}


=============================================================================
