----------------------------- MODULE ApiServices -----------------------------
(***************************************************************************)
(* What each service does for a request, once it has its client: a         *)
(* sequence of steps, each of which may fail.  ApiRequest runs them.  A    *)
(* step that fails ends the request with its error unless it is tolerated. *)
(*                                                                         *)
(*   parse   the recipient's text becomes a JID                            *)
(*   canon   the JID loses its "+"                                         *)
(*   check   anything done here that may fail: a file, a table, a rule     *)
(*   find    a look into the database whose empty answer is a 404          *)
(*   ask     a question to WhatsApp or to another server: nothing changes  *)
(*   tell    a change asked of WhatsApp                                    *)
(*   hint    something said to WhatsApp that nothing depends on            *)
(*   link    one of several changes, each reported in the answer's lists   *)
(*   several a change for several people, of whom WhatsApp may refuse      *)
(*           some: they are in the answer                                  *)
(*   unheard the same, and what WhatsApp says of each is thrown away       *)
(*                                                                         *)
(* The steps of a send are in SendServices.  A step is skipped unless the  *)
(* request has the options it is for; a raw one is a node or a question    *)
(* the library sends as it is, without resolving its recipient; an endless *)
(* one waits, without a timeout, for a server or for a program.            *)
(***************************************************************************)
EXTENDS Integers, Sequences

Step(kind, name) == [kind |-> kind, name |-> name, tolerant |-> FALSE,
                     raw |-> FALSE, live |-> FALSE, endless |-> FALSE,
                     when |-> {}]
Tolerated(s)     == [s EXCEPT !.tolerant = TRUE]
When(options, s) == [s EXCEPT !.when = options]

Parse       == Step("parse", "ParseJID")
Canon       == Step("canon", "CanonicalJID")
Check(name) == Step("check", name)
Ask(name)   == Step("ask", name)
Tell(name)  == Step("tell", name)
Sent(s)     == [s EXCEPT !.raw = TRUE]
Raw(name)   == Sent(Tell(name))
Endless(s)  == [s EXCEPT !.endless = TRUE]
Hint(name)  == Tolerated(Step("hint", name))

-----------------------------------------------------------------------------
(* Groups.                                                                  *)
ListGroups          == <<Ask("GetJoinedGroups")>>
GetGroupInfo        == <<Parse, Ask("GetGroupInfo")>>
GetGroupInviteLink  == <<Parse, Ask("GetGroupInviteLink")>>

\* A reset takes the old link away.
GetGroupInviteLinkReset == <<Parse, Tell("GetGroupInviteLink reset")>>
SetGroupPhoto       == <<Parse, Endless(Check("image")), Tell("SetGroupPhoto")>>
SetGroupName        == <<Parse, Tell("SetGroupName")>>
SetGroupDescription == <<Parse, Tell("SetGroupTopic")>>
CreateGroup         == <<Parse, Sent(Step("several", "CreateGroup")),
                         Ask("GetGroupInfo")>>
UpdateParticipant   == <<Parse, Sent(Step("unheard", "UpdateGroupParticipants"))>>
GetMyGroups         == <<Ask("GetJoinedGroups"), Check("own JID")>>
JoinGroupLink       == <<Tell("JoinGroupWithLink")>>
LeaveGroup          == <<Tell("LeaveGroup")>>
UpdateGroupSettings == <<Parse, Check("action"), Tell("group setting")>>

-----------------------------------------------------------------------------
(* Users.  A check that fails is answered all the same, without users.      *)
GetUser      == <<Parse, Ask("GetUserInfo")>>
CheckUser    == <<Tolerated(Ask("IsOnWhatsApp")),
                  When({"formatJid"}, Tolerated(Ask("IsOnWhatsApp as given")))>>
GetAvatar    == <<Check("connected"), Check("logged in"), Parse,
                  Ask("GetProfilePictureInfo"), Check("a picture")>>
GetContacts  == <<Check("GetAllContacts")>>
GetPrivacy   == <<Tolerated(Ask("GetPrivacySettings"))>>

PrivacySettings == <<"groupAdd", "lastSeen", "status", "profile",
                     "readReceipts", "callAdd", "online">>

SetPrivacy == [n \in 1..7 |-> Tell(PrivacySettings[n])]
                  \o <<Tolerated(Ask("GetPrivacySettings"))>>

BlockContact      == <<Parse, Raw("UpdateBlocklist block")>>
UnlockContact     == <<Parse, Raw("UpdateBlocklist unblock")>>
GetBlockList      == <<Ask("GetBlocklist")>>
SetProfilePicture == <<Endless(Check("image")), Tell("SetGroupPhoto of nobody")>>
SetProfileName    == <<Tell("SetGroupName of nobody")>>
SetProfileStatus  == <<Tell("SetStatusMessage")>>

-----------------------------------------------------------------------------
(* Messages.                                                                *)
React == <<Parse, Canon, Check("id"), Raw("reaction"),
           Step("own", "Store.ID")>>

\* One refresh stands for all: they are alike and none is waited for.
ChatPresence == <<Parse, Canon, Hint("SendPresence"), Raw("SendChatPresence"),
                  When({"delay"}, Hint("refresh")),
                  When({"delay"}, Hint("paused"))>>

MarkRead              == <<Parse, Canon, Raw("MarkRead")>>
MarkPlayed            == <<Parse, Canon, Raw("MarkRead played")>>
DownloadMedia         == <<Check("media"), Check("directory"),
                           Endless(Ask("Download"))>>
GetMessageStatus      == <<Check("GetMessageByID")>>
DeleteMessageEveryone == <<Parse, Tell("BuildRevoke")>>
EditMessage           == <<Parse, Tell("BuildEdit")>>

-----------------------------------------------------------------------------
(* Chats and labels: patches of the app state.                              *)
ChatPin       == <<Parse, Tell("BuildPin")>>
ChatUnpin     == <<Parse, Tell("BuildPin off")>>
ChatArchive   == <<Parse, Tell("BuildArchive")>>
ChatUnarchive == <<Parse, Tell("BuildArchive off")>>
ChatMute      == <<Parse, Tell("BuildMute")>>
ChatUnmute    == <<Parse, Tell("BuildMute off")>>
HistorySyncRequest == <<Check("message info"), Tell("BuildHistorySyncRequest")>>
ChatLabel      == <<Parse, Tell("BuildLabelChat")>>
MessageLabel   == <<Parse, Tell("BuildLabelMessage")>>
EditLabel      == <<Tell("BuildLabelEdit")>>
ChatUnlabel    == <<Parse, Tell("BuildLabelChat off")>>
MessageUnlabel == <<Parse, Tell("BuildLabelMessage off")>>
GetLabels      == <<Check("GetAllLabelsByInstanceID")>>

\* The raw ones whose JIDs keep the "+" that ParseJID put there.
WithPlus == {"CreateGroup", "UpdateGroupParticipants",
             "UpdateBlocklist block", "UpdateBlocklist unblock"}

-----------------------------------------------------------------------------
(* Newsletters, communities, calls, polls.                                  *)
CreateNewsletter      == <<Tell("CreateNewsletter")>>
ListNewsletter        == <<Ask("GetSubscribedNewsletters"),
                           Tolerated(Ask("GetNewsletterInfo"))>>
GetNewsletter         == <<Ask("GetNewsletterInfo")>>
GetNewsletterInvite   == <<Ask("GetNewsletterInfoWithInvite")>>
SubscribeNewsletter   == <<Tell("NewsletterSubscribeLiveUpdates")>>
GetNewsletterMessages == <<Ask("GetNewsletterMessages")>>
CreateCommunity       == <<Tell("CreateGroup of groups")>>

\* Two groups stand for the list.
CommunityAdd    == <<Parse, Step("link", "group 1"), Step("link", "group 2")>>
CommunityRemove == <<Parse, Step("link", "group 1"), Step("link", "group 2")>>

RejectCall     == <<Tell("RejectCall")>>
GetPollResults == <<Check("votes"), Step("find", "a vote")>>
=============================================================================
