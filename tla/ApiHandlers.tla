----------------------------- MODULE ApiHandlers -----------------------------
(***************************************************************************)
(* What each HTTP handler wants of a request before it calls its service:  *)
(* the fields that must be given, or the answer is 400.  A handler first   *)
(* reads the body into its structure, calls the service once, answers 500  *)
(* when the service returns an error and 200 when it does not; ApiRequest  *)
(* does that for all of them.                                              *)
(***************************************************************************)

(* Sending.                                                                 *)
SendTextNeeds      == {"number", "text"}
SendLinkNeeds      == {"number", "text"}
SendMediaNeeds     == {"number", "url or file", "type"}
SendPollNeeds      == {"number", "question", "two options"}
SendStickerNeeds   == {"number", "sticker"}
SendLocationNeeds  == {"number", "latitude", "longitude", "address", "name"}
SendContactNeeds   == {"number", "vcard.phone", "vcard.fullName"}
SendButtonNeeds    == {"number", "title", "description", "footer"}
SendListNeeds      == {"number", "title", "description", "footerText",
                       "buttonText"}
SendCarouselNeeds  == {"number", "cards"}
SendStatusTextNeeds  == {"text"}
SendStatusMediaNeeds == {"url or file", "image or video"}

-----------------------------------------------------------------------------
(* Groups.                                                                  *)
ListGroupsNeeds          == {}
GetGroupInfoNeeds        == {"groupJid"}
GetGroupInviteLinkNeeds  == {"groupJid"}
SetGroupPhotoNeeds       == {"groupJid", "image"}
SetGroupNameNeeds        == {"groupJid", "name"}
SetGroupDescriptionNeeds == {"groupJid"}
CreateGroupNeeds         == {"groupName", "participants"}
UpdateParticipantNeeds   == {"groupJid", "action", "participants"}
GetMyGroupsNeeds         == {}
JoinGroupLinkNeeds       == {"code"}
LeaveGroupNeeds          == {"groupJid"}
UpdateGroupSettingsNeeds == {"groupJid", "action"}

-----------------------------------------------------------------------------
(* Users.                                                                   *)
GetUserNeeds           == {"number"}
CheckUserNeeds         == {"number"}
GetAvatarNeeds         == {"number"}
GetContactsNeeds       == {}
GetPrivacyNeeds        == {}
SetPrivacyNeeds        == {"callAdd", "groupAdd", "lastSeen", "online",
                           "profile", "readReceipts", "status"}
BlockContactNeeds      == {"number"}
UnblockContactNeeds    == {"number"}
GetBlockListNeeds      == {}
SetProfilePictureNeeds == {"image"}
SetProfileNameNeeds    == {"name"}
SetProfileStatusNeeds  == {"status"}

-----------------------------------------------------------------------------
(* Messages and chats.                                                      *)
ReactNeeds              == {"number", "reaction"}
ChatPresenceNeeds       == {"number", "state"}
MarkReadNeeds           == {"number", "id"}
MarkPlayedNeeds         == {"number", "id"}
DownloadMediaNeeds      == {}
GetMessageStatusNeeds   == {"id"}
DeleteMessageEveryoneNeeds == {"chat", "messageId"}
EditMessageNeeds        == {"chat", "message", "messageId"}
ChatPinNeeds            == {"chat"}
ChatUnpinNeeds          == {"chat"}
ChatArchiveNeeds        == {"chat"}
ChatUnarchiveNeeds      == {"chat"}
ChatMuteNeeds           == {"chat"}
ChatUnmuteNeeds         == {"chat"}
HistorySyncRequestNeeds == {}

-----------------------------------------------------------------------------
(* Labels, newsletters, communities, calls, polls.                          *)
ChatLabelNeeds      == {"jid", "labelId"}
MessageLabelNeeds   == {"jid", "labelId", "messageId"}
EditLabelNeeds      == {"labelId", "name"}
ChatUnlabelNeeds    == {"jid", "labelId"}
MessageUnlabelNeeds == {"jid", "labelId", "messageId"}
GetLabelsNeeds      == {}
CreateNewsletterNeeds      == {"name"}
ListNewsletterNeeds        == {}
GetNewsletterNeeds         == {"newsletter"}
GetNewsletterInviteNeeds   == {"key"}
SubscribeNewsletterNeeds   == {"newsletter"}
GetNewsletterMessagesNeeds == {"newsletter"}
CreateCommunityNeeds == {"communityName"}
CommunityAddNeeds    == {"communityJid", "groupJid"}
CommunityRemoveNeeds == {"communityJid", "groupJid"}
RejectCallNeeds      == {}
GetPollResultsNeeds  == {"pollMessageId"}
=============================================================================
