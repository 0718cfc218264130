----------------------------- MODULE SendServices -----------------------------
(***************************************************************************)
(* What the send services do.  Every message but a status goes through     *)
(* SendMessage, whose steps look the client up in the table of clients     *)
(* anew: a step that finds none there fails, or is a nil dereference, and  *)
(* either ends the request with 500.                                       *)
(*                                                                         *)
(*   resolve the recipient becomes a JID, after a look at whether WhatsApp *)
(*           has the number, when the configuration wants it               *)
(*   again   a step whose failure starts the next attempt at once          *)
(*   send    the message; own: the client's own JID is read                *)
(*   event   the event is given to the producers                           *)
(*                                                                         *)
(* What a message is made of is left out, except for a document that has a *)
(* caption: it is wrapped, and SendMessage looks for it in the old place   *)
(* when it has people to mention.                                          *)
(***************************************************************************)
EXTENDS ApiServices

Live(s) == [s EXCEPT !.live = TRUE]

\* asked: formatJid is taken from the request; always: it is not passed on.
Resolve(format) == Step("resolve", format)

\* Typing is shown before a delayed message and cleared after the delay.
Typing ==
    <<Live(When({"delay"}, Raw("composing"))),
      Live(When({"delay"}, Raw("paused")))>>

\* Everyone in a group, or some of it, is mentioned.
Mentions(type) ==
    <<Live(When({"mention", "group"}, Ask("GetGroupInfo")))>>
    \o IF type = "DocumentMessage"
       THEN <<When({"mention", "group", "caption"}, Step("panic", "mention"))>>
       ELSE <<>>

\* The message itself, and what is told of it.
Delivery ==
    <<Live(Step("send", "SendMessage")), Live(Step("own", "Store.ID")),
      Live(When({"webhookFiles"}, Endless(Hint("Download")))),
      Step("event", "SendMessage")>>

SendMessage(type, format) ==
    <<Resolve(format), When({"noId"}, Step("own", "GenerateMessageID"))>>
    \o Typing \o Mentions(type) \o Delivery

-----------------------------------------------------------------------------
(* Text, links, media, polls: up to three attempts.                         *)

SendText == SendMessage("ExtendedTextMessage", "asked")

FetchLinkMetadata ==
    Endless(When({"url"}, Step("again", "fetchLinkMetadata")))

SendLink == <<FetchLinkMetadata, Endless(When({"url"}, Step("again", "image")))>>
            \o SendMessage("ExtendedTextMessage", "asked")

\* By a service or by ffmpeg here: either fails as a whole.
ConvertAudio == Endless(When({"audio"}, Check("convertAudio")))
Upload   == Endless(Ask("Upload"))
Download == Endless(Check("download"))

\* A document stands for the kinds of media; only it may have to be wrapped.
Prepare == <<Check("format"), ConvertAudio,
             Check("not a document in a newsletter"), Upload>>

SendMediaFile == Prepare \o SendMessage("DocumentMessage", "asked")
SendMediaUrl  == <<Download>> \o Prepare
                 \o SendMessage("DocumentMessage", "asked")

SendPoll == SendMessage("PollCreationMessage", "asked")

-----------------------------------------------------------------------------
(* The rest: one attempt.                                                   *)

ConvertToWebP == Endless(Check("convertToWebP"))
SendSticker   == <<ConvertToWebP, Upload>>
                 \o SendMessage("StickerMessage", "asked")
SendLocation  == SendMessage("LocationMessage", "asked")
SendContact   == SendMessage("ContactMessage", "asked")

\* Replies and pix may not be mixed with other buttons; a header's picture
\* that cannot be had is left out.
Buttons    == Check("buttons that go together")
Header     == Endless(When({"url"}, Tolerated(Ask("Upload header"))))
SendButton == <<Buttons, Header>> \o SendMessage("InteractiveMessage", "asked")
SendList   == SendMessage("ListMessage", "asked")

\* The recipient is looked at here, and again by SendMessage, which is not
\* told of formatJid.
SendCarousel == <<When({"formatJid"}, Parse), Header>>
                \o SendMessage("InteractiveMessage", "always")

-----------------------------------------------------------------------------
(* A status goes to the broadcast list, through the client it was given.    *)

StatusDelivery ==
    <<Step("send", "SendMessage status"), Step("own", "Store.ID")>>

SendStatusWebhook == <<Step("event", "SendStatus")>>

SendStatusText  == <<Check("text")>> \o StatusDelivery \o SendStatusWebhook
SendStatusMedia == <<Check("format"), Upload>> \o StatusDelivery
                   \o SendStatusWebhook
SendStatusMediaUrl  == <<Check("url"), Download>> \o SendStatusMedia
SendStatusMediaFile == <<Check("type")>> \o SendStatusMedia
=============================================================================
