---------------------------- MODULE MCEventRecords ----------------------------
EXTENDS EventRecords

Base == [inst |-> "i1", kind |-> "Message", ids |-> <<"m1">>, chat |-> "user",
         who |-> "ana", as |-> "number", choice |-> "",
         detail |-> "text", registered |-> TRUE]

Of(kind) == [Base EXCEPT !.kind = kind]

\* A message with a referral and its receipts, one of them of two messages and
\* one of another instance.
Written ==
    {[Base EXCEPT !.detail = "referral"],
     [Of("Read") EXCEPT !.ids = <<"m1", "m2">>],
     [Of("Delivered") EXCEPT !.inst = "i2", !.chat = "group"]}

\* A voter reported in each way by two instances, once by an instance without a
\* client.
Voted ==
    {[Base EXCEPT !.choice = "yes", !.as = "both", !.chat = "group"],
     [Base EXCEPT !.choice = "no", !.inst = "i2"],
     [Base EXCEPT !.choice = "yes", !.as = "lid", !.inst = "i2"],
     [Base EXCEPT !.choice = "no", !.as = "both", !.registered = FALSE]}

\* Notices of each other kind, and of each kind of chat.
Passed ==
    {[Base EXCEPT !.chat = "group"],
     [Base EXCEPT !.detail = "button", !.chat = "status"],
     [Base EXCEPT !.detail = "protocol"],
     [Of("ViewOnce") EXCEPT !.chat = "newsletter"],
     [Of("Delivered") EXCEPT !.chat = "group"],
     Of("Read"), Of("Played"), Of("CallOffer"), Of("LoggedOut"), Of("Picture"),
     Of("Archive"), Of("LabelEdit"),
     [Of("LabelEdit") EXCEPT !.inst = "i2"]}

MCNotices == Written \cup Voted \cup Passed

Saving == [save |-> TRUE, ignoreGroups |-> FALSE, ignoreStatus |-> FALSE,
           rejectCall |-> FALSE, subs |-> {"MESSAGE"}, specific |-> {},
           amqp |-> {}, nats |-> {}, reports |-> Written]

Passing == [Saving EXCEPT !.save = FALSE, !.reports = Passed]

\* One that saves messages, one with a poll, and three that differ in whom they
\* tell of what.
MCConfigs ==
    {Saving,
     [Passing EXCEPT !.reports = Voted],
     [Passing EXCEPT !.subs = {"GROUP", "NEWSLETTER"}, !.ignoreStatus = TRUE,
                     !.amqp = {"CONNECTION", "MESSAGE", "PICTURE"},
                     !.nats = {"CONNECTION", "PICTURE"}],
     [Passing EXCEPT !.subs = {"ALL"}, !.ignoreGroups = TRUE,
                     !.rejectCall = TRUE, !.specific = {"Receipt"}],
     [Passing EXCEPT !.subs = {"BUTTON_CLICK", "READ_RECEIPT"},
                     !.nats = {"READ_RECEIPT", "CALL", "LABEL"}]}
=============================================================================
