------------------------------- MODULE Numbers -------------------------------
(***************************************************************************)
(* What the code does to the number a caller names: CreateJID and          *)
(* ParseJID, the rules of three countries, and the validation middleware.  *)
(*                                                                         *)
(* A text is the server part it already has ("" when it is a bare number), *)
(* whether a "+" leads it, and its digits in order.  Spaces, parentheses,  *)
(* hyphens and a device suffix are dropped by the code and left out; a     *)
(* text without a digit is one with no digits.  A hyphen sends a text of   *)
(* 24 characters to the groups, where 18 send it anyway.                   *)
(***************************************************************************)
EXTENDS Integers, Sequences

Absent  == [at |-> "absent", plus |-> FALSE, digits |-> <<>>]
Invalid == [at |-> "invalid", plus |-> FALSE, digits |-> <<>>]
Text(at, plus, digits) == [at |-> at, plus |-> plus, digits |-> digits]

\* The empty string; a text that names a server is taken as it is.
IsEmpty(t) == t.at = "empty"
IsJID(t) == t.at \in {"user", "group", "lid", "broadcast", "newsletter"}

-----------------------------------------------------------------------------
(* The rules of the countries.                                              *)

Country(d) == SubSeq(d, 1, 2)

\* Thirteen digits of Mexico lose two, of Argentina one.
FormatMXOrARNumber(d) ==
    IF Len(d) = 13 /\ Country(d) = <<5, 2>> THEN Country(d) \o SubSeq(d, 5, 13)
    ELSE IF Len(d) = 13 /\ Country(d) = <<5, 4>>
         THEN Country(d) \o SubSeq(d, 4, 13)
    ELSE d

\* A ninth digit taken off whatever the length of the number.
DropNinthAlways(d) ==
    IF Len(d) >= 12 /\ Country(d) = <<5, 5>>
                    /\ 10 * d[3] + d[4] >= 31 /\ d[5] >= 7
    THEN SubSeq(d, 1, 4) \o SubSeq(d, 6, Len(d)) ELSE d

\* Thirteen digits of Brazil lose the ninth digit of a mobile number, in the
\* areas that have not taken it up.
FormatBRNumber(d) ==
    IF Len(d) = 13 /\ Country(d) = <<5, 5>>
                   /\ 10 * d[3] + d[4] >= 31 /\ d[5] >= 7
    THEN SubSeq(d, 1, 4) \o SubSeq(d, 6, 13) ELSE d

National(d) == FormatBRNumber(FormatMXOrARNumber(d))

-----------------------------------------------------------------------------
(* Texts and JIDs.                                                          *)

CreateJID(t) ==
    IF IsJID(t) THEN t
    ELSE IF IsEmpty(t) \/ t.digits = <<>> THEN Invalid
    ELSE IF Len(t.digits) >= 18 THEN Text("group", FALSE, t.digits)
    ELSE Text("user", TRUE, National(t.digits))

\* The library's ParseJID wants a user part, except of a broadcast.
ParseJID(t) ==
    LET jid == CreateJID(t)
    IN  IF jid.digits = <<>> /\ jid.at # "broadcast" THEN Invalid ELSE jid

CanonicalJID(jid) == [jid EXCEPT !.plus = FALSE]

\* What is before the "@" of a user's JID.
BareNumber(t) == IF t.at = "user" THEN [t EXCEPT !.at = ""] ELSE t

PrepareNumbersForWhatsAppCheck(t, formatJid) ==
    LET jid == CreateJID(BareNumber(t))
    IN  IF ~formatJid \/ jid = Invalid THEN t ELSE BareNumber(jid)

\* Both arguments a quoted message brings are given, so that neither can be
\* found missing.
ValidateMessageFields(phone, formatJid) ==
    LET jid == CreateJID(BareNumber(phone))
    IN  IF ~formatJid THEN ParseJID(phone)
        ELSE IF jid = Invalid THEN ParseJID(ParseJID(phone))
        ELSE ParseJID(jid)

-----------------------------------------------------------------------------
(* The middleware.  field is what the request's recipient is called and many *)
(* whether it is a list; the answer is the recipient as the handler will see *)
(* it, or Invalid when the request is refused.  The elements of a list are   *)
(* treated alike, and one stands for all.                                    *)

Normalised(t) == IF t.at = "absent" THEN t ELSE CreateJID(t)

\* Neither a list nor an empty string is a value of the fields it looks at.
ValidateJIDFields(looks, t, field, many) ==
    IF field \notin looks THEN t
    ELSE IF many /\ t.at # "absent" THEN Invalid ELSE Normalised(t)

ValidateNumberField(t, field) ==
    IF field = "number" THEN Normalised(t) ELSE t

\* The empty elements of a list are passed over.
ValidateMultipleNumbers(name, t, field) ==
    IF field # name \/ IsEmpty(t) THEN t ELSE Normalised(t)

\* Without formatJid an empty number is refused and any other is left alone.
ValidateNumberFieldWithFormatJid(t, field, formatJid) ==
    IF formatJid THEN ValidateNumberField(t, field)
    ELSE IF field = "number" /\ IsEmpty(t) THEN Invalid ELSE t

\* The contact's own phone must pass too, and stays as it was written.
ValidateContactFields(t, field, phoneIsNumber) ==
    IF ~phoneIsNumber THEN Invalid
    ELSE IF field # "number" \/ IsEmpty(t) THEN t ELSE Normalised(t)

\* A form's "number" must be there, and nothing is normalised.
ValidateFormFields(looks, t, field) ==
    LET value == IF field \in looks THEN t ELSE Absent
    IN  IF "number" \in looks /\ (field # "number" \/ value.digits = <<>>)
        THEN Invalid
        ELSE IF value.digits # <<>> /\ CreateJID(value) = Invalid
        THEN Invalid ELSE t
=============================================================================
