-------------------------- MODULE ApiRequestProofs --------------------------
(***************************************************************************)
(* Proofs about a request, for any table of operations and any recipients  *)
(* that meet the assumptions of ApiRequest.                                *)
(***************************************************************************)
EXTENDS ApiRequest, TLAPS, SequenceTheorems,
        WellFoundedInduction, NaturalsInduction

\* A set of numbers has a least one.
LEMMA LeastExists ==
  ASSUME NEW T, T \subseteq Nat, T # {}
  PROVE  \E m \in T : \A y \in T : m <= y
<1>1. PICK m \in T : \A y \in T : <<y, m>> \notin OpToRel(<, Nat)
  BY WFMin, NatLessThanWellFounded
<1>2. \A y \in T : ~(y < m)
  BY <1>1 DEF OpToRel
<1>3. QED
  BY <1>2

Count == Len(steps)

LEMMA FollowingIs ==
  ASSUME Count \in Nat, NEW n \in 0..Count
  PROVE  /\ Following(n) \in n + 1 .. Count + 1
         /\ Following(n) <= Count => Applies(steps[Following(n)])
         /\ \A i \in n + 1 .. Following(n) - 1 : ~Applies(steps[i])
<1> DEFINE S == {i \in n + 1 .. Count : Applies(steps[i])} \cup {Count + 1}
<1>1. S \subseteq Nat /\ S # {}
  OBVIOUS
<1>2. \E m \in S : \A y \in S : m <= y
  BY <1>1, LeastExists
<1>3. Following(n) = CHOOSE m \in S : \A y \in S : m <= y
  BY DEF Following, Min, Count
<1>4. Following(n) \in S /\ \A y \in S : Following(n) <= y
  BY <1>2, <1>3
<1> DEFINE f == Following(n)
<1> HIDE DEF f
<1>5. f \in S /\ \A y \in S : f <= y
  BY <1>4 DEF f
<1>6. f \in n + 1 .. Count + 1 /\ (f <= Count => Applies(steps[f]))
  BY <1>5
<1>7. \A i \in n + 1 .. f - 1 : ~Applies(steps[i])
  BY <1>5, <1>6
<1>8. QED
  BY <1>6, <1>7 DEF f

-----------------------------------------------------------------------------
(* Numbers.                                                                 *)

Digits == Seq(0..9)

\* A number that a country's rule shortens has no longer the length the rules
\* are for.
LEMMA NationalIs ==
  ASSUME NEW d \in Digits
  PROVE  /\ National(d) \in Digits
         /\ National(d) = d \/ (Len(d) = 13 /\ Len(National(d)) \in {11, 12})
<1>1. CASE Len(d) # 13
  BY <1>1 DEF National, FormatBRNumber, FormatMXOrARNumber
<1>2. CASE Len(d) = 13
  <2>1. \A m, n \in 1..13 : m <= n =>
           SubSeq(d, m, n) \in Digits /\ Len(SubSeq(d, m, n)) = n - m + 1
    <3> SUFFICES ASSUME NEW m \in 1..13, NEW n \in 1..13, m <= n
                 PROVE  /\ SubSeq(d, m, n) \in Digits
                        /\ Len(SubSeq(d, m, n)) = n - m + 1
      OBVIOUS
    <3>0. \A i \in 1..13 : d[i] \in 0..9
      BY <1>2, ElementOfSeq DEF Digits
    <3>1. \A i \in m..n : d[i] \in 0..9
      BY <3>0
    <3>2. m \in Int /\ n \in Int
      OBVIOUS
    <3>3. QED
      BY <3>1, <3>2, SubSeqProperties DEF Digits
  <2>2. ASSUME NEW k \in 1..13, NEW m \in 1..13
        PROVE  /\ SubSeq(d, 1, k) \o SubSeq(d, m, 13) \in Digits
               /\ Len(SubSeq(d, 1, k) \o SubSeq(d, m, 13)) = k + 14 - m
    <3>1. /\ SubSeq(d, 1, k) \in Digits /\ Len(SubSeq(d, 1, k)) = k
          /\ SubSeq(d, m, 13) \in Digits /\ Len(SubSeq(d, m, 13)) = 14 - m
      BY <2>1
    <3>2. QED
      BY <3>1, ConcatProperties DEF Digits
  <2> DEFINE e == FormatMXOrARNumber(d)
  <2>3. e \in Digits /\ (e = d \/ Len(e) \in {11, 12})
    BY <1>2, <2>2 DEF FormatMXOrARNumber, Country
  <2>4. FormatBRNumber(d) \in Digits
        /\ (FormatBRNumber(d) = d \/ Len(FormatBRNumber(d)) = 12)
    BY <1>2, <2>2 DEF FormatBRNumber
  <2> HIDE DEF e
  <2>5. National(d) = FormatBRNumber(e)
    BY DEF National, e
  <2>6. CASE e = d
    BY <1>2, <2>4, <2>5, <2>6
  <2>7. CASE Len(e) \in {11, 12}
    <3>0. Len(e) # 13
      BY <2>7
    <3>1. FormatBRNumber(e) = e
      BY <3>0 DEF FormatBRNumber
    <3>2. QED
      BY <1>2, <2>3, <2>5, <2>7, <3>1
  <2>8. QED
    BY <2>3, <2>6, <2>7
<1>3. QED
  BY <1>1, <1>2

\* The rules of the countries are applied as often as the code passes a number
\* on, to the effect of once.
LEMMA NationalTwice ==
  ASSUME NEW d \in Digits
  PROVE  National(National(d)) = National(d)
<1> DEFINE e == National(d)
<1>1. e = d \/ Len(e) \in {11, 12}
  BY NationalIs
<1> HIDE DEF e
<1>2. CASE Len(e) \in {11, 12}
  <2>1. Len(e) # 13
    BY <1>2
  <2>2. FormatMXOrARNumber(e) = e /\ FormatBRNumber(e) = e
    BY <2>1 DEF FormatBRNumber, FormatMXOrARNumber
  <2>3. QED
    BY <2>2 DEF National, e
<1>3. CASE e = d
  BY <1>3 DEF e
<1>4. QED
  BY <1>1, <1>2, <1>3
-----------------------------------------------------------------------------
(* Recipients: from what is written to the JID a message goes to.           *)

Servers == {"user", "group", "lid", "broadcast", "newsletter"}

Names == [at : Servers \cup {"", "empty", "absent", "invalid"},
          plus : BOOLEAN, digits : Digits]

\* A number long enough for a group.
Long(d) == Len(d) >= 18

\* What a caller may write, or leave out.
Written(a) ==
    \/ a = Absent
    \/ /\ a \in [at : Servers \cup {"", "empty"}, plus : BOOLEAN, digits : Digits]
       /\ a.at = "empty" => a.digits = <<>>
       /\ a.at = "user" => ~Long(a.digits)

\* A number as the country has it.
AtHome(a) == IF a.at \in {"", "user"} /\ ~Long(a.digits)
             THEN National(a.digits) ELSE a.digits

\* What the middleware leaves of it.
Passed(a, t) == t \in {a, CreateJID(a)} /\ t # Invalid

LEMMA LongIs == \A d \in Digits : Long(d) <=> ~(Len(d) < 18)
  BY DEF Digits, Long

LEMMA LongHasDigits ==
  ASSUME NEW d \in Digits
  PROVE  /\ Long(d) => d # <<>>
         /\ Len(d) \in {11, 12, 13} => d # <<>> /\ ~Long(d)
<1>1. Len(<<>>) = 0 /\ Len(d) \in Nat
  BY DEF Digits
<1>2. Len(d) >= 11 => d # <<>>
  BY <1>1
<1>3. Len(d) >= 18 => Len(d) >= 11
  BY <1>1
<1>4. \A n \in Nat : n \in {11, 12, 13} => n >= 11 /\ ~(n >= 18)
  OBVIOUS
<1>5. QED
  BY <1>1, <1>2, <1>3, <1>4 DEF Long

LEMMA NationalHasDigits ==
  ASSUME NEW d \in Digits
  PROVE  /\ National(d) \in Digits
         /\ (National(d) = <<>>) <=> (d = <<>>)
         /\ ~Long(d) => ~Long(National(d))
<1>1. /\ National(d) \in Digits
      /\ National(d) = d \/ (Len(d) = 13 /\ Len(National(d)) \in {11, 12})
  BY NationalIs
<1>2. /\ Len(d) = 13 => d # <<>>
      /\ Len(National(d)) \in {11, 12} =>
            National(d) # <<>> /\ ~Long(National(d))
  BY <1>1, LongHasDigits
<1>3. QED
  BY <1>1, <1>2

Group(d) == Text("group", FALSE, d)
Phone(d) == Text("user", TRUE, d)
User(d)  == Text("user", FALSE, d)

LEMMA GroupIs ==
  ASSUME NEW d \in Digits
  PROVE  /\ Group(d) \in Names /\ Group(d).at = "group" /\ ~Group(d).plus
         /\ Group(d).digits = d
<1>1. "group" \in Servers \cup {"", "empty", "absent", "invalid"}
  BY DEF Servers
<1>2. QED
  BY <1>1 DEF Group, Text, Names

LEMMA PhoneIs ==
  ASSUME NEW d \in Digits
  PROVE  /\ Phone(d) \in Names /\ Phone(d).at = "user"
         /\ Phone(d).digits = d
<1>1. "user" \in Servers \cup {"", "empty", "absent", "invalid"}
  BY DEF Servers
<1>2. QED
  BY <1>1 DEF Phone, Text, Names

LEMMA UserIs ==
  ASSUME NEW d \in Digits
  PROVE  User(d) \in Names /\ User(d).at = "user" /\ User(d).digits = d
<1>1. "user" \in Servers \cup {"", "empty", "absent", "invalid"}
  BY DEF Servers
<1>2. QED
  BY <1>1 DEF User, Text, Names

\* CreateJID, case by case.
LEMMA CreatedIs ==
  ASSUME NEW a \in Names
  PROVE  /\ a.at \in Servers => CreateJID(a) = a
         /\ a.at \notin Servers /\ a.digits = <<>> => CreateJID(a) = Invalid
         /\ a.at = "empty" => CreateJID(a) = Invalid
         /\ a.at = "" /\ Long(a.digits) /\ a.digits # <<>>
              => CreateJID(a) = Group(a.digits)
         /\ a.at = "" /\ ~Long(a.digits) /\ a.digits # <<>>
              => CreateJID(a) = Phone(National(a.digits))
  BY DEF CreateJID, IsJID, IsEmpty, Servers, Group, Phone, Long

LEMMA Constants ==
  /\ Absent \in Names /\ Absent.at = "absent" /\ Absent.digits = <<>>
  /\ Invalid \in Names /\ Invalid.at = "invalid" /\ Invalid.digits = <<>>
  /\ CreateJID(Absent) = Invalid /\ CreateJID(Invalid) = Invalid
  /\ ParseJID(Absent) = Invalid /\ ParseJID(Invalid) = Invalid
<1>1. <<>> \in Digits
  BY DEF Digits
<1>2. /\ Absent \in Names /\ Absent.at = "absent" /\ Absent.digits = <<>>
      /\ Invalid \in Names /\ Invalid.at = "invalid" /\ Invalid.digits = <<>>
  BY <1>1 DEF Absent, Invalid, Names
<1>3. "absent" \notin Servers /\ "invalid" \notin Servers
  BY DEF Servers
<1>4. CreateJID(Absent) = Invalid /\ CreateJID(Invalid) = Invalid
  BY <1>2, <1>3, CreatedIs
<1>5. QED
  BY <1>2, <1>4 DEF ParseJID

\* The servers a written recipient may have.
LEMMA WrittenIs ==
  ASSUME NEW a, Written(a)
  PROVE  /\ a \in Names /\ a.digits \in Digits /\ National(a.digits) \in Digits
         /\ a.at \in Servers \cup {"", "empty", "absent"}
         /\ a.at \in {"empty", "absent"} => a.digits = <<>>
         /\ a.at = "absent" => a = Absent
         /\ a.at = "user" => ~Long(a.digits)
<1>1. CASE a = Absent
  BY <1>1, Constants, NationalHasDigits DEF Names
<1>2. CASE a # Absent
  BY <1>2, NationalHasDigits DEF Written, Names, Servers
<1>3. QED
  BY <1>1, <1>2

\* What CreateJID makes of it, and of what it made.
LEMMA WrittenCreates ==
  ASSUME NEW a, Written(a)
  PROVE  /\ a.at \in Servers => CreateJID(a) = a
         /\ a.at \notin Servers =>
              \/ CreateJID(a) = Invalid /\ a.digits = <<>>
              \/ /\ a.at = "" /\ CreateJID(a) = Group(a.digits)
                 /\ AtHome(a) = a.digits
              \/ /\ a.at = "" /\ CreateJID(a) = Phone(National(a.digits))
                 /\ AtHome(a) = National(a.digits) /\ ~Long(a.digits)
<1>1. /\ a \in Names /\ a.at \in Servers \cup {"", "empty", "absent"}
      /\ a.at \in {"empty", "absent"} => a.digits = <<>>
  BY WrittenIs
<1>2. CASE a.at \in Servers
  BY <1>1, <1>2, CreatedIs
<1>3. CASE a.at \notin Servers /\ a.digits = <<>>
  BY <1>1, <1>3, CreatedIs
<1>4. CASE a.at = "" /\ a.digits # <<>> /\ Long(a.digits)
  <2>1. CreateJID(a) = Group(a.digits)
    BY <1>1, <1>4, CreatedIs
  <2>2. AtHome(a) = a.digits
    BY <1>4 DEF AtHome
  <2>3. a.at \notin Servers
    BY <1>4 DEF Servers
  <2>4. QED
    BY <1>4, <2>1, <2>2, <2>3
<1>5. CASE a.at = "" /\ a.digits # <<>> /\ ~Long(a.digits)
  <2>1. CreateJID(a) = Phone(National(a.digits))
    BY <1>1, <1>5, CreatedIs
  <2>2. AtHome(a) = National(a.digits)
    BY <1>5 DEF AtHome
  <2>3. a.at \notin Servers
    BY <1>5 DEF Servers
  <2>4. QED
    BY <1>5, <2>1, <2>2, <2>3
<1>6. QED
  BY <1>1, <1>2, <1>3, <1>4, <1>5

\* A JID that CreateJID made is one it leaves alone.
LEMMA CreatedTwice ==
  ASSUME NEW a, Written(a)
  PROVE  /\ CreateJID(a) \in Names
         /\ CreateJID(a) = Invalid \/ CreateJID(a).at \in Servers
         /\ CreateJID(CreateJID(a)) = CreateJID(a)
         /\ CreateJID(a) # Invalid /\ a.at \notin Servers =>
              CreateJID(a).digits = AtHome(a)
<1>1. a \in Names /\ a.digits \in Digits /\ National(a.digits) \in Digits
  BY WrittenIs
<1>2. /\ CreateJID(a) \in Names
      /\ CreateJID(a) = Invalid \/ CreateJID(a).at \in Servers
      /\ CreateJID(a) # Invalid /\ a.at \notin Servers =>
              CreateJID(a).digits = AtHome(a)
  <2>1. CASE a.at \in Servers
    BY <1>1, <2>1, WrittenCreates
  <2>2. CASE CreateJID(a) = Invalid
    BY <2>2, Constants
  <2>3. CASE CreateJID(a) = Group(a.digits) /\ AtHome(a) = a.digits
    BY <1>1, <2>3, GroupIs DEF Servers
  <2>4. CASE /\ CreateJID(a) = Phone(National(a.digits))
             /\ AtHome(a) = National(a.digits)
    BY <1>1, <2>4, PhoneIs DEF Servers
  <2>5. QED
    BY <2>1, <2>2, <2>3, <2>4, WrittenCreates
<1>3. QED
  BY <1>2, CreatedIs, Constants

\* ParseJID brings what the middleware left to where CreateJID would have
\* brought what was written.
LEMMA ParsedIs ==
  ASSUME NEW a, Written(a), NEW t, Passed(a, t), ParseJID(t) # Invalid
  PROVE  /\ ParseJID(t) = CreateJID(a)
         /\ CreateJID(a) \in Names
         /\ CreateJID(a).at \in Servers
         /\ CreateJID(a).digits = IF IsJID(a) THEN a.digits ELSE AtHome(a)
<1>1. CreateJID(t) = CreateJID(a)
  BY CreatedTwice DEF Passed
<1>2. ParseJID(t) = CreateJID(a)
  BY <1>1 DEF ParseJID
<1>3. IsJID(a) <=> a.at \in Servers
  BY DEF IsJID, Servers
<1>4. CASE IsJID(a)
  BY <1>2, <1>3, <1>4, CreatedTwice, WrittenCreates
<1>5. CASE ~IsJID(a)
  BY <1>2, <1>3, <1>5, CreatedTwice
<1>6. QED
  BY <1>4, <1>5

\* The forms in which a recipient reaches its service.
LEMMA PassedIs ==
  ASSUME NEW a, Written(a), NEW t, Passed(a, t)
  PROVE  /\ t \in Names /\ t.digits \in Digits
         /\ \/ t.at \in {"absent", "empty"} /\ t.digits = <<>>
            \/ /\ t.at \in Servers \ {"user"} /\ t = CreateJID(a)
               /\ AtHome(a) = t.digits /\ AtHome(a) = a.digits
            \/ t.at = "user" /\ t = a /\ ~Long(t.digits)
            \/ /\ t.at = "user" /\ a.at = "" /\ ~Long(a.digits)
               /\ t = Phone(National(a.digits)) /\ t = CreateJID(a)
               /\ t.digits = National(a.digits)
            \/ t.at = "" /\ t = a
<1>1. /\ a \in Names /\ a.digits \in Digits /\ National(a.digits) \in Digits
      /\ a.at \in Servers \cup {"", "empty", "absent"}
      /\ a.at \in {"empty", "absent"} => a.digits = <<>>
      /\ a.at = "user" => ~Long(a.digits)
  BY WrittenIs
<1>2. a.at \in Servers => CreateJID(a) = a
  BY WrittenCreates
<1>3. CASE t = a
  <2>1. a.at \in Servers \ {"user"} => AtHome(a) = a.digits
    BY DEF AtHome, Servers
  <2>2. QED
    BY <1>1, <1>2, <1>3, <2>1
<1>4. CASE t # a
  <2>1. t = CreateJID(a) /\ a.at \notin Servers
    BY <1>2, <1>4 DEF Passed
  <2>2. CASE CreateJID(a) = Group(a.digits) /\ AtHome(a) = a.digits
    BY <1>1, <2>1, <2>2, GroupIs DEF Servers
  <2>3. CASE /\ a.at = "" /\ CreateJID(a) = Phone(National(a.digits))
             /\ ~Long(a.digits)
    BY <1>1, <2>1, <2>3, PhoneIs
  <2>4. QED
    BY <2>1, <2>2, <2>3, WrittenCreates DEF Passed
<1>5. QED
  BY <1>3, <1>4

\* What is left of a user's JID without its server.
LEMMA BareIs ==
  ASSUME NEW t \in Names
  PROVE  /\ t.at # "user" => BareNumber(t) = t
         /\ t.at = "user" => /\ BareNumber(t) \in Names
                             /\ BareNumber(t).at = ""
                             /\ BareNumber(t).digits = t.digits
  BY DEF BareNumber, Names

LEMMA BareCreates ==
  ASSUME NEW t \in Names, t.at = "user", ~Long(t.digits)
  PROVE  \/ CreateJID(BareNumber(t)) = Invalid /\ t.digits = <<>>
         \/ CreateJID(BareNumber(t)) = Phone(National(t.digits))
<1>1. /\ BareNumber(t) \in Names /\ BareNumber(t).at = ""
      /\ BareNumber(t).digits = t.digits
  BY BareIs
<1>2. "" \notin Servers
  BY DEF Servers
<1>3. QED
  BY <1>1, <1>2, CreatedIs

\* However it was passed on, a recipient that is a number is formatted into the
\* JID that its country's rules give for what was written.
LEMMA BareOfPassed ==
  ASSUME NEW a, Written(a), NEW t, Passed(a, t),
         NEW jid, jid = CreateJID(BareNumber(t))
  PROVE  \/ jid = Invalid /\ ParseJID(t) = Invalid
         \/ jid = CreateJID(a) /\ jid.digits = AtHome(a)
         \/ /\ jid = Phone(AtHome(a)) /\ jid.digits = AtHome(a)
            /\ jid.at = "user" /\ CreateJID(a).at = "user"
<1>1. /\ a \in Names /\ a.digits \in Digits /\ National(a.digits) \in Digits
      /\ t \in Names /\ t.digits \in Digits /\ National(t.digits) \in Digits
  BY WrittenIs, PassedIs, NationalHasDigits
<1>2. CreateJID(t) = CreateJID(a)
  BY CreatedTwice DEF Passed
<1>3. CASE t.at \in {"absent", "empty"} /\ t.digits = <<>>
  <2>1. BareNumber(t) = t
    BY <1>1, <1>3, BareIs
  <2>2. CreateJID(t) = Invalid
    BY <1>1, <1>3, CreatedIs DEF Servers
  <2>3. QED
    BY <2>1, <2>2, Constants DEF ParseJID
<1>4. CASE /\ t.at \in Servers \ {"user"} /\ t = CreateJID(a)
           /\ AtHome(a) = t.digits
  <2>1. BareNumber(t) = t
    BY <1>1, <1>4, BareIs
  <2>2. QED
    BY <1>2, <1>4, <2>1
<1>5. CASE t.at = "user" /\ t = a /\ ~Long(t.digits)
  <2>1. AtHome(a) = National(t.digits)
    BY <1>5 DEF AtHome
  <2>2. CreateJID(a) = a
    BY <1>1, <1>5, CreatedIs DEF Servers
  <2>3. CASE jid = Invalid /\ t.digits = <<>>
    <3>1. ParseJID(t) = Invalid
      BY <1>5, <2>2, <2>3 DEF ParseJID
    <3>2. QED
      BY <2>3, <3>1
  <2>4. CASE jid = Phone(National(t.digits))
    BY <1>1, <1>5, <2>1, <2>2, <2>4, PhoneIs
  <2>5. QED
    BY <1>1, <1>5, <2>3, <2>4, BareCreates
<1>6. CASE /\ t.at = "user" /\ a.at = "" /\ ~Long(a.digits)
           /\ t = Phone(National(a.digits)) /\ t = CreateJID(a)
           /\ t.digits = National(a.digits)
  <2>1. AtHome(a) = National(a.digits)
    BY <1>6 DEF AtHome
  <2>2. ~Long(t.digits)
    BY <1>1, <1>6, NationalHasDigits
  <2>3. National(t.digits) = t.digits
    BY <1>1, <1>6, NationalTwice
  <2>4. CASE jid = Invalid /\ t.digits = <<>>
    <3>1. ParseJID(t) = Invalid
      BY <1>2, <1>6, <2>4 DEF ParseJID
    <3>2. QED
      BY <2>4, <3>1
  <2>5. CASE jid = Phone(National(t.digits))
    BY <1>1, <1>6, <2>1, <2>3, <2>5, PhoneIs
  <2>6. QED
    BY <1>1, <1>6, <2>2, <2>4, <2>5, BareCreates
<1>7. CASE t.at = "" /\ t = a
  <2>1. BareNumber(t) = t
    BY <1>1, <1>7, BareIs
  <2>2. CASE CreateJID(a) = Invalid
    BY <1>7, <2>1, <2>2, Constants DEF ParseJID
  <2>3. CASE CreateJID(a) # Invalid
    BY <1>7, <2>1, <2>3, CreatedTwice DEF Servers
  <2>4. QED
    BY <2>2, <2>3
<1>8. \/ t.at \in {"absent", "empty"} /\ t.digits = <<>>
      \/ /\ t.at \in Servers \ {"user"} /\ t = CreateJID(a)
         /\ AtHome(a) = t.digits
      \/ t.at = "user" /\ t = a /\ ~Long(t.digits)
      \/ /\ t.at = "user" /\ a.at = "" /\ ~Long(a.digits)
         /\ t = Phone(National(a.digits)) /\ t = CreateJID(a)
         /\ t.digits = National(a.digits)
      \/ t.at = "" /\ t = a
  BY PassedIs
<1>9. QED
  BY <1>3, <1>4, <1>5, <1>6, <1>7, <1>8

\* ValidateMessageFields: whatever a validator of the routes has made of the
\* recipient that was written, the service sends to the number that the rules of
\* its country give when they are applied once; a user's JID is kept as it is
\* unless it is to be formatted.
THEOREM ResolvedOnce ==
  ASSUME NEW a, Written(a), NEW t, Passed(a, t), NEW f \in BOOLEAN,
         NEW v, v = ValidateMessageFields(t, f), v # Invalid
  PROVE  /\ v \in Names /\ v.at = CreateJID(a).at
         /\ v.digits = IF IsJID(a) /\ ~f THEN a.digits ELSE AtHome(a)
<1> DEFINE jid == CreateJID(BareNumber(t))
<1> HIDE DEF jid
<1>1. jid = CreateJID(BareNumber(t))
  BY DEF jid
<1>2. v = IF ~f THEN ParseJID(t)
          ELSE IF jid = Invalid THEN ParseJID(ParseJID(t)) ELSE ParseJID(jid)
  BY DEF ValidateMessageFields, jid
<1>3. CASE ~f
  BY <1>2, <1>3, ParsedIs
<1>4. CASE f
  <2>0. jid = Invalid => ParseJID(t) = Invalid
    <3>1. jid = CreateJID(a) /\ jid = Invalid => ParseJID(t) = Invalid
      BY ParsedIs, Constants DEF Servers
    <3>2. jid = Invalid => jid.at # "user"
      BY Constants
    <3>3. QED
      BY <1>1, <3>1, <3>2, BareOfPassed
  <2>1. jid # Invalid
    BY <1>2, <1>4, <2>0, Constants
  <2>2. ParseJID(jid) # Invalid /\ v = ParseJID(jid)
    BY <1>2, <1>4, <2>1
  <2>3. CASE jid = CreateJID(a) /\ jid.digits = AtHome(a)
    <3>1. CreateJID(jid) = jid
      BY <2>3, CreatedTwice
    <3>2. v = jid
      BY <2>2, <3>1 DEF ParseJID
    <3>3. jid \in Names
      BY <2>3, CreatedTwice
    <3>4. QED
      BY <1>4, <2>3, <3>2, <3>3
  <2>4. CASE /\ jid = Phone(AtHome(a)) /\ jid.digits = AtHome(a)
             /\ jid.at = "user" /\ CreateJID(a).at = "user"
    <3>1. AtHome(a) \in Digits
      BY WrittenIs DEF AtHome
    <3>2. jid \in Names
      BY <2>4, <3>1, PhoneIs
    <3>3. CreateJID(jid) = jid
      BY <2>4, <3>2, CreatedIs DEF Servers
    <3>4. v = jid
      BY <2>2, <3>3 DEF ParseJID
    <3>5. QED
      BY <1>4, <2>4, <3>2, <3>4
  <2>5. QED
    BY <1>1, <2>1, <2>3, <2>4, BareOfPassed
<1>5. QED
  BY <1>3, <1>4

\* A number is looked up as it was written and as its country has it.
LEMMA QueryIs ==
  ASSUME NEW a, Written(a), NEW t, Passed(a, t),
         t.at \notin Servers \ {"user"}, NEW f \in BOOLEAN
  PROVE  PrepareNumbersForWhatsAppCheck(t, f).digits \in {a.digits, AtHome(a)}
<1> DEFINE jid == CreateJID(BareNumber(t))
<1> HIDE DEF jid
<1>0. jid = CreateJID(BareNumber(t))
  BY DEF jid
<1>1. /\ a \in Names /\ a.digits \in Digits /\ National(a.digits) \in Digits
      /\ t \in Names /\ t.digits \in Digits
  BY WrittenIs, PassedIs
<1>2. AtHome(a) \in Digits
  BY <1>1 DEF AtHome
<1>3. PrepareNumbersForWhatsAppCheck(t, f) =
        IF ~f \/ jid = Invalid THEN t ELSE BareNumber(jid)
  BY DEF PrepareNumbersForWhatsAppCheck, jid
<1>4. jid # Invalid => jid \in Names /\ jid.digits = AtHome(a)
  <2>1. CASE jid = CreateJID(a) /\ jid.digits = AtHome(a)
    BY <2>1, CreatedTwice
  <2>2. CASE /\ jid = Phone(AtHome(a)) /\ jid.digits = AtHome(a)
             /\ CreateJID(a).at = "user"
    BY <1>2, <2>2, PhoneIs
  <2>3. QED
    BY <1>0, <2>1, <2>2, BareOfPassed
<1>5. \/ PrepareNumbersForWhatsAppCheck(t, f) = t
      \/ PrepareNumbersForWhatsAppCheck(t, f).digits = AtHome(a)
  <2>1. jid # Invalid => BareNumber(jid).digits = jid.digits
    BY <1>4, BareIs
  <2>2. QED
    BY <1>3, <1>4, <2>1
<1>6. t.digits \in {a.digits, AtHome(a)}
  <2>1. t.at \in {"absent", "empty"} => t = a
    BY CreatedTwice DEF Passed, Servers
  <2>2. a.at = "" /\ ~Long(a.digits) => AtHome(a) = National(a.digits)
    BY DEF AtHome
  <2>3. CASE t = a
    BY <2>3
  <2>4. CASE a.at = "" /\ ~Long(a.digits) /\ t.digits = National(a.digits)
    BY <2>2, <2>4
  <2>5. t.at \in {"absent", "empty"} \/ t.at \in {"user", ""}
    BY PassedIs
  <2>6. t = a \/ (a.at = "" /\ ~Long(a.digits) /\ t.digits = National(a.digits))
    BY <2>1, <2>5, PassedIs
  <2>7. QED
    BY <2>3, <2>4, <2>6
<1>7. QED
  BY <1>5, <1>6

\* The service takes the JID that WhatsApp names as it is.
LEMMA RemoteIs ==
  ASSUME NEW r \in Remotes, ValidateMessageFields(r, FALSE) # Invalid
  PROVE  /\ ValidateMessageFields(r, FALSE) = r
         /\ r \in Names /\ ~r.plus /\ r # Absent
<1>1. /\ r \in [at : {"user", "lid"}, plus : {FALSE}, digits : Seq(0..9)]
  BY RemotesAssumption
<1>2. r \in Names /\ ~r.plus /\ r.at \in Servers
  BY <1>1 DEF Names, Servers, Digits
<1>3. CreateJID(r) = r
  BY <1>2, CreatedIs
<1>4. r # Absent
  BY <1>1, Constants
<1>5. QED
  BY <1>2, <1>3, <1>4 DEF ValidateMessageFields, ParseJID

-----------------------------------------------------------------------------
(* The steps of a request.                                                  *)

Kind(i) == steps[i].kind

LEMMA RouteIs ==
  ASSUME op \in Ops
  PROVE  /\ steps \in Seq(AnyStep)
         /\ Count \in Nat /\ DOMAIN steps = 1..Count
         /\ route.attempts \in Nat \ {0}
         /\ route.validate \in Validators
<1>1. /\ steps \in Seq(AnyStep)
      /\ route.attempts \in Nat \ {0}
      /\ route.validate \in Validators
  BY OpsAssumption DEF route, steps
<1>2. QED
  BY <1>1, LenProperties DEF Count

LEMMA KindsAre ==
  ASSUME op \in Ops, NEW i \in DOMAIN steps
  PROVE  /\ Kind(i) \in STRING /\ steps[i].tolerant \in BOOLEAN
         /\ steps[i].name \in STRING
<1>1. steps[i] \in AnyStep
  BY RouteIs, ElementOfSeq
<1>2. QED
  BY <1>1 DEF AnyStep, Kind

\* Where a message is sent, and its event given.
LEMMA SendIs ==
  ASSUME op \in Ops, NEW i \in DOMAIN steps, Kind(i) = "send"
  PROVE  /\ Sure(steps[i])
         /\ \A j \in DOMAIN steps :
               Kind(j) \in {"send", "resolve", "again"} => j <= i
<1>1. SendsOnce(route)
  BY OpsAssumption DEF route
<1>2. QED
  BY <1>1 DEF SendsOnce, Of, steps, Kind

LEMMA EventIs ==
  ASSUME op \in Ops, NEW i \in DOMAIN steps, Kind(i) = "event"
  PROVE  /\ ~steps[i].tolerant
         /\ \A j \in DOMAIN steps : Kind(j) = "event" => j = i
         /\ \E j \in DOMAIN steps : Kind(j) = "send" /\ j < i
<1>1. SendsOnce(route)
  BY OpsAssumption DEF route
<1>2. i \in Of(route, {"event"})
  BY DEF Of, steps, Kind
<1>3. /\ ~route.steps[i].tolerant /\ Of(route, {"event"}) = {i}
      /\ \E j \in Of(route, {"send"}) : j < i
  BY <1>1, <1>2 DEF SendsOnce
<1>4. QED
  BY <1>3 DEF Of, steps, Kind

\* What is told, and that nothing is told where a 404 may be answered.
LEMMA TellIs ==
  ASSUME op \in Ops, NEW i \in DOMAIN steps
  PROVE  /\ Kind(i) \in Changes => ~steps[i].tolerant
         /\ Kind(i) = "find" => \A j \in DOMAIN steps : Kind(j) \notin Changes
<1>1. TellsAll(route)
  BY OpsAssumption DEF route
<1>2. QED
  BY <1>1 DEF TellsAll, Of, steps, Kind

\* Where a recipient is resolved.
LEMMA ResolveIs ==
  ASSUME op \in Ops, NEW i \in Of(route, {"resolve"})
  PROVE  /\ i \in DOMAIN steps /\ Kind(i) = "resolve"
         /\ Sure(steps[i]) /\ Of(route, {"resolve"}) = {i}
         /\ \A j \in DOMAIN steps :
               /\ Kind(j) \in Changes => i < j
               /\ Kind(j) = "parse" => j < i
<1>1. Addresses(route)
  BY OpsAssumption DEF route
<1>2. QED
  BY <1>1 DEF Addresses, Of, steps, Kind

\* A step that takes the "+" off, and after which nothing is parsed.
Strips(i) ==
    /\ Kind(i) = "canon" /\ Sure(steps[i])
    /\ \A k \in DOMAIN steps : Kind(k) = "parse" => k < i

LEMMA RawIs ==
  ASSUME op \in Ops, Of(route, {"resolve"}) = {},
         NEW j \in DOMAIN steps, Bare(steps[j])
  PROVE  \E i \in DOMAIN steps : i < j /\ Strips(i)
<1>1. Addresses(route)
  BY OpsAssumption DEF route
<1>2. PICK i \in Of(route, {"canon"}) :
         /\ i < j /\ Sure(route.steps[i])
         /\ \A k \in Of(route, {"parse"}) : k < i
  BY <1>1 DEF Addresses, steps
<1>3. QED
  BY <1>2 DEF Of, steps, Kind, Strips

LEMMA SureApplies == \A s : Sure(s) => Applies(s)
  BY DEF Sure, Applies

\* A step that every request takes is not passed over.
LEMMA GoOnIs ==
  ASSUME op \in Ops, at \in DOMAIN steps, GoOn
  PROVE  /\ at' \in at + 1 .. Count + 1
         /\ \A i \in DOMAIN steps :
               i < at' /\ Applies(steps[i]) => i < at \/ i = at
         /\ UNCHANGED <<phase, attempt, tries, status>>
<1>1. /\ Count \in Nat /\ DOMAIN steps = 1..Count /\ at \in 0..Count
  BY RouteIs
<1>2. /\ Following(at) \in at + 1 .. Count + 1
      /\ \A i \in at + 1 .. Following(at) - 1 : ~Applies(steps[i])
  BY <1>1, FollowingIs
<1>3. at' = Following(at) /\ UNCHANGED <<phase, attempt, tries, status>>
  BY DEF GoOn
<1>4. ASSUME NEW i \in DOMAIN steps, i < at', Applies(steps[i])
      PROVE  i < at \/ i = at
  BY <1>1, <1>2, <1>3, <1>4
<1>5. QED
  BY <1>2, <1>3, <1>4

LEMMA BeginIs ==
  ASSUME op \in Ops, Begin
  PROVE  /\ phase' = "step" /\ at' \in 1 .. Count + 1
         /\ \A i \in DOMAIN steps : i < at' => ~Applies(steps[i])
         /\ UNCHANGED <<attempt, tries, status>>
<1>1. /\ Count \in Nat /\ DOMAIN steps = 1..Count /\ 0 \in 0..Count
  BY RouteIs
<1>2. /\ Following(0) \in 0 + 1 .. Count + 1
      /\ \A i \in 0 + 1 .. Following(0) - 1 : ~Applies(steps[i])
  BY <1>1, FollowingIs
<1>3. QED
  BY <1>1, <1>2 DEF Begin

\* The next attempt.
Again ==
    /\ attempt < route.attempts /\ attempt' = attempt + 1
    /\ tries' = 1 /\ at' = 0 /\ phase' = "client"
    /\ UNCHANGED status

LEMMA FailWithIs ==
  \A why : FailWith(why) => Answer(500) \/ (Retries(why) /\ Again)
  BY DEF FailWith, Again

LEMMA FailsIs ==
  \A why : Fails(why) =>
     \/ steps[at].tolerant /\ GoOn
     \/ ~steps[at].tolerant /\ Answer(500)
     \/ ~steps[at].tolerant /\ Retries(why) /\ Again
  BY FailWithIs DEF Fails

-----------------------------------------------------------------------------
(* Types.                                                                   *)

\* What a step leaves of the route.
LEMMA SameRoute ==
  ASSUME op' = op
  PROVE  /\ route' = route /\ steps' = steps /\ Count' = Count
         /\ \A kinds : Of(route, kinds)' = Of(route, kinds)
         /\ \A i : Kind(i)' = Kind(i)
         /\ \A i : Strips(i)' <=> Strips(i)
  BY DEF route, steps, Count, Of, Kind, Strips, Sure

LEMMA SameRequest ==
  ASSUME UNCHANGED request
  PROVE  /\ UNCHANGED <<op, checks, content, asked, text, opts>>
         /\ \A s : Applies(s)' <=> Applies(s)
  BY DEF request, Applies

\* The part of the types that moving on concerns.
LEMMA TypesMove ==
  ASSUME ApiTypeOK, op' = op, UNCHANGED <<checks, applied, refused>>,
         client' \in Clients, content' \in Bodies \cup {"none"},
         asked' \in Texts \cup {Absent},
         phase' \in {"auth", "validate", "bind", "client", "wait",
                     "reconnect", "step"},
         status' = 0, attempt' \in 1..route.attempts, tries' \in 1..2,
         at' \in 0..Count + 1
  PROVE  ApiTypeOK'
<1>1. route' = route /\ steps' = steps
  BY SameRoute
<1>2. QED
  BY <1>1 DEF ApiTypeOK, Count

LEMMA TypesEnd ==
  ASSUME ApiTypeOK, op' = op, UNCHANGED checks,
         applied' \subseteq DOMAIN steps, refused' \subseteq DOMAIN steps,
         client' \in Clients, content' \in Bodies \cup {"none"},
         asked' \in Texts \cup {Absent},
         NEW code \in {200, 400, 401, 404, 500}, Answer(code)
  PROVE  ApiTypeOK'
<1>1. route' = route /\ steps' = steps
  BY SameRoute
<1>2. QED
  BY <1>1 DEF ApiTypeOK, Answer

LEMMA TypesGoOn ==
  ASSUME ApiTypeOK, UNCHANGED request, client' = client,
         applied' \subseteq DOMAIN steps, refused' \subseteq DOMAIN steps,
         phase = "step", at \in DOMAIN steps, GoOn
  PROVE  ApiTypeOK'
<1>1. route' = route /\ steps' = steps /\ UNCHANGED <<op, checks, content, asked>>
  BY SameRoute, SameRequest DEF request
<1>2. at' \in at + 1 .. Count + 1 /\ UNCHANGED <<phase, attempt, tries, status>>
  BY GoOnIs DEF ApiTypeOK
<1>3. Count \in Nat /\ DOMAIN steps = 1..Count
  BY RouteIs DEF ApiTypeOK
<1>4. at' \in 0 .. Len(steps) + 1
  BY <1>2, <1>3 DEF Count
<1>5. QED
  BY <1>1, <1>2, <1>4 DEF ApiTypeOK

LEMMA TypesAgain ==
  ASSUME ApiTypeOK, UNCHANGED request, client' \in Clients, UNCHANGED <<applied, refused>>,
         phase # "done", Again
  PROVE  ApiTypeOK'
<1>1. /\ Count \in Nat /\ route.attempts \in Nat \ {0}
  BY RouteIs DEF ApiTypeOK
<1>2. attempt' \in 1..route.attempts /\ at' \in 0..Count + 1
  BY <1>1 DEF ApiTypeOK, Again
<1>3. status' = 0
  BY DEF ApiTypeOK, Again
<1>4. UNCHANGED <<op, checks, content, asked>>
  BY SameRequest
<1>5. QED
  BY <1>2, <1>3, <1>4, TypesMove DEF ApiTypeOK, Again

LEMMA TypesFailWith ==
  ASSUME ApiTypeOK, UNCHANGED request, client' \in Clients, UNCHANGED <<applied, refused>>,
         phase # "done", NEW why, FailWith(why)
  PROVE  ApiTypeOK'
<1>1. UNCHANGED <<op, checks, content, asked>>
  BY SameRequest
<1>2. CASE Answer(500)
  BY <1>1, <1>2, TypesEnd DEF ApiTypeOK
<1>3. CASE Again
  BY <1>3, TypesAgain
<1>4. QED
  BY <1>2, <1>3, FailWithIs

LEMMA TypesFails ==
  ASSUME ApiTypeOK, UNCHANGED request, client' = client,
         applied' \subseteq DOMAIN steps, refused' \subseteq DOMAIN steps,
         phase = "step", at \in DOMAIN steps, NEW why, Fails(why),
         Retries(why) => UNCHANGED <<applied, refused>>
  PROVE  ApiTypeOK'
<1>1. UNCHANGED <<op, checks, content, asked>>
  BY SameRequest
<1>2. CASE GoOn
  BY <1>2, TypesGoOn
<1>3. CASE Answer(500)
  BY <1>1, <1>3, TypesEnd DEF ApiTypeOK
<1>4. CASE Retries(why) /\ Again
  BY <1>4, TypesAgain DEF ApiTypeOK
<1>5. QED
  BY <1>2, <1>3, <1>4, FailsIs

LEMMA TypesBegin ==
  ASSUME ApiTypeOK, op' = op, UNCHANGED <<checks, asked, applied, refused, client>>,
         content' \in Bodies \cup {"none"}, phase # "done", Begin
  PROVE  ApiTypeOK'
<1>1. Count \in Nat
  BY RouteIs DEF ApiTypeOK
<1>2. /\ phase' = "step" /\ at' \in 1 .. Count + 1
      /\ UNCHANGED <<attempt, tries, status>>
  BY BeginIs DEF ApiTypeOK
<1>3. at' \in 0 .. Count + 1
  BY <1>1, <1>2
<1>4. QED
  BY <1>2, <1>3, TypesMove DEF ApiTypeOK

\* The two ends of the middleware.
LEMMA ValidateIs ==
  ASSUME Validate
  PROVE  /\ phase = "validate" /\ UNCHANGED <<op, checks, client, recipient, effects>>
         /\ content' \in Bodies \cup {"none"}
         /\ \E t \in Texts \cup {Absent} : asked' = t /\
              \E c, f, n : text' = Validated(c, t, f, n)
         /\ \/ Answer(400)
            \/ /\ text' # Invalid /\ phase' = "bind"
               /\ UNCHANGED <<attempt, tries, at, status>>
<1>1. PICK c \in IF route.body THEN Bodies ELSE {"none"},
           t \in IF route.field = "" THEN {Absent} ELSE Texts \cup {Absent},
           o \in Options,
           phoneIsNumber \in {TRUE, route.validate # "contact"} :
        /\ content' = c
        /\ asked' = t
        /\ opts' = o
        /\ text' = Validated(c, t, "formatJid" \in o, phoneIsNumber)
        /\ IF text' = Invalid THEN Answer(400)
           ELSE phase' = "bind" /\ UNCHANGED <<attempt, tries, at, status>>
  BY Zenon DEF Validate
<1>2. phase = "validate" /\ UNCHANGED <<op, checks, client, recipient, effects>>
  BY DEF Validate
<1>3. c \in Bodies \cup {"none"} /\ t \in Texts \cup {Absent}
  OBVIOUS
<1>4. \E f, n : text' = Validated(c, t, f, n)
  BY <1>1
<1>5. \/ Answer(400)
      \/ /\ text' # Invalid /\ phase' = "bind"
         /\ UNCHANGED <<attempt, tries, at, status>>
  BY <1>1
<1>6. QED
  BY <1>1, <1>2, <1>3, <1>4, <1>5

LEMMA TypesFollow ==
  ASSUME ApiTypeOK, [Next]_vars
  PROVE  ApiTypeOK'
<1>1. /\ op \in Ops /\ client \in Clients /\ applied \subseteq DOMAIN steps
      /\ refused \subseteq DOMAIN steps
      /\ Count \in Nat /\ DOMAIN steps = 1..Count
      /\ attempt \in 1..route.attempts /\ tries \in 1..2 /\ at \in 0..Count + 1
      /\ content \in Bodies \cup {"none"} /\ asked \in Texts \cup {Absent}
      /\ (phase = "done") = (status # 0)
  BY RouteIs DEF ApiTypeOK, Count
<1>2. CASE UNCHANGED vars
  <2>1. route' = route /\ steps' = steps
    BY <1>2, SameRoute DEF vars, request
  <2>2. QED
    BY <1>2, <2>1 DEF ApiTypeOK, vars, request, effects
<1>3. CASE Auth
  <2>1. UNCHANGED <<op, checks, content, asked, client, applied, refused>>
    BY <1>3 DEF Auth, request, effects
  <2>2. CASE Answer(401)
    BY <1>1, <2>1, <2>2, TypesEnd
  <2>3. CASE phase' = "validate" /\ UNCHANGED <<attempt, tries, at, status>>
    BY <1>1, <1>3, <2>1, <2>3, TypesMove DEF Auth
  <2>4. QED
    BY <1>3, <2>2, <2>3 DEF Auth
<1>4. CASE Validate
  <2>1. /\ UNCHANGED <<op, checks, client, applied, refused>> /\ phase = "validate"
        /\ content' \in Bodies \cup {"none"} /\ asked' \in Texts \cup {Absent}
    BY <1>4, ValidateIs DEF effects
  <2>2. CASE Answer(400)
    BY <1>1, <2>1, <2>2, TypesEnd
  <2>3. CASE phase' = "bind" /\ UNCHANGED <<attempt, tries, at, status>>
    BY <1>1, <2>1, <2>3, TypesMove
  <2>4. QED
    BY <1>4, <2>2, <2>3, ValidateIs
<1>5. CASE Bind
  <2>1. /\ UNCHANGED <<op, checks, asked, client, applied, refused>>
        /\ content' \in Bodies \cup {"none"} /\ phase = "bind"
    BY <1>5 DEF Bind, effects
  <2>2. CASE Answer(400)
    BY <1>1, <2>1, <2>2, TypesEnd
  <2>3. CASE Begin
    BY <2>1, <2>3, TypesBegin
  <2>4. CASE phase' = "client" /\ UNCHANGED <<attempt, tries, at, status>>
    BY <1>1, <2>1, <2>4, TypesMove
  <2>5. QED
    BY <1>5, <2>2, <2>3, <2>4 DEF Bind
<1>6. ASSUME UNCHANGED <<request, client, recipient, effects>>, Offline, phase # "done"
      PROVE  ApiTypeOK'
  <2>1. UNCHANGED <<op, checks, content, asked, client, applied, refused>>
    BY <1>6 DEF request, effects
  <2>2. CASE phase' = "reconnect" /\ UNCHANGED <<attempt, tries, at, status>>
    BY <1>1, <1>6, <2>1, <2>2, TypesMove
  <2>3. CASE FailWith("offline")
    BY <1>1, <1>6, <2>1, <2>3, TypesFailWith
  <2>4. QED
    BY <1>6, <2>2, <2>3 DEF Offline
<1>7. CASE EnsureClient
  <2>1. /\ UNCHANGED <<op, checks, content, asked, client, applied, refused>>
        /\ phase = "client"
    BY <1>7 DEF EnsureClient, request, effects
  <2>2. CASE Begin
    BY <1>1, <2>1, <2>2, TypesBegin
  <2>3. CASE Offline
    BY <1>6, <1>7, <2>3 DEF EnsureClient
  <2>4. CASE phase' = "wait" /\ UNCHANGED <<attempt, tries, at, status>>
    BY <1>1, <2>1, <2>4, TypesMove
  <2>5. QED
    BY <1>7, <2>2, <2>3, <2>4 DEF EnsureClient
<1>8. CASE Waited
  <2>1. /\ UNCHANGED <<op, checks, content, asked, client, applied, refused>>
        /\ phase = "wait"
    BY <1>8 DEF Waited, request, effects
  <2>2. CASE Begin
    BY <1>1, <2>1, <2>2, TypesBegin
  <2>3. CASE Offline
    BY <1>6, <1>8, <2>3 DEF Waited
  <2>4. QED
    BY <1>8, <2>2, <2>3 DEF Waited
<1>9. CASE Reconnect
  <2>1. /\ UNCHANGED <<op, checks, content, asked, applied, refused>>
        /\ phase = "reconnect" /\ client' \in Clients
        /\ UNCHANGED request
    BY <1>9 DEF Reconnect, request, effects
  <2>2. CASE /\ tries < 2 /\ tries' = tries + 1 /\ phase' = "client"
             /\ UNCHANGED <<attempt, at, status>>
    <3>1. tries' \in 1..2
      BY <1>1, <2>2
    <3>2. QED
      BY <1>1, <2>1, <2>2, <3>1, TypesMove
  <2>3. CASE FailWith("offline")
    BY <2>1, <2>3, TypesFailWith
  <2>4. QED
    BY <1>9, <2>2, <2>3 DEF Reconnect
<1>10. ASSUME UNCHANGED <<request, client>>, phase = "step", at \in DOMAIN steps,
              applied' \subseteq DOMAIN steps, refused' \subseteq DOMAIN steps,
              \/ GoOn
              \/ \E code \in {200, 400, 401, 404, 500} : Answer(code)
              \/ \E why : Fails(why) /\ (Retries(why) => UNCHANGED <<applied, refused>>)
       PROVE  ApiTypeOK'
  <2>1. CASE GoOn
    BY <1>10, <2>1, TypesGoOn
  <2>2. ASSUME NEW code \in {200, 400, 401, 404, 500}, Answer(code)
        PROVE  ApiTypeOK'
    <3>1. UNCHANGED <<op, checks, content, asked, client>>
      BY <1>10 DEF request
    <3>2. QED
      BY <1>1, <1>10, <2>2, <3>1, TypesEnd
  <2>3. ASSUME NEW why, Fails(why), Retries(why) => UNCHANGED <<applied, refused>>
        PROVE  ApiTypeOK'
    BY <1>10, <2>3, TypesFails
  <2>4. QED
    BY <1>10, <2>1, <2>2, <2>3
<1>11. CASE Gone
  <2>1. /\ UNCHANGED <<request, client, applied, refused>> /\ phase = "step"
        /\ at \in DOMAIN steps
    BY <1>11 DEF Gone, effects
  <2>2. CASE Answer(500)
    BY <1>1, <1>10, <2>1, <2>2
  <2>3. CASE Fails("client is nil")
    BY <1>1, <1>10, <2>1, <2>3
  <2>4. QED
    BY <1>11, <2>2, <2>3 DEF Gone
<1>12. CASE ParseStep
  <2>1. /\ UNCHANGED <<request, client, applied, refused>> /\ phase = "step"
        /\ at \in DOMAIN steps
    BY <1>12 DEF ParseStep, Doing, effects
  <2>2. GoOn \/ Fails("jid")
    BY <1>12 DEF ParseStep
  <2>3. QED
    BY <1>1, <1>10, <2>1, <2>2
<1>13. CASE CanonStep
  <2>1. /\ UNCHANGED <<request, client, applied, refused>> /\ phase = "step"
        /\ at \in DOMAIN steps /\ GoOn
    BY <1>13 DEF CanonStep, Doing, effects
  <2>2. QED
    BY <1>1, <1>10, <2>1
<1>14. CASE AskStep
  <2>1. /\ UNCHANGED <<request, client, applied, refused>> /\ phase = "step"
        /\ at \in DOMAIN steps
    BY <1>14 DEF AskStep, Doing, effects
  <2>2. GoOn \/ Answer(404) \/ Fails(steps[at].kind)
    BY <1>14 DEF AskStep
  <2>3. QED
    BY <1>1, <1>10, <2>1, <2>2
<1>15. CASE TellStep
  <2>1. /\ UNCHANGED <<request, client>> /\ phase = "step"
        /\ at \in DOMAIN steps
    BY <1>15 DEF TellStep, Doing
  <2>2. /\ applied' = applied \cup {at} \/ applied' = applied
        /\ refused' = refused
    BY <1>15 DEF TellStep
  <2>3. GoOn \/ Fails("error")
    BY <1>15 DEF TellStep
  <2>4. ~Retries("error")
    BY DEF Retries
  <2>5. applied' \subseteq DOMAIN steps /\ refused' \subseteq DOMAIN steps
    BY <1>1, <2>1, <2>2
  <2>6. QED
    BY <1>10, <2>1, <2>3, <2>4, <2>5
<1>16. CASE LinkStep
  <2>1. /\ UNCHANGED <<request, client>> /\ phase = "step"
        /\ at \in DOMAIN steps /\ GoOn
    BY <1>16 DEF LinkStep, Doing
  <2>2. /\ applied' = applied \cup {at} \/ applied' = applied
        /\ refused' = refused \cup {at} \/ refused' = refused
    BY <1>16 DEF LinkStep
  <2>3. QED
    BY <1>1, <1>10, <2>1, <2>2
<1>17. CASE EventStep
  <2>1. /\ UNCHANGED <<request, client, applied, refused>> /\ phase = "step"
        /\ at \in DOMAIN steps /\ GoOn
    BY <1>17 DEF EventStep, Doing
  <2>2. QED
    BY <1>1, <1>10, <2>1
<1>18. CASE OwnStep
  <2>1. /\ UNCHANGED <<request, client, applied, refused>> /\ phase = "step"
        /\ at \in DOMAIN steps /\ (GoOn \/ Answer(500))
    BY <1>18 DEF OwnStep, Doing, effects
  <2>2. QED
    BY <1>1, <1>10, <2>1
<1>19. CASE PanicStep
  <2>1. /\ UNCHANGED <<request, client, applied, refused>> /\ phase = "step"
        /\ at \in DOMAIN steps /\ Answer(500)
    BY <1>19 DEF PanicStep, Doing, effects
  <2>2. QED
    BY <1>1, <1>10, <2>1
<1>20. CASE ResolveUnchecked
  <2>1. /\ UNCHANGED <<request, client, applied, refused>> /\ phase = "step"
        /\ at \in DOMAIN steps /\ (GoOn \/ FailWith("jid"))
    BY <1>20 DEF ResolveUnchecked, Doing, Take, effects
  <2>2. CASE GoOn
    BY <1>1, <1>10, <2>1, <2>2
  <2>3. CASE FailWith("jid")
    BY <1>1, <2>1, <2>3, TypesFailWith
  <2>4. QED
    BY <2>1, <2>2, <2>3
<1>21. CASE ResolveChecked
  <2>1. /\ UNCHANGED <<request, applied, refused>> /\ phase = "step"
        /\ at \in DOMAIN steps /\ client' \in Clients
    BY <1>1, <1>21 DEF ResolveChecked, Doing, effects
  <2>2. \/ FailWith("offline") \/ FailWith("not registered") \/ FailWith("jid")
        \/ GoOn /\ client' = "up"
    BY <1>21 DEF ResolveChecked, Take
  <2>3. CASE GoOn
    <3>1. /\ at' \in at + 1 .. Count + 1
          /\ UNCHANGED <<phase, attempt, tries, status>>
      BY <1>1, <2>1, <2>3, GoOnIs
    <3>2. at' \in 0..Count + 1
      BY <1>1, <2>1, <3>1
    <3>3. status' = 0 /\ phase' = "step"
      BY <1>1, <2>1, <3>1
    <3>4. UNCHANGED <<op, checks, content, asked>>
      BY <2>1, SameRequest
    <3>5. QED
      BY <1>1, <2>1, <3>1, <3>2, <3>3, <3>4, TypesMove
  <2>4. ASSUME NEW why, FailWith(why)
        PROVE  ApiTypeOK'
    BY <2>1, <2>4, TypesFailWith
  <2>5. QED
    BY <2>2, <2>3, <2>4
<1>22. CASE Finish
  <2>1. UNCHANGED <<op, checks, content, asked, client, applied, refused>> /\ Answer(200)
    BY <1>22 DEF Finish, request, effects
  <2>2. QED
    BY <1>1, <2>1, TypesEnd
<1>23. CASE Drift
  <2>1. /\ UNCHANGED <<op, checks, content, asked, applied, refused>>
        /\ UNCHANGED <<phase, attempt, tries, at, status>>
        /\ client' \in Clients /\ phase # "done"
    BY <1>23 DEF Drift, request, effects
  <2>2. phase' \in {"auth", "validate", "bind", "client", "wait", "reconnect",
                    "step"} /\ status' = 0
    BY <1>1, <2>1 DEF ApiTypeOK
  <2>3. QED
    BY <1>1, <2>1, <2>2, TypesMove
<1>24. CASE SeveralStep
  <2>1. /\ UNCHANGED <<request, client>> /\ phase = "step"
        /\ at \in DOMAIN steps
    BY <1>24 DEF SeveralStep, Doing
  <2>2. /\ applied' = applied \cup {at} \/ applied' = applied
        /\ refused' = refused \cup {at} \/ refused' = refused
    BY <1>24 DEF SeveralStep
  <2>3. GoOn \/ Fails("error")
    BY <1>24 DEF SeveralStep
  <2>4. ~Retries("error")
    BY DEF Retries
  <2>5. applied' \subseteq DOMAIN steps /\ refused' \subseteq DOMAIN steps
    BY <1>1, <2>1, <2>2
  <2>6. QED
    BY <1>10, <2>1, <2>3, <2>4, <2>5
<1>25. QED
  BY <1>2, <1>3, <1>4, <1>5, <1>7, <1>8, <1>9, <1>11, <1>12, <1>13, <1>14,
     <1>15, <1>16, <1>17, <1>18, <1>19, <1>20, <1>21, <1>22, <1>23,
     <1>24 DEF Next, Serve

-----------------------------------------------------------------------------
(* What has been done, and what the answer says of it.                      *)

\* The attempt under way has left the step behind.
Reached(i) == phase = "step" /\ i < at

\* The answer names who was refused.
Named(n) == \E k \in DOMAIN bad : bad[k] = n

\* A step that succeeded has left its mark.
Did(i) == /\ Kind(i) \in {"tell", "send"} => i \in applied
          /\ Kind(i) \in {"several", "link"} =>
               i \in applied \/ Named(steps[i].name)
          /\ Kind(i) = "unheard" => i \in applied \cup refused
          /\ Kind(i) = "send" => copies = 1
          /\ Kind(i) = "event" => events = 1

\* Once a message is sent, its request only goes on or ends: what would start
\* another attempt is behind it.
RunInv ==
    /\ copies \in {0, 1} /\ events \in {0, 1}
    /\ bad \in Seq(STRING)
    /\ \A i \in applied \cup refused : Kind(i) \in Changes
    /\ phase \in {"auth", "validate", "bind"} => applied = {} /\ refused = {}
    /\ copies = 1 => phase = "done" \/ \E i \in DOMAIN steps :
                                          Kind(i) = "send" /\ Reached(i)
    /\ events = 1 => phase = "done" \/ \E i \in DOMAIN steps :
                                          Kind(i) = "event" /\ Reached(i)
    /\ events = 1 => copies = 1
    /\ \A i \in DOMAIN steps : Reached(i) /\ Applies(steps[i]) => Did(i)
    /\ AnswersAreTrue

\* Outside the steps of the service nothing is sent.
LEMMA NothingSent ==
  ASSUME RunInv, phase # "done",
         \A i \in DOMAIN steps : Kind(i) = "send" => ~Reached(i)
  PROVE  copies = 0 /\ events = 0
  BY DEF RunInv

LEMMA AppendIs ==
  ASSUME NEW S, NEW b \in Seq(S), NEW x \in S
  PROVE  /\ Append(b, x) \in Seq(S)
         /\ DOMAIN Append(b, x) = 1 .. Len(b) + 1
         /\ \A k \in 1..Len(b) : Append(b, x)[k] = b[k]
         /\ Append(b, x)[Len(b) + 1] = x
<1>1. Append(b, x) \in Seq(S) /\ Len(Append(b, x)) = Len(b) + 1
  OBVIOUS
<1>2. \A k \in 1..Len(b) : Append(b, x)[k] = b[k]
  OBVIOUS
<1>3. Append(b, x)[Len(b) + 1] = x
  OBVIOUS
<1>4. DOMAIN Append(b, x) = 1..Len(Append(b, x))
  BY <1>1, LenProperties
<1>5. QED
  BY <1>1, <1>2, <1>3, <1>4

\* A name is added to the answer's list.
LEMMA AppendNames ==
  ASSUME bad \in Seq(STRING), NEW name \in STRING, bad' = Append(bad, name)
  PROVE  /\ bad' \in Seq(STRING) /\ Named(name)'
         /\ \A n : Named(n) => Named(n)'
<1>1. /\ bad' \in Seq(STRING) /\ Len(bad) \in Nat
      /\ DOMAIN bad = 1..Len(bad) /\ DOMAIN bad' = 1 .. Len(bad) + 1
      /\ \A k \in 1..Len(bad) : bad'[k] = bad[k]
      /\ bad'[Len(bad) + 1] = name
  <2>1. Len(bad) \in Nat /\ DOMAIN bad = 1..Len(bad)
    BY LenProperties
  <2>2. /\ Append(bad, name) \in Seq(STRING)
        /\ DOMAIN Append(bad, name) = 1 .. Len(bad) + 1
        /\ \A k \in 1..Len(bad) : Append(bad, name)[k] = bad[k]
        /\ Append(bad, name)[Len(bad) + 1] = name
    BY AppendIs, Zenon
  <2>3. QED
    BY <2>1, <2>2, Zenon
<1>2. \A k \in DOMAIN bad : k \in DOMAIN bad' /\ bad'[k] = bad[k]
  BY <1>1
<1>3. Len(bad) + 1 \in DOMAIN bad'
  BY <1>1
<1>4. QED
  BY <1>1, <1>2, <1>3 DEF Named

\* A request that moves on, without a step of its service done, to where it has
\* left no step behind that it takes.
LEMMA RunMoves ==
  ASSUME ApiTypeOK, RunInv, op' = op, UNCHANGED effects,
         copies = 0, events = 0, status' = 0,
         phase' \in {"auth", "validate", "bind"} => applied = {} /\ refused = {},
         \/ phase' # "step"
         \/ UNCHANGED request /\ \A i \in DOMAIN steps : i < at' => ~Applies(steps[i])
  PROVE  RunInv'
<1>1. /\ route' = route /\ steps' = steps /\ \A i : Kind(i)' = Kind(i)
      /\ UNCHANGED <<applied, refused, bad, copies, events>>
  BY SameRoute DEF effects
<1>2. \A i \in DOMAIN steps : (Reached(i) /\ Applies(steps[i]))' => FALSE
  BY <1>1, SameRequest DEF Reached
<1>3. AnswersAreTrue'
  BY DEF AnswersAreTrue
<1>4. QED
  BY <1>1, <1>2, <1>3 DEF RunInv

\* A request that is answered.
LEMMA RunEnds ==
  ASSUME ApiTypeOK, RunInv, op' = op, UNCHANGED effects,
         NEW code \in {400, 401, 404, 500}, Answer(code),
         code # 500 => applied = {} /\ refused = {}
  PROVE  RunInv'
<1>1. /\ route' = route /\ steps' = steps /\ \A i : Kind(i)' = Kind(i)
      /\ UNCHANGED <<applied, refused, bad, copies, events>>
  BY SameRoute DEF effects
<1>2. phase' = "done" /\ status' = code
  BY DEF Answer
<1>3. AnswersAreTrue'
  BY <1>1, <1>2 DEF AnswersAreTrue
<1>4. \A i : ~Reached(i)'
  BY <1>2 DEF Reached
<1>5. QED
  BY <1>1, <1>2, <1>3, <1>4 DEF RunInv

\* The next attempt begins, with nothing sent.
LEMMA RunAgain ==
  ASSUME ApiTypeOK, RunInv, UNCHANGED request, UNCHANGED effects,
         phase # "done", Again, copies = 0, events = 0
  PROVE  RunInv'
<1>1. op' = op /\ status' = 0
  BY SameRequest DEF Again, ApiTypeOK
<1>2. QED
  BY <1>1, RunMoves DEF Again

LEMMA RunFailWith ==
  ASSUME ApiTypeOK, RunInv, UNCHANGED request, UNCHANGED effects,
         phase # "done", NEW why, FailWith(why),
         Retries(why) => copies = 0 /\ events = 0
  PROVE  RunInv'
<1>1. op' = op
  BY SameRequest
<1>2. CASE Answer(500)
  BY <1>1, <1>2, RunEnds
<1>3. CASE Retries(why) /\ Again
  BY <1>3, RunAgain
<1>4. QED
  BY <1>2, <1>3, FailWithIs

\* A step is done that leaves its mark, if it is one that must.
LEMMA RunGoesOn ==
  ASSUME ApiTypeOK, RunInv, UNCHANGED request, phase = "step",
         at \in DOMAIN steps, GoOn,
         copies' \in {0, 1}, events' \in {0, 1},
         applied' \in {applied, applied \cup {at}},
         refused' \in {refused, refused \cup {at}},
         at \in applied' \cup refused' =>
            at \in applied \cup refused \/ Kind(at) \in Changes,
         bad' \in Seq(STRING), \A n : Named(n) => Named(n)',
         copies' = copies \/ (copies' = 1 /\ Kind(at) = "send"),
         events' = events \/ (events' = 1 /\ Kind(at) = "event" /\ copies' = 1),
         \A i : i = at => Did(i)'
  PROVE  RunInv'
<1>1. /\ op \in Ops /\ Count \in Nat /\ DOMAIN steps = 1..Count
      /\ (phase = "done") = (status # 0)
  BY RouteIs DEF ApiTypeOK
<1>2. op' = op /\ \A s : Applies(s)' <=> Applies(s)
  BY SameRequest
<1>3. /\ route' = route /\ steps' = steps /\ \A i : Kind(i)' = Kind(i)
  BY <1>2, SameRoute
<1>4. /\ at' \in at + 1 .. Count + 1
      /\ \A i \in DOMAIN steps :
            i < at' /\ Applies(steps[i]) => i < at \/ i = at
      /\ UNCHANGED <<phase, attempt, tries, status>>
  BY <1>1, GoOnIs
<1>5. \A i \in DOMAIN steps : Reached(i) \/ i = at => Reached(i)'
  BY <1>1, <1>4 DEF Reached
<1>6. \A i \in DOMAIN steps : (Reached(i) /\ Applies(steps[i]))' =>
         (Reached(i) /\ Applies(steps[i])) \/ i = at
  BY <1>2, <1>3, <1>4 DEF Reached
<1>7. \A i \in DOMAIN steps : Did(i) => Did(i)'
  BY <1>3 DEF Did, RunInv
<1>8. \A i \in DOMAIN steps : (Reached(i) /\ Applies(steps[i]) => Did(i))'
  <2> SUFFICES ASSUME NEW i \in DOMAIN steps, (Reached(i) /\ Applies(steps[i]))'
               PROVE  Did(i)'
    OBVIOUS
  <2>1. CASE i = at
    BY <2>1
  <2>2. CASE Reached(i) /\ Applies(steps[i])
    BY <1>7, <2>2 DEF RunInv
  <2>3. QED
    BY <1>6, <2>1, <2>2
<1>9. AnswersAreTrue'
  BY <1>1, <1>4 DEF AnswersAreTrue
<1>10. \A i \in applied' \cup refused' : Kind(i)' \in Changes
  BY <1>3 DEF RunInv
<1>11. /\ (copies = 1 => phase = "done" \/ \E i \in DOMAIN steps :
                                          Kind(i) = "send" /\ Reached(i))'
       /\ (events = 1 => phase = "done" \/ \E i \in DOMAIN steps :
                                          Kind(i) = "event" /\ Reached(i))'
  BY <1>3, <1>4, <1>5 DEF RunInv
<1>12. (events = 1 => copies = 1)'
  BY DEF RunInv
<1>13. phase' = "step"
  BY <1>4
<1>14. QED
  BY <1>3, <1>8, <1>9, <1>10, <1>11, <1>12, <1>13 DEF RunInv

\* Past the step that sends the message there is nothing that would start
\* another attempt, or send it again.
LEMMA NotSentBefore ==
  ASSUME ApiTypeOK, RunInv, phase = "step", at \in DOMAIN steps,
         Kind(at) \in {"send", "resolve", "again"}
  PROVE  copies = 0 /\ events = 0
<1>1. op \in Ops /\ Count \in Nat /\ DOMAIN steps = 1..Count
  BY RouteIs DEF ApiTypeOK
<1>2. \A i \in DOMAIN steps : Kind(i) = "send" => at <= i
  BY <1>1, SendIs
<1>3. \A i \in DOMAIN steps : Kind(i) = "send" => ~Reached(i)
  BY <1>1, <1>2 DEF Reached
<1>4. QED
  BY <1>3, NothingSent

\* Where the event is given the message has gone, and none has been given.
LEMMA SentBefore ==
  ASSUME ApiTypeOK, RunInv, phase = "step", at \in DOMAIN steps,
         Kind(at) = "event"
  PROVE  copies = 1 /\ events = 0
<1>1. op \in Ops /\ Count \in Nat /\ DOMAIN steps = 1..Count
  BY RouteIs DEF ApiTypeOK
<1>2. PICK j \in DOMAIN steps : Kind(j) = "send" /\ j < at
  BY <1>1, EventIs
<1>3. Applies(steps[j])
  BY <1>1, <1>2, SendIs, SureApplies
<1>4. Did(j)
  BY <1>2, <1>3 DEF RunInv, Reached
<1>5. \A i \in DOMAIN steps : Kind(i) = "event" => ~Reached(i)
  BY <1>1, EventIs DEF Reached
<1>6. QED
  BY <1>2, <1>4, <1>5 DEF RunInv, Did

\* A step that leaves no mark: it passes, ends the request, or starts the next
\* attempt.
LEMMA RunPasses ==
  ASSUME ApiTypeOK, RunInv, UNCHANGED request, UNCHANGED effects,
         phase = "step", at \in DOMAIN steps, GoOn,
         Kind(at) \notin Changes \cup {"event"}
  PROVE  RunInv'
<1>1. UNCHANGED <<applied, refused, bad, copies, events>>
  BY DEF effects
<1>2. op' = op
  BY SameRequest
<1>3. \A i : i = at => Did(i)'
  BY <1>2, SameRoute DEF Did, Changes
<1>4. \A n : Named(n) => Named(n)'
  BY <1>1 DEF Named
<1>5. QED
  BY <1>1, <1>3, <1>4, RunGoesOn DEF RunInv

LEMMA RunFails ==
  ASSUME ApiTypeOK, RunInv, UNCHANGED request, UNCHANGED effects,
         phase = "step", at \in DOMAIN steps, NEW why, Fails(why),
         Retries(why) => Kind(at) \in {"send", "resolve", "again"}
  PROVE  RunInv'
<1>1. op \in Ops
  BY DEF ApiTypeOK
<1>2. CASE steps[at].tolerant /\ GoOn
  <2>1. Kind(at) \notin Changes \cup {"event"}
    BY <1>1, <1>2, EventIs, TellIs
  <2>2. QED
    BY <1>2, <2>1, RunPasses
<1>3. CASE Answer(500)
  <2>1. op' = op
    BY SameRequest
  <2>2. QED
    BY <1>3, <2>1, RunEnds
<1>4. CASE Retries(why) /\ Again
  <2>1. copies = 0 /\ events = 0
    BY <1>4, NotSentBefore
  <2>2. QED
    BY <1>4, <2>1, RunAgain
<1>5. QED
  BY <1>2, <1>3, <1>4, FailsIs

\* A request that ends in an error after a change was made, or a part of it.
LEMMA RunStops ==
  ASSUME ApiTypeOK, RunInv, op' = op, Answer(500),
         phase = "step", at \in DOMAIN steps, Kind(at) \in Changes,
         applied' \in {applied, applied \cup {at}},
         refused' \in {refused, refused \cup {at}},
         bad' \in Seq(STRING), copies' \in {copies, 1}, events' = events
  PROVE  RunInv'
<1>1. phase' = "done" /\ status' = 500
  BY DEF Answer
<1>2. /\ route' = route /\ steps' = steps /\ \A i : Kind(i)' = Kind(i)
  BY SameRoute
<1>3. AnswersAreTrue'
  BY <1>1 DEF AnswersAreTrue
<1>4. \A i : ~Reached(i)'
  BY <1>1 DEF Reached
<1>5. \A i \in applied' \cup refused' : Kind(i)' \in Changes
  BY <1>2 DEF RunInv
<1>6. copies' \in {0, 1} /\ (events' = 1 => copies' = 1)
  BY DEF RunInv
<1>7. QED
  BY <1>1, <1>2, <1>3, <1>4, <1>5, <1>6 DEF RunInv

\* A change asked of WhatsApp: it is made or not, whatever the caller is told.
LEMMA RunTells ==
  ASSUME ApiTypeOK, RunInv, TellStep
  PROVE  RunInv'
<1>1. /\ UNCHANGED request /\ UNCHANGED <<events, refused, bad>>
      /\ phase = "step" /\ at \in DOMAIN steps /\ Kind(at) \in {"tell", "send"}
  BY DEF TellStep, Doing, Kind
<1>2. op' = op /\ op \in Ops /\ Kind(at) \in Changes
  BY <1>1, SameRequest DEF ApiTypeOK, Changes
<1>3. ~steps[at].tolerant
  BY <1>1, <1>2, TellIs
<1>4. Fails("error") => Answer(500)
  BY <1>3, FailsIs DEF Retries
<1>5. Kind(at) = "send" => copies = 0
  BY <1>1, NotSentBefore
<1>6. CASE /\ applied' = applied \cup {at}
           /\ copies' = copies + IF steps[at].kind = "send" THEN 1 ELSE 0
  <2>1. /\ Kind(at) = "send" => copies' = 1
        /\ Kind(at) # "send" => copies' = copies
        /\ copies' \in {0, 1}
    BY <1>5, <1>6 DEF Kind, RunInv
  <2>2. CASE GoOn
    <3>1. \A i : Kind(i)' = Kind(i)
      BY <1>2, SameRoute
    <3>2. \A i : i = at => Did(i)'
      BY <1>1, <1>6, <2>1, <3>1 DEF Did
    <3>3. \A n : Named(n) => Named(n)'
      BY <1>1 DEF Named
    <3>4. QED
      BY <1>1, <1>2, <1>6, <2>1, <2>2, <3>2, <3>3, RunGoesOn DEF RunInv
  <2>3. CASE Answer(500)
    BY <1>1, <1>2, <1>6, <2>1, <2>3, RunStops DEF RunInv
  <2>4. QED
    BY <1>4, <1>6, <2>2, <2>3 DEF TellStep
<1>7. CASE Fails("error") /\ UNCHANGED <<applied, copies>>
  BY <1>1, <1>2, <1>4, <1>7, RunStops DEF RunInv
<1>8. QED
  BY <1>6, <1>7 DEF TellStep

\* One asked for several: it is made, or refused to some, or fails.
LEMMA RunTellsSeveral ==
  ASSUME ApiTypeOK, RunInv, SeveralStep
  PROVE  RunInv'
<1>1. /\ UNCHANGED request /\ UNCHANGED <<copies, events>>
      /\ phase = "step" /\ at \in DOMAIN steps
      /\ Kind(at) \in {"several", "unheard"}
  BY DEF SeveralStep, Doing, Kind
<1>2. op' = op /\ op \in Ops /\ Kind(at) \in Changes
  BY <1>1, SameRequest DEF ApiTypeOK, Changes
<1>3. ~steps[at].tolerant
  BY <1>1, <1>2, TellIs
<1>4. Fails("error") => Answer(500)
  BY <1>3, FailsIs DEF Retries
<1>5. PICK who \in STRING : who = steps[at].name
  BY <1>1, <1>2, KindsAre
<1>6. /\ applied' \in {applied, applied \cup {at}}
      /\ refused' \in {refused, refused \cup {at}}
      /\ bad' \in Seq(STRING) /\ \A n : Named(n) => Named(n)'
      /\ GoOn => \/ at \in applied'
                 \/ /\ at \in refused'
                    /\ Kind(at) = "several" => Named(who)'
      /\ GoOn \/ Fails("error")
  <2>1. CASE applied' = applied \cup {at} /\ UNCHANGED <<refused, bad>>
    BY <2>1 DEF SeveralStep, Named, RunInv
  <2>2. CASE /\ refused' = refused \cup {at} /\ UNCHANGED applied
             /\ bad' = Append(bad, steps[at].name)
    <3>1. bad \in Seq(STRING) /\ bad' = Append(bad, who)
      BY <1>5, <2>2 DEF RunInv
    <3>2. /\ bad' \in Seq(STRING) /\ Named(who)'
          /\ \A n : Named(n) => Named(n)'
      BY <3>1, AppendNames
    <3>3. QED
      BY <2>2, <3>2 DEF SeveralStep
  <2>3. CASE /\ refused' = refused \cup {at} /\ UNCHANGED <<applied, bad>>
             /\ Kind(at) # "several"
    BY <2>3 DEF SeveralStep, Named, RunInv
  <2>4. CASE Fails("error") /\ UNCHANGED <<applied, refused, bad>>
    BY <1>1, <1>4, <2>4 DEF Named, RunInv, Answer, GoOn
  <2>5. QED
    BY <2>1, <2>2, <2>3, <2>4 DEF SeveralStep, Kind
<1>7. CASE GoOn
  <2>1. /\ steps' = steps /\ \A i : Kind(i)' = Kind(i)
    BY <1>2, SameRoute
  <2>3. PICK n \in DOMAIN steps : n = at
    BY <1>1
  <2>4. PICK kind : kind = Kind(n)
    OBVIOUS
  <2>5. /\ Kind(n)' = kind /\ kind \in {"several", "unheard"}
        /\ \/ n \in applied'
           \/ n \in refused' /\ (kind = "several" => Named(who)')
    BY <1>1, <1>6, <1>7, <2>1, <2>3, <2>4
  <2>6. Named(who)' => Named(steps[n].name)'
    BY <1>5, <2>1, <2>3 DEF Named
  <2>7. Did(n)'
    BY <2>5, <2>6 DEF Did
  <2>8. QED
    BY <1>1, <1>2, <1>6, <1>7, <2>3, <2>7, RunGoesOn DEF RunInv
<1>8. CASE Answer(500)
  BY <1>1, <1>2, <1>6, <1>8, RunStops DEF RunInv
<1>9. QED
  BY <1>4, <1>6, <1>7, <1>8

LEMMA RunFollows ==
  ASSUME ApiTypeOK, RunInv, [Next]_vars
  PROVE  RunInv'
<1>1. /\ op \in Ops /\ Count \in Nat /\ DOMAIN steps = 1..Count
      /\ (phase = "done") = (status # 0)
  BY RouteIs DEF ApiTypeOK
<1>2. phase \notin {"step", "done"} => copies = 0 /\ events = 0
  BY NothingSent DEF Reached
<1>3. CASE UNCHANGED vars
  <2>1. /\ op' = op /\ \A s : Applies(s)' <=> Applies(s)
        /\ UNCHANGED <<phase, at, applied, refused, bad, copies, events, status>>
    BY <1>3, SameRequest DEF vars, effects
  <2>2. /\ route' = route /\ steps' = steps /\ \A i : Kind(i)' = Kind(i)
    BY <2>1, SameRoute
  <2>3. AnswersAreTrue'
    BY <2>1, <2>2 DEF AnswersAreTrue, RunInv
  <2>4. QED
    BY <2>1, <2>2, <2>3 DEF RunInv, Did, Named, Reached
<1>4. CASE Auth
  <2>1. op' = op /\ UNCHANGED effects /\ phase = "auth" /\ applied = {} /\ refused = {}
    BY <1>4, SameRequest DEF Auth, RunInv
  <2>2. CASE Answer(401)
    BY <2>1, <2>2, RunEnds
  <2>3. CASE phase' = "validate" /\ UNCHANGED <<attempt, tries, at, status>>
    BY <1>1, <1>2, <2>1, <2>3, RunMoves
  <2>4. QED
    BY <1>4, <2>2, <2>3 DEF Auth
<1>5. CASE Validate
  <2>1. op' = op /\ UNCHANGED effects /\ phase = "validate" /\ applied = {} /\ refused = {}
    BY <1>5, ValidateIs DEF RunInv
  <2>2. CASE Answer(400)
    BY <2>1, <2>2, RunEnds
  <2>3. CASE phase' = "bind" /\ UNCHANGED <<attempt, tries, at, status>>
    BY <1>1, <1>2, <2>1, <2>3, RunMoves
  <2>4. QED
    BY <1>5, <2>2, <2>3, ValidateIs
<1>6. CASE Bind
  <2>1. /\ UNCHANGED <<op, checks, asked, text, opts>> /\ UNCHANGED effects
        /\ phase = "bind" /\ applied = {} /\ refused = {}
    BY <1>6 DEF Bind, RunInv
  <2>2. CASE Answer(400)
    BY <2>1, <2>2, RunEnds
  <2>3. CASE Begin
    <3>1. /\ phase' = "step" /\ status' = 0
          /\ \A i \in DOMAIN steps : i < at' => ~Applies(steps[i])
      BY <1>1, <2>1, <2>3, BeginIs
    <3>2. /\ route' = route /\ steps' = steps /\ \A i : Kind(i)' = Kind(i)
          /\ UNCHANGED <<applied, refused, bad, copies, events>>
      BY <2>1, SameRoute DEF effects
    <3>3. \A s : Applies(s)' <=> Applies(s)
      BY <2>1 DEF Applies
    <3>4. \A i \in DOMAIN steps : (Reached(i) /\ Applies(steps[i]))' => FALSE
      BY <3>1, <3>2, <3>3 DEF Reached
    <3>5. AnswersAreTrue'
      BY <3>1 DEF AnswersAreTrue
    <3>6. QED
      BY <1>2, <2>1, <3>1, <3>2, <3>4, <3>5 DEF RunInv
  <2>4. CASE phase' = "client" /\ UNCHANGED <<attempt, tries, at, status>>
    BY <1>1, <1>2, <2>1, <2>4, RunMoves
  <2>5. QED
    BY <1>6, <2>2, <2>3, <2>4 DEF Bind
<1>7. ASSUME UNCHANGED <<request, effects>>, Offline,
             phase \in {"client", "wait"}
      PROVE  RunInv'
  <2>1. op' = op
    BY <1>7, SameRequest
  <2>2. CASE phase' = "reconnect" /\ UNCHANGED <<attempt, tries, at, status>>
    BY <1>1, <1>2, <1>7, <2>1, <2>2, RunMoves
  <2>3. CASE FailWith("offline")
    BY <1>2, <1>7, <2>3, RunFailWith
  <2>4. QED
    BY <1>7, <2>2, <2>3 DEF Offline
<1>8. ASSUME UNCHANGED <<request, effects>>, Begin, phase \in {"client", "wait"}
      PROVE  RunInv'
  <2>1. op' = op
    BY <1>8, SameRequest
  <2>2. /\ phase' = "step" /\ status' = 0
        /\ \A i \in DOMAIN steps : i < at' => ~Applies(steps[i])
    BY <1>1, <1>8, BeginIs
  <2>3. QED
    BY <1>2, <1>8, <2>1, <2>2, RunMoves
<1>9. CASE EnsureClient
  <2>1. UNCHANGED <<request, effects>> /\ phase = "client" /\ op' = op
    BY <1>9, SameRequest DEF EnsureClient
  <2>2. CASE phase' = "wait" /\ UNCHANGED <<attempt, tries, at, status>>
    BY <1>1, <1>2, <2>1, <2>2, RunMoves
  <2>3. QED
    BY <1>7, <1>8, <1>9, <2>1, <2>2 DEF EnsureClient
<1>10. CASE Waited
  <2>1. UNCHANGED <<request, effects>> /\ phase = "wait"
    BY <1>10 DEF Waited
  <2>2. QED
    BY <1>7, <1>8, <1>10, <2>1 DEF Waited
<1>11. CASE Reconnect
  <2>1. UNCHANGED <<request, effects>> /\ phase = "reconnect" /\ op' = op
    BY <1>11, SameRequest DEF Reconnect
  <2>2. CASE phase' = "client" /\ UNCHANGED status
    BY <1>1, <1>2, <2>1, <2>2, RunMoves
  <2>3. CASE FailWith("offline")
    BY <1>2, <2>1, <2>3, RunFailWith
  <2>4. QED
    BY <1>11, <2>2, <2>3 DEF Reconnect
<1>12. CASE Gone
  <2>1. UNCHANGED <<request, effects>> /\ phase = "step" /\ at \in DOMAIN steps
        /\ op' = op
    BY <1>12, SameRequest DEF Gone
  <2>2. CASE Answer(500)
    BY <2>1, <2>2, RunEnds
  <2>3. CASE Fails("client is nil")
    <3>1. ~Retries("client is nil")
      BY DEF Retries
    <3>2. QED
      BY <2>1, <2>3, <3>1, RunFails
  <2>4. QED
    BY <1>12, <2>2, <2>3 DEF Gone
<1>13. CASE ParseStep
  <2>1. /\ UNCHANGED <<request, effects>> /\ phase = "step"
        /\ at \in DOMAIN steps /\ Kind(at) = "parse"
    BY <1>13 DEF ParseStep, Doing, Kind
  <2>2. ~Retries("jid")
    BY DEF Retries
  <2>3. CASE GoOn
    BY <2>1, <2>3, RunPasses DEF Changes
  <2>4. CASE Fails("jid")
    BY <2>1, <2>2, <2>4, RunFails
  <2>5. QED
    BY <1>13, <2>3, <2>4 DEF ParseStep
<1>14. CASE CanonStep
  <2>1. /\ UNCHANGED <<request, effects>> /\ phase = "step"
        /\ at \in DOMAIN steps /\ Kind(at) = "canon" /\ GoOn
    BY <1>14 DEF CanonStep, Doing, Kind
  <2>2. QED
    BY <2>1, RunPasses DEF Changes
<1>15. CASE AskStep
  <2>1. /\ UNCHANGED <<request, effects>> /\ phase = "step"
        /\ at \in DOMAIN steps /\ op' = op
        /\ Kind(at) \in {"check", "find", "ask", "again", "hint"}
    BY <1>15, SameRequest DEF AskStep, Doing, Kind
  <2>2. CASE GoOn
    BY <2>1, <2>2, RunPasses DEF Changes
  <2>3. CASE Kind(at) = "find" /\ Answer(404)
    <3>1. \A i \in DOMAIN steps : Kind(i) \notin Changes
      BY <1>1, <2>1, <2>3, TellIs
    <3>2. applied = {} /\ refused = {}
      BY <3>1 DEF ApiTypeOK, RunInv
    <3>3. QED
      BY <2>1, <2>3, <3>2, RunEnds
  <2>4. CASE Fails(Kind(at))
    <3>1. Retries(Kind(at)) => Kind(at) = "again"
      BY <2>1 DEF Retries
    <3>2. QED
      BY <2>1, <2>4, <3>1, RunFails
  <2>5. QED
    BY <1>15, <2>2, <2>3, <2>4 DEF AskStep, Kind
<1>16. CASE TellStep
  BY <1>16, RunTells
<1>17. CASE LinkStep
  <2>1. /\ UNCHANGED <<request, copies, events>> /\ phase = "step"
        /\ at \in DOMAIN steps /\ Kind(at) = "link" /\ GoOn
    BY <1>17 DEF LinkStep, Doing, Kind
  <2>2. op' = op /\ Kind(at) \in Changes
    BY <1>1, <2>1, SameRequest DEF Changes
  <2>3. PICK who \in STRING : who = steps[at].name
    BY <1>1, <2>1, KindsAre
  <2>4. /\ applied' \in {applied, applied \cup {at}}
        /\ refused' \in {refused, refused \cup {at}}
        /\ bad' \in Seq(STRING) /\ \A n : Named(n) => Named(n)'
        /\ at \in applied' \/ Named(who)'
    <3>1. CASE applied' = applied \cup {at} /\ UNCHANGED <<refused, bad>>
      BY <3>1 DEF Named, RunInv
    <3>2. CASE /\ refused' = refused \cup {at} /\ UNCHANGED applied
               /\ bad' = Append(bad, steps[at].name)
      <4>1. bad \in Seq(STRING) /\ bad' = Append(bad, who)
        BY <2>3, <3>2 DEF RunInv
      <4>2. /\ bad' \in Seq(STRING) /\ Named(who)'
            /\ \A n : Named(n) => Named(n)'
        BY <4>1, AppendNames
      <4>3. QED
        BY <3>2, <4>2
    <3>3. QED
      BY <1>17, <3>1, <3>2 DEF LinkStep
  <2>5. /\ steps' = steps /\ \A i : Kind(i)' = Kind(i)
    BY <2>2, SameRoute
  <2>6. PICK n \in DOMAIN steps : n = at
    BY <2>1
  <2>7. /\ Kind(n)' = "link"
        /\ n \in applied' \/ Named(who)'
    BY <2>1, <2>4, <2>5, <2>6
  <2>8. Did(n)'
    <3>1. Named(who)' => Named(steps[n].name)'
      BY <2>5, <2>6, <2>3 DEF Named
    <3>2. QED
      BY <2>7, <3>1 DEF Did
  <2>9. QED
    BY <2>1, <2>2, <2>4, <2>6, <2>8, RunGoesOn DEF RunInv
<1>18. CASE EventStep
  <2>1. /\ UNCHANGED <<request, applied, refused, bad, copies>> /\ phase = "step"
        /\ at \in DOMAIN steps /\ Kind(at) = "event" /\ GoOn
        /\ events' = events + 1
    BY <1>18 DEF EventStep, Doing, Kind
  <2>2. copies = 1 /\ events' = 1
    BY <2>1, SentBefore
  <2>3. op' = op
    BY <2>1, SameRequest
  <2>4. \A i : i = at => Did(i)'
    BY <2>1, <2>2, <2>3, SameRoute DEF Did
  <2>5. \A n : Named(n) => Named(n)'
    BY <2>1 DEF Named
  <2>6. QED
    BY <2>1, <2>2, <2>4, <2>5, RunGoesOn DEF RunInv
<1>19. CASE OwnStep
  <2>1. /\ UNCHANGED <<request, effects>> /\ phase = "step" /\ op' = op
        /\ at \in DOMAIN steps /\ Kind(at) = "own"
    BY <1>19, SameRequest DEF OwnStep, Doing, Kind
  <2>2. CASE GoOn
    BY <2>1, <2>2, RunPasses DEF Changes
  <2>3. CASE Answer(500)
    BY <2>1, <2>3, RunEnds
  <2>4. QED
    BY <1>19, <2>2, <2>3 DEF OwnStep
<1>20. CASE PanicStep
  <2>1. UNCHANGED <<request, effects>> /\ op' = op /\ Answer(500)
    BY <1>20, SameRequest DEF PanicStep
  <2>2. QED
    BY <2>1, RunEnds
<1>21. ASSUME UNCHANGED <<request, effects>>, Doing({"resolve"}),
              GoOn \/ \E why : FailWith(why)
       PROVE  RunInv'
  <2>1. phase = "step" /\ at \in DOMAIN steps /\ Kind(at) = "resolve"
    BY <1>21 DEF Doing, Kind
  <2>2. copies = 0 /\ events = 0
    BY <2>1, NotSentBefore
  <2>3. CASE GoOn
    BY <1>21, <2>1, <2>3, RunPasses DEF Changes
  <2>4. ASSUME NEW why, FailWith(why)
        PROVE  RunInv'
    BY <1>21, <2>1, <2>2, <2>4, RunFailWith
  <2>5. QED
    BY <1>21, <2>3, <2>4
<1>22. CASE ResolveUnchecked
  BY <1>21, <1>22 DEF ResolveUnchecked, Take
<1>23. CASE ResolveChecked
  <2>1. GoOn \/ FailWith("offline") \/ FailWith("jid") \/ FailWith("not registered")
    BY <1>23 DEF ResolveChecked, Take
  <2>2. QED
    BY <1>21, <1>23, <2>1 DEF ResolveChecked
<1>24. CASE Finish
  <2>1. /\ UNCHANGED <<op, checks, content, asked, text, opts>>
        /\ UNCHANGED <<applied, refused, bad, copies, events>>
        /\ \A s : Applies(s)' <=> Applies(s)
        /\ phase = "step" /\ at = Count + 1 /\ phase' = "done" /\ status' = 200
    BY <1>24, SameRequest DEF Finish, effects, Answer, Count
  <2>2. /\ route' = route /\ steps' = steps /\ \A i : Kind(i)' = Kind(i)
    BY <2>1, SameRoute
  <2>3. \A i \in DOMAIN steps : Applies(steps[i]) => Did(i)
    BY <1>1, <2>1 DEF RunInv, Reached
  <2>4. AnswersAreTrue'
    <3>1. ASSUME NEW i \in DOMAIN steps, Applies(steps[i])
          PROVE  /\ steps[i].kind \in {"tell", "send"} => i \in applied
                 /\ steps[i].kind \in {"several", "link"} =>
                      i \in applied \/ Named(steps[i].name)
                 /\ steps[i].kind = "unheard" => i \in applied \cup refused
                 /\ steps[i].kind = "event" => events > 0
      BY <2>3, <3>1 DEF Did, Kind
    <3>2. QED
      BY <2>1, <2>2, <3>1 DEF AnswersAreTrue, Named
  <2>5. \A i : ~Reached(i)'
    BY <2>1 DEF Reached
  <2>6. QED
    BY <2>1, <2>2, <2>4, <2>5 DEF RunInv
<1>25. CASE Drift
  <2>1. /\ op' = op /\ \A s : Applies(s)' <=> Applies(s)
        /\ UNCHANGED <<phase, at, applied, refused, bad, copies, events, status>>
    BY <1>25, SameRequest DEF Drift, effects
  <2>2. /\ route' = route /\ steps' = steps /\ \A i : Kind(i)' = Kind(i)
    BY <2>1, SameRoute
  <2>3. AnswersAreTrue'
    BY <2>1, <2>2 DEF AnswersAreTrue, RunInv
  <2>4. QED
    BY <2>1, <2>2, <2>3 DEF RunInv, Did, Named, Reached
<1>26. CASE SeveralStep
  BY <1>26, RunTellsSeveral
<1>27. QED
  BY <1>3, <1>4, <1>5, <1>6, <1>9, <1>10, <1>11, <1>12, <1>13, <1>14, <1>15,
     <1>16, <1>17, <1>18, <1>19, <1>20, <1>22, <1>23, <1>24, <1>25,
     <1>26 DEF Next, Serve

-----------------------------------------------------------------------------
(* Whom the message goes to.                                                *)

Resolves == Of(route, {"resolve"})

Formatted == \E i \in Resolves :
                steps[i].name = "always" \/ "formatJid" \in opts

\* The recipient that was written, or what WhatsApp named when it was asked about
\* that.
Rightful(jid, l) ==
    IF l = NoLookup
    THEN /\ jid.at = CreateJID(asked).at
         /\ jid.digits = IF IsJID(asked) /\ ~Formatted
                         THEN asked.digits ELSE AtHome(asked)
    ELSE /\ checks /\ jid = l.jid /\ ~jid.plus
         /\ l.query.digits \in {asked.digits, AtHome(asked)}

\* The recipient is rightful once it is resolved, and without a "+" once that
\* is taken off; where nothing is resolved it is the one that was parsed.
AddressInv ==
    /\ phase \notin {"auth", "validate", "done"} => Passed(asked, text)
    /\ phase \in {"auth", "validate", "bind"} => to = Absent
    /\ to \in Names
    /\ to # Absent /\ (\A i \in Resolves : Reached(i)) => Rightful(to, lookup)
    /\ Resolves = {} => lookup = NoLookup
    /\ Resolves = {} =>
         \A i \in DOMAIN steps : Strips(i) /\ Reached(i) => ~to.plus

LEMMA AskedIsWritten ==
  ASSUME NEW a \in Texts \cup {Absent}
  PROVE  Written(a)
<1>1. CASE a = Absent
  BY <1>1 DEF Written
<1>2. CASE a \in Texts
  <2>1. /\ a \in [at : {"", "empty", "user", "group", "lid", "broadcast",
                        "newsletter"},
                  plus : BOOLEAN, digits : Seq(0..9)]
        /\ a.at = "empty" => a.digits = <<>>
        /\ a.at = "user" => Len(a.digits) < 18
    BY <1>2, TextsAssumption
  <2>2. {"", "empty", "user", "group", "lid", "broadcast", "newsletter"}
           = Servers \cup {"", "empty"}
    BY DEF Servers
  <2>3. a \in [at : Servers \cup {"", "empty"}, plus : BOOLEAN, digits : Digits]
    BY <2>1, <2>2 DEF Digits
  <2>4. a.digits \in Digits
    BY <2>3
  <2>5. a.at = "user" => ~Long(a.digits)
    BY <2>1, <2>4, LongIs
  <2>6. QED
    BY <2>1, <2>3, <2>5 DEF Written
<1>3. QED
  BY <1>1, <1>2

\* What the validators make of a recipient.
LEMMA ValidatedIs ==
  ASSUME op \in Ops, NEW c, NEW t, Written(t), NEW f, NEW n,
         NEW v, v = Validated(c, t, f, n), v # Invalid
  PROVE  Passed(t, v)
<1>1. route.validate \in Validators
  BY RouteIs
<1>2. Normalised(t) \in {t, CreateJID(t)}
  BY DEF Normalised
<1>3. /\ ValidateNumberField(t, route.field) \in {t, CreateJID(t)}
      /\ ValidateNumberFieldWithFormatJid(t, route.field, f)
            \in {t, CreateJID(t), Invalid}
      /\ ValidateJIDFields(route.looks, t, route.field, route.many)
            \in {t, CreateJID(t), Invalid}
      /\ ValidateContactFields(t, route.field, n) \in {t, CreateJID(t), Invalid}
      /\ ValidateMultipleNumbers("participants", t, route.field)
            \in {t, CreateJID(t)}
      /\ ValidateFormFields(route.looks, t, route.field) \in {t, Invalid}
  BY <1>2 DEF ValidateNumberField, ValidateNumberFieldWithFormatJid,
     ValidateJIDFields, ValidateContactFields, ValidateMultipleNumbers,
     ValidateFormFields
<1>4. CASE c = "json"
  <2>1. CASE route.validate = "nothing"
    BY <1>4, <2>1 DEF Validated, Passed
  <2>2. CASE route.validate = "number"
    BY <1>3, <1>4, <2>2 DEF Validated, Passed
  <2>3. CASE route.validate = "format"
    BY <1>3, <1>4, <2>3 DEF Validated, Passed
  <2>4. CASE route.validate = "fields"
    BY <1>3, <1>4, <2>4 DEF Validated, Passed
  <2>5. CASE route.validate = "contact"
    BY <1>3, <1>4, <2>5 DEF Validated, Passed
  <2>6. CASE route.validate = "many"
    BY <1>3, <1>4, <2>6 DEF Validated, Passed
  <2>7. QED
    BY <1>1, <2>1, <2>2, <2>3, <2>4, <2>5, <2>6 DEF Validators
<1>5. CASE c # "json"
  BY <1>3, <1>5 DEF Validated, Passed
<1>6. QED
  BY <1>4, <1>5

\* What a step leaves of the recipient's rightfulness.
LEMMA SameRecipient ==
  ASSUME UNCHANGED <<op, checks, asked, opts>>
  PROVE  /\ Resolves' = Resolves
         /\ \A jid, l : Rightful(jid, l)' <=> Rightful(jid, l)
<1>1. /\ route' = route /\ steps' = steps
  BY SameRoute
<1>2. Resolves' = Resolves
  BY <1>1 DEF Resolves, Of
<1>3. Formatted' <=> Formatted
  BY <1>1, <1>2 DEF Formatted
<1>4. QED
  BY <1>2, <1>3 DEF Rightful

\* CanonicalJID takes the "+" off and nothing else.
LEMMA CanonIs ==
  ASSUME NEW jid \in Names
  PROVE  /\ CanonicalJID(jid) \in Names /\ ~CanonicalJID(jid).plus
         /\ CanonicalJID(jid).at = jid.at
         /\ CanonicalJID(jid).digits = jid.digits
         /\ jid = Absent => CanonicalJID(jid) = Absent
         /\ ~jid.plus => CanonicalJID(jid) = jid
<1>1. /\ CanonicalJID(jid) \in Names /\ ~CanonicalJID(jid).plus
      /\ CanonicalJID(jid).at = jid.at
      /\ CanonicalJID(jid).digits = jid.digits
  BY DEF CanonicalJID, Names
<1>2. ~jid.plus => CanonicalJID(jid) = jid
  BY DEF CanonicalJID, Names
<1>3. jid = Absent => ~jid.plus
  BY DEF Absent
<1>4. QED
  BY <1>1, <1>2, <1>3

\* The recipient and what is behind are as before.
LEMMA AddressStays ==
  ASSUME ApiTypeOK, AddressInv, UNCHANGED <<op, checks, asked, text, opts, to, lookup>>,
         phase' \in {"auth", "validate"} => phase \in {"auth", "validate"},
         phase' = "bind" => phase \in {"bind", "validate"},
         phase' \notin {"auth", "validate", "done"} =>
            phase \notin {"auth", "validate", "done"},
         \A i \in DOMAIN steps : (Kind(i) = "resolve" \/ Strips(i))
                                    /\ Reached(i)' => Reached(i)
  PROVE  AddressInv'
<1>1. /\ steps' = steps /\ Resolves' = Resolves
      /\ \A i : Strips(i)' <=> Strips(i)
      /\ \A jid, l : Rightful(jid, l)' <=> Rightful(jid, l)
  BY SameRoute, SameRecipient
<1>2. \A i \in Resolves : i \in DOMAIN steps /\ Kind(i) = "resolve"
  BY DEF Resolves, Of, Kind, steps
<1>3. (\A i \in Resolves : Reached(i))' => \A i \in Resolves : Reached(i)
  BY <1>1, <1>2
<1>4. (to # Absent /\ (\A i \in Resolves : Reached(i)) => Rightful(to, lookup))'
  <2>1. PICK jid, l : jid = to /\ l = lookup
    OBVIOUS
  <2>2. to' = jid /\ lookup' = l
    BY <2>1
  <2>3. Rightful(jid, l) => Rightful(jid, l)'
    BY <1>1
  <2>4. QED
    BY <1>3, <2>1, <2>2, <2>3 DEF AddressInv, Rightful
<1>5. (Resolves = {} =>
         \A i \in DOMAIN steps : Strips(i) /\ Reached(i) => ~to.plus)'
  BY <1>1 DEF AddressInv
<1>6. (Resolves = {} => lookup = NoLookup)'
  BY <1>1 DEF AddressInv, NoLookup
<1>7. QED
  BY <1>4, <1>5, <1>6 DEF AddressInv

LEMMA ResolvesAre ==
  \A i : i \in Resolves <=> i \in DOMAIN steps /\ Kind(i) = "resolve"
  BY DEF Resolves, Of, Kind, steps

\* A step that succeeds and leaves the recipient rightful.
LEMMA AddressGoesOn ==
  ASSUME ApiTypeOK, AddressInv, UNCHANGED request, phase = "step",
         at \in DOMAIN steps, GoOn, NEW jid \in Names, to' = jid,
         NEW l, lookup' = l, Resolves = {} => l = NoLookup,
         jid # Absent /\ (\A i \in Resolves : i < at \/ i = at) =>
            Rightful(jid, l),
         Resolves = {} =>
            \A i \in DOMAIN steps : Strips(i) /\ (i < at \/ i = at) => ~jid.plus
  PROVE  AddressInv'
<1>1. /\ op \in Ops /\ Count \in Nat /\ DOMAIN steps = 1..Count
  BY RouteIs DEF ApiTypeOK
<1>2. UNCHANGED <<op, checks, content, asked, text, opts>>
  BY SameRequest
<1>3. /\ steps' = steps /\ Resolves' = Resolves
      /\ \A i : Strips(i)' <=> Strips(i)
      /\ Rightful(jid, l)' <=> Rightful(jid, l)
  BY <1>2, SameRoute, SameRecipient
<1>4. /\ phase' = "step"
      /\ \A i \in DOMAIN steps :
            i < at' /\ Applies(steps[i]) => i < at \/ i = at
  BY <1>1, GoOnIs
<1>5. \A i \in DOMAIN steps : (Kind(i) = "resolve" \/ Strips(i)) =>
                                 Applies(steps[i])
  <2>1. \A i \in DOMAIN steps : Kind(i) = "resolve" => Sure(steps[i])
    BY <1>1, ResolvesAre, ResolveIs DEF Resolves
  <2>2. QED
    BY <2>1, SureApplies DEF Strips
<1>6. \A i \in DOMAIN steps : (Kind(i) = "resolve" \/ Strips(i)) /\ Reached(i)'
         => i < at \/ i = at
  BY <1>4, <1>5 DEF Reached
<1>7. (to # Absent /\ (\A i \in Resolves : Reached(i)) => Rightful(to, lookup))'
  <2>1. (\A i \in Resolves : Reached(i))' => \A i \in Resolves : i < at \/ i = at
    BY <1>3, <1>6, ResolvesAre
  <2>2. jid # Absent /\ (\A i \in Resolves : Reached(i))' => Rightful(jid, l)'
    BY <1>3, <2>1
  <2>3. QED
    BY <2>2 DEF Rightful
<1>8. (Resolves = {} =>
         \A i \in DOMAIN steps : Strips(i) /\ Reached(i) => ~to.plus)'
  BY <1>3, <1>6
<1>9. (Resolves = {} => lookup = NoLookup)'
  BY <1>3 DEF NoLookup
<1>10. QED
  BY <1>2, <1>4, <1>7, <1>8, <1>9 DEF AddressInv

\* It is neither the one that resolves the recipient nor one that takes the "+"
\* off.
LEMMA AddressPasses ==
  ASSUME ApiTypeOK, AddressInv, UNCHANGED request, phase = "step",
         at \in DOMAIN steps, GoOn, UNCHANGED recipient,
         Kind(at) # "resolve", ~Strips(at)
  PROVE  AddressInv'
<1>1. to \in Names
  BY DEF AddressInv
<1>2. /\ to # Absent /\ (\A i \in Resolves : i < at \/ i = at) =>
           Rightful(to, lookup)
      /\ Resolves = {} => lookup = NoLookup
  BY ResolvesAre DEF AddressInv, Reached
<1>3. Resolves = {} =>
        \A i \in DOMAIN steps : Strips(i) /\ (i < at \/ i = at) => ~to.plus
  BY DEF AddressInv, Reached
<1>4. to' = to /\ lookup' = lookup
  BY DEF recipient
<1>5. QED
  BY <1>1, <1>2, <1>3, <1>4, AddressGoesOn

LEMMA AddressParses ==
  ASSUME ApiTypeOK, AddressInv, UNCHANGED request, phase = "step",
         at \in DOMAIN steps, GoOn, Kind(at) = "parse",
         to' = ParseJID(text), ParseJID(text) # Invalid, lookup' = lookup
  PROVE  AddressInv'
<1> DEFINE jid == ParseJID(text)
<1>1. op \in Ops /\ Count \in Nat /\ DOMAIN steps = 1..Count
  BY RouteIs DEF ApiTypeOK
<1>2. Written(asked) /\ Passed(asked, text)
  BY AskedIsWritten DEF AddressInv, ApiTypeOK
<1>3. /\ jid \in Names /\ jid.at = CreateJID(asked).at
      /\ jid.digits = IF IsJID(asked) THEN asked.digits ELSE AtHome(asked)
  BY <1>2, ParsedIs
<1>4. (\A i \in Resolves : i < at \/ i = at) => Resolves = {}
  <2> SUFFICES ASSUME NEW i \in Resolves, i < at \/ i = at
               PROVE  FALSE
    OBVIOUS
  <2>1. at < i /\ i \in DOMAIN steps /\ Kind(i) = "resolve"
    BY <1>1, ResolveIs DEF Resolves
  <2>2. QED
    BY <1>1, <2>1
<1>5. Resolves = {} => ~Formatted
  BY DEF Formatted
<1> HIDE DEF jid
<1>6. /\ (\A i \in Resolves : i < at \/ i = at) => Rightful(jid, lookup)
      /\ Resolves = {} => lookup = NoLookup
  BY <1>3, <1>4, <1>5 DEF Rightful, AddressInv
<1>7. \A i \in DOMAIN steps : Strips(i) => ~(i < at \/ i = at)
  BY <1>1 DEF Strips
<1>8. to' = jid
  BY DEF jid
<1>9. QED
  BY <1>3, <1>6, <1>7, <1>8, AddressGoesOn

LEMMA AddressIsBared ==
  ASSUME ApiTypeOK, AddressInv, UNCHANGED request, phase = "step",
         at \in DOMAIN steps, GoOn, Kind(at) # "resolve",
         to' = CanonicalJID(to), lookup' = lookup
  PROVE  AddressInv'
<1> DEFINE jid == CanonicalJID(to)
<1>1. to \in Names
  BY DEF AddressInv
<1>2. /\ jid \in Names /\ ~jid.plus /\ jid.at = to.at /\ jid.digits = to.digits
      /\ to = Absent => jid = Absent
      /\ ~to.plus => jid = to
  BY <1>1, CanonIs
<1> HIDE DEF jid
<1>3. /\ to # Absent /\ (\A i \in Resolves : i < at \/ i = at) =>
           Rightful(to, lookup)
      /\ Resolves = {} => lookup = NoLookup
  BY ResolvesAre DEF AddressInv, Reached
<1>4. jid # Absent /\ (\A i \in Resolves : i < at \/ i = at) =>
         Rightful(jid, lookup)
  BY <1>2, <1>3 DEF Rightful
<1>5. to' = jid
  BY DEF jid
<1>6. QED
  BY <1>2, <1>3, <1>4, <1>5, AddressGoesOn

\* The step that resolves the recipient.
LEMMA AddressIsResolved ==
  ASSUME ApiTypeOK, AddressInv, UNCHANGED request, phase = "step",
         at \in DOMAIN steps, GoOn, Kind(at) = "resolve",
         NEW jid, to' = jid, jid # Invalid, NEW l, lookup' = l,
         \/ jid = ValidateMessageFields(text, Formats) /\ l = NoLookup
         \/ /\ checks
            /\ text.at \notin {"group", "broadcast", "newsletter", "lid"}
            /\ \E query \in Queries, remote \in Remotes :
                  /\ jid = ValidateMessageFields(remote, FALSE)
                  /\ l = [query |-> query, jid |-> remote]
  PROVE  AddressInv'
<1>1. op \in Ops /\ Count \in Nat /\ DOMAIN steps = 1..Count
  BY RouteIs DEF ApiTypeOK
<1>2. Written(asked) /\ Passed(asked, text)
  BY AskedIsWritten DEF AddressInv, ApiTypeOK
<1>3. Resolves = {at}
  BY <1>1, ResolvesAre, ResolveIs DEF Resolves
<1>4. Formatted <=> Formats
  BY <1>3 DEF Formatted, Formats
<1>5. jid \in Names /\ Rightful(jid, l)
  <2>1. CASE jid = ValidateMessageFields(text, Formats) /\ l = NoLookup
    <3>1. Formats \in BOOLEAN
      BY DEF Formats
    <3>2. /\ jid \in Names /\ jid.at = CreateJID(asked).at
          /\ jid.digits = IF IsJID(asked) /\ ~Formats
                          THEN asked.digits ELSE AtHome(asked)
      BY <1>2, <2>1, <3>1, ResolvedOnce
    <3>3. QED
      BY <1>4, <2>1, <3>2 DEF Rightful
  <2>2. ASSUME checks,
               text.at \notin {"group", "broadcast", "newsletter", "lid"},
               NEW query \in Queries, NEW remote \in Remotes,
               jid = ValidateMessageFields(remote, FALSE),
               l = [query |-> query, jid |-> remote]
        PROVE  jid \in Names /\ Rightful(jid, l)
    <3>1. jid = remote /\ jid \in Names /\ ~jid.plus /\ jid # Absent
      BY <2>2, RemoteIs
    <3>2. text.at \notin Servers \ {"user"}
      BY <2>2 DEF Servers
    <3>3. query.digits \in {asked.digits, AtHome(asked)}
      <4>1. PICK f \in BOOLEAN : query = PrepareNumbersForWhatsAppCheck(text, f)
        BY DEF Queries
      <4>2. QED
        BY <1>2, <3>2, <4>1, QueryIs
    <3>4. l # NoLookup /\ l.jid = jid /\ l.query = query
      BY <2>2, <3>1 DEF NoLookup
    <3>5. QED
      BY <2>2, <3>1, <3>3, <3>4 DEF Rightful
  <2>3. QED
    BY <2>1, <2>2
<1>6. QED
  BY <1>3, <1>5, AddressGoesOn

\* A request that moves on outside the steps of its service, or ends.
LEMMA AddressMoves ==
  ASSUME ApiTypeOK, AddressInv, UNCHANGED <<op, checks, asked, text, opts, to, lookup>>,
         phase \notin {"auth", "validate", "done"},
         phase' \in {"client", "wait", "reconnect", "done"}
  PROVE  AddressInv'
<1>1. \A i : ~Reached(i)'
  BY DEF Reached
<1>2. QED
  BY <1>1, AddressStays

LEMMA AddressBegins ==
  ASSUME ApiTypeOK, AddressInv, UNCHANGED <<op, checks, asked, text, opts, to, lookup>>,
         phase \notin {"auth", "validate", "done"}, Begin
  PROVE  AddressInv'
<1>1. /\ op \in Ops /\ phase' = "step"
      /\ \A i \in DOMAIN steps : i < at' => ~Applies(steps[i])
  BY BeginIs DEF ApiTypeOK
<1>2. \A i \in DOMAIN steps : (Kind(i) = "resolve" \/ Strips(i)) =>
                                 Applies(steps[i])
  <2>1. \A i \in DOMAIN steps : Kind(i) = "resolve" => Sure(steps[i])
    BY <1>1, ResolvesAre, ResolveIs DEF Resolves
  <2>2. QED
    BY <2>1, SureApplies DEF Strips
<1>3. \A i \in DOMAIN steps : (Kind(i) = "resolve" \/ Strips(i))
                                 /\ Reached(i)' => Reached(i)
  BY <1>1, <1>2 DEF Reached
<1>4. QED
  BY <1>1, <1>3, AddressStays

LEMMA AddressFailWith ==
  ASSUME ApiTypeOK, AddressInv, UNCHANGED <<request, recipient>>,
         phase \notin {"auth", "validate", "done"}, NEW why, FailWith(why)
  PROVE  AddressInv'
<1>1. phase' \in {"client", "done"}
  BY FailWithIs DEF Again, Answer
<1>2. QED
  BY <1>1, SameRequest, AddressMoves DEF recipient

LEMMA AddressFails ==
  ASSUME ApiTypeOK, AddressInv, UNCHANGED <<request, recipient>>,
         phase = "step", at \in DOMAIN steps, NEW why, Fails(why)
  PROVE  AddressInv'
<1>1. op \in Ops
  BY DEF ApiTypeOK
<1>2. CASE steps[at].tolerant /\ GoOn
  <2>1. Kind(at) = "resolve" => Sure(steps[at])
    BY <1>1, ResolvesAre, ResolveIs DEF Resolves
  <2>2. Kind(at) # "resolve" /\ ~Strips(at)
    BY <1>2, <2>1 DEF Sure, Strips
  <2>3. QED
    BY <1>2, <2>2, AddressPasses
<1>3. CASE Answer(500) \/ Again
  <2>1. phase' \in {"client", "done"}
    BY <1>3 DEF Again, Answer
  <2>2. QED
    BY <2>1, SameRequest, AddressMoves DEF recipient
<1>4. QED
  BY <1>2, <1>3, FailsIs

\* Ended while its message was being sent.
LEMMA AddressEnds ==
  ASSUME ApiTypeOK, AddressInv, UNCHANGED request, phase = "step",
         at \in DOMAIN steps, Kind(at) \in Changes, lookup' = lookup,
         to' \in {to, CanonicalJID(to)}, Answer(500)
  PROVE  AddressInv'
<1>1. op \in Ops /\ Count \in Nat /\ DOMAIN steps = 1..Count
  BY RouteIs DEF ApiTypeOK
<1>2. \A i \in Resolves : Reached(i)
  BY <1>1, ResolvesAre, ResolveIs DEF Resolves, Reached
<1>3. to \in Names /\ (to # Absent => Rightful(to, lookup))
  BY <1>2 DEF AddressInv
<1>4. PICK jid, l : jid = to' /\ l = lookup
  OBVIOUS
<1>5. jid \in Names /\ (jid # Absent => Rightful(jid, l))
  BY <1>3, <1>4, CanonIs DEF Rightful
<1>6. UNCHANGED <<op, checks, content, asked, text, opts>>
  BY SameRequest
<1>7. Rightful(jid, l)' <=> Rightful(jid, l)
  BY <1>6, SameRecipient
<1>8. phase' = "done"
  BY DEF Answer
<1>9. (to # Absent => Rightful(to, lookup))'
  BY <1>4, <1>5, <1>7 DEF Rightful
<1>10. \A i : ~Reached(i)'
  BY <1>8 DEF Reached
<1>11. (Resolves = {} => lookup = NoLookup)'
  BY <1>6, SameRecipient DEF AddressInv, NoLookup
<1>12. QED
  BY <1>4, <1>5, <1>8, <1>9, <1>10, <1>11 DEF AddressInv

LEMMA AddressFollows ==
  ASSUME ApiTypeOK, AddressInv, [Next]_vars
  PROVE  AddressInv'
<1>1. op \in Ops /\ Count \in Nat /\ DOMAIN steps = 1..Count
  BY RouteIs DEF ApiTypeOK
<1>2. CASE UNCHANGED vars \/ Drift
  <2>1. UNCHANGED <<op, checks, asked, text, opts, to, lookup, phase, at>>
    BY <1>2 DEF vars, request, recipient, Drift
  <2>2. \A i : Reached(i)' <=> Reached(i)
    BY <2>1 DEF Reached
  <2>3. QED
    BY <2>1, <2>2, AddressStays
<1>3. CASE Auth
  <2>1. /\ UNCHANGED <<op, checks, asked, text, opts, to, lookup>>
        /\ phase = "auth" /\ phase' \in {"validate", "done"}
    BY <1>3 DEF Auth, request, recipient, Answer
  <2>2. \A i : ~Reached(i)'
    BY <2>1 DEF Reached
  <2>3. QED
    BY <2>1, <2>2, AddressStays
<1>4. CASE Validate
  <2>1. /\ UNCHANGED <<op, checks, to, lookup>> /\ phase = "validate"
        /\ to = Absent /\ phase' \in {"bind", "done"}
    BY <1>4, ValidateIs DEF Answer, AddressInv, recipient
  <2>2. phase' = "bind" => Passed(asked, text)'
    <3>1. PICK t \in Texts \cup {Absent} :
             asked' = t /\ \E c, f, n : text' = Validated(c, t, f, n)
      BY <1>4, ValidateIs
    <3>2. phase' = "bind" => text' # Invalid
      BY <1>4, ValidateIs DEF Answer
    <3>3. text' # Invalid => Passed(t, text')
      BY <1>1, <3>1, AskedIsWritten, ValidatedIs
    <3>4. QED
      BY <3>1, <3>2, <3>3 DEF Passed
  <2>3. \A i : ~Reached(i)'
    BY <2>1 DEF Reached
  <2>4. to' = Absent /\ Absent \in Names
    BY <2>1, Constants
  <2>5. (Resolves = {} => lookup = NoLookup)'
    <3>1. route' = route /\ NoLookup' = NoLookup
      BY <2>1, SameRoute DEF NoLookup
    <3>2. Resolves' = Resolves
      BY <3>1 DEF Resolves, Of
    <3>3. QED
      BY <2>1, <3>1, <3>2 DEF AddressInv
  <2>6. QED
    BY <2>1, <2>2, <2>3, <2>4, <2>5 DEF AddressInv
<1>5. CASE Bind
  <2>1. UNCHANGED <<op, checks, asked, text, opts, to, lookup>> /\ phase = "bind"
    BY <1>5 DEF Bind, recipient
  <2>2. Begin \/ phase' \in {"client", "done"}
    BY <1>5 DEF Bind, Answer
  <2>3. QED
    BY <2>1, <2>2, AddressBegins, AddressMoves
<1>6. CASE EnsureClient \/ Waited \/ Reconnect
  <2>1. /\ UNCHANGED <<op, checks, asked, text, opts, to, lookup>>
        /\ phase \in {"client", "wait", "reconnect"}
    BY <1>6 DEF EnsureClient, Waited, Reconnect, request, recipient
  <2>2. \A why : FailWith(why) => phase' \in {"client", "done"}
    BY FailWithIs DEF Again, Answer
  <2>3. Begin \/ phase' \in {"client", "wait", "reconnect", "done"}
    BY <1>6, <2>2 DEF EnsureClient, Waited, Reconnect, Offline
  <2>4. QED
    BY <2>1, <2>3, AddressBegins, AddressMoves
<1>7. ASSUME UNCHANGED <<request, recipient>>, phase = "step", at \in DOMAIN steps,
             \/ GoOn /\ Kind(at) \notin {"resolve", "canon"}
             \/ \E code : Answer(code)
             \/ \E why : Fails(why)
      PROVE  AddressInv'
  <2>1. CASE GoOn /\ Kind(at) \notin {"resolve", "canon"}
    BY <1>7, <2>1, AddressPasses DEF Strips
  <2>2. CASE \E code : Answer(code)
    <3>1. phase' = "done"
      BY <2>2 DEF Answer
    <3>2. QED
      BY <1>7, <3>1, SameRequest, AddressMoves DEF recipient
  <2>3. ASSUME NEW why, Fails(why)
        PROVE  AddressInv'
    BY <1>7, <2>3, AddressFails
  <2>4. QED
    BY <1>7, <2>1, <2>2, <2>3
<1>8. CASE Gone
  BY <1>7, <1>8 DEF Gone
<1>9. CASE ParseStep
  <2>1. /\ UNCHANGED request /\ phase = "step" /\ at \in DOMAIN steps
        /\ Kind(at) = "parse"
    BY <1>9 DEF ParseStep, Doing, Kind
  <2>2. CASE Fails("jid") /\ UNCHANGED to
    BY <1>7, <1>9, <2>1, <2>2 DEF ParseStep, recipient
  <2>3. CASE GoOn /\ to' = ParseJID(text) /\ ParseJID(text) # Invalid
    BY <1>9, <2>1, <2>3, AddressParses DEF ParseStep
  <2>4. QED
    BY <1>9, <2>2, <2>3 DEF ParseStep
<1>10. CASE CanonStep
  BY <1>10, AddressIsBared DEF CanonStep, Doing, Kind
<1>11. CASE AskStep
  <2>1. /\ UNCHANGED <<request, recipient>> /\ phase = "step"
        /\ at \in DOMAIN steps
        /\ Kind(at) \in {"check", "find", "ask", "again", "hint"}
    BY <1>11 DEF AskStep, Doing, Kind
  <2>2. GoOn \/ Answer(404) \/ Fails(Kind(at))
    BY <1>11 DEF AskStep, Kind
  <2>3. QED
    BY <1>7, <2>1, <2>2
<1>12. CASE TellStep
  <2>1. /\ UNCHANGED <<request, lookup>> /\ phase = "step"
        /\ at \in DOMAIN steps /\ Kind(at) \in {"tell", "send"}
        /\ Kind(at) = "send" => to' = CanonicalJID(to)
        /\ Kind(at) = "tell" => to' = to
        /\ GoOn \/ Fails("error")
    BY <1>12 DEF TellStep, Doing, Kind
  <2>2. ~steps[at].tolerant
    BY <1>1, <2>1, TellIs DEF Changes
  <2>3. GoOn \/ Answer(500)
    BY <2>1, <2>2, FailsIs DEF Retries
  <2>4. CASE GoOn /\ Kind(at) = "send"
    BY <2>1, <2>4, AddressIsBared
  <2>5. CASE GoOn /\ Kind(at) = "tell"
    BY <1>7, <2>1, <2>5 DEF recipient
  <2>6. CASE Answer(500)
    BY <2>1, <2>6, AddressEnds DEF Changes
  <2>7. QED
    BY <2>1, <2>3, <2>4, <2>5, <2>6
<1>13. CASE SeveralStep \/ LinkStep \/ EventStep \/ OwnStep \/ PanicStep
  <2>1. /\ UNCHANGED <<request, recipient>> /\ phase = "step"
        /\ at \in DOMAIN steps
        /\ Kind(at) \in {"several", "unheard", "link", "event", "own", "panic"}
        /\ GoOn \/ Answer(500) \/ Fails("error")
    BY <1>13
       DEF SeveralStep, LinkStep, EventStep, OwnStep, PanicStep, Doing, Kind
  <2>2. QED
    BY <1>7, <2>1
<1>14. CASE ResolveUnchecked \/ ResolveChecked
  <2>1. /\ UNCHANGED request /\ phase = "step" /\ at \in DOMAIN steps
        /\ Kind(at) = "resolve"
    BY <1>14 DEF ResolveUnchecked, ResolveChecked, Doing, Kind
  <2>2. \/ UNCHANGED recipient /\ \E why : FailWith(why)
        \/ \E jid, l :
              /\ GoOn /\ to' = jid /\ lookup' = l /\ jid # Invalid
              /\ \/ jid = ValidateMessageFields(text, Formats) /\ l = NoLookup
                 \/ /\ checks
                    /\ text.at \notin {"group", "broadcast", "newsletter", "lid"}
                    /\ \E query \in Queries, remote \in Remotes :
                          /\ jid = ValidateMessageFields(remote, FALSE)
                          /\ l = [query |-> query, jid |-> remote]
    BY <1>14 DEF ResolveUnchecked, ResolveChecked, Take
  <2>3. ASSUME NEW why, FailWith(why), UNCHANGED recipient
        PROVE  AddressInv'
    BY <2>1, <2>3, AddressFailWith
  <2>4. ASSUME NEW jid, NEW l, GoOn, to' = jid, lookup' = l, jid # Invalid,
               \/ jid = ValidateMessageFields(text, Formats) /\ l = NoLookup
               \/ /\ checks
                  /\ text.at \notin {"group", "broadcast", "newsletter", "lid"}
                  /\ \E query \in Queries, remote \in Remotes :
                        /\ jid = ValidateMessageFields(remote, FALSE)
                        /\ l = [query |-> query, jid |-> remote]
        PROVE  AddressInv'
    BY <2>1, <2>4, AddressIsResolved
  <2>5. QED
    BY <2>2, <2>3, <2>4
<1>15. CASE Finish
  <2>1. /\ UNCHANGED <<op, checks, asked, text, opts, to, lookup>>
        /\ phase = "step" /\ phase' = "done"
    BY <1>15 DEF Finish, Answer, request, recipient
  <2>2. QED
    BY <2>1, AddressMoves
<1>16. QED
  BY <1>2, <1>3, <1>4, <1>5, <1>6, <1>8, <1>9, <1>10, <1>11, <1>12, <1>13,
     <1>14, <1>15 DEF Next, Serve

-----------------------------------------------------------------------------
(* The theorems.                                                            *)

RequestInv == ApiTypeOK /\ RunInv /\ AddressInv

LEMMA RequestBegins ==
  ASSUME Init
  PROVE  RequestInv
<1>1. /\ op \in Ops /\ Count \in Nat /\ DOMAIN steps = 1..Count
      /\ route.attempts \in Nat \ {0}
  BY RouteIs DEF Init
<1>2. /\ 1 \in 1..route.attempts /\ 1 \in 1..2 /\ 0 \in 0..Count + 1
  BY <1>1
<1>3. ApiTypeOK
  BY <1>1, <1>2 DEF Init, ApiTypeOK, Count
<1>4. RunInv
  BY DEF Init, RunInv, Reached, AnswersAreTrue
<1>5. AddressInv
  BY Constants DEF Init, AddressInv, Reached
<1>6. QED
  BY <1>3, <1>4, <1>5 DEF RequestInv

\* The inductive invariant of a request: its types; what it has passed in the
\* attempt under way it has done, and past the message there is no way back; and
\* the recipient it has is the rightful one.
THEOREM RequestInvariance == Spec => []RequestInv
<1>1. Init => RequestInv
  BY RequestBegins
<1>2. RequestInv /\ [Next]_vars => RequestInv'
  BY TypesFollow, RunFollows, AddressFollows DEF RequestInv
<1>3. QED
  BY <1>1, <1>2, PTL DEF Spec

\* A request stays within its types, and has an answer exactly when it is done.
THEOREM RequestTypeInvariance == Spec => []ApiTypeOK
<1>1. RequestInv => ApiTypeOK
  BY DEF RequestInv
<1>2. QED
  BY <1>1, RequestInvariance, PTL

\* However often a service with attempts tries, a message goes once and its
\* event is not given before it.
THEOREM MessagesGoOnce == Spec => []AtMostOneCopy
<1>1. RequestInv => AtMostOneCopy
  BY DEF RequestInv, RunInv, AtMostOneCopy
<1>2. QED
  BY <1>1, RequestInvariance, PTL

\* An answer of 200 hides no change that was not made, but for the participants
\* of a group that WhatsApp refused, and one of 400, 401 or 404 none that was.
THEOREM AnswersStayTrue == Spec => []AnswersAreTrue
<1>1. RequestInv => AnswersAreTrue
  BY DEF RequestInv, RunInv
<1>2. QED
  BY <1>1, RequestInvariance, PTL

\* Whatever is written, and however often it is normalised on its way, a message
\* goes to the number that the rules of its country give, or to the very JID that
\* WhatsApp named when it was asked about it, whichever that is.
THEOREM MessagesReachWhomTheyNamed == Spec => []OneRecipient
<1>1. ASSUME RequestInv, phase = "step", to # Absent, Doing(Changes)
      PROVE  /\ Bare(steps[at]) /\ Resolves = {} => ~to.plus
             /\ Rightful(to, lookup)
  <2>1. /\ op \in Ops /\ Count \in Nat /\ DOMAIN steps = 1..Count
        /\ at \in DOMAIN steps /\ Kind(at) \in Changes
    BY <1>1, RouteIs DEF RequestInv, ApiTypeOK, Doing, Kind
  <2>2. \A i \in Resolves : Reached(i)
    BY <1>1, <2>1, ResolveIs DEF Resolves, Reached
  <2>3. Bare(steps[at]) /\ Resolves = {} => ~to.plus
    BY <1>1, <2>1, RawIs DEF RequestInv, AddressInv, Resolves, Reached
  <2>4. QED
    BY <1>1, <2>2, <2>3 DEF RequestInv, AddressInv
<1>2. RequestInv => asked \in Names /\ asked.digits \in Digits
  BY AskedIsWritten, WrittenIs DEF RequestInv, ApiTypeOK
<1>3. RequestInv => AtHome(asked) =
        IF asked.at \in {"", "user"} /\ Len(asked.digits) < 18
        THEN National(asked.digits) ELSE asked.digits
  BY <1>2, LongIs DEF AtHome
<1>4. ASSUME RequestInv
      PROVE  OneRecipient
  <2>1. CASE phase = "step" /\ to # Absent /\ Doing(Changes)
    <3>1. /\ Bare(steps[at]) /\ Resolves = {} => ~to.plus
          /\ Rightful(to, lookup)
      BY <1>1, <1>4, <2>1
    <3> DEFINE home == AtHome(asked)
    <3>2. home = IF asked.at \in {"", "user"} /\ Len(asked.digits) < 18
                 THEN National(asked.digits) ELSE asked.digits
      BY <1>3, <1>4
    <3> HIDE DEF home
    <3>3. /\ Bare(steps[at]) /\ Resolves = {} => ~to.plus
          /\ IF lookup = NoLookup
             THEN /\ to.at = CreateJID(asked).at
                  /\ to.digits = IF IsJID(asked) /\ ~Formatted
                                 THEN asked.digits ELSE home
             ELSE /\ checks /\ to = lookup.jid
                  /\ lookup.query.digits \in {asked.digits, home}
      BY <3>1 DEF home, Rightful
    <3>4. QED
      BY <3>2, <3>3 DEF OneRecipient, Resolves, Formatted
  <2>2. CASE ~(phase = "step" /\ to # Absent /\ Doing(Changes))
    BY <2>2 DEF OneRecipient
  <2>3. QED
    BY <2>1, <2>2
<1>5. QED
  BY <1>4, RequestInvariance, PTL
=============================================================================
