------------------------- MODULE NotificationStrings -------------------------
(***************************************************************************)
(* The text in which a block names where an alert is sent, for example     *)
(* "Email,a@x,b@x|c@x,d@x", and the notification of the API it stands for. *)
(*                                                                         *)
(* A text is its type and the parts between its commas.  A part is the     *)
(* sequence of the pieces between its bars: <<>> is the empty part, and    *)
(* only e-mail recipients have more than one piece.  A field of the API    *)
(* is a sequence of parts, because nothing keeps a comma out of it.        *)
(***************************************************************************)
EXTENDS Naturals, Sorting

\* The types that have nothing but a credential or a team.
SinglePart == {"AmazonEventBridge", "BigPanda", "Jira", "Office365",
               "PagerDuty", "ServiceNow", "SplunkPlatform", "Team",
               "TeamEmail", "XMatters"}
Types == SinglePart \union {"Email", "EmailTemplate", "Opsgenie", "Slack",
                            "VictorOps", "Webhook"}

\* Pieces stand for words, " " for a blank one and "#" for one with a sign in
\* it, as of a channel; nothing but a word is an address or a URL.
Words  == {"a", "b"}
Order  == <<"#", "a", "b">>
Pieces == ToSet(Order) \union {" "}
IsWord(piece) == piece \in Words
IsBlank(piece) == piece = " "
Empty == <<>>
Alphabet == [i \in DOMAIN Order |-> {Order[i]}]
Rank(piece) == CHOOSE i \in DOMAIN Order : Order[i] = piece
Before(v, w) == Rank(v) <= Rank(w)

Invalid == [type |-> "invalid", fields |-> <<>>]

----------------------------------------------------------------------------
(* From text to notification.                                              *)

IsAddress(part) == Len(part) = 1 /\ IsWord(part[1])

\* parseEmailRecipientList: blank pieces are dropped, the others addresses.
Recipients(part) == Among(part, {piece \in Pieces : ~IsBlank(piece)})
AreRecipients(part) == \A piece \in ToSet(Recipients(part)) : IsWord(piece)

ValidEmail(parts) ==
    /\ Len(parts) \in 1..3
    /\ IsAddress(parts[1])
    /\ \A i \in 2..Len(parts) : AreRecipients(parts[i])

\* Credential and secret, or URL; a secret may be given with neither rule.
ValidWebhook(parts) ==
    /\ Len(parts) = 3
    /\ (parts[1] = Empty) # (parts[3] = Empty)
    /\ parts[3] # Empty => IsAddress(parts[3])

Valid(text) ==
    LET parts == text.parts IN
    /\ parts # <<>>
    /\ \/ text.type \in SinglePart
       \/ text.type = "Email" /\ ValidEmail(parts)
       \/ text.type = "EmailTemplate" /\ Len(parts) = 1
              /\ \E i \in DOMAIN parts[1] : ~IsBlank(parts[1][i])
       \/ text.type = "Slack" /\ Len(parts) = 2
              /\ \A i \in DOMAIN parts[2] : parts[2][i] # "#"
       \/ text.type = "VictorOps" /\ Len(parts) = 2
       \/ text.type = "Opsgenie" /\ Len(parts) = 4
       \/ text.type = "Webhook" /\ ValidWebhook(parts)

\* Of a type with one part, what follows the second comma is dropped.
Kept(text) ==
    CASE text.type \in SinglePart -> <<text.parts[1]>>
      [] text.type = "Email" ->
             [i \in 1..3 |-> IF i > Len(text.parts) THEN Empty
                             ELSE IF i = 1 THEN text.parts[1]
                             ELSE Recipients(text.parts[i])]
      [] OTHER -> text.parts

NewNotificationFromString(text) ==
    IF Valid(text)
    THEN [type |-> text.type,
          fields |-> [i \in DOMAIN Kept(text) |-> <<Kept(text)[i]>>]]
    ELSE Invalid

----------------------------------------------------------------------------
(* From notification to text.                                              *)

\* Recipients are written in the order of their names.
formatEmailRecipientList(field) == Grouped(field[1], Alphabet)

EmailWithoutSlots(n) ==  \* mutant: an empty cc list has no slot of its own
    LET lists == <<formatEmailRecipientList(n.fields[2]),
                   formatEmailRecipientList(n.fields[3])>> IN
    n.fields[1] \o SelectSeq(lists, LAMBDA part : part # Empty)
formatEmail(n) ==
    LET cc  == formatEmailRecipientList(n.fields[2])
        bcc == formatEmailRecipientList(n.fields[3])
    IN  IF cc = Empty /\ bcc = Empty THEN n.fields[1]
        ELSE n.fields[1] \o <<cc, bcc>>

NewNotificationStringFromAPI(n) ==
    [type |-> n.type,
     parts |-> IF n.type = "Email" THEN formatEmail(n)
               ELSE FlattenSeq(n.fields)]

\* A notification of a type the provider does not know cannot be written.
Writable(n) == n.type \in Types

----------------------------------------------------------------------------
(* Reference definitions.                                                  *)

Ordered(part) ==
    \A i, j \in DOMAIN part :
        i < j => IsWord(part[i]) /\ IsWord(part[j]) /\ Before(part[i], part[j])

\* The texts that come back as they are from a notification made of them.
Canonical(text) ==
    /\ text.type \in SinglePart => Len(text.parts) = 1
    /\ text.type = "Email" =>
           \/ Len(text.parts) = 1
           \/ /\ Len(text.parts) = 3
              /\ text.parts[2] # Empty \/ text.parts[3] # Empty
              /\ \A i \in {2, 3} : /\ Ordered(text.parts[i])
                                   /\ AreRecipients(text.parts[i])
                                   /\ Recipients(text.parts[i]) = text.parts[i]

\* The same type, the same fields, the same recipients in whatever order.
SameRecipients(p, q) ==
    \A piece \in ToSet(Order) :
        Len(Among(p, {piece})) = Len(Among(q, {piece}))
Equivalent(m, n) ==
    IF m.type = "Email" /\ n.type = "Email"
    THEN /\ m.fields[1] = n.fields[1]
         /\ \A i \in {2, 3} : SameRecipients(m.fields[i][1], n.fields[i][1])
    ELSE m = n

----------------------------------------------------------------------------
(* Bounded inputs: one word, a blank, a sign; two lists of recipients.     *)

Parts == {Empty, <<"a">>, <<"#">>}
RecipientParts == {Empty, <<" ">>, <<"#">>, <<"a", "b">>, <<"b", "a">>,
                   <<"b", " ">>}
Texts ==
    [type : {"PagerDuty", "EmailTemplate", "Slack", "VictorOps"},
     parts : UNION {[1..n -> Parts] : n \in 0..2}]
    \union [type : {"Opsgenie", "Webhook"},
            parts : UNION {[1..n -> {Empty, <<"a">>}] : n \in 3..4}]
    \union {[type |-> "Email", parts |-> <<<<"a">>>> \o rest] :
                rest \in UNION {[1..n -> RecipientParts] : n \in 0..2}}
    \union {[type |-> "Email", parts |-> <<<<"#">>>>],
            [type |-> "Email", parts |-> <<<<"a">>, Empty, Empty, Empty>>],
            [type |-> "Slack", parts |-> <<<<"a">>, <<"b">>, Empty>>],
            [type |-> "Fax", parts |-> <<<<"a">>>>]}

\* What others may put in the place of a notification: an identifier or a
\* channel with a comma, a channel with its sign, a template without a name, a
\* webhook with both a credential and a URL, or neither, an address that is
\* none, of the first recipient or another, a type unknown to the provider.
OneFields ==
    [type : {"PagerDuty"}, fields : [1..1 -> {<<<<"a">>>>, <<<<"a">>, <<"a">>>>}]]
    \union [type : {"EmailTemplate"}, fields : [1..1 -> {<<<<"a">>>>, <<<<" ">>>>}]]
Channels ==
    {[type |-> "Slack", fields |-> <<<<<<"a">>>>, channel>>] :
         channel \in {<<<<"b">>>>, <<<<"#">>>>, <<<<"a">>, <<"b">>>>}}
Webhooks ==
    {[type |-> "Webhook", fields |-> <<<<id>>, <<Empty>>, <<url>>>>] :
         id \in {Empty, <<"a">>}, url \in Parts}
Emails ==
    {[type |-> "Email", fields |-> <<<<<<"a">>>>, <<cc>>, <<bcc>>>>] :
         cc \in {Empty, <<"b", "a">>, <<"a", "#">>}, bcc \in {Empty, <<"b">>}}
Misaddressed == [type : {"Email"}, fields : {<<<<<<"#">>>>, <<Empty>>, <<Empty>>>>}]
Faxes == [type : {"Fax"}, fields : {<<<<<<"a">>>>>>}]
OtherNotifications ==
    OneFields \union Channels \union Webhooks \union Emails \union Misaddressed
        \union Faxes

----------------------------------------------------------------------------
(* What a block cannot say, though the API may hold it.                    *)

\* The commas of a text are between its parts.
NoCommas(n) == \A i \in DOMAIN n.fields : Len(n.fields[i]) = 1

\* A channel is named without its sign.
PlainChannel(n) ==
    n.type = "Slack" =>
        \A part \in ToSet(n.fields[2]) : \A i \in DOMAIN part : part[i] # "#"

\* A webhook has a credential or a URL, never both.
OneWay(n) ==
    n.type = "Webhook" => (n.fields[1] = <<Empty>>) # (n.fields[3] = <<Empty>>)

\* What has to be an address or a URL is one.
Understood(n) ==
    /\ n.type = "Email" => /\ IsAddress(n.fields[1][1])
                           /\ AreRecipients(n.fields[2][1])
                           /\ AreRecipients(n.fields[3][1])
    /\ n.type = "Webhook" => n.fields[3] = <<Empty>> \/ IsAddress(n.fields[3][1])

\* A template has an identifier.
NamedTemplate(n) ==
    n.type = "EmailTemplate" =>
        \E i \in DOMAIN n.fields[1][1] : ~IsBlank(n.fields[1][1][i])
=============================================================================
