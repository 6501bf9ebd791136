-------------------------------- MODULE Twiml --------------------------------
(***************************************************************************)
(* TwiML rendering (src/src/twiml.rs): an ordered list of verbs becomes a  *)
(* document, and Twilio reads it back.                                     *)
(*                                                                         *)
(* A text, and a document, is a sequence of tokens: a character that is    *)
(* markup somewhere ("<", ">", "&", "\"", "/", "=", " ", and "lt;" and its *)
(* like after an ampersand) is a token of its own, any other run of        *)
(* characters is a token too.  A string field is a text, an optional one a *)
(* sequence of at most one text.  A number is a text of one word, which    *)
(* escaping leaves alone.                                                  *)
(***************************************************************************)
EXTENDS Integers, SequencesExt

CONSTANT MAX_NESTING    \* how deep a <Gather> may nest; the code knows no limit

ASSUME NestingAssumption == MAX_NESTING \in Nat

Token == STRING

Text == Seq(Token)

Option(S) == {o \in Seq(S) : Len(o) <= 1}

\* The verbs that nest nothing.
Leaf ==
    [verb : {"say"}, text : Text, voice : Option(Text), language : Option(Text)]
    \union [verb : {"play", "redirect"}, url : Text]
    \union [verb : {"record"}, action : Option(Text), max_length : Option(Text),
            play_beep : Option(Text)]
    \union [verb : {"dial"}, number : Option(Text), sip : Option(Text), client : Option(Text),
            conference : Option(Text), caller_id : Option(Text)]
    \union [verb : {"reject"}, reason : Option(Text)]
    \union [verb : {"hangup"}]
    \union [verb : {"pause"}, length : Option(Text)]
    \union [verb : {"message"}, body : Text, media_url : Seq(Text)]

Gathers(verbs) ==
    [verb : {"gather"}, input : Option(Text), action : Option(Text), num_digits : Option(Text),
     speech_timeout : Option(Text), timeout : Option(Text), nested : Seq(verbs)]

\* What can be made of some leaves with <Gather>s that nest up to d deep.
Nest(leaves) ==
    LET upTo[d \in 0..MAX_NESTING] ==
            leaves \union IF d = 0 THEN {} ELSE Gathers(upTo[d - 1])
    IN  upTo

Verbs == Nest(Leaf)

Verb == Verbs[MAX_NESTING]

TWIML_HEADER == "<?xml version=\"1.0\" encoding=\"UTF-8\"?>"

\* The five predefined entities, by the character they stand for.
Entity == [c \in {"<", ">", "&", "\"", "'"} |->
    CASE c = "<" -> "lt;" [] c = ">" -> "gt;" [] c = "&" -> "amp;"
      [] c = "\"" -> "quot;" [] c = "'" -> "apos;"]

\* Slips: ampersands are left alone; so are quotes.
SlipEscAngles(s) == FlattenSeq([i \in DOMAIN s |->
    IF s[i] \in {"<", ">", "\"", "'"} THEN <<"&", Entity[s[i]]>> ELSE <<s[i]>>])

SlipEscTextOnly(s) == FlattenSeq([i \in DOMAIN s |->
    IF s[i] \in {"<", ">", "&"} THEN <<"&", Entity[s[i]]>> ELSE <<s[i]>>])

esc(s) == FlattenSeq([i \in DOMAIN s |->
    IF s[i] \in DOMAIN Entity THEN <<"&", Entity[s[i]]>> ELSE <<s[i]>>])

\* opt_attr and opt_attr_num: nothing for an absent value.
OptAttr(name, value) ==
    IF value = <<>> THEN <<>> ELSE <<" ", name, "=", "\"">> \o esc(value[1]) \o <<"\"">>

Element(name, attrs, content) ==
    <<"<", name>> \o attrs \o <<">">> \o content \o <<"<", "/", name, ">">>

EmptyElement(name, attrs) == <<"<", name>> \o attrs \o <<"/", ">">>

TextElements(name, texts) ==
    FlattenSeq([i \in DOMAIN texts |-> Element(name, <<>>, esc(texts[i]))])

\* The first destination there is, of number, sip, client and conference.
Destination(v) ==
    CASE v.number # <<>> -> esc(v.number[1])
      [] v.number = <<>> /\ v.sip # <<>> -> TextElements("Sip", v.sip)
      [] v.number = <<>> /\ v.sip = <<>> /\ v.client # <<>> -> TextElements("Client", v.client)
      [] OTHER -> TextElements("Conference", v.conference)

\* One verb, given what its nested verbs, if it has any, were rendered to.
RenderVerb(v, children) ==
    CASE v.verb = "say" ->
           Element("Say", OptAttr("voice", v.voice) \o OptAttr("language", v.language),
                   esc(v.text))
      [] v.verb = "play" -> Element("Play", <<>>, esc(v.url))
      [] v.verb = "gather" ->
           Element("Gather",
                   OptAttr("input", v.input) \o OptAttr("action", v.action)
                       \o OptAttr("numDigits", v.num_digits)
                       \o OptAttr("speechTimeout", v.speech_timeout)
                       \o OptAttr("timeout", v.timeout),
                   children)
      [] v.verb = "record" ->
           EmptyElement("Record", OptAttr("action", v.action)
                                      \o OptAttr("maxLength", v.max_length)
                                      \o OptAttr("playBeep", v.play_beep))
      [] v.verb = "dial" -> Element("Dial", OptAttr("callerId", v.caller_id), Destination(v))
      [] v.verb = "reject" -> EmptyElement("Reject", OptAttr("reason", v.reason))
      [] v.verb = "hangup" -> EmptyElement("Hangup", <<>>)
      [] v.verb = "pause" -> EmptyElement("Pause", OptAttr("length", v.length))
      [] v.verb = "redirect" -> Element("Redirect", <<>>, esc(v.url))
      [] v.verb = "message" ->
           Element("Message", <<>>,
                   Element("Body", <<>>, esc(v.body)) \o TextElements("Media", v.media_url))

\* The recursion over nested verbs, on how deep they nest.
Rendered[d \in 0..MAX_NESTING] ==
    [v \in Verbs[d] |->
        RenderVerb(v, IF v.verb = "gather"
                      THEN FlattenSeq([i \in DOMAIN v.nested |-> Rendered[d - 1][v.nested[i]]])
                      ELSE <<>>)]

render(verbs) ==
    <<TWIML_HEADER>>
        \o Element("Response", <<>>,
                   FlattenSeq([i \in DOMAIN verbs |-> Rendered[MAX_NESTING][verbs[i]]]))

empty_response == <<TWIML_HEADER>> \o Element("Response", <<>>, <<>>)

reject_response == render(<<[verb |-> "reject", reason |-> <<>>]>>)

-----------------------------------------------------------------------------
(***************************************************************************)
(* Twilio's side: an XML reader, which knows nothing of verbs.  It goes    *)
(* over the tokens once and keeps what it met: elements opened, attributes *)
(* and runs of text, each with its path from the root.                     *)
(***************************************************************************)
\* Text follows where the path is; a run of it is one node.
AddText(s, c) ==
    IF s.nodes # <<>> /\ Last(s.nodes).path = s.at /\ Last(s.nodes).kind # "open"
    THEN [s EXCEPT !.nodes[Len(s.nodes)].text = Append(@, c)]
    ELSE [s EXCEPT !.nodes = Append(@, [kind |-> "text", path |-> s.at, text |-> <<c>>])]

Enter(s, kind, name) ==
    [s EXCEPT !.at = Append(@, name),
              !.nodes = Append(@, [kind |-> kind, path |-> Append(s.at, name), text |-> <<>>])]

Leave(s, mode) == [s EXCEPT !.at = Front(@), !.mode = mode]

Mode(s, mode) == [s EXCEPT !.mode = mode]

Feed(s, c) ==
    CASE s.mode = "bad" -> s
      [] s.mode \in {"text", "value"} /\ c = "&" -> [s EXCEPT !.mode = "entity", !.back = s.mode]
      [] s.mode = "entity" ->
           IF \E e \in DOMAIN Entity : Entity[e] = c
           THEN AddText(Mode(s, s.back), CHOOSE e \in DOMAIN Entity : Entity[e] = c)
           ELSE Mode(s, "bad")
      [] s.mode \in {"text", "value"} /\ c = "<" -> Mode(s, IF s.mode = "text" THEN "tag" ELSE "bad")
      [] s.mode = "text" /\ c \notin {"&", "<"} -> AddText(s, c)
      [] s.mode = "value" /\ c = "\"" -> Leave(s, "attributes")
      [] s.mode = "value" /\ c \notin {"&", "<", "\""} -> AddText(s, c)
      [] s.mode = "tag" ->
           IF c = "/" THEN Mode(s, "close") ELSE Enter(Mode(s, "attributes"), "open", c)
      [] s.mode = "attributes" ->
           CASE c \in {" ", "="} -> s
             [] c = "\"" -> Mode(s, "value")
             [] c = ">" -> Mode(s, "text")
             [] c = "/" -> Leave(s, "end")
             [] OTHER -> Enter(s, "attribute", c)
      [] s.mode = "close" ->
           IF s.at # <<>> /\ c = Last(s.at) THEN Leave(s, "end") ELSE Mode(s, "bad")
      [] s.mode = "end" -> Mode(s, IF c = ">" THEN "text" ELSE "bad")

Start == [mode |-> "text", back |-> "text", at |-> <<>>, nodes |-> <<>>]

\* What the reader makes of the tokens of doc, from state s on.
Reading(s, doc) ==
    LET upTo[i \in 0..Len(doc)] == IF i = 0 THEN s ELSE Feed(upTo[i - 1], doc[i])
    IN  upTo[Len(doc)]

Parsed(doc) == Reading(Start, Tail(doc))

WellFormed(doc) == Parsed(doc).mode = "text" /\ Parsed(doc).at = <<>>

Read(doc) == Parsed(doc).nodes

\* The verbs Twilio executes: the elements below <Response>, in order.
Executed(doc) ==
    FlattenSeq([i \in DOMAIN Read(doc) |->
        IF Read(doc)[i].kind = "open" /\ Len(Read(doc)[i].path) = 2
        THEN <<Read(doc)[i].path[2]>> ELSE <<>>])

ElementName ==
    [say |-> "Say", play |-> "Play", gather |-> "Gather", record |-> "Record",
     dial |-> "Dial", reject |-> "Reject", hangup |-> "Hangup", pause |-> "Pause",
     redirect |-> "Redirect", message |-> "Message"]
=============================================================================
