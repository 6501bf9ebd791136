-------------------------------- MODULE Reply --------------------------------
(***************************************************************************)
(* From the bytes of one webhook to the bytes of its answer                *)
(* (src/src/webhook.rs): the signature over the reconstructed URL, the     *)
(* route, the verbs from the first of the sources that has any, the        *)
(* caller's parameters put into the configured ones, and the document      *)
(* Twilio reads.                                                           *)
(*                                                                         *)
(* Inbound has the side effects of the handlers, VoiceControl the life of  *)
(* a staged script and the wait for the tool.  Here a script and a tool's  *)
(* result are what the environment gives.  Texts are Twiml's; a            *)
(* placeholder is one token, and so is an URL escape.  A body that is no   *)
(* form has no parameter a handler looks at.                               *)
(***************************************************************************)
EXTENDS Twiml, Signature

CONSTANTS
    Configs,        \* webhook configurations that validate
    Requests,       \* what the host hands to the handler
    Scripts,        \* lists of verbs an agent stages
    ToolResults,    \* JSON a handler tool returns
    ORIGIN          \* the URL the gateway is reached at, without trailing slash

VARIABLES
    cfg,            \* the webhook's configuration
    req,            \* the request
    pc,             \* "new", "script", "tool", "template" or "answered"
    source,         \* where the verbs came from: "none" before
    authored,       \* the verbs as their author wrote them
    asked,          \* the captured input the tool was given; <<>> if not asked
    response        \* its status and document

vars == <<cfg, req, pc, source, authored, asked, response>>

\* A configuration passes TwilioWebhookConfig::validate.
ConfigValid(c) ==
    /\ c.auth_token # ""
    /\ c.public_base_url # <<>> /\ c.public_base_url[1] \in {"https://", "http://"}

ASSUME ConfigAssumption == \A c \in Configs : ConfigValid(c)

ASSUME ConfigTypes == \A c \in Configs :
    /\ c.auth_token \in STRING /\ c.public_base_url \in Text /\ c.validate_signature \in BOOLEAN
    /\ c.inbound_sms.auto_reply \in Option(Text)
    /\ c.inbound_voice.default_twiml_verbs \in Seq(Verb)

ASSUME RequestTypes == \A r \in Requests :
    /\ r.full_path \in Text /\ r.raw_query \in Text /\ r.query \in Seq(STRING \X Text)
    /\ r.header \in Option([key : STRING, data : Text])
    /\ r.body.form \in Seq(Range(SortedKeys) \X Text) /\ r.body.sha256 \in STRING

ASSUME VerbTypes ==
    /\ Scripts \subseteq Seq(Verb)
    /\ \A value \in ToolResults :
          /\ value.parses => value.twiml_verbs \in Option(Seq(Verb))
          /\ value.text \in Option(Text)

\* Twilio sends each parameter once, and numbers as From and To.
ASSUME TwilioAssumption == \A r \in Requests :
    /\ \A i, j \in DOMAIN r.body.form : r.body.form[i][1] = r.body.form[j][1] => i = j
    /\ \A i \in DOMAIN r.body.form : r.body.form[i][1] \in {"From", "To"} =>
          Range(r.body.form[i][2]) \cap {"${From}", "${To}", "${Body}"} = {}

\* No "?" comes before the query.  That validate does not look for one in the
\* base is the operator's to mind.
ASSUME UrlAssumption ==
    /\ ORIGIN \in Text /\ ORIGIN # <<>> /\ Last(ORIGIN) # "/" /\ "?" \notin Range(ORIGIN)
    /\ \A c \in Configs : "?" \notin Range(c.public_base_url)
    /\ \A r \in Requests : "?" \notin Range(r.full_path)

-----------------------------------------------------------------------------
(* The signature. *)

\* Every trailing slash goes.
TrimEnd(base) ==
    LET kept == {i \in DOMAIN base : base[i] # "/"}
    IN  IF kept = {} THEN <<>> ELSE SubSeq(base, 1, CHOOSE i \in kept : \A j \in kept : j <= i)

\* serde_urlencoded writes a space as "+", and escapes what has a meaning.
UrlEncoded(text) ==
    [i \in DOMAIN text |->
        CASE text[i] = " " -> "+" [] text[i] = "+" -> "%2B" [] text[i] = "&" -> "%26"
          [] text[i] = "=" -> "%3D" [] OTHER -> text[i]]

QueryString(query) ==
    FlattenSeq([i \in DOMAIN query |->
        (IF i = 1 THEN <<>> ELSE <<"&">>) \o <<query[i][1], "=">> \o UrlEncoded(query[i][2])])

ReconstructUrl(c, r) ==
    TrimEnd(c.public_base_url) \o r.full_path
        \o IF r.query = <<>> THEN <<>> ELSE <<"?">> \o QueryString(r.query)

\* The value of the first pair of a key, an option.
Find(pairs, key) ==
    LET i == SelectInSeq(pairs, LAMBDA p : p[1] = key)
    IN  IF i = 0 THEN <<>> ELSE <<pairs[i][2]>>

\* Slip: an empty value counts.
SlipParamEmpty(params, key) == Find(params, key)

\* param: an empty value is none.
Param(params, key) == IF Find(params, key) = <<<<>>>> THEN <<>> ELSE Find(params, key)

BodySha(r) == Find(r.query, "bodySHA256")

CheckSignature(c, r) ==
    \/ ~c.validate_signature
    \/ /\ r.header # <<>>
       /\ IF BodySha(r) # <<>>
          THEN /\ BodySha(r)[1] = BodySha256Hex(r.body)
               /\ Verify(ExpectedSignatureJson(c.auth_token, ReconstructUrl(c, r)), r.header[1])
          ELSE Verify(ExpectedSignatureForm(c.auth_token, ReconstructUrl(c, r), r.body.form),
                      r.header[1])

-----------------------------------------------------------------------------
(* The verbs. *)

Placeholder == [From |-> "${From}", To |-> "${To}", Body |-> "${Body}"]

Replace(text, token, value) ==
    FlattenSeq([i \in DOMAIN text |-> IF text[i] = token THEN value ELSE <<text[i]>>])

PutIn(text, params, key) ==
    IF Param(params, key) = <<>> THEN text
    ELSE Replace(text, Placeholder[key], Param(params, key)[1])

\* Slip: the body first.
SlipBodyFirst(text, params) ==
    PutIn(PutIn(PutIn(text, params, "Body"), params, "From"), params, "To")

\* One key after the other, in what the ones before it left.
Substitute(text, params) ==
    PutIn(PutIn(PutIn(text, params, "From"), params, "To"), params, "Body")

\* What a <Say> says and a <Message> has in its body; every other verb, and
\* what is nested in a <Gather>, stays as it is.
SubstituteVerb(v, params) ==
    CASE v.verb = "say" -> [v EXCEPT !.text = Substitute(@, params)]
      [] v.verb = "message" -> [v EXCEPT !.body = Substitute(@, params)]
      [] OTHER -> v

Message(body) == [verb |-> "message", body |-> body, media_url |-> <<>>]

Say(text) == [verb |-> "say", text |-> text, voice |-> <<>>, language |-> <<>>]

\* Of an object: "twiml_verbs" that parse, then "text".  An option.
VerbsFromToolResult(value) ==
    CASE value.twiml_verbs # <<>> /\ value.parses -> value.twiml_verbs
      [] (value.twiml_verbs = <<>> \/ ~value.parses) /\ value.text # <<>> ->
           <<<<Say(value.text[1])>>>>
      [] OTHER -> <<>>

\* A path is a sequence of segments, each with its slash.
Route(r) ==
    CASE IsSuffix(<<"/hooks", "/sms">>, r.full_path) -> "sms"
      [] IsSuffix(<<"/hooks", "/voice">>, r.full_path) -> "voice"
      [] IsSuffix(<<"/hooks", "/status">>, r.full_path) -> "status"
      [] OTHER -> IF \E i \in 3..Len(r.full_path) :
                        SubSeq(r.full_path, i - 2, i - 1) = <<"/hooks", "/gather">>
                  THEN "gather" ELSE "unknown"

\* SMS has a tool of its own, calls and their turns share one.
HandlerTool == IF Route(req) = "sms" THEN cfg.inbound_sms.handler_tool
               ELSE cfg.inbound_voice.handler_tool

\* Slip: the option is taken for its value.
SlipCapturedText(params) ==
    IF Param(params, "Digits") = <<>> THEN <<>> ELSE Param(params, "Digits")[1]

\* Of a gather turn, what the caller entered or said.
Captured(params) ==
    IF Route(req) # "gather" THEN <<>>
    ELSE IF Param(params, "Digits") # <<>> THEN Param(params, "Digits")
    ELSE Param(params, "SpeechResult")

-----------------------------------------------------------------------------
Init ==
    /\ cfg \in Configs
    /\ req \in Requests
    /\ pc = "new"
    /\ source = "none"
    /\ authored = <<>>
    /\ asked = <<>>
    /\ response = [status |-> 0, document |-> <<>>]

Respond(status, document) ==
    /\ pc' = "answered"
    /\ response' = [status |-> status, document |-> document]

Serve(from, verbs, document) ==
    /\ source' = from
    /\ authored' = verbs
    /\ Respond(200, document)

\* Nothing of a request is looked at before its signature.
Refuse ==
    /\ pc = "new"
    /\ ~CheckSignature(cfg, req)
    /\ Respond(403, <<>>)
    /\ UNCHANGED <<cfg, req, source, authored, asked>>

\* A path that is no route of ours; a status callback expects no document.
HandleWithoutDocument ==
    /\ pc = "new"
    /\ CheckSignature(cfg, req)
    /\ \/ Route(req) = "unknown" /\ Respond(404, <<>>)
       \/ Route(req) = "status" /\ Respond(204, <<>>)
    /\ UNCHANGED <<cfg, req, source, authored, asked>>

AskOrFallBack == pc' = IF HandlerTool # <<>> THEN "tool" ELSE "template"

Handle ==
    /\ pc = "new"
    /\ CheckSignature(cfg, req)
    /\ \/ Route(req) = "voice" /\ pc' = "script"
       \/ Route(req) \in {"sms", "gather"} /\ AskOrFallBack
    /\ UNCHANGED <<cfg, req, source, authored, asked, response>>

\* A call is answered by the script staged for it, if there is one.
TakeScript ==
    /\ pc = "script"
    /\ \/ \E verbs \in Scripts : Serve("script", verbs, render(verbs))
       \/ AskOrFallBack /\ UNCHANGED <<source, authored, response>>
    /\ UNCHANGED <<cfg, req, asked>>

\* The tool returns, or fails or is late, which is no verbs.
RunHandlerTool ==
    /\ pc = "tool"
    /\ asked' = <<Captured(req.body.form)>>
    /\ \/ \E value \in ToolResults :
            LET verbs == VerbsFromToolResult(value)
            IN  /\ verbs # <<>>
                /\ Serve("tool", verbs[1], render(verbs[1]))
       \/ pc' = "template" /\ UNCHANGED <<source, authored, response>>
    /\ UNCHANGED <<cfg, req>>

\* The configured reply with the caller's parameters put in, else the safe
\* one: nothing to an SMS, <Reject/> to a call.  A gather turn has no
\* configured reply.
Template ==
    LET verbs == CASE Route(req) = "voice" -> cfg.inbound_voice.default_twiml_verbs
                   [] Route(req) = "sms" ->
                        [i \in DOMAIN cfg.inbound_sms.auto_reply |->
                            Message(cfg.inbound_sms.auto_reply[i])]
                   [] OTHER -> <<>>
    IN  /\ pc = "template"
        /\ \/ /\ verbs # <<>>
              /\ Serve("template", verbs,
                       render([i \in DOMAIN verbs |-> SubstituteVerb(verbs[i], req.body.form)]))
           \/ /\ verbs = <<>>
              /\ Respond(200, IF Route(req) = "sms" THEN empty_response ELSE reject_response)
              /\ UNCHANGED <<source, authored>>
        /\ UNCHANGED <<cfg, req, asked>>

Next == Refuse \/ HandleWithoutDocument \/ Handle \/ TakeScript \/ RunHandlerTool \/ Template

Spec == Init /\ [][Next]_vars

-----------------------------------------------------------------------------
\* Type invariant.  An option has at most one value; only calls have scripts.
TypeOK ==
    /\ pc \in {"new", "script", "tool", "template", "answered"}
    /\ source \in {"none", "script", "tool", "template"}
    /\ response.status \in {0, 200, 204, 403, 404}
    /\ Len(asked) <= 1 /\ \A i \in DOMAIN asked : Len(asked[i]) <= 1
    /\ pc = "script" \/ source = "script" => Route(req) = "voice"

Before(p, q) ==
    \E i, j \in DOMAIN SortedKeys : i < j /\ p[1] = SortedKeys[i] /\ q[1] = SortedKeys[j]

InKeyOrder(form) ==
    CHOOSE s \in SetToSeqs(ToSet(form)) : \A i, j \in DOMAIN s : i < j => Before(s[i], s[j])

\* What Twilio signs: the URL it was given, as it is written there, and the
\* form's parameters in the order of their keys, or the URL alone when that
\* carries the digest of a JSON body.
TwilioSigns(c, r) ==
    HmacB64(c.auth_token,
            ORIGIN \o r.full_path \o (IF r.raw_query = <<>> THEN <<>> ELSE <<"?">> \o r.raw_query)
                \o IF BodySha(r) # <<>> THEN <<>> ELSE Concatenated(InKeyOrder(r.body.form)))

Genuine(c, r) ==
    /\ r.header = <<TwilioSigns(c, r)>>
    /\ BodySha(r) # <<>> => BodySha(r)[1] = <<r.body.sha256>>

\* The base is the gateway's origin, with any number of slashes after it.
AtOrigin(c) ==
    /\ IsPrefix(ORIGIN, c.public_base_url)
    /\ \A i \in (Len(ORIGIN) + 1)..Len(c.public_base_url) : c.public_base_url[i] = "/"

\* A request that Twilio signed is refused exactly if the configured base is
\* not the gateway's or the query is not written as serde_urlencoded writes it,
\* in whatever order its parameters come and however many slashes the base ends
\* in.  A request it did not sign is refused, but for one whose header was made
\* with the token for the URL such a base or query gives (webhook.rs:108-167,
\* signature.rs:32-48).
RefusedUnlessSigned ==
    pc # "new" =>
        LET refused == response.status = 403
            rebuilt == AtOrigin(cfg) /\ req.raw_query = QueryString(req.query)
            keyed == req.header # <<>> /\ req.header[1].key = cfg.auth_token
        IN  /\ ~cfg.validate_signature => ~refused
            /\ cfg.validate_signature /\ Genuine(cfg, req) => (refused <=> ~rebuilt)
            /\ cfg.validate_signature /\ ~Genuine(cfg, req) /\ (rebuilt \/ ~keyed) => refused

\* The parameters of a request, each key once, and all at once in a text.
Filled(text) ==
    FlattenSeq([i \in DOMAIN text |->
        IF \E p \in ToSet(req.body.form) :
                p[1] \in DOMAIN Placeholder /\ Placeholder[p[1]] = text[i] /\ p[2] # <<>>
        THEN (CHOOSE p \in ToSet(req.body.form) :
                p[1] \in DOMAIN Placeholder /\ Placeholder[p[1]] = text[i])[2]
        ELSE <<text[i]>>])

\* Twilio reads a configured reply as its operator wrote it, with what the
\* caller sent in place of the placeholders of what is said or messaged, all
\* at once, as it was sent: nothing of it is taken for markup, for an entity
\* or for another placeholder, and nothing else of the document moves
\* (webhook.rs:448-520, twiml.rs:112-224).
ReadsAsConfigured ==
    source = "template" =>
        /\ WellFormed(response.document)
        /\ Read(response.document) =
            LET nodes == Read(render(authored))
            IN  [i \in DOMAIN nodes |->
                    IF nodes[i].kind = "text" /\ nodes[i].path \in
                            {<<"Response", "Say">>, <<"Response", "Message", "Body">>}
                    THEN [nodes[i] EXCEPT !.text = Filled(@)] ELSE nodes[i]]

\* Twilio executes the verbs that were authored, one element for each, in
\* their order, whatever is in their fields (twiml.rs:103-224).
ExecutedAsAuthored ==
    source # "none" =>
        /\ WellFormed(response.document)
        /\ Executed(response.document) =
            [i \in DOMAIN authored |-> ElementName[authored[i].verb]]

\* A <Dial> with one destination at most, and no empty number.
OneDestination(v) ==
    v.verb = "dial" =>
        /\ Len(v.number) + Len(v.sip) + Len(v.client) + Len(v.conference) <= 1
        /\ v.number # <<<<>>>>

ExactVerb == Nest({v \in Leaf : OneDestination(v)})[MAX_NESTING]

\* Two lists of verbs that differ anywhere are different documents: no field
\* is dropped, confused with another or changed by escaping, at any depth, but
\* for the second destination of a <Dial> and an empty number in one
\* (twiml.rs:112-224).
NothingLost ==
    source \in {"script", "tool"} /\ authored \in Seq(ExactVerb) =>
        \A verbs \in Scripts :
            verbs \in Seq(ExactVerb) /\ Read(render(verbs)) = Read(response.document)
            => verbs = authored

\* In a gather turn the tool is given what the caller entered, or else said:
\* nothing if they did neither, and no empty text although Twilio sends the
\* other of the two empty (webhook.rs:303-305, 372-385, 522-528).
CapturedIsEntered ==
    asked # <<>> =>
        LET sent(key) == {p[2] : p \in {q \in ToSet(req.body.form) : q[1] = key /\ q[2] # <<>>}}
        IN  /\ Route(req) # "gather" => asked[1] = <<>>
            /\ Route(req) = "gather" =>
                 ToSet(asked[1]) = IF sent("Digits") # {} THEN sent("Digits")
                                   ELSE sent("SpeechResult")
=============================================================================
