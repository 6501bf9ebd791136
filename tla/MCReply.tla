------------------------------- MODULE MCReply -------------------------------
EXTENDS Reply

MCSortedKeys == <<"Body", "Digits", "From", "SpeechResult", "To">>

MCOrigin == <<"https://", "gw">>

\* Verbs with the fields f set and every other option absent.
Gather(f) == f @@ [verb |-> "gather", input |-> <<>>, action |-> <<>>, num_digits |-> <<>>,
                   speech_timeout |-> <<>>, timeout |-> <<>>, nested |-> <<>>]
Record(f) == f @@ [verb |-> "record", action |-> <<>>, max_length |-> <<>>, play_beep |-> <<>>]
Dial(f) == f @@ [verb |-> "dial", number |-> <<>>, sip |-> <<>>, client |-> <<>>,
                 conference |-> <<>>, caller_id |-> <<>>]

x == <<"x">>

MCScripts ==
    { <<>>,
      <<Say(<<"<">>)>>, <<Say(<<"&", "lt;">>)>>, <<Say(<<"a", "\"", ">">>), Say(<<"'">>)>>,
      <<Say(x), [Say(x) EXCEPT !.voice = <<<<"\"", "&">>>>]>>,
      <<[Say(x) EXCEPT !.language = <<<<"\"", "&">>>>]>>,
      <<[verb |-> "play", url |-> <<"https://", "p", "?", "a", "=", "1", "&", "b">>]>>,
      <<[verb |-> "redirect", url |-> x], [verb |-> "hangup"]>>,
      <<[verb |-> "reject", reason |-> <<>>]>>, <<[verb |-> "reject", reason |-> <<x>>]>>,
      <<[verb |-> "pause", length |-> <<x>>]>>, <<[verb |-> "pause", length |-> <<>>]>>,
      <<Message(<<"a", " ", "b">>)>>,
      <<[verb |-> "message", body |-> x, media_url |-> <<<<"&">>, x>>]>>,
      <<Gather([nested |-> <<Say(x), Gather([input |-> <<x>>])>>, timeout |-> <<x>>])>>,
      <<Gather([nested |-> <<Dial([number |-> <<x>>, sip |-> <<x>>])>>])>>,
      <<Gather([nested |-> <<Dial([number |-> <<x>>])>>])>>,
      <<Gather([nested |-> <<Say(x)>>, num_digits |-> <<x>>]), Gather([input |-> <<x>>])>>,
      <<Gather([action |-> <<<<"/", "hooks", "?", "a", "&">>>>]), Gather([speech_timeout |-> <<x>>])>>,
      <<Record([action |-> <<x>>])>>, <<Record([max_length |-> <<x>>])>>,
      <<Record([play_beep |-> <<x>>])>> }
    \union {<<Dial(f)>> : f \in {[number |-> <<x>>], [sip |-> <<x>>], [client |-> <<x>>],
        [conference |-> <<x>>], [caller_id |-> <<x>>], [number |-> <<x>>, sip |-> <<x>>],
        [number |-> <<<<>>>>]}}

Result(verbs, parses, text) == [twiml_verbs |-> verbs, parses |-> parses, text |-> text]

MCToolResults ==
    { Result(<<>>, TRUE, <<>>), Result(<<>>, TRUE, <<<<"${From}", "<">>>>),
      Result(<<x>>, FALSE, <<<<"&">>>>), Result(<<x>>, FALSE, <<>>),
      Result(<<<<>>>>, TRUE, <<x>>), Result(<<<<[verb |-> "hangup"]>>>>, TRUE, <<x>>) }

Config(base, checks, tool, auto_reply, verbs) ==
    [auth_token |-> "token", public_base_url |-> base, validate_signature |-> checks,
     inbound_sms |-> [handler_tool |-> tool, auto_reply |-> auto_reply],
     inbound_voice |-> [handler_tool |-> tool, default_twiml_verbs |-> verbs]]

\* Everything an operator can put a placeholder in.
AllVerbs ==
    <<[Say(<<"a", "${From}", "<", "${To}">>) EXCEPT !.voice = <<<<"${From}">>>>],
      Gather([nested |-> <<Say(<<"${Body}">>)>>, action |-> <<<<"/", "hooks">>>>]),
      Message(<<"${Body}", "${Body}">>)>>

AutoReply == <<<<"hi", " ", "${From}", "&", "${Body}", "${To}">>>>

MCConfigs ==
    { Config(MCOrigin, TRUE, tool, AutoReply, AllVerbs) : tool \in {<<>>, <<"ivr">>} }
    \union { Config(base, TRUE, <<>>, <<>>, <<>>) :
                base \in {MCOrigin, MCOrigin \o <<"/", "/">>, <<"http://", "gw">>} }
    \union { Config(MCOrigin, FALSE, <<"ivr">>, <<>>, <<>>) }

\* Each with its pairs in the order they came in.
Forms ==
    { <<>>, <<<<"From", <<"+1">>>>, <<"To", <<"+2">>>>, <<"Body", <<"a", "<", "&", "lt;">>>>>>,
      <<<<"To", <<"+2">>>>, <<"From", <<"+1">>>>, <<"Body", <<"${From}", "\"", ">">>>>>>,
      <<<<"From", <<>>>>, <<"Body", <<"&">>>>>>,
      <<<<"Digits", <<"1", "2">>>>, <<"SpeechResult", <<>>>>>>,
      <<<<"SpeechResult", <<"one">>>>, <<"Digits", <<>>>>>>,
      <<<<"SpeechResult", <<"one">>>>, <<"Digits", <<"1">>>>>> }

Q(raw, pairs) == [raw |-> raw, pairs |-> pairs]

Queries ==
    { Q(<<>>, <<>>), Q(<<"q", "=", "a", "+", "b", "&", "p", "=">>, <<<<"q", <<"a", " ", "b">>>>, <<"p", <<>>>>>>),
      Q(<<"q", "=", "a", "%20", "b">>, <<<<"q", <<"a", " ", "b">>>>>>),
      Q(<<"bodySHA256", "=", "sha_json">>, <<<<"bodySHA256", <<"sha_json">>>>>>) }

Bodies == {[form |-> f, sha256 |-> "sha_form"] : f \in Forms}
          \union {[form |-> <<>>, sha256 |-> sha] : sha \in {"sha_json", "sha_other"}}

Paths == {<<"/plugins", "/twilio", "/hooks">> \o rest :
    rest \in {<<"/sms">>, <<"/voice">>, <<"/status">>, <<"/gather", "/CA1">>, <<"/media">>}}

Request(path, q, body, header) ==
    [full_path |-> path, query |-> q.pairs, raw_query |-> q.raw, body |-> body, header |-> header]

Signed(token, path, q, body) ==
    <<TwilioSigns([auth_token |-> token], Request(path, q, body, <<>>))>>

\* Signed by Twilio, with another key, for another path, for another body, or
\* not at all.
MCRequests ==
    UNION {{ Request(path, q, body, header) :
        header \in { Signed("token", path, q, body), Signed("api_key_secret", path, q, body),
                     Signed("token", <<"/moved">>, q, body),
                     Signed("token", path, q, [form |-> <<<<"To", <<"+3">>>>>>, sha256 |-> "sha_form"]),
                     <<>> } } : path \in Paths, q \in Queries, body \in Bodies}
=============================================================================
