------------------------------ MODULE Signature ------------------------------
(***************************************************************************)
(* X-Twilio-Signature (src/src/signature.rs).  A parameter is a pair of a  *)
(* key and a text.  HMAC-SHA1 and SHA-256 are ideal: a MAC is the pair of  *)
(* its key and its data, a digest a name of the body.                      *)
(***************************************************************************)
EXTENDS SequencesExt

CONSTANT SortedKeys     \* every key a parameter may have, in byte order

ASSUME SortedKeysAssumption ==
    SortedKeys \in Seq(STRING) /\ IsInjective(SortedKeys)

HmacB64(key, data) == [key |-> key, data |-> data]

\* Slip: the parameters are signed in the order they came in.
SlipAsReceived(params) == params

PairsOf(params, key) ==
    FlattenSeq([i \in DOMAIN params |-> IF params[i][1] = key THEN <<params[i]>> ELSE <<>>])

\* The sort is stable: pairs of one key keep their order.
SortByKey(params) == FlattenSeq([i \in DOMAIN SortedKeys |-> PairsOf(params, SortedKeys[i])])

\* Each key is followed by its value, without delimiters.
Concatenated(params) == FlattenSeq([i \in DOMAIN params |-> <<params[i][1]>> \o params[i][2]])

ExpectedSignatureForm(auth_token, url, params) ==
    HmacB64(auth_token, url \o Concatenated(SortByKey(params)))

ExpectedSignatureJson(auth_token, url_with_body_sha) == HmacB64(auth_token, url_with_body_sha)

BodySha256Hex(body) == <<body.sha256>>

Verify(expected, provided) == expected = provided
=============================================================================
