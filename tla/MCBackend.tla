----------------------------- MODULE MCBackend ------------------------------
(* Backend on a small instance.  The bindings differ in all that a call tells *)
(* apart; the last two are refused.                                           *)
EXTENDS Backend, TLC

CONSTANTS number, other, service, key

Binding(op, creds, from, svc, surface) ==
    [op |-> op, form |-> "in_order", creds |-> creds, from |-> from,
     service |-> svc, surface |-> surface, uri |-> None]

MCSpecs ==
    { Binding("send_sms", key, number, None, "tool"),
      Binding("send_sms", key, None, service, "tool"),
      Binding("make_call", key, None, None, "prompt"),
      Binding("messages", key, None, None, "resource"),
      Binding("local", None, None, None, "tool"),
      Binding("send_sms", None, number, None, "tool"),
      [Binding("other", key, None, None, "tool") EXCEPT !.form = "malformed"] }

Argument(form, from, uri) ==
    [form |-> form, from |-> from, service |-> None, uri |-> uri]

MCArgs ==
    { Argument("in_order", None, None),
      Argument("in_order", other, "uri"),
      Argument("malformed", None, None) }

Symmetry == Permutations(Names)
=============================================================================
