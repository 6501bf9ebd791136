----------------------------- MODULE AtLeastOnce ------------------------------
(***************************************************************************)
(* What a caller may conclude from the outcome of a REST operation against *)
(* a service without idempotency keys: done means it took effect at least  *)
(* once, refused means it never did and never will, and a failure means    *)
(* nothing at all; an effect may even follow the answer.  src/src/rest.rs  *)
(* documents the first half ("send_sms is therefore at-least-once").       *)
(***************************************************************************)
CONSTANTS Calls,    \* the operations
          Tries     \* the occasions on which one may take effect

VARIABLES told,     \* what the caller of each operation was told
          effects   \* the occasions on which it took effect

callVars == <<told, effects>>

CallInit ==
    /\ told = [c \in Calls |-> "idle"]
    /\ effects = [c \in Calls |-> {}]

Issue(c) ==
    /\ told[c] = "idle"
    /\ told' = [told EXCEPT ![c] = "open"]
    /\ UNCHANGED effects

Effect(c, t) ==
    /\ told[c] \in {"open", "done", "failed"}
    /\ t \notin effects[c]
    /\ effects' = [effects EXCEPT ![c] = @ \union {t}]
    /\ UNCHANGED told

Succeed(c) ==
    /\ told[c] = "open"
    /\ effects[c] # {}
    /\ told' = [told EXCEPT ![c] = "done"]
    /\ UNCHANGED effects

Refuse(c) ==
    /\ told[c] \in {"idle", "open"}
    /\ effects[c] = {}
    /\ told' = [told EXCEPT ![c] = "refused"]
    /\ UNCHANGED effects

Fail(c) ==
    /\ told[c] = "open"
    /\ told' = [told EXCEPT ![c] = "failed"]
    /\ UNCHANGED effects

CallNext ==
    \E c \in Calls :
        Issue(c) \/ Succeed(c) \/ Refuse(c) \/ Fail(c) \/ \E t \in Tries : Effect(c, t)

CallSpec == CallInit /\ [][CallNext]_callVars
=============================================================================
