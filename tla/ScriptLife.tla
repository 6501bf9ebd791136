----------------------------- MODULE ScriptLife ------------------------------
(***************************************************************************)
(* The life of a staged script, as stage_call_response and the voice       *)
(* webhook promise it to the agent that stages one (src/README.md, "Live   *)
(* call control"; src/src/state.rs:8-9, "serve once and then consume       *)
(* (TTL'd)"): it is open from the moment it is staged, and ends exactly    *)
(* once, served to a call before it expires or gone: replaced by a later   *)
(* script for the same key, or found expired.                              *)
(***************************************************************************)
EXTENDS Naturals, Sequences

CONSTANTS Keys,        \* what scripts are filed under
          Ttls         \* how long they may be asked to last

VARIABLES stagings,    \* every script staged, oldest first: [key, expires_at]
          life,        \* what became of each: "open", "served" or "gone"
          now          \* the monotonic clock

lifeVars == <<stagings, life, now>>

LifeInit ==
    /\ stagings = <<>>
    /\ life = <<>>
    /\ now = 0

File(k, ttl) ==
    /\ stagings' = Append(stagings, [key |-> k, expires_at |-> now + ttl])
    /\ life' = [i \in 1..(Len(stagings) + 1) |->
                  IF i = Len(stagings) + 1 THEN "open"
                  ELSE IF stagings[i].key = k /\ life[i] = "open" THEN "gone"
                  ELSE life[i]]
    /\ UNCHANGED now

Serve(i) ==
    /\ life[i] = "open"
    /\ stagings[i].expires_at > now
    /\ life' = [life EXCEPT ![i] = "served"]
    /\ UNCHANGED <<stagings, now>>

Expire(i) ==
    /\ life[i] = "open"
    /\ stagings[i].expires_at <= now
    /\ life' = [life EXCEPT ![i] = "gone"]
    /\ UNCHANGED <<stagings, now>>

Pass ==
    /\ now' = now + 1
    /\ UNCHANGED <<stagings, life>>

LifeNext ==
    \/ \E k \in Keys, ttl \in Ttls : File(k, ttl)
    \/ \E i \in DOMAIN stagings : Serve(i) \/ Expire(i)
    \/ Pass

LifeSpec == LifeInit /\ [][LifeNext]_lifeVars
=============================================================================
