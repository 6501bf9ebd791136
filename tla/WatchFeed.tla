------------------------------ MODULE WatchFeed ------------------------------
(***************************************************************************)
(* What the native watch push promises a watching client, with nothing of  *)
(* how it is done: a best-effort, ordered, at-most-once feed of the        *)
(* inbound notices whose kind the watch asked for (src/README.md, "Native  *)
(* push"; src/src/state.rs:1-23).  Any notice may be lost, none is         *)
(* repeated or reordered, and cancelling a watch cuts its feed at the      *)
(* notices published so far.                                               *)
(***************************************************************************)
EXTENDS Naturals, Sequences

CONSTANTS Watches,     \* the registrations the host may ask for
          ALL_KINDS    \* the notice kinds: "sms", "voice" and "status"

VARIABLES sent,        \* the kinds of the notices published, oldest first
          status,      \* "new", "live" or "cancelled", per watch
          kinds,       \* the filter of each watch
          emitted,     \* the positions in sent emitted to each watch, in order
          until        \* Len(sent) when the watch was cancelled

feedVars == <<sent, status, kinds, emitted, until>>

LastEmitted(w) == IF emitted[w] = <<>> THEN 0 ELSE emitted[w][Len(emitted[w])]

FeedInit ==
    /\ sent = <<>>
    /\ status = [w \in Watches |-> "new"]
    /\ kinds = [w \in Watches |-> {}]
    /\ emitted = [w \in Watches |-> <<>>]
    /\ until = [w \in Watches |-> 0]

Announce(k) ==
    /\ sent' = Append(sent, k)
    /\ UNCHANGED <<status, kinds, emitted, until>>

Open(w, ks) ==
    /\ status[w] = "new"
    /\ status' = [status EXCEPT ![w] = "live"]
    /\ kinds' = [kinds EXCEPT ![w] = ks]
    /\ UNCHANGED <<sent, emitted, until>>

Close(w) ==
    /\ status[w] = "live"
    /\ status' = [status EXCEPT ![w] = "cancelled"]
    /\ until' = [until EXCEPT ![w] = Len(sent)]
    /\ UNCHANGED <<sent, kinds, emitted>>

\* A tick for notice p: after every earlier tick, of a kind the watch asked
\* for, and published before the watch was cancelled.
Tick(w, p) ==
    /\ status[w] # "new"
    /\ p > LastEmitted(w)
    /\ sent[p] \in kinds[w]
    /\ status[w] = "cancelled" => p <= until[w]
    /\ emitted' = [emitted EXCEPT ![w] = Append(@, p)]
    /\ UNCHANGED <<sent, status, kinds, until>>

FeedNext ==
    \/ \E k \in ALL_KINDS : Announce(k)
    \/ \E w \in Watches :
          \/ \E ks \in SUBSET ALL_KINDS : Open(w, ks)
          \/ Close(w)
          \/ \E p \in 1..Len(sent) : Tick(w, p)

FeedSpec == FeedInit /\ [][FeedNext]_feedVars
=============================================================================
