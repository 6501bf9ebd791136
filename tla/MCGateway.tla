------------------------------ MODULE MCGateway -------------------------------
(***************************************************************************)
(* Small instances of Gateway for TLC.  A request happens once, a watch is *)
(* registered once and an entity built once: the sets bound everything.    *)
(* MCArrivals and MCFilters leave out what Inbound and WatchPush are run   *)
(* with already.                                                           *)
(***************************************************************************)
EXTENDS Gateway, TLC

CONSTANTS MCArrivals,   \* <<kind, whether it names a SID, whether a status>>
          MCFilters     \* the kinds a watch may ask for

Named(yes, names) == IF yes THEN names ELSE {None}

MCWebhook(r) ==
    \/ /\ \E a \in MCArrivals : \E s \in Named(a[2], Sids), st \in Named(a[3], Statuses) :
             Accept(r, a[1], s, st)
       /\ UNCHANGED <<poisoned, panicked, watchVars>>
    \/ Handler(r)

MCHost ==
    \/ \E w \in Watches : (\E ks \in MCFilters : Watch(w, ks)) \/ Cancel(w)
    \/ \E e \in Entities : StartEntity(e) \/ DropEntity(e)

MCNext ==
    \/ StageOverflow
    \/ \E r \in Requests : MCWebhook(r)
    \/ MCHost
    \/ \E e \in Entities : Dispatcher(e)

MCSpec == GatewayInit /\ [][MCNext]_gatewayVars
MCFairSpec == MCSpec /\ GatewayFairness

\* Of what may come in: a call and a status callback, each with its SID, and an
\* SMS, which no watch asks for.
Arrivals == {<<"voice", TRUE, FALSE>>, <<"status", TRUE, TRUE>>, <<"sms", FALSE, FALSE>>}
Filters == {{"voice", "status"}}

\* Calls alone, and a watch of every kind.
Calls == {<<"voice", TRUE, FALSE>>}
EveryKind == {ALL_KINDS}

Symmetry == Permutations(Requests) \union Permutations(Entities)

\* The invariants say nothing of the clock, of since, until and missed, and no
\* guard reads them.
SafetyView == <<stateVars, pc, paramVars, reply, poisoned, panicked, registry, filters,
                dispVars, emitted, audience>>

\* See NoticeTicks.  No more notices than requests.
EveryNoticeTicks == \A n \in {1, 2} : NoticeTicks(n)
=============================================================================
