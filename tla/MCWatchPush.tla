----------------------------- MODULE MCWatchPush -----------------------------
(***************************************************************************)
(* Small instances of WatchPush for TLC.  MaxNotices bounds what the       *)
(* webhooks publish; everything else is finite without a bound.            *)
(***************************************************************************)
EXTENDS WatchPush, TLC

CONSTANT MaxNotices

MCNotify(k) == Len(sent) < MaxNotices /\ NotifyInbound(k)

MCNext == StageOverflow \/ (\E k \in ALL_KINDS : MCNotify(k)) \/ Host \/ Dispatcher

MCSpec == Init /\ [][MCNext]_vars

WatchSymmetry == Permutations(Watches)
=============================================================================
