---------------------------- MODULE MCVoiceControl ----------------------------
(***************************************************************************)
(* Small instances of VoiceControl for TLC.  MaxNow bounds the clock and   *)
(* MaxScripts what the agents stage; the requests are finite already.      *)
(***************************************************************************)
EXTENDS VoiceControl

CONSTANTS MaxNow, MaxScripts

MCTick == now < MaxNow /\ Tick

MCAgent == Len(stagings) < MaxScripts /\ Agent

MCNext ==
    MCTick \/ MCAgent \/ \E r \in Requests : HandleVoice(r) \/ HandlerTool(r)

MCSpec == Init /\ [][MCNext]_vars

MCFairSpec == MCSpec /\ Fairness
=============================================================================
