------------------------------ MODULE MCCaches ------------------------------
(* The caches that calls of one process share: the gateway's copy of the    *)
(* invites and the orchestrator's cards and tokens.  They do not interact;  *)
(* a behaviour is one of either, the other stays as it began.               *)
EXTENDS InviteStore, AgentCalls, TLC
CONSTANTS i1, r1, r2, r3, a1, a2, c1, c2
MCInvite == {i1}
MCReader == {r1, r2, r3}
MCAgent == {a1, a2}
MCRenewed == {a1}
MCCaller == {c1, c2}
Symmetry == Permutations(MCReader) \cup Permutations(MCCaller)

VARIABLE subject
MCInit == Init /\ CallsInit /\ subject \in {"invites", "calls"}
MCNext ==
  \/ subject = "invites" /\ Next /\ UNCHANGED <<calls, subject>>
  \/ subject = "calls" /\ CallsNext /\ UNCHANGED <<vars, subject>>
MCSpec == MCInit /\ [][MCNext]_<<vars, calls, subject>>
=============================================================================
