---------------------------- MODULE InviteStore ----------------------------
(***************************************************************************)
(* The gateway's copy of the invite document:                              *)
(* SecretManagerInviteStore.invites (api_gateway/invites.py), which keeps  *)
(* the last document read for at most a time to live, and the document     *)
(* itself, which the owner changes with scripts/invites.py.                *)
(*                                                                         *)
(* A session check is a plain function that the web framework runs in a    *)
(* worker thread, once more on the event loop for a question, so several   *)
(* calls of invites() overlap and nothing locks the two attributes they    *)
(* read and write.  One action is one such read or write.                  *)
(*                                                                         *)
(* Expiry is checked against the clock on every lookup, whatever copy is   *)
(* used, and is left out; so is the content of an invite.                  *)
(***************************************************************************)
EXTENDS Integers

CONSTANTS
  Invite,    \* ids of invites, each created once and revoked at most once
  Reader,    \* calls of invites() under way at a time
  TTL,       \* the time a copy is used for
  ReadS,     \* the longest one call of invites() takes
  MaxTime    \* bound of the model: the clock stops there

ASSUME StoreAssumption == TTL \in Nat \ {0} /\ ReadS \in Nat /\ MaxTime \in Nat

VARIABLES
  now,       \* the clock
  document,  \* the invites in the latest version of the secret
  cached,    \* self._cached
  at,        \* self._at
  pc,        \* pc[r]: the next step of call r
  clock,     \* clock[r]: its local now
  fetched,   \* fetched[r]: the document it has read
  changed,   \* history, changed[i]: when i was created or revoked
  failed     \* history: when the latest read that failed began

vars == <<now, document, cached, at, pc, clock, fetched, changed, failed>>

NoTime == -1

Init ==
  /\ now = 0
  /\ document \in SUBSET Invite
  /\ cached = {}
  /\ at = NoTime
  /\ pc = [r \in Reader |-> "idle"]
  /\ clock = [r \in Reader |-> 0]
  /\ fetched = [r \in Reader |-> {}]
  /\ changed = [i \in Invite |-> NoTime]
  /\ failed = NoTime

-----------------------------------------------------------------------------
(* SecretManagerInviteStore.invites.                                       *)

Clock(r) ==
  /\ pc[r] = "idle"
  /\ clock' = [clock EXCEPT ![r] = now]
  /\ pc' = [pc EXCEPT ![r] = "check"]
  /\ UNCHANGED <<now, document, cached, at, fetched, changed, failed>>

\* Mutated form: a copy is dropped only after a second time to live.
FreshTwice(r) == at # NoTime /\ clock[r] - at < 2 * TTL

Fresh(r) == at # NoTime /\ clock[r] - at < TTL

Check(r) ==
  /\ pc[r] = "check"
  /\ pc' = [pc EXCEPT ![r] = IF Fresh(r) THEN "return" ELSE "fetch"]
  /\ UNCHANGED <<now, document, cached, at, clock, fetched, changed, failed>>

Fetch(r) ==
  /\ pc[r] = "fetch"
  /\ fetched' = [fetched EXCEPT ![r] = document]
  /\ pc' = [pc EXCEPT ![r] = "store"]
  /\ UNCHANGED <<now, document, cached, at, clock, changed, failed>>

\* Any exception is suppressed: the copy stays and is stamped all the same.
FetchFails(r) ==
  /\ pc[r] = "fetch"
  /\ failed' = IF clock[r] > failed THEN clock[r] ELSE failed
  /\ pc' = [pc EXCEPT ![r] = "stamp"]
  /\ UNCHANGED <<now, document, cached, at, clock, fetched, changed>>

Store(r) ==
  /\ pc[r] = "store"
  /\ cached' = fetched[r]
  /\ pc' = [pc EXCEPT ![r] = "stamp"]
  /\ UNCHANGED <<now, document, at, clock, fetched, changed, failed>>

\* Mutated form: stamped with the time the read ended.
StampOfEnd(r) == now

\* The time the read began.
StampOf(r) == clock[r]

Stamp(r) ==
  /\ pc[r] = "stamp"
  /\ at' = StampOf(r)
  /\ pc' = [pc EXCEPT ![r] = "return"]
  /\ UNCHANGED <<now, document, cached, clock, fetched, changed, failed>>

\* Answers with what self._cached is now; the locals of the call are gone.
Return(r) ==
  /\ pc[r] = "return"
  /\ pc' = [pc EXCEPT ![r] = "idle"]
  /\ clock' = [clock EXCEPT ![r] = 0]
  /\ fetched' = [fetched EXCEPT ![r] = {}]
  /\ UNCHANGED <<now, document, cached, at, changed, failed>>

-----------------------------------------------------------------------------
(* The owner, the process and the clock.                                   *)

Create(i) ==
  /\ i \notin document /\ changed[i] = NoTime
  /\ document' = document \cup {i}
  /\ changed' = [changed EXCEPT ![i] = now]
  /\ UNCHANGED <<now, cached, at, pc, clock, fetched, failed>>

Revoke(i) ==
  /\ i \in document
  /\ document' = document \ {i}
  /\ changed' = [changed EXCEPT ![i] = now]
  /\ UNCHANGED <<now, cached, at, pc, clock, fetched, failed>>

Restart ==
  /\ cached' = {}
  /\ at' = NoTime
  /\ pc' = [r \in Reader |-> "idle"]
  /\ clock' = [r \in Reader |-> 0]
  /\ fetched' = [r \in Reader |-> {}]
  /\ UNCHANGED <<now, document, changed, failed>>

Tick ==
  /\ now < MaxTime
  /\ \A r \in Reader : pc[r] # "idle" => now < clock[r] + ReadS
  /\ now' = now + 1
  /\ UNCHANGED <<document, cached, at, pc, clock, fetched, changed, failed>>

-----------------------------------------------------------------------------
Call(r) ==
  Clock(r) \/ Check(r) \/ Fetch(r) \/ FetchFails(r) \/ Store(r) \/ Stamp(r) \/ Return(r)

Next ==
  \/ \E r \in Reader : Call(r)
  \/ \E i \in Invite : Create(i) \/ Revoke(i)
  \/ Restart
  \/ Tick

Spec == Init /\ [][Next]_vars

-----------------------------------------------------------------------------
PCs == {"idle", "check", "fetch", "store", "stamp", "return"}

\* Types; no stamp and no history lies in the future.
TypeOK ==
  /\ now \in 0..MaxTime
  /\ document \subseteq Invite /\ cached \subseteq Invite
  /\ at \in {NoTime} \cup 0..now
  /\ pc \in [Reader -> PCs]
  /\ clock \in [Reader -> 0..now]
  /\ fetched \in [Reader -> SUBSET Invite]
  /\ changed \in [Invite -> {NoTime} \cup 0..now]
  /\ failed \in {NoTime} \cup 0..now

\* A call that answers with a revoked invite, or without one that was created,
\* does so within a time to live of the change, give or take the time a call
\* takes at either end, or within a time to live of a read that failed
\* (invites.py:10-11, :173-176): overlapping calls may store an older document
\* over a newer one, or stamp it with a later time, but not for longer.
AnswersAreRecent ==
  \A r \in Reader, i \in Invite :
    pc[r] = "return" /\ (i \in cached) # (i \in document) =>
      \/ now < changed[i] + ReadS + TTL + ReadS
      \/ now < failed + TTL + ReadS
=============================================================================
