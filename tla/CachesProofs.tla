---------------------------- MODULE CachesProofs ----------------------------
(***************************************************************************)
(* Theorems about what calls of one process share: the gateway's copy of   *)
(* the invites (InviteStore), for every time to live, length of a call and *)
(* number of overlapping calls, and the orchestrator's agent cards and     *)
(* tokens (AgentCalls), for every set of agents and callers and all times. *)
(***************************************************************************)
EXTENDS InviteStore, AgentCalls, TLAPS

-----------------------------------------------------------------------------
(* The copy of the invites is never used for longer than AnswersAreRecent  *)
(* allows.  The invariant follows an invite on which the copy and the      *)
(* document differ.  A document that was read too early was read by a call *)
(* that began before the change (OldReads); it is stored at most ReadS     *)
(* after the change; so whatever stamp the copy carries, its own or        *)
(* another call's, is no later than that, or than a failed read (Cause);   *)
(* and so a call that is content with the copy began within TTL of it      *)
(* (OldCopy).                                                              *)

\* The copy and the document differ on i.
Differs(i) == (i \in cached) # (i \in document)

\* t is no later than a change of i allows, or than a read that failed.
Cause(i, t) == t <= changed[i] + ReadS \/ t <= failed

Bounded ==
  \A r \in Reader : pc[r] # "idle" => now <= clock[r] + ReadS

OldReads ==
  \A r \in Reader, i \in Invite :
    pc[r] = "store" /\ (i \in fetched[r]) # (i \in document) => clock[r] <= changed[i]

OldCopy ==
  \A i \in Invite : Differs(i) =>
    /\ at # NoTime => Cause(i, at)
    /\ \A r \in Reader :
         /\ pc[r] = "stamp" => Cause(i, clock[r])
         /\ pc[r] = "return" => \E t \in {NoTime} \cup Nat : Cause(i, t) /\ clock[r] < t + TTL

StoreInv == TypeOK /\ Bounded /\ OldReads /\ OldCopy

LEMMA StoreTyped == TypeOK /\ [Next]_vars => TypeOK'
<1> SUFFICES ASSUME TypeOK, [Next]_vars PROVE TypeOK'
  OBVIOUS
<1> USE StoreAssumption DEF TypeOK, PCs, NoTime
<1>1. ASSUME NEW r \in Reader, Call(r) PROVE TypeOK'
  <2>1. CASE Clock(r)  BY <2>1 DEF Clock
  <2>2. CASE Check(r)  BY <2>2 DEF Check
  <2>3. CASE Fetch(r)  BY <2>3 DEF Fetch
  <2>4. CASE FetchFails(r)  BY <2>4 DEF FetchFails
  <2>5. CASE Store(r)  BY <2>5 DEF Store
  <2>6. CASE Stamp(r)  BY <2>6 DEF Stamp, StampOf
  <2>7. CASE Return(r)  BY <2>7 DEF Return
  <2> QED BY <1>1, <2>1, <2>2, <2>3, <2>4, <2>5, <2>6, <2>7 DEF Call
<1>2. ASSUME NEW i \in Invite, Create(i) PROVE TypeOK'
  BY <1>2 DEF Create
<1>3. ASSUME NEW i \in Invite, Revoke(i) PROVE TypeOK'
  BY <1>3 DEF Revoke
<1>4. CASE Restart  BY <1>4 DEF Restart
<1>5. CASE Tick  BY <1>5 DEF Tick
<1>6. CASE UNCHANGED vars  BY <1>6 DEF vars
<1> QED BY <1>1, <1>2, <1>3, <1>4, <1>5, <1>6 DEF Next

LEMMA StoreInitial == Init => StoreInv
  BY StoreAssumption
  DEF Init, StoreInv, TypeOK, PCs, NoTime, Bounded, OldReads, OldCopy

\* A step of a call.  Only Store changes the copy and only Stamp its time.
LEMMA CallStep ==
  ASSUME StoreInv, TypeOK', NEW q \in Reader, Call(q)
  PROVE  Bounded' /\ OldReads' /\ OldCopy'
<1> USE StoreAssumption DEF StoreInv, TypeOK, PCs, NoTime
<1>1. CASE Clock(q)
  BY <1>1 DEF Clock, Bounded, OldReads, OldCopy, Differs, Cause
<1>2. CASE Check(q)
  <2>1. Bounded' /\ OldReads'
    BY <1>2 DEF Check, Bounded, OldReads
  <2>2. OldCopy'
    BY <1>2 DEF Check, Fresh, OldCopy, Differs, Cause
  <2> QED BY <2>1, <2>2
<1>3. CASE Fetch(q)
  BY <1>3 DEF Fetch, Bounded, OldReads, OldCopy, Differs, Cause
<1>4. CASE FetchFails(q)
  <2>1. failed <= failed' /\ clock[q] <= failed'
    BY <1>4 DEF FetchFails
  <2>2. Bounded' /\ OldReads'
    BY <1>4 DEF FetchFails, Bounded, OldReads
  <2>3. OldCopy'
    BY <1>4, <2>1 DEF FetchFails, OldCopy, Differs, Cause
  <2> QED BY <2>2, <2>3
<1>5. CASE Store(q)
  <2>1. Bounded' /\ OldReads'
    BY <1>5 DEF Store, Bounded, OldReads
  <2>2. ASSUME NEW i \in Invite, Differs(i)' PROVE now <= changed[i] + ReadS
    BY <1>5, <2>2 DEF Store, Differs, Bounded, OldReads
  <2>3. ASSUME NEW i \in Invite, Differs(i)', NEW t \in {NoTime} \cup 0..now
        PROVE  Cause(i, t)'
    BY <1>5, <2>2, <2>3 DEF Store, Cause
  <2>4. OldCopy'
    BY <1>5, <2>3 DEF Store, OldCopy
  <2> QED BY <2>1, <2>4
<1>6. CASE Stamp(q)
  <2>1. Bounded' /\ OldReads'
    BY <1>6 DEF Stamp, Bounded, OldReads
  <2>2. OldCopy'
    BY <1>6 DEF Stamp, StampOf, OldCopy, Differs, Cause
  <2> QED BY <2>1, <2>2
<1>7. CASE Return(q)
  BY <1>7 DEF Return, Bounded, OldReads, OldCopy, Differs, Cause
<1> QED BY <1>1, <1>2, <1>3, <1>4, <1>5, <1>6, <1>7 DEF Call

\* A change of the document: no stamp and no call is younger than it.
LEMMA ChangeStep ==
  ASSUME StoreInv, TypeOK', NEW j \in Invite, Create(j) \/ Revoke(j)
  PROVE  Bounded' /\ OldReads' /\ OldCopy'
<1> USE StoreAssumption DEF StoreInv, TypeOK, NoTime
<1>1. /\ changed' = [changed EXCEPT ![j] = now]
      /\ \A i \in Invite \ {j} : i \in document' <=> i \in document
      /\ UNCHANGED <<now, cached, at, pc, clock, fetched, failed>>
  BY DEF Create, Revoke
<1>2. Bounded'
  BY <1>1 DEF Bounded
<1>3. OldReads'
  BY <1>1 DEF OldReads
<1>4. ASSUME NEW i \in Invite, i # j, Differs(i)'
      PROVE  Differs(i) /\ \A t \in Int : Cause(i, t)' <=> Cause(i, t)
  BY <1>1, <1>4 DEF Differs, Cause
<1>5. ASSUME NEW t \in {NoTime} \cup 0..now PROVE Cause(j, t)'
  BY <1>1, <1>5 DEF Cause
<1>6. OldCopy'
  BY <1>1, <1>4, <1>5 DEF OldCopy
<1> QED BY <1>2, <1>3, <1>6

LEMMA OtherStep ==
  ASSUME StoreInv, TypeOK', Restart \/ Tick \/ UNCHANGED vars
  PROVE  Bounded' /\ OldReads' /\ OldCopy'
<1> USE StoreAssumption DEF StoreInv, TypeOK, NoTime
<1>1. CASE Restart
  BY <1>1 DEF Restart, Bounded, OldReads, OldCopy
<1>2. CASE Tick
  BY <1>2 DEF Tick, Bounded, OldReads, OldCopy, Differs, Cause
<1>3. CASE UNCHANGED vars
  BY <1>3 DEF vars, Bounded, OldReads, OldCopy, Differs, Cause
<1> QED BY <1>1, <1>2, <1>3

LEMMA StoreInvAlways == Spec => []StoreInv
<1>1. StoreInv /\ [Next]_vars => StoreInv'
  <2> SUFFICES ASSUME StoreInv, [Next]_vars PROVE StoreInv'
    OBVIOUS
  <2>1. TypeOK'
    BY StoreTyped DEF StoreInv
  <2>2. Bounded' /\ OldReads' /\ OldCopy'
    BY <2>1, CallStep, ChangeStep, OtherStep DEF Next
  <2> QED BY <2>1, <2>2 DEF StoreInv
<1> QED BY <1>1, StoreInitial, PTL DEF Spec

\* Every variable keeps its type and no stamp lies in the future, whatever
\* calls overlap.
THEOREM StoreTypes == Spec => []TypeOK
<1>1. StoreInv => TypeOK
  BY DEF StoreInv
<1> QED BY <1>1, StoreInvAlways, PTL

\* A call answers with a copy that is out of date only within a time to live
\* and two call lengths of the change, or so soon after a read that failed.
THEOREM CopyIsRecent == Spec => []AnswersAreRecent
<1>1. StoreInv => AnswersAreRecent
  <2> SUFFICES ASSUME StoreInv, NEW r \in Reader, NEW i \in Invite,
                      pc[r] = "return", Differs(i)
               PROVE  \/ now < changed[i] + ReadS + TTL + ReadS
                      \/ now < failed + TTL + ReadS
    BY DEF AnswersAreRecent, Differs
  <2> USE StoreAssumption DEF StoreInv, TypeOK, NoTime
  <2>1. now <= clock[r] + ReadS
    BY DEF Bounded
  <2>2. PICK t \in {NoTime} \cup Nat : Cause(i, t) /\ clock[r] < t + TTL
    BY DEF OldCopy
  <2> QED BY <2>1, <2>2 DEF Cause
<1> QED BY <1>1, StoreInvAlways, PTL

-----------------------------------------------------------------------------
(* The token a request carries, the provider's one lock, and how long a    *)
(* redeployed agent's old card can be served.                              *)

Stages == {"idle", "lock", "token", "card", "served", "message"}
Cards == {"none", "old", "new"}

Typed ==
  /\ since \in [Agent -> Nat \cup {Never}]
  /\ cards \in [Agent -> [card : Cards, left : 0..CardTTL]]
  /\ tokens \in [Agent -> Nat]
  /\ queue \in Seq(Caller)
  /\ stage \in [Caller -> Stages]
  /\ to \in [Caller -> Agent \cup {"none"}]
  /\ \A c \in Caller : stage[c] # "idle" => to[c] \in Agent
  /\ left \in [Caller -> 0..Cap]
  /\ token \in [Caller -> Nat]
  /\ card \in [Caller -> Cards]
  /\ late \in [Agent -> BOOLEAN]

LEMMA Joined ==
  ASSUME NEW S, NEW s \in Seq(S), NEW t \in Seq(S)
  PROVE  /\ s \o t \in Seq(S) /\ Len(s \o t) = Len(s) + Len(t)
         /\ \A i \in 1..(Len(s) + Len(t)) :
              (s \o t)[i] = IF i <= Len(s) THEN s[i] ELSE t[i - Len(s)]
  OBVIOUS

\* Leaving the queue leaves a queue.
LEMMA QueueLeftType ==
  ASSUME NEW c \in Caller, queue \in Seq(Caller), \E i \in DOMAIN queue : queue[i] = c
  PROVE  /\ QueueLeft(c) \in Seq(Caller)
         /\ Place(c) \in 1..Len(queue) /\ queue[Place(c)] = c
         /\ Len(QueueLeft(c)) = Len(queue) - 1
         /\ \A i \in 1..(Len(queue) - 1) :
              QueueLeft(c)[i] = IF i < Place(c) THEN queue[i] ELSE queue[i + 1]
<1>1. Place(c) \in 1..Len(queue) /\ queue[Place(c)] = c
  BY DEF Place
<1> DEFINE k == Place(c)
           front == SubSeq(queue, 1, k - 1)
           back == SubSeq(queue, k + 1, Len(queue))
<1>2. /\ front \in Seq(Caller) /\ Len(front) = k - 1
      /\ \A i \in 1..(k - 1) : front[i] = queue[i]
  BY <1>1
<1>3. /\ back \in Seq(Caller) /\ Len(back) = Len(queue) - k
      /\ \A i \in 1..(Len(queue) - k) : back[i] = queue[k + i]
  BY <1>1
<1>4. QueueLeft(c) = front \o back
  BY DEF QueueLeft, Without
<1> HIDE DEF k, front, back
<1>5. k \in 1..Len(queue) /\ queue[k] = c
  BY <1>1 DEF k
<1>6. /\ QueueLeft(c) \in Seq(Caller) /\ Len(QueueLeft(c)) = Len(queue) - 1
      /\ \A i \in 1..(Len(queue) - 1) :
           QueueLeft(c)[i] = IF i <= Len(front) THEN front[i] ELSE back[i - Len(front)]
  <2>1. Len(front) + Len(back) = Len(queue) - 1
    BY <1>2, <1>3, <1>5
  <2> QED
    BY SMTT(20), <1>2, <1>3, <1>4, <2>1, Joined
<1>7. \A i \in 1..(Len(queue) - 1) :
        QueueLeft(c)[i] = IF i < k THEN queue[i] ELSE queue[i + 1]
  <2> SUFFICES ASSUME NEW i \in 1..(Len(queue) - 1)
               PROVE  QueueLeft(c)[i] = IF i < k THEN queue[i] ELSE queue[i + 1]
    OBVIOUS
  <2>1. CASE i < k
    BY <1>2, <1>5, <1>6, <2>1
  <2>2. CASE ~(i < k)
    BY <1>2, <1>3, <1>5, <1>6, <2>2
  <2> QED
    BY <2>1, <2>2
<1> QED
  BY <1>5, <1>6, <1>7 DEF k

LEMMA TypedInit == CallsInit => Typed
  BY CallsAssumption DEF CallsInit, Typed, Stages, Cards, NoCard, Never

\* A call that ends leaves its locals typed.
LEMMA EndsType ==
  ASSUME Typed, NEW c \in Caller, Ends(c)
  PROVE  /\ stage' \in [Caller -> Stages]
         /\ to' \in [Caller -> Agent \cup {"none"}]
         /\ \A d \in Caller : stage'[d] # "idle" => to'[d] \in Agent
         /\ left' \in [Caller -> 0..Cap] /\ token' \in [Caller -> Nat] /\ card' \in [Caller -> Cards]
<1> USE CallsAssumption DEF Typed, Ends
<1>1. stage' \in [Caller -> Stages] /\ card' \in [Caller -> Cards]
  BY DEF Stages, Cards
<1>2. left' \in [Caller -> 0..Cap] /\ token' \in [Caller -> Nat]
  OBVIOUS
<1>3. to' \in [Caller -> Agent \cup {"none"}]
      /\ \A d \in Caller : stage'[d] # "idle" => to'[d] \in Agent
  OBVIOUS
<1> QED
  BY <1>1, <1>2, <1>3

LEMMA CallerStep ==
  ASSUME Typed, NEW c \in Caller, Sends(c),
         stage[c] \in {"lock", "token"} => \E i \in DOMAIN queue : queue[i] = c
  PROVE  Typed'
<1> USE CallsAssumption DEF Typed, Stages, Cards, NoCard
<1>1. ASSUME NEW a \in Agent, NEW timeout \in 1..Cap, Start(c, a, timeout) PROVE Typed'
  BY <1>1 DEF Start
<1>2. ASSUME TokenKnown(c) PROVE Typed'
  <2>1. Holds(c) /\ to[c] \in Agent /\ queue' = Tail(queue)
    BY <1>2 DEF TokenKnown
  <2>2. queue' \in Seq(Caller)
    BY <2>1 DEF Holds
  <2> QED
    BY <1>2, <2>1, <2>2 DEF TokenKnown, Proceed
<1>3. ASSUME AskToken(c) PROVE Typed'
  BY <1>3 DEF AskToken
<1>4. ASSUME TokenFails(c) PROVE Typed'
  <2>1. queue' \in Seq(Caller)
    BY <1>4 DEF TokenFails
  <2>2. UNCHANGED <<since, cards, tokens, late>> /\ Ends(c)
    BY <1>4 DEF TokenFails
  <2> QED
    BY <2>1, <2>2, EndsType DEF Stages
<1>5. ASSUME NEW read \in {0, Life}, TokenArrives(c, read) PROVE Typed'
  <2>1. queue' \in Seq(Caller) /\ to[c] \in Agent
    BY <1>5 DEF TokenArrives
  <2>2. tokens' = [tokens EXCEPT ![to[c]] = read] /\ Proceed(c, Life)
    BY <1>5 DEF TokenArrives
  <2>3. /\ tokens' \in [Agent -> Nat] /\ token' \in [Caller -> Nat]
        /\ card' \in [Caller -> Cards] /\ stage' \in [Caller -> Stages]
    BY <2>1, <2>2 DEF Proceed
  <2>4. UNCHANGED <<since, cards, to, left, late>>
    BY <1>5 DEF TokenArrives
  <2>5. \A d \in Caller : stage'[d] # "idle" => to'[d] \in Agent
    BY <2>1, <2>2, <2>4 DEF Proceed
  <2> QED
    BY <2>1, <2>3, <2>4, <2>5 DEF Stages, Cards
<1>6. ASSUME ServeCard(c) PROVE Typed'
  BY <1>6 DEF ServeCard
<1>7. ASSUME CardArrives(c) PROVE Typed'
  BY <1>7 DEF CardArrives, Put
<1>8. ASSUME Answered(c) PROVE Typed'
  BY <1>8 DEF Answered, Ends
<1>9. ASSUME ExchangeFails(c) \/ TimesOutExchanging(c) PROVE Typed'
  <2>1. to[c] \in Agent
    BY <1>9 DEF ExchangeFails, TimesOutExchanging, Exchanging
  <2>2. cards' = [cards EXCEPT ![to[c]] = NoCard]
        /\ late' = [late EXCEPT ![to[c]] = late[to[c]] \/ since[to[c]] > Cap]
    BY <1>9 DEF ExchangeFails, TimesOutExchanging, Dropped
  <2>3. cards' \in [Agent -> [card : Cards, left : 0..CardTTL]]
    BY <2>1, <2>2
  <2>4. late' \in [Agent -> BOOLEAN]
    <3>1. (late[to[c]] \/ since[to[c]] > Cap) \in BOOLEAN
      OBVIOUS
    <3> QED
      BY <2>1, <2>2, <3>1, Zenon
  <2>5. /\ UNCHANGED <<since, tokens, queue>> /\ Ends(c)
    BY <1>9 DEF ExchangeFails, TimesOutExchanging
  <2> QED
    BY <2>3, <2>4, <2>5 DEF Ends
<1>10. ASSUME TimesOutWaiting(c) PROVE Typed'
  <2>1. queue' \in Seq(Caller)
    BY <1>10, QueueLeftType DEF TimesOutWaiting
  <2> QED
    BY <1>10, <2>1 DEF TimesOutWaiting, Ends
<1> QED
  BY <1>1, <1>2, <1>3, <1>4, <1>5, <1>6, <1>7, <1>8, <1>9, <1>10 DEF Sends

LEMMA TickType == Typed /\ CallsTick => Typed'
<1> SUFFICES ASSUME Typed, CallsTick PROVE Typed'
  OBVIOUS
<1> USE CallsAssumption DEF Typed, Less
<1>1. cards' \in [Agent -> [card : Cards, left : 0..CardTTL]]
  <2> SUFFICES ASSUME NEW a \in Agent
               PROVE  (IF cards[a].left > 1 THEN [card |-> cards[a].card, left |-> cards[a].left - 1]
                       ELSE NoCard) \in [card : Cards, left : 0..CardTTL]
    BY DEF CallsTick
  <2> QED
    BY DEF NoCard, Cards
<1>2. since' \in [Agent -> Nat \cup {Never}]
  BY DEF CallsTick, Longest, Never
<1>3. tokens' \in [Agent -> Nat] /\ token' \in [Caller -> Nat] /\ left' \in [Caller -> 0..Cap]
  BY DEF CallsTick
<1> QED
  BY <1>1, <1>2, <1>3 DEF CallsTick

-----------------------------------------------------------------------------
(* The lock: whoever waits for it or holds it is in the queue, once, and   *)
(* only its head can be asking for a token.                                *)

LockInv ==
  /\ \A i, j \in DOMAIN queue : queue[i] = queue[j] => i = j
  /\ \A c \in Caller : stage[c] \in {"lock", "token"} => \E i \in DOMAIN queue : queue[i] = c
  /\ LockHeldInside

\* A step that leaves the queue and who is in the provider alone.
LEMMA LockFrame ==
  ASSUME Typed, Typed', LockInv, UNCHANGED queue,
         \A c \in Caller : \/ stage'[c] = stage[c]
                           \/ stage[c] \notin {"lock", "token"} /\ stage'[c] \notin {"lock", "token"}
  PROVE  LockInv'
<1>1. /\ \A i \in DOMAIN queue : queue[i] \in Caller
      /\ queue # <<>> => 1 \in DOMAIN queue
      /\ \A i \in DOMAIN queue : queue # <<>>
  BY DEF Typed
<1>2. \A i \in DOMAIN queue : stage[queue[i]] \in {"lock", "token"} => stage'[queue[i]] = stage[queue[i]]
  BY <1>1
<1>3. LockHeldInside'
  BY <1>1, <1>2 DEF LockInv, LockHeldInside
<1>4. \A c \in Caller : stage'[c] \in {"lock", "token"} => \E i \in DOMAIN queue : queue[i] = c
  BY DEF LockInv
<1> QED
  BY <1>3, <1>4 DEF LockInv

\* The head goes on: the queue loses it.
LEMMA LockReleased ==
  ASSUME Typed, LockInv, NEW c \in Caller, queue # <<>>, queue[1] = c,
         queue' = Tail(queue), stage'[c] \notin {"lock", "token"},
         \A d \in Caller \ {c} : stage'[d] = stage[d]
  PROVE  LockInv'
<1>1. /\ Len(queue) \in Nat \ {0} /\ Len(queue') = Len(queue) - 1
      /\ \A i \in 1..(Len(queue) - 1) : queue'[i] = queue[i + 1]
      /\ \A i \in 1..Len(queue) : queue[i] \in Caller
      /\ DOMAIN queue = 1..Len(queue) /\ DOMAIN queue' = 1..(Len(queue) - 1)
  BY DEF Typed
<1>2. \A i, j \in DOMAIN queue' : queue'[i] = queue'[j] => i = j
  BY <1>1 DEF LockInv
<1>3. \A i \in DOMAIN queue' : queue'[i] \in Caller \ {c} /\ stage[queue'[i]] = "lock"
  <2> TAKE i \in DOMAIN queue'
  <2>1. queue'[i] = queue[i + 1] /\ i + 1 \in 2..Len(queue)
    BY <1>1
  <2>2. queue[i + 1] # c
    BY <1>1, <2>1 DEF LockInv
  <2> QED
    BY <1>1, <2>1, <2>2 DEF LockInv, LockHeldInside
<1>4. LockHeldInside'
  BY <1>3 DEF LockHeldInside
<1>5. ASSUME NEW d \in Caller, stage'[d] \in {"lock", "token"}
      PROVE  \E i \in DOMAIN queue' : queue'[i] = d
  <2>1. d # c /\ stage[d] \in {"lock", "token"}
    BY <1>5
  <2>2. PICK i \in DOMAIN queue : queue[i] = d
    BY <2>1 DEF LockInv
  <2>3. i - 1 \in DOMAIN queue' /\ queue'[i - 1] = d
    BY <1>1, <2>1, <2>2
  <2> QED
    BY <2>3
<1> QED
  BY <1>2, <1>4, <1>5 DEF LockInv

\* A caller that gives up leaves the queue wherever it is.
LEMMA LockLeft ==
  ASSUME Typed, LockInv, NEW c \in Caller, TimesOutWaiting(c)
  PROVE  LockInv'
<1> DEFINE k == Place(c)
<1>1. /\ stage[c] \in {"lock", "token"} /\ queue' = QueueLeft(c)
      /\ stage' = [stage EXCEPT ![c] = "idle"]
  BY DEF TimesOutWaiting, Ends
<1>2. /\ k \in 1..Len(queue) /\ queue[k] = c
      /\ Len(queue') = Len(queue) - 1 /\ queue' \in Seq(Caller)
      /\ \A i \in 1..(Len(queue) - 1) : queue'[i] = IF i < k THEN queue[i] ELSE queue[i + 1]
  BY <1>1, QueueLeftType DEF LockInv, Typed
<1>3. /\ Len(queue) \in Nat /\ DOMAIN queue = 1..Len(queue) /\ DOMAIN queue' = 1..(Len(queue) - 1)
      /\ \A i \in 1..Len(queue) : queue[i] \in Caller
  BY <1>2, SMTT(20) DEF Typed
<1> HIDE DEF k
<1>4. \A i, j \in DOMAIN queue' : queue'[i] = queue'[j] => i = j
  <2> TAKE i, j \in DOMAIN queue'
  <2> HAVE queue'[i] = queue'[j]
  <2> DEFINE place(n) == IF n < k THEN n ELSE n + 1
  <2>1. place(i) \in DOMAIN queue /\ place(j) \in DOMAIN queue /\ queue[place(i)] = queue[place(j)]
    BY <1>2, <1>3
  <2>2. place(i) = place(j)
    BY <2>1 DEF LockInv
  <2> QED
    BY <1>2, <1>3, <2>2
<1>5. \A i \in DOMAIN queue' : /\ queue'[i] \in Caller \ {c}
                               /\ stage[queue'[i]] = "lock" \/ (i = 1 /\ stage[queue'[1]] = "token")
  <2> TAKE i \in DOMAIN queue'
  <2>1. PICK n \in DOMAIN queue : queue'[i] = queue[n] /\ n # k /\ (n = i \/ n = i + 1)
    BY <1>2, <1>3
  <2>2. queue[n] # c
    BY <1>2, <1>3, <2>1 DEF LockInv
  <2>3. queue[n] \in Caller /\ (stage[queue[n]] = "lock" \/ (n = 1 /\ stage[queue[1]] = "token"))
    BY <1>3 DEF LockInv, LockHeldInside
  <2> QED
    BY <1>3, <2>1, <2>2, <2>3
<1>6. LockHeldInside'
  BY <1>1, <1>5 DEF LockHeldInside, Typed
<1>7. ASSUME NEW d \in Caller, stage'[d] \in {"lock", "token"}
      PROVE  \E i \in DOMAIN queue' : queue'[i] = d
  <2>1. d # c /\ stage[d] \in {"lock", "token"}
    BY <1>1, <1>7 DEF Typed
  <2>2. PICK n \in DOMAIN queue : queue[n] = d
    BY <2>1 DEF LockInv
  <2>3. n # k
    BY <1>2, <2>1, <2>2
  <2>4. CASE n < k
    <3>1. n \in DOMAIN queue' /\ queue'[n] = d
      BY <1>2, <1>3, <2>2, <2>4
    <3> QED
      BY <3>1
  <2>5. CASE n > k
    <3>1. n - 1 \in DOMAIN queue' /\ queue'[n - 1] = d
      BY <1>2, <1>3, <2>2, <2>5
    <3> QED
      BY <3>1
  <2> QED
    BY <1>2, <1>3, <2>3, <2>4, <2>5
<1> QED
  BY <1>4, <1>6, <1>7 DEF LockInv

LEMMA LockStep ==
  ASSUME Typed, Typed', LockInv, NEW c \in Caller, Sends(c)
  PROVE  LockInv'
<1>1. ASSUME NEW a \in Agent, NEW timeout \in 1..Cap, Start(c, a, timeout) PROVE LockInv'
  <2>1. /\ stage[c] = "idle" /\ queue' = Append(queue, c) /\ stage' = [stage EXCEPT ![c] = "lock"]
    BY <1>1 DEF Start
  <2>2. /\ Len(queue) \in Nat /\ DOMAIN queue = 1..Len(queue)
        /\ DOMAIN queue' = 1..(Len(queue) + 1) /\ queue'[Len(queue) + 1] = c
        /\ \A i \in 1..Len(queue) : queue'[i] = queue[i] /\ queue[i] \in Caller
    <3>1. queue \in Seq(Caller)
      BY DEF Typed
    <3> HIDE CallsAssumption
    <3> QED
      BY <2>1, <3>1
  <2>3. \A i \in 1..Len(queue) : queue[i] # c
    BY <2>1, <2>2 DEF LockInv, LockHeldInside
  <2>4. \A i, j \in DOMAIN queue' : queue'[i] = queue'[j] => i = j
    BY <2>2, <2>3 DEF LockInv
  <2>5. LockHeldInside'
    <3>1. stage'[c] = "lock" /\ \A i \in 1..Len(queue) : stage'[queue[i]] = stage[queue[i]]
      BY <2>1, <2>2, <2>3 DEF Typed
    <3>2. \A i \in 1..Len(queue) : stage[queue[i]] = "lock" \/ (i = 1 /\ stage[queue[1]] = "token")
      BY <2>2 DEF LockInv, LockHeldInside
    <3> QED
      BY <2>2, <3>1, <3>2 DEF LockHeldInside
  <2>6. ASSUME NEW d \in Caller, stage'[d] \in {"lock", "token"}
        PROVE  \E i \in DOMAIN queue' : queue'[i] = d
    <3>1. CASE d = c
      BY <2>2, <3>1
    <3>2. CASE d # c
      <4>1. PICK i \in DOMAIN queue : queue[i] = d
        BY <2>1, <2>6, <3>2 DEF LockInv, Typed
      <4> QED
        BY <2>2, <4>1
    <3> QED
      BY <3>1, <3>2
  <2> QED
    BY <2>4, <2>5, <2>6 DEF LockInv
<1>2. ASSUME TokenKnown(c) PROVE LockInv'
  <2>1. /\ queue # <<>> /\ queue[1] = c /\ queue' = Tail(queue)
    BY <1>2 DEF TokenKnown, Holds, Typed
  <2>2. stage'[c] \notin {"lock", "token"} /\ \A d \in Caller \ {c} : stage'[d] = stage[d]
    BY <1>2 DEF TokenKnown, Proceed, Typed
  <2> QED
    BY <2>1, <2>2, LockReleased
<1>3. ASSUME AskToken(c) PROVE LockInv'
  <2>1. /\ queue # <<>> /\ queue[1] = c /\ queue' = queue /\ stage[c] = "lock"
        /\ stage' = [stage EXCEPT ![c] = "token"]
    BY <1>3 DEF AskToken, Holds, Typed
  <2>2. \A i \in DOMAIN queue : queue[i] \in Caller
    BY DEF Typed
  <2>3. 1 \in DOMAIN queue
    BY <2>1 DEF Typed
  <2>4. LockHeldInside'
    BY <2>1, <2>2, <2>3 DEF LockInv, LockHeldInside, Typed
  <2> QED
    BY <2>1, <2>2, <2>4 DEF LockInv, Typed
<1>4. ASSUME TokenFails(c) \/ \E read \in {0, Life} : TokenArrives(c, read) PROVE LockInv'
  <2>1. /\ stage[c] = "token" /\ queue' = Tail(queue)
    BY <1>4 DEF TokenFails, TokenArrives
  <2>2. queue # <<>> /\ queue[1] = c
    <3>1. PICK i \in DOMAIN queue : queue[i] = c
      BY <2>1 DEF LockInv
    <3>2. i = 1
      BY <2>1, <3>1 DEF LockInv, LockHeldInside
    <3> QED
      BY <3>1, <3>2
  <2>3. stage'[c] \notin {"lock", "token"} /\ \A d \in Caller \ {c} : stage'[d] = stage[d]
    BY <1>4 DEF TokenFails, Ends, TokenArrives, Proceed, Typed
  <2> QED
    BY <2>1, <2>2, <2>3, LockReleased
<1>5. ASSUME ServeCard(c) \/ CardArrives(c) \/ Answered(c) \/ ExchangeFails(c) \/ TimesOutExchanging(c)
      PROVE  LockInv'
  <2>1. /\ UNCHANGED queue /\ stage[c] \in {"card", "served", "message"}
        /\ \E next \in {"served", "message", "idle"} : stage' = [stage EXCEPT ![c] = next]
    BY <1>5 DEF ServeCard, CardArrives, Answered, ExchangeFails, TimesOutExchanging, Exchanging, Ends
  <2> QED
    BY <2>1, LockFrame DEF Typed
<1> QED
  BY <1>1, <1>2, <1>3, <1>4, <1>5, LockLeft DEF Sends

-----------------------------------------------------------------------------
(* The token a request carries.                                            *)

LEMMA TokenStep ==
  ASSUME Typed, TokenIsValid, NEW c \in Caller, Sends(c)
  PROVE  TokenIsValid'
<1> USE CallsAssumption DEF TokenIsValid, Exchanging, Typed
<1>1. ASSUME NEW a \in Agent, NEW timeout \in 1..Cap, Start(c, a, timeout) PROVE TokenIsValid'
  BY <1>1 DEF Start
<1>2. ASSUME TokenKnown(c) PROVE TokenIsValid'
  <2>1. to[c] \in Agent /\ tokens[to[c]] \in Nat /\ tokens[to[c]] > Margin
    BY <1>2 DEF TokenKnown, Usable
  <2>2. token' = [token EXCEPT ![c] = tokens[to[c]]] /\ left' = left
        /\ \A d \in Caller \ {c} : stage'[d] = stage[d]
    BY <1>2 DEF TokenKnown, Proceed
  <2> QED
    BY <2>1, <2>2
<1>3. ASSUME NEW read \in {0, Life}, TokenArrives(c, read) PROVE TokenIsValid'
  <2>1. token' = [token EXCEPT ![c] = Life] /\ left' = left
        /\ \A d \in Caller \ {c} : stage'[d] = stage[d]
    BY <1>3 DEF TokenArrives, Proceed
  <2> QED
    BY <2>1
<1>4. ASSUME AskToken(c) \/ ServeCard(c) \/ CardArrives(c) PROVE TokenIsValid'
  BY <1>4 DEF AskToken, ServeCard, CardArrives
<1>5. ASSUME TokenFails(c) \/ Answered(c) \/ ExchangeFails(c) \/ TimesOutWaiting(c)
             \/ TimesOutExchanging(c)
      PROVE  TokenIsValid'
  <2>1. Ends(c)
    BY <1>5 DEF TokenFails, Answered, ExchangeFails, TimesOutWaiting, TimesOutExchanging
  <2> QED
    BY <2>1 DEF Ends
<1> QED
  BY <1>1, <1>2, <1>3, <1>4, <1>5 DEF Sends

-----------------------------------------------------------------------------
(* The old card.  A fetch it answered was under way at the redeployment,   *)
(* so what is left of its call and the time since add up to Cap at most;   *)
(* an entry of the cache and the time since to CardTTL more.               *)

CardInv ==
  /\ \A a \in Agent : late[a] => since[a] > Cap
  /\ \A a \in Agent : cards[a].card # "none" => cards[a].left >= 1
  /\ \A c \in Caller : stage[c] = "served" /\ card[c] = "old" =>
       since[to[c]] = Never \/ since[to[c]] + left[c] <= Cap
  /\ \A a \in Agent : cards[a].card = "old" =>
       since[a] = Never \/ (since[a] + cards[a].left <= Longest /\ ~late[a])

Keeps(d) == UNCHANGED <<stage[d], card[d], to[d], left[d]>>

\* A caller's step is its own.
LEMMA OthersKeep ==
  ASSUME Typed, NEW c \in Caller, Sends(c)
  PROVE  \A d \in Caller \ {c} : Keeps(d)
<1> SUFFICES ASSUME NEW d \in Caller \ {c} PROVE Keeps(d)
  OBVIOUS
<1> USE DEF Typed, Keeps
<1>1. ASSUME Ends(c) PROVE Keeps(d)
  BY <1>1 DEF Ends
<1>2. ASSUME NEW life, Proceed(c, life), to' = to, left' = left PROVE Keeps(d)
  BY <1>2 DEF Proceed
<1>3. ASSUME NEW a, NEW timeout, Start(c, a, timeout) PROVE Keeps(d)
  BY <1>3 DEF Start
<1>4. CASE TokenKnown(c) \/ \E read \in {0, Life} : TokenArrives(c, read)
  BY <1>2, <1>4 DEF TokenKnown, TokenArrives
<1>5. CASE AskToken(c) \/ ServeCard(c) \/ CardArrives(c)
  BY <1>5 DEF AskToken, ServeCard, CardArrives
<1>6. CASE TokenFails(c) \/ Answered(c) \/ ExchangeFails(c) \/ TimesOutWaiting(c) \/ TimesOutExchanging(c)
  BY <1>1, <1>6 DEF TokenFails, Answered, ExchangeFails, TimesOutWaiting, TimesOutExchanging
<1> QED
  BY <1>3, <1>4, <1>5, <1>6 DEF Sends

LEMMA CardStep ==
  ASSUME Typed, Typed', CardInv, NEW c \in Caller, Sends(c)
  PROVE  CardInv'
<1> USE CallsAssumption DEF CardInv, Never, Longest
<1>1. ASSUME UNCHANGED <<since, cards, late>>,
             \A d \in Caller : stage'[d] = "served" => UNCHANGED <<stage[d], card[d], to[d], left[d]>>
      PROVE  CardInv'
  BY <1>1
<1>2. CASE \/ \E a \in Agent, timeout \in 1..Cap : Start(c, a, timeout)
           \/ TokenKnown(c) \/ AskToken(c) \/ TokenFails(c)
           \/ \E read \in {0, Life} : TokenArrives(c, read)
           \/ Answered(c) \/ TimesOutWaiting(c)
  <2>1. UNCHANGED <<since, cards, late>>
    BY <1>2 DEF Start, TokenKnown, AskToken, TokenFails, TokenArrives, Answered, TimesOutWaiting
  <2>2. stage'[c] # "served"
    BY <1>2, SMTT(20) DEF Typed, Start, TokenKnown, AskToken, TokenFails, TokenArrives, Proceed,
                Answered, TimesOutWaiting, Ends
  <2> QED
    BY <1>1, <2>1, <2>2, OthersKeep DEF Keeps
<1>3. CASE ServeCard(c)
  <2>1. /\ UNCHANGED <<since, cards, late, to, left>> /\ to[c] \in Agent
        /\ card'[c] = "old" => since[to[c]] = Never
        /\ \A d \in Caller \ {c} : card'[d] = card[d] /\ stage'[d] = stage[d]
    BY <1>3 DEF ServeCard, Typed
  <2> QED
    BY <2>1
<1>4. CASE CardArrives(c)
  <2>1. /\ UNCHANGED <<since, late, to, left, card>> /\ to[c] \in Agent /\ stage[c] = "served"
        /\ stage' = [stage EXCEPT ![c] = "message"]
        /\ cards' = [cards EXCEPT ![to[c]] = [card |-> card[c], left |-> CardTTL]]
    BY <1>4 DEF CardArrives, Put, Typed
  <2>2. /\ since \in [Agent -> Nat \cup {Never}] /\ left[c] \in Nat
        /\ cards'[to[c]].card = card[c] /\ cards'[to[c]].left = CardTTL
        /\ \A a \in Agent \ {to[c]} : cards'[a] = cards[a]
    BY <2>1 DEF Typed
  <2>3. ASSUME card[c] = "old", since[to[c]] # Never
        PROVE  since[to[c]] + CardTTL <= Longest /\ ~late[to[c]]
    <3>1. since[to[c]] + left[c] <= Cap /\ since[to[c]] \in Nat
      BY <2>1, <2>2, <2>3
    <3>2. since[to[c]] <= Cap
      BY <2>2, <3>1
    <3>3. ~late[to[c]]
      BY <2>1, <3>1, <3>2
    <3> QED
      BY <3>1, <3>2, <3>3
  <2>4. \A a \in Agent : cards'[a].card = "old" =>
          since[a] = Never \/ (since[a] + cards'[a].left <= Longest /\ ~late[a])
    BY <2>2, <2>3
  <2>5. \A a \in Agent : cards'[a].card # "none" => cards'[a].left >= 1
    BY <2>2
  <2>6. \A d \in Caller : stage'[d] = "served" => stage[d] = "served"
    BY <2>1 DEF Typed
  <2> QED
    BY <2>1, <2>4, <2>5, <2>6
<1>5. CASE ExchangeFails(c) \/ TimesOutExchanging(c)
  <2>1. /\ UNCHANGED since /\ to[c] \in Agent
        /\ cards' = [cards EXCEPT ![to[c]] = NoCard]
        /\ late' = [late EXCEPT ![to[c]] = @ \/ since[to[c]] > Cap]
        /\ stage'[c] = "idle"
        /\ \A d \in Caller \ {c} : UNCHANGED <<stage[d], card[d], to[d], left[d]>>
    BY <1>5 DEF ExchangeFails, TimesOutExchanging, Exchanging, Dropped, Ends, Typed
  <2>2. \A a \in Agent \ {to[c]} : cards'[a] = cards[a] /\ late'[a] = late[a]
    BY <2>1 DEF Typed
  <2>3. cards'[to[c]].card = "none" /\ (late'[to[c]] => since[to[c]] > Cap)
    BY <2>1 DEF NoCard, Typed
  <2> QED
    BY <2>1, <2>2, <2>3
<1> QED
  BY <1>2, <1>3, <1>4, <1>5 DEF Sends

-----------------------------------------------------------------------------
(* Redeployments, time, and the theorems.                                  *)

CallsInv == Typed /\ LockInv /\ TokenIsValid /\ CardInv

LEMMA TickStep == CallsInv /\ CallsTick => CallsInv'
<1> SUFFICES ASSUME CallsInv, CallsTick PROVE CallsInv'
  OBVIOUS
<1> USE CallsAssumption DEF CallsInv
<1>1. Typed'
  BY TickType
<1>2. LockInv'
  BY <1>1, LockFrame DEF CallsTick
<1>3. TokenIsValid'
  BY DEF CallsTick, TokenIsValid, Exchanging, Typed, Less
<1>4. CardInv'
  <2> DEFINE s(a) == IF since[a] \in 0..Longest THEN since[a] + 1 ELSE since[a]
  <2>1. /\ UNCHANGED <<late, stage, to, card>>
        /\ \A a \in Agent : since[a] \in Nat \cup {Never} /\ since'[a] = s(a)
    BY DEF CallsTick, Typed
  <2>2. ASSUME NEW a \in Agent
        PROVE  \/ cards'[a] = NoCard
               \/ /\ cards'[a].card = cards[a].card
                  /\ cards[a].left \in Nat /\ cards[a].left > 1 /\ cards'[a].left = cards[a].left - 1
    BY DEF CallsTick, Typed
  <2>3. ASSUME NEW c \in Caller, stage[c] # "idle"
        PROVE  left[c] \in Nat /\ left'[c] = left[c] - 1 /\ to[c] \in Agent
    BY <2>3 DEF CallsTick, Typed, Less
  <2>4. \A a \in Agent : late'[a] => since'[a] > Cap
    <3> SUFFICES ASSUME NEW a \in Agent, late[a] PROVE s(a) > Cap
      BY <2>1
    <3>1. since[a] > Cap
      BY DEF CardInv
    <3>2. since[a] \in Nat
      BY <2>1, <3>1 DEF Never
    <3> QED
      BY <3>1, <3>2
  <2>5. \A a \in Agent : cards'[a].card # "none" => cards'[a].left >= 1
    BY <2>2 DEF NoCard
  <2>6. \A c \in Caller : stage'[c] = "served" /\ card'[c] = "old" =>
          since'[to'[c]] = Never \/ since'[to'[c]] + left'[c] <= Cap
    <3> SUFFICES ASSUME NEW c \in Caller, stage[c] = "served", card[c] = "old"
                 PROVE  s(to[c]) = Never \/ s(to[c]) + (left[c] - 1) <= Cap
      BY <2>1, <2>3
    <3>1. /\ to[c] \in Agent /\ left[c] \in Nat
          /\ since[to[c]] = Never \/ since[to[c]] + left[c] <= Cap
          /\ since[to[c]] \in Nat \cup {Never}
      BY <2>1, <2>3 DEF CardInv
    <3> QED
      BY <3>1 DEF Never
  <2>7. \A a \in Agent : cards'[a].card = "old" =>
          since'[a] = Never \/ (since'[a] + cards'[a].left <= Longest /\ ~late'[a])
    <3> SUFFICES ASSUME NEW a \in Agent, cards'[a].card = "old"
                 PROVE  s(a) = Never \/ (s(a) + cards'[a].left <= Longest /\ ~late[a])
      BY <2>1
    <3>1. /\ cards[a].card = "old" /\ cards[a].left \in Nat
          /\ cards'[a].left = cards[a].left - 1
      BY <2>2 DEF NoCard
    <3>2. since[a] = Never \/ (since[a] + cards[a].left <= Longest /\ ~late[a])
      BY <3>1 DEF CardInv
    <3>3. CASE since[a] = Never
      BY <3>3 DEF Never
    <3>4. CASE since[a] \in Nat
      BY <3>1, <3>2, <3>4 DEF Never, Longest
    <3> QED
      BY <2>1, <3>3, <3>4
  <2> QED
    BY <2>4, <2>5, <2>6, <2>7 DEF CardInv
<1> QED
  BY <1>1, <1>2, <1>3, <1>4

LEMMA RedeployStep ==
  ASSUME CallsInv, NEW a \in Renewed, Redeploy(a)
  PROVE  CallsInv'
<1> USE CallsAssumption DEF CallsInv, Redeploy
<1>1. Typed'
  BY DEF Typed
<1>2. LockInv' /\ TokenIsValid'
  BY <1>1, LockFrame DEF TokenIsValid, Exchanging
<1>3. CardInv'
  <2>1. /\ since'[a] = 0 /\ since[a] = Never /\ \A b \in Agent \ {a} : since'[b] = since[b]
        /\ cards[a].left \in 0..CardTTL /\ \A c \in Caller : left[c] \in 0..Cap
    BY DEF Typed
  <2>2. ~late[a]
    BY DEF CardInv, Never
  <2> QED
    BY <2>1, <2>2 DEF CardInv, Longest, Never, Typed
<1> QED
  BY <1>1, <1>2, <1>3

LEMMA CallsInvInit == CallsInit => CallsInv
  BY TypedInit DEF CallsInit, CallsInv, LockInv, LockHeldInside, TokenIsValid, Exchanging,
                   CardInv, NoCard

LEMMA CallsInvStep == CallsInv /\ [CallsNext]_calls => CallsInv'
<1> SUFFICES ASSUME CallsInv, [CallsNext]_calls PROVE CallsInv'
  OBVIOUS
<1>1. ASSUME NEW c \in Caller, Sends(c) PROVE CallsInv'
  <2>1. Typed'
    BY <1>1, CallerStep DEF CallsInv, LockInv
  <2> QED
    BY <1>1, <2>1, LockStep, TokenStep, CardStep DEF CallsInv
<1>2. ASSUME NEW a \in Renewed, Redeploy(a) PROVE CallsInv'
  BY <1>2, RedeployStep
<1>3. CASE CallsTick
  BY <1>3, TickStep
<1>4. CASE UNCHANGED calls
  BY <1>4 DEF calls, CallsInv, Typed, LockInv, LockHeldInside, TokenIsValid, Exchanging, CardInv
<1> QED
  BY <1>1, <1>2, <1>3, <1>4 DEF CallsNext

LEMMA CallsAlways == CallsSpec => []CallsInv
  BY CallsInvInit, CallsInvStep, PTL DEF CallsSpec

\* The token on a request is valid for longer than the request may take,
\* whatever the caps, the margin and the waits for lock and card (auth.py:26-28).
THEOREM TokenOutlivesTheCall == CallsSpec => []TokenIsValid
  BY CallsAlways, PTL DEF CallsInv

\* Nobody but a call inside the provider is in its lock's queue, so no failure,
\* timeout or cancellation leaves it taken (auth.py:75).
THEOREM LockIsHeldInside == CallsSpec => []LockHeldInside
  BY CallsAlways, PTL DEF CallsInv, LockInv

\* An old card is gone Cap + CardTTL after the redeployment, and is not put
\* back after an exchange that failed Cap or more after it (a2a_client.py:3-6).
THEOREM OldCardIsDropped == CallsSpec => []OldCardGoes
<1>1. ASSUME CallsInv PROVE OldCardGoes
  <2> SUFFICES ASSUME NEW a \in Agent, since[a] # Never, cards[a].card = "old"
               PROVE  since[a] < Longest /\ ~late[a]
    BY DEF OldCardGoes
  <2>1. since[a] \in Nat /\ cards[a].left \in Nat /\ cards[a].left >= 1
    BY <1>1 DEF CallsInv, CardInv, Typed
  <2>2. since[a] + cards[a].left <= Longest /\ ~late[a]
    BY <1>1 DEF CallsInv, CardInv
  <2> QED
    BY <2>1, <2>2, CallsAssumption DEF Longest
<1> QED
  BY <1>1, CallsAlways, PTL
=============================================================================
