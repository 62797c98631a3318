------------------------------ MODULE Gateway ------------------------------
(***************************************************************************)
(* The gateway (api_gateway/app.py): signing in with an invite, asking     *)
(* with the session that gives, and the limits on both (limits.py).        *)
(*                                                                         *)
(* A handler runs on the event loop between its awaits: the session check  *)
(* of the router (in a worker thread), the request's body, and the         *)
(* orchestrator's answer.  pc[r] says which of them request r awaits.      *)
(*                                                                         *)
(* known is what the invite store answers, expired invites left out; how   *)
(* it lags behind the document is InviteStore's subject.  Cross-origin and *)
(* malformed requests are refused where the handler refuses them.  Limits  *)
(* and the cap live in the process and are lost with it; cookies are not.  *)
(***************************************************************************)
EXTENDS Integers, FiniteSets, TLC

CONSTANTS
  Invite,
  None,           \* no invite
  Address,        \* client addresses
  Request,        \* requests in progress at a time
  ExchangeLimit, ExchangeWindow,   \* exchange_per_minute, 60 s
  SessionLimit, SessionWindow,     \* asks_per_session_hour, 3600 s
  DailyLimit,     \* daily_question_cap
  MaxKeys,        \* MAX_KEYS of a SlidingWindow
  MaxRequests,    \* bound of the model: requests counted against a limit
  MaxTime,        \* bound of the model: the clock stops there
  MaxDay          \* bound of the model: the last Pacific day

ASSUME GatewayAssumption ==
  /\ None \notin Invite
  /\ {ExchangeLimit, ExchangeWindow, SessionLimit, SessionWindow, MaxKeys} \subseteq Nat \ {0}
  /\ {DailyLimit, MaxRequests, MaxTime, MaxDay} \subseteq Nat

VARIABLES
  now, day,    \* the clock, and the Pacific day
  known,       \* the unexpired invites store.invites() answers
  issued,      \* the invites with a session cookie that has not expired
  attempts,    \* exchange_limit
  asks,        \* session_limit
  capDay,      \* daily._day
  capCount,    \* daily._count
  pc, who,     \* pc[r], and the invite of r's session
  sent,        \* requests counted so far
  tried,       \* history: accepted sign-in attempts of an address in the window
  asked,       \* history: questions of an invite the session limit accepted
               \*   in the window (those neither limit could count left out)
  forwarded    \* history: questions sent to the orchestrator today

vars == <<now, day, known, issued, attempts, asks, capDay, capCount, pc, who,
          sent, tried, asked, forwarded>>

-----------------------------------------------------------------------------
(* limits.SlidingWindow: a value t is self._hits, one operator is one      *)
(* method; hit() runs without an await, so a call is one step.  A dict in  *)
(* insertion order is a function whose values say since when the key is in *)
(* it.  A deque, to which the monotonic clock only appends, is the set of  *)
(* its attempts [time, id]; the id n tells two at the same time apart.     *)

\* A SlidingWindow object: its limit, and its window_s.
Limiter(limit, window) == [limit |-> limit, window |-> window]

Empty == [k \in {} |-> {}]

Attempt(time, n) == [time |-> time, id |-> n]

\* The attempts recorded for key k; none when it is not in the dict.
Hits(t, k) == IF k \in DOMAIN t THEN t[k].hits ELSE {}

Live(self, e, at) == at - e.time < self.window

LiveOf(self, h, at) == {e \in h : Live(self, e, at)}

\* self._hits[key] of a defaultdict.
Opened(t, k, n) ==
  [j \in DOMAIN t \cup {k} |-> IF j \in DOMAIN t THEN t[j] ELSE [since |-> n, hits |-> {}]]

Updated(t, k, h) ==
  [j \in DOMAIN t |-> IF j = k THEN [since |-> t[j].since, hits |-> h] ELSE t[j]]

\* Mutated form: a key is dropped when its oldest attempt is out of the window.
RecentByOldest(self, h, at) == h # {} /\ LiveOf(self, h, at) = h

\* The last attempt is in the window.
Recent(self, h, at) == LiveOf(self, h, at) # {}

\* _evict: keys without an attempt in the window, then the first ones.
Evicted(self, t, at) ==
  LET kept == {k \in DOMAIN t : Recent(self, t[k].hits, at)}
  IN  [k \in {k \in kept : Cardinality({j \in kept : t[j].since > t[k].since}) < MaxKeys}
         |-> t[k]]

\* The dict when the key has been looked up and its old attempts dropped.
Pruned(self, t, k, at, n) ==
  Updated(Opened(t, k, n), k, LiveOf(self, Hits(t, k), at))

\* Then the dict is made smaller.
Looked(self, t, k, at, n) ==
  LET pruned == Pruned(self, t, k, at, n)
  IN  IF Cardinality(DOMAIN pruned) > MaxKeys THEN Evicted(self, pruned, at) ELSE pruned

\* hit() is True.
Accepts(self, t, k, at) == Cardinality(LiveOf(self, Hits(t, k), at)) < self.limit

\* The dict after hit.  The attempt is appended to the deque looked up before
\* the eviction, so it is lost with the key when the key itself is evicted.
Hit(self, t, k, at, n) ==
  IF Accepts(self, t, k, at)
  THEN Updated(Looked(self, t, k, at, n), k,
               LiveOf(self, Hits(t, k), at) \cup {Attempt(at, n)})
  ELSE Looked(self, t, k, at, n)

\* Hit does not count an accepted attempt of k: the dict is at its limit and
\* k is not in it.
Overflows(t, k) == k \notin DOMAIN t /\ Cardinality(DOMAIN t) = MaxKeys

-----------------------------------------------------------------------------
NoDay == -1
Exchanges == Limiter(ExchangeLimit, ExchangeWindow)   \* exchange_limit
Sessions  == Limiter(SessionLimit, SessionWindow)     \* session_limit

Init ==
  /\ now = 0 /\ day = 0
  /\ known \in SUBSET Invite
  /\ issued = {}
  /\ attempts = Empty
  /\ asks = Empty
  /\ capDay = NoDay /\ capCount = 0
  /\ pc = [r \in Request |-> "idle"]
  /\ who = [r \in Request |-> None]
  /\ sent = 0
  /\ tried = [a \in Address |-> {}] /\ asked = [i \in Invite |-> {}] /\ forwarded = 0

-----------------------------------------------------------------------------
\* The request is answered; its locals are gone.
Ends(r) ==
  /\ pc' = [pc EXCEPT ![r] = "idle"]
  /\ who' = [who EXCEPT ![r] = None]

(* POST /auth/exchange.                                                    *)

\* The history after an attempt of k.
Counted(history, self, t, k) ==
  IF Accepts(self, t, k, now) /\ ~Overflows(t, k)
  THEN [history EXCEPT ![k] = @ \cup {Attempt(now, sent)}]
  ELSE history

\* The attempt is counted before anything of the request is looked at.
Exchange(r, a) ==
  /\ pc[r] = "idle"
  /\ sent < MaxRequests
  /\ sent' = sent + 1
  /\ attempts' = Hit(Exchanges, attempts, a, now, sent)
  /\ pc' = [pc EXCEPT ![r] = IF Accepts(Exchanges, attempts, a, now) THEN "exchange" ELSE @]
  /\ tried' = Counted(tried, Exchanges, attempts, a)
  /\ UNCHANGED <<now, day, known, issued, asks, capDay, capCount, who, asked, forwarded>>

\* The body holds the token of i: a cookie for it.
SignIn(r, i) ==
  /\ pc[r] = "exchange"
  /\ i \in known
  /\ issued' = issued \cup {i}
  /\ Ends(r)
  /\ UNCHANGED <<now, day, known, attempts, asks, capDay, capCount, sent,
                 tried, asked, forwarded>>

-----------------------------------------------------------------------------
(* POST /api/ask.                                                          *)

\* The router's require_session lets a request with a cookie of i through.
Ask(r, i) ==
  /\ pc[r] = "idle"
  /\ i \in issued /\ i \in known
  /\ who' = [who EXCEPT ![r] = i]
  /\ pc' = [pc EXCEPT ![r] = "session"]
  /\ UNCHANGED <<now, day, known, issued, attempts, asks, capDay, capCount, sent,
                 tried, asked, forwarded>>

\* The handler checks the session again, then awaits the body.
AskAgain(r) ==
  /\ pc[r] = "session"
  /\ who[r] \in known
  /\ pc' = [pc EXCEPT ![r] = "body"]
  /\ UNCHANGED <<now, day, known, issued, attempts, asks, capDay, capCount, who, sent,
                 tried, asked, forwarded>>

\* No valid session, invite or body, or another origin: refused, uncounted.
Refuse(r) ==
  /\ pc[r] \in {"exchange", "session", "body"}
  /\ Ends(r)
  /\ UNCHANGED <<now, day, known, issued, attempts, asks, capDay, capCount, sent,
                 tried, asked, forwarded>>

\* daily_cap.take: the count of today before this question.
CountToday == IF capDay = day THEN capCount ELSE 0

\* Mutated form: the count of another day is kept.
CountAnyDay == capCount

\* Mutated form: the day is taken when the session limit refuses.
TakesAlways(ok) == TRUE

\* The daily cap is asked only after the session limit.
Takes(ok) == ok

\* The body is read: the session limit, the daily cap, the orchestrator.
AskBody(r) ==
  LET ok    == Accepts(Sessions, asks, who[r], now)
      taken == Takes(ok) /\ CountToday < DailyLimit
  IN
  /\ pc[r] = "body"
  /\ sent < MaxRequests
  /\ sent' = sent + 1
  /\ asks' = Hit(Sessions, asks, who[r], now, sent)
  /\ asked' = Counted(asked, Sessions, asks, who[r])
  /\ IF Takes(ok)
     THEN capDay' = day /\ capCount' = IF taken THEN CountToday + 1 ELSE CountToday
     ELSE UNCHANGED <<capDay, capCount>>
  /\ IF ok /\ taken
     THEN pc' = [pc EXCEPT ![r] = "forwarded"] /\ forwarded' = forwarded + 1 /\ UNCHANGED who
     ELSE Ends(r) /\ UNCHANGED forwarded
  /\ UNCHANGED <<now, day, known, issued, attempts, tried>>

\* Answered, failed or timed out: nothing is given back.
Answer(r) ==
  /\ pc[r] = "forwarded"
  /\ Ends(r)
  /\ UNCHANGED <<now, day, known, issued, attempts, asks, capDay, capCount, sent,
                 tried, asked, forwarded>>

-----------------------------------------------------------------------------
(* The clock, the store, the cookies and the process.                      *)

Tick ==
  /\ now < MaxTime
  /\ now' = now + 1
  /\ tried' = [a \in Address |-> LiveOf(Exchanges, tried[a], now')]
  /\ asked' = [i \in Invite |-> LiveOf(Sessions, asked[i], now')]
  /\ UNCHANGED <<day, known, issued, attempts, asks, capDay, capCount, pc, who, sent, forwarded>>

NewDay ==
  /\ day < MaxDay
  /\ day' = day + 1
  /\ forwarded' = 0
  /\ UNCHANGED <<now, known, issued, attempts, asks, capDay, capCount, pc, who, sent,
                 tried, asked>>

StoreChanges(i) ==
  /\ known' = IF i \in known THEN known \ {i} ELSE known \cup {i}
  /\ UNCHANGED <<now, day, issued, attempts, asks, capDay, capCount, pc, who, sent,
                 tried, asked, forwarded>>

CookieExpires(i) ==
  /\ i \in issued
  /\ issued' = issued \ {i}
  /\ UNCHANGED <<now, day, known, attempts, asks, capDay, capCount, pc, who, sent,
                 tried, asked, forwarded>>

Restart ==
  /\ attempts' = Empty
  /\ asks' = Empty
  /\ capDay' = NoDay /\ capCount' = 0
  /\ pc' = [r \in Request |-> "idle"]
  /\ who' = [r \in Request |-> None]
  /\ tried' = [a \in Address |-> {}] /\ asked' = [i \in Invite |-> {}] /\ forwarded' = 0
  /\ UNCHANGED <<now, day, known, issued, sent>>

-----------------------------------------------------------------------------
Next ==
  \/ \E r \in Request : AskAgain(r) \/ Refuse(r) \/ AskBody(r) \/ Answer(r)
  \/ \E r \in Request, a \in Address : Exchange(r, a)
  \/ \E r \in Request, i \in Invite : SignIn(r, i) \/ Ask(r, i)
  \/ \E i \in Invite : StoreChanges(i) \/ CookieExpires(i)
  \/ NewDay
  \/ Restart
  \/ Tick

Spec == Init /\ [][Next]_vars

-----------------------------------------------------------------------------
\* Types; the attempts a limit remembers have numbers used before.
TypeOK ==
  /\ now \in 0..MaxTime /\ day \in 0..MaxDay
  /\ known \subseteq Invite /\ issued \subseteq Invite
  /\ DOMAIN attempts \subseteq Address /\ DOMAIN asks \subseteq Invite
  /\ \A t \in {attempts, asks} : \A k \in DOMAIN t : \A e \in t[k].hits :
       e.time \in 0..now /\ e.id \in 0..(sent - 1)
  /\ capDay \in {NoDay} \cup 0..day /\ capCount \in 0..DailyLimit
  /\ pc \in [Request -> {"idle", "exchange", "session", "body", "forwarded"}]
  /\ who \in [Request -> Invite \cup {None}]
  /\ sent \in 0..MaxRequests /\ forwarded \in Nat

\* Both limits remember every attempt they accepted in the window that ends
\* now, whatever keys were dropped in between, except one by a new key when
\* MAX_KEYS keys were remembered (limits.py:38-42); never more than the limit
\* of one key, in any window, not only in clock minutes or hours; and never
\* more keys than MAX_KEYS.
Remembers(self, t, history) ==
  /\ Cardinality(DOMAIN t) <= MaxKeys
  /\ \A k \in DOMAIN history :
       /\ history[k] = LiveOf(self, Hits(t, k), now)
       /\ Cardinality(history[k]) <= self.limit

LimitsRemember ==
  /\ Remembers(Exchanges, attempts, tried)
  /\ Remembers(Sessions, asks, asked)

\* The cap's count of a day is the number of questions sent to the
\* orchestrator on it since the process started: a question that the session
\* limit refuses uses none of it, one still unanswered at midnight none of
\* the next day's (app.py:281-293, limits.py:61-70).
CapCountsForwarded ==
  /\ forwarded <= DailyLimit
  /\ CountToday = forwarded

----------------------------------------------------------------------------
\* Invites, addresses and requests are interchangeable: for TLC.
Symmetry == Permutations(Invite) \cup Permutations(Address) \cup Permutations(Request)
=============================================================================
