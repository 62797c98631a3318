----------------------------- MODULE AgentCalls -----------------------------
(***************************************************************************)
(* The orchestrator's calls of the agents: send_question and _exchange     *)
(* (orchestrator/a2a_client.py) with the two caches all calls of the       *)
(* process share, AgentCardCache and IdTokenProvider (auth.py).            *)
(*                                                                         *)
(* A call waits for the provider's one lock, then perhaps for a token,     *)
(* perhaps for the agent's card, and for the answer to its message.  The   *)
(* code between two awaits is one action: Proceed is what it does once it  *)
(* has its token.  The timeout of the call runs over all of it.            *)
(*                                                                         *)
(* The code keeps times; the module keeps what is left of them, which is   *)
(* what the code compares, and counts it down.  An agent is redeployed     *)
(* with another card; the old card may serve or fail afterwards.           *)
(***************************************************************************)
EXTENDS Integers, Sequences

CONSTANTS
  Agent,    \* agents, each with a URL of its own
  Renewed,  \* those that are redeployed, once, with another card
  Caller,   \* send_question calls under way at a time
  CardTTL,  \* agent_card_ttl_s
  Cap,      \* the longest timeout_s of a call
  Margin,   \* REFRESH_MARGIN_S
  Life      \* how long a token is valid when it arrives

\* "far more than any one A2A exchange needs" (auth.py:26-28).
ASSUME CallsAssumption ==
  /\ Renewed \subseteq Agent
  /\ CardTTL \in Nat \ {0} /\ Cap \in Nat \ {0} /\ Margin \in Nat /\ Life \in Nat
  /\ Cap <= Margin /\ Margin < Life

VARIABLES
  since,   \* since[a]: the time since a got its new card, or Never
  cards,   \* AgentCardCache._cards
  tokens,  \* IdTokenProvider._cache, tokens[a]: what it takes to be left of the token
  queue,   \* its lock: the caller that holds it, then those waiting
  stage,   \* stage[c]: the await that call c is in
  to,      \* to[c]: the agent it calls
  left,    \* left[c]: what is left of its timeout
  token,   \* token[c]: what is left of the token it sends
  card,    \* card[c]: the card it has
  late     \* history, late[a]: an exchange failed more than Cap after since

calls == <<since, cards, tokens, queue, stage, to, left, token, card, late>>

Never == -1
NoCard == [card |-> "none", left |-> 0]
\* Times are counted up to the longest the cache could serve an old card.
Longest == Cap + CardTTL

CallsInit ==
  /\ since = [a \in Agent |-> Never]
  /\ cards = [a \in Agent |-> NoCard]
  /\ tokens = [a \in Agent |-> 0]
  /\ queue = <<>>
  /\ stage = [c \in Caller |-> "idle"]
  /\ to = [c \in Caller |-> "none"]
  /\ left = [c \in Caller |-> 0]
  /\ token = [c \in Caller |-> 0]
  /\ card = [c \in Caller |-> "none"]
  /\ late = [a \in Agent |-> FALSE]

\* The call returns or raises, and its locals are gone.
Ends(c) ==
  /\ stage' = [stage EXCEPT ![c] = "idle"]
  /\ to' = [to EXCEPT ![c] = "none"]
  /\ left' = [left EXCEPT ![c] = 0]
  /\ token' = [token EXCEPT ![c] = 0]
  /\ card' = [card EXCEPT ![c] = "none"]

-----------------------------------------------------------------------------
(* The provider's lock and cache.                                          *)

Holds(c) == queue # <<>> /\ Head(queue) = c

\* asyncio.Lock is fair: the caller queues up behind the others.
Start(c, a, timeout) ==
  /\ stage[c] = "idle"
  /\ stage' = [stage EXCEPT ![c] = "lock"]
  /\ to' = [to EXCEPT ![c] = a]
  /\ left' = [left EXCEPT ![c] = timeout]
  /\ queue' = Append(queue, c)
  /\ UNCHANGED <<since, cards, tokens, token, card, late>>

\* Mutated form: a token is used until it expires.
UsableToTheEnd(life) == life > 0

Usable(life) == life > Margin

\* _exchange up to its next await: the message when AgentCardCache.get knows
\* the card, else the fetch of the card.
Proceed(c, life) ==
  LET known == cards[to[c]]
  IN  /\ token' = [token EXCEPT ![c] = life]
      /\ card' = [card EXCEPT ![c] = known.card]
      /\ stage' = [stage EXCEPT ![c] = IF known = NoCard THEN "card" ELSE "message"]

TokenKnown(c) ==
  /\ stage[c] = "lock" /\ Holds(c)
  /\ Usable(tokens[to[c]])
  /\ queue' = Tail(queue)
  /\ Proceed(c, tokens[to[c]])
  /\ UNCHANGED <<since, cards, tokens, to, left, late>>

AskToken(c) ==
  /\ stage[c] = "lock" /\ Holds(c)
  /\ ~Usable(tokens[to[c]])
  /\ stage' = [stage EXCEPT ![c] = "token"]
  /\ UNCHANGED <<since, cards, tokens, queue, to, left, token, card, late>>

\* The token as its exp claim says, or, when that cannot be read, taken for
\* less than the margin.
TokenArrives(c, read) ==
  /\ stage[c] = "token"
  /\ tokens' = [tokens EXCEPT ![to[c]] = read]
  /\ queue' = Tail(queue)
  /\ Proceed(c, Life)
  /\ UNCHANGED <<since, cards, to, left, late>>

\* AgentAuthError is raised outside the try that drops the card.
TokenFails(c) ==
  /\ stage[c] = "token"
  /\ queue' = Tail(queue)
  /\ Ends(c)
  /\ UNCHANGED <<since, cards, tokens, late>>

-----------------------------------------------------------------------------
(* The exchange.                                                           *)

\* The agent answers the fetch with the card it has then.
ServeCard(c) ==
  /\ stage[c] = "card"
  /\ card' = [card EXCEPT ![c] = IF since[to[c]] = Never THEN "old" ELSE "new"]
  /\ stage' = [stage EXCEPT ![c] = "served"]
  /\ UNCHANGED <<since, cards, tokens, queue, to, left, token, late>>

\* Mutated form: a card put again is kept for what was left of the entry, too.
PutLonger(c) == [card |-> card[c], left |-> cards[to[c]].left + CardTTL]

\* AgentCardCache.put.
Put(c) == [card |-> card[c], left |-> CardTTL]

CardArrives(c) ==
  /\ stage[c] = "served"
  /\ cards' = [cards EXCEPT ![to[c]] = Put(c)]
  /\ stage' = [stage EXCEPT ![c] = "message"]
  /\ UNCHANGED <<since, tokens, queue, to, left, token, card, late>>

Exchanging(c) == stage[c] \in {"card", "served", "message"}

Answered(c) ==
  /\ stage[c] = "message"
  /\ Ends(c)
  /\ UNCHANGED <<since, cards, tokens, queue, late>>

\* The except clause around _exchange: any failure, a cancellation included.
Dropped(c) ==
  /\ cards' = [cards EXCEPT ![to[c]] = NoCard]
  /\ late' = [late EXCEPT ![to[c]] = @ \/ since[to[c]] > Cap]

ExchangeFails(c) ==
  /\ Exchanging(c)
  /\ Dropped(c)
  /\ Ends(c)
  /\ UNCHANGED <<since, tokens, queue>>

-----------------------------------------------------------------------------
(* The timeout of a call, wherever it is.                                  *)

Place(c) == CHOOSE i \in DOMAIN queue : queue[i] = c

\* What is left of the queue when c leaves it, with the lock or without.
Without(c) == SubSeq(queue, 1, Place(c) - 1) \o SubSeq(queue, Place(c) + 1, Len(queue))

\* Mutated form: a call stopped while it fetches a token leaves the lock taken.
QueueKept(c) == IF stage[c] = "token" THEN queue ELSE Without(c)

QueueLeft(c) == Without(c)

TimesOutWaiting(c) ==
  /\ stage[c] \in {"lock", "token"} /\ left[c] = 0
  /\ queue' = QueueLeft(c)
  /\ Ends(c)
  /\ UNCHANGED <<since, cards, tokens, late>>

TimesOutExchanging(c) ==
  /\ Exchanging(c) /\ left[c] = 0
  /\ Dropped(c)
  /\ Ends(c)
  /\ UNCHANGED <<since, tokens, queue>>

-----------------------------------------------------------------------------
(* The agents and the clock.                                               *)

Redeploy(a) ==
  /\ since[a] = Never
  /\ since' = [since EXCEPT ![a] = 0]
  /\ UNCHANGED <<cards, tokens, queue, stage, to, left, token, card, late>>

Less(n) == IF n > 0 THEN n - 1 ELSE 0

\* A call that has the lock runs before time passes, and a timeout fires when due.
CallsTick ==
  /\ \A c \in Caller : /\ ~(stage[c] = "lock" /\ Holds(c))
                       /\ stage[c] # "idle" => left[c] > 0
  /\ since' = [a \in Agent |-> IF since[a] \in 0..Longest THEN since[a] + 1 ELSE since[a]]
  /\ cards' = [a \in Agent |-> IF cards[a].left > 1
                              THEN [card |-> cards[a].card, left |-> cards[a].left - 1]
                              ELSE NoCard]
  /\ tokens' = [a \in Agent |-> Less(tokens[a])]
  /\ left' = [c \in Caller |-> Less(left[c])]
  /\ token' = [c \in Caller |-> Less(token[c])]
  /\ UNCHANGED <<queue, stage, to, card, late>>

-----------------------------------------------------------------------------
Sends(c) ==
  \/ \E a \in Agent, timeout \in 1..Cap : Start(c, a, timeout)
  \/ TokenKnown(c) \/ AskToken(c) \/ TokenFails(c)
  \/ \E read \in {0, Life} : TokenArrives(c, read)
  \/ ServeCard(c) \/ CardArrives(c) \/ Answered(c) \/ ExchangeFails(c)
  \/ TimesOutWaiting(c) \/ TimesOutExchanging(c)

CallsNext == (\E c \in Caller : Sends(c)) \/ (\E a \in Renewed : Redeploy(a)) \/ CallsTick

CallsSpec == CallsInit /\ [][CallsNext]_calls

-----------------------------------------------------------------------------
\* The token on a request outlives the request's own timeout (auth.py:26-28),
\* however long the call waited for the lock and for the card.
TokenIsValid ==
  \A c \in Caller : Exchanging(c) => left[c] <= token[c]

\* The provider's one lock is held by a call that is in the provider: no
\* failure and no timeout leaves it taken, which would stop every later call.
LockHeldInside ==
  \A i \in DOMAIN queue : stage[queue[i]] = "lock" \/ (i = 1 /\ stage[queue[1]] = "token")

\* A redeployed agent is picked up within the TTL or on the first error
\* (a2a_client.py:3-6), give or take one call: a fetch answered with the old
\* card may store it up to Cap after the redeployment, also after an error.
OldCardGoes ==
  \A a \in Agent :
    since[a] # Never /\ cards[a].card = "old" =>
      since[a] < Longest /\ ~late[a]
=============================================================================
