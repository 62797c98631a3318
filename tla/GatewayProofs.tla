---------------------------- MODULE GatewayProofs ----------------------------
(***************************************************************************)
(* Theorems about Gateway for every set of invites, addresses and requests *)
(* and every limit, window, cap and MAX_KEYS (GatewayAssumption).          *)
(***************************************************************************)
EXTENDS Gateway, FiniteSetTheorems, TLAPS

-----------------------------------------------------------------------------
(* What hit() does to a dict of a sliding window.                          *)

Entries == [since : Nat, hits : SUBSET [time : Nat, id : Nat]]

\* A dict with keys of Key, no more than MAX_KEYS.
Table(t, Key) ==
  /\ DOMAIN t \subseteq Key /\ t \in [DOMAIN t -> Entries]
  /\ IsFiniteSet(DOMAIN t) /\ Cardinality(DOMAIN t) <= MaxKeys

\* What Remembers says, at the time at, for the dict t, of the attempts h of
\* one key k.
Remembered(self, t, h, k, at) ==
  /\ h = LiveOf(self, Hits(t, k), at)
  /\ IsFiniteSet(h) /\ Cardinality(h) <= self.limit

LEMMA PrunedTable ==
  ASSUME NEW Key, NEW t, Table(t, Key), NEW k \in Key, NEW n \in Nat, NEW self
  PROVE  /\ Pruned(self, t, k, now, n) \in [DOMAIN t \cup {k} -> Entries]
         /\ \A j \in DOMAIN t \ {k} : Pruned(self, t, k, now, n)[j] = t[j]
         /\ Pruned(self, t, k, now, n)[k].hits = LiveOf(self, Hits(t, k), now)
<1> DEFINE opened == Opened(t, k, n)
           pruned == Updated(opened, k, LiveOf(self, Hits(t, k), now))
<1>1. /\ DOMAIN opened = DOMAIN t \cup {k}
      /\ \A j \in DOMAIN t : opened[j] = t[j]
      /\ k \notin DOMAIN t => opened[k] = [since |-> n, hits |-> {}]
  BY DEF Opened
<1>2. \A j \in DOMAIN t \cup {k} : opened[j] \in Entries
  BY <1>1 DEF Table, Entries
<1> HIDE DEF opened
<1>3. \A j \in DOMAIN t \ {k} : pruned[j] = t[j]
  BY <1>1 DEF Updated
<1>4. pruned[k] = [since |-> opened[k].since, hits |-> LiveOf(self, Hits(t, k), now)]
  BY <1>1 DEF Updated
<1>5. LiveOf(self, Hits(t, k), now) \in SUBSET [time : Nat, id : Nat]
  BY DEF LiveOf, Entries, Hits, Table
<1>6. pruned[k] \in Entries
  BY <1>2, <1>4, <1>5 DEF Entries
<1>7. pruned \in [DOMAIN t \cup {k} -> Entries]
  <2>1. \A j \in DOMAIN t \cup {k} : pruned[j] \in Entries
    BY <1>3, <1>6 DEF Table
  <2>2. pruned = [j \in DOMAIN t \cup {k} |-> pruned[j]]
    BY <1>1 DEF Updated
  <2> HIDE DEF pruned
  <2> QED
    BY <2>1, <2>2
<1>8. pruned = Pruned(self, t, k, now, n)
  BY DEF Pruned, opened
<1> HIDE DEF pruned
<1> QED
  BY <1>3, <1>4, <1>7, <1>8

\* The dict is full and k is new: k itself goes, and no key with an attempt in
\* the window does.
LEMMA EvictedTable ==
  ASSUME NEW Key, NEW t, Table(t, Key), NEW k \in Key, k \notin DOMAIN t, NEW self,
         NEW p \in [DOMAIN t \cup {k} -> Entries], \A j \in DOMAIN t : p[j] = t[j],
         p[k].hits = {}, MaxKeys \in Nat
  PROVE  /\ \A j : j \in DOMAIN Evicted(self, p, now) <=> j \in DOMAIN t /\ Recent(self, t[j].hits, now)
         /\ \A j \in DOMAIN Evicted(self, p, now) : Evicted(self, p, now)[j] = t[j]
<1> DEFINE kept == {j \in DOMAIN p : Recent(self, p[j].hits, now)}
           Later(j) == {i \in kept : p[i].since > p[j].since}
<1>1. DOMAIN p = DOMAIN t \cup {k}
  OBVIOUS
<1>2. ~Recent(self, p[k].hits, now)
  BY DEF Recent, LiveOf
<1>3. kept = {j \in DOMAIN t : Recent(self, t[j].hits, now)}
  BY <1>1, <1>2
<1>4. IsFiniteSet(kept) /\ Cardinality(kept) <= MaxKeys /\ Cardinality(kept) \in Nat
  <2>1. kept \in SUBSET (DOMAIN t)
    BY <1>3
  <2>2. /\ IsFiniteSet(DOMAIN t) /\ Cardinality(DOMAIN t) <= MaxKeys
        /\ Cardinality(DOMAIN t) \in Nat
    BY FS_CardinalityType DEF Table
  <2> HIDE DEF kept
  <2>3. IsFiniteSet(kept) /\ Cardinality(kept) <= Cardinality(DOMAIN t) /\ Cardinality(kept) \in Nat
    BY <2>1, <2>2, FS_Subset, FS_CardinalityType
  <2> QED
    BY <2>2, <2>3
<1>5. ASSUME NEW j \in kept PROVE Cardinality(Later(j)) < MaxKeys
  <2>1. p[j].since \in Nat
    BY DEF Entries
  <2>2. Later(j) \in SUBSET kept /\ j \in kept /\ j \notin Later(j)
    BY <2>1
  <2> HIDE DEF kept, Later
  <2>3. Cardinality(Later(j)) < Cardinality(kept) /\ Cardinality(Later(j)) \in Nat
    BY <1>4, <2>2, FS_Subset, FS_CardinalityType
  <2> QED
    BY <1>4, <2>3
<1>6. Evicted(self, p, now) = [j \in {j \in kept : Cardinality(Later(j)) < MaxKeys} |-> p[j]]
  BY DEF Evicted
<1>7. {j \in kept : Cardinality(Later(j)) < MaxKeys} = kept
  <2> HIDE DEF kept, Later
  <2> QED
    BY <1>5
<1> HIDE DEF Later
<1> QED
  BY <1>3, <1>6, <1>7

LEMMA LookedTable ==
  ASSUME NEW Key, NEW t, Table(t, Key), NEW k \in Key, NEW n \in Nat, NEW self,
         MaxKeys \in Nat
  PROVE  LET looked == Looked(self, t, k, now, n)
         IN  /\ Table(looked, Key)
             /\ \A j \in Key : LiveOf(self, Hits(looked, j), now) = LiveOf(self, Hits(t, j), now)
             /\ k \in DOMAIN looked <=> ~Overflows(t, k)
<1> DEFINE p == Pruned(self, t, k, now, n)
           looked == Looked(self, t, k, now, n)
<1>1. /\ p \in [DOMAIN t \cup {k} -> Entries]
      /\ \A j \in DOMAIN t \ {k} : p[j] = t[j]
      /\ p[k].hits = LiveOf(self, Hits(t, k), now)
  BY PrunedTable
<1>2. looked = IF Cardinality(DOMAIN p) > MaxKeys THEN Evicted(self, p, now) ELSE p
  BY DEF Looked
<1> HIDE DEF p, looked
<1>3. IsFiniteSet(DOMAIN t) /\ Cardinality(DOMAIN t) \in Nat /\ Cardinality(DOMAIN t) <= MaxKeys
  BY FS_CardinalityType DEF Table
<1>4. /\ IsFiniteSet(DOMAIN p)
      /\ Cardinality(DOMAIN p) = IF k \in DOMAIN t THEN Cardinality(DOMAIN t)
                                 ELSE Cardinality(DOMAIN t) + 1
  BY <1>1, <1>3, FS_AddElement
<1>5. Cardinality(DOMAIN p) > MaxKeys <=> Overflows(t, k)
  BY <1>3, <1>4 DEF Overflows
<1>6. CASE ~Overflows(t, k)
  <2>1. looked = p
    BY <1>2, <1>5, <1>6
  <2>2. Table(p, Key)
    BY <1>1, <1>3, <1>4, <1>5, <1>6 DEF Table
  <2>3. ASSUME NEW j \in Key
        PROVE  LiveOf(self, Hits(p, j), now) = LiveOf(self, Hits(t, j), now)
    BY <1>1 DEF Hits, LiveOf
  <2> QED
    BY <1>1, <1>6, <2>1, <2>2, <2>3 DEF looked
<1>7. CASE Overflows(t, k)
  <2>1. looked = Evicted(self, p, now) /\ k \notin DOMAIN t
    BY <1>2, <1>5, <1>7 DEF Overflows
  <2>2. p[k].hits = {}
    BY <1>1, <2>1 DEF Hits, LiveOf
  <2>3. /\ \A j : j \in DOMAIN looked <=> j \in DOMAIN t /\ Recent(self, t[j].hits, now)
        /\ \A j \in DOMAIN looked : looked[j] = t[j]
    <3>1. \A j \in DOMAIN t : p[j] = t[j]
      BY <1>1, <2>1
    <3>2. /\ \A j : j \in DOMAIN Evicted(self, p, now) <=> j \in DOMAIN t /\ Recent(self, t[j].hits, now)
          /\ \A j \in DOMAIN Evicted(self, p, now) : Evicted(self, p, now)[j] = t[j]
      BY <1>1, <2>1, <2>2, <3>1, EvictedTable
    <3> QED
      BY <2>1, <3>2
  <2>4. Table(looked, Key)
    <3>1. DOMAIN looked \in SUBSET (DOMAIN t)
      BY <2>3
    <3>2. /\ IsFiniteSet(DOMAIN looked) /\ Cardinality(DOMAIN looked) \in Nat
          /\ Cardinality(DOMAIN looked) <= Cardinality(DOMAIN t)
      BY <1>3, <3>1, FS_Subset, FS_CardinalityType
    <3>3. looked = [j \in DOMAIN looked |-> looked[j]]
      BY <2>1 DEF Evicted
    <3>4. looked \in [DOMAIN looked -> Entries]
      BY <2>3, <3>3 DEF Table
    <3> QED
      BY <1>3, <3>1, <3>2, <3>4 DEF Table
  <2>5. ASSUME NEW j \in Key
        PROVE  LiveOf(self, Hits(looked, j), now) = LiveOf(self, Hits(t, j), now)
    BY <2>3 DEF Hits, Recent, LiveOf
  <2> QED
    BY <1>7, <2>1, <2>3, <2>4, <2>5 DEF looked
<1> QED
  BY <1>6, <1>7

\* One attempt of k: the dict still remembers every key's.
LEMMA HitTable ==
  ASSUME NEW Key, NEW t, Table(t, Key), NEW k \in Key, NEW n \in Nat, NEW self,
         NEW H, \A j \in Key : Remembered(self, t, H[j], j, now),
         H = [j \in Key |-> H[j]],
         MaxKeys \in Nat, self.limit \in Nat, self.window \in Nat \ {0}, now \in Nat, sent = n
  PROVE  LET hit == Hit(self, t, k, now, n)
             grown == Counted(H, self, t, k)
         IN  /\ Table(hit, Key)
             /\ \A j \in Key : Remembered(self, hit, grown[j], j, now)
             /\ grown = [j \in Key |-> grown[j]]
<1> DEFINE looked == Looked(self, t, k, now, n)
           more == LiveOf(self, Hits(t, k), now) \cup {Attempt(now, n)}
           hit == Hit(self, t, k, now, n)
           grown == Counted(H, self, t, k)
<1>1. /\ Table(looked, Key)
      /\ \A j \in Key : LiveOf(self, Hits(looked, j), now) = LiveOf(self, Hits(t, j), now)
      /\ k \in DOMAIN looked <=> ~Overflows(t, k)
  BY LookedTable
<1>2. /\ hit = IF Accepts(self, t, k, now) THEN Updated(looked, k, more) ELSE looked
      /\ grown = IF Accepts(self, t, k, now) /\ ~Overflows(t, k)
                 THEN [H EXCEPT ![k] = @ \cup {Attempt(now, n)}] ELSE H
  BY DEF Hit, Counted
<1>3. more \in SUBSET [time : Nat, id : Nat]
  <2>1. Hits(t, k) \in SUBSET [time : Nat, id : Nat]
    BY DEF Hits, Table, Entries
  <2> QED
    BY <2>1 DEF LiveOf, Attempt
<1>4. H[k] = LiveOf(self, Hits(t, k), now) /\ IsFiniteSet(H[k])
      /\ Cardinality(H[k]) <= self.limit /\ Cardinality(H[k]) \in Nat
  BY FS_CardinalityType DEF Remembered
<1>5. LiveOf(self, more, now) = more
  BY <1>3 DEF LiveOf, Live, Attempt
<1> HIDE DEF looked, hit, grown
<1>6. CASE ~Accepts(self, t, k, now)
  <2>1. hit = looked /\ grown = H
    BY <1>2, <1>6
  <2>2. \A j \in Key : Remembered(self, looked, H[j], j, now)
    BY <1>1 DEF Remembered
  <2> QED
    BY <1>1, <2>1, <2>2 DEF hit, grown
<1>7. CASE Accepts(self, t, k, now) /\ Overflows(t, k)
  <2>1. hit = Updated(looked, k, more) /\ grown = H /\ k \notin DOMAIN looked
    BY <1>1, <1>2, <1>7
  <2>2. hit = looked
    <3>1. looked = [j \in DOMAIN looked |-> looked[j]]
      BY <1>1 DEF Table
    <3> QED
      BY <2>1, <3>1 DEF Updated
  <2>3. \A j \in Key : Remembered(self, looked, H[j], j, now)
    BY <1>1 DEF Remembered
  <2> QED
    BY <1>1, <2>1, <2>2, <2>3 DEF hit, grown
<1>8. CASE Accepts(self, t, k, now) /\ ~Overflows(t, k)
  <2>1. /\ hit = Updated(looked, k, more) /\ k \in DOMAIN looked
        /\ grown = [H EXCEPT ![k] = @ \cup {Attempt(now, n)}]
    BY <1>1, <1>2, <1>8
  <2> HIDE DEF more
  <2>2. /\ DOMAIN hit = DOMAIN looked
        /\ hit[k] = [since |-> looked[k].since, hits |-> more]
        /\ \A j \in DOMAIN looked \ {k} : hit[j] = looked[j]
        /\ hit = [j \in DOMAIN looked |-> hit[j]]
    BY <2>1 DEF Updated
  <2>3. Table(hit, Key)
    <3>1. looked[k] \in Entries
      BY <1>1, <2>1 DEF Table
    <3>2. hit[k] \in Entries
      BY <1>3, <2>2, <3>1 DEF Entries
    <3>3. \A j \in DOMAIN looked : hit[j] \in Entries
      BY <1>1, <2>2, <3>2 DEF Table
    <3> QED
      BY <1>1, <2>2, <3>3 DEF Table
  <2>4. Remembered(self, hit, grown[k], k, now)
    <3>1. grown[k] = more
      BY <1>4, <2>1 DEF more
    <3>2. Hits(hit, k) = more
      BY <2>1, <2>2 DEF Hits
    <3>3. Cardinality(H[k]) < self.limit
      BY <1>4, <1>8 DEF Accepts
    <3>4. IsFiniteSet(more) /\ Cardinality(more) <= self.limit
      <4>1. more = H[k] \cup {Attempt(now, n)}
        BY <1>4 DEF more
      <4>2. /\ IsFiniteSet(more)
            /\ Cardinality(more) = Cardinality(H[k]) \/ Cardinality(more) = Cardinality(H[k]) + 1
        BY <1>4, <4>1, FS_AddElement
      <4> QED
        BY <1>4, <3>3, <4>2
    <3> QED
      BY <1>5, <3>1, <3>2, <3>4 DEF Remembered
  <2>5. ASSUME NEW j \in Key \ {k} PROVE Remembered(self, hit, grown[j], j, now)
    <3>1. grown[j] = H[j]
      BY <2>1
    <3>2. Hits(hit, j) = Hits(looked, j)
      BY <2>2 DEF Hits
    <3> QED
      BY <1>1, <3>1, <3>2 DEF Remembered
  <2>6. grown = [j \in Key |-> grown[j]]
    BY <2>1
  <2> QED
    BY <2>3, <2>4, <2>5, <2>6 DEF hit, grown
<1> QED
  BY <1>6, <1>7, <1>8

-----------------------------------------------------------------------------
(* The two limits.                                                         *)

LimitInv(self, t, H, Key, at) ==
  /\ Table(t, Key)
  /\ H = [j \in Key |-> H[j]]
  /\ \A j \in Key : Remembered(self, t, H[j], j, at)

Typed ==
  /\ now \in Nat /\ sent \in Nat
  /\ pc \in [Request -> {"idle", "exchange", "session", "body", "forwarded"}]
  /\ who \in [Request -> Invite \cup {None}]
  /\ \A r \in Request : pc[r] \in {"session", "body"} => who[r] \in Invite

LimitsInv ==
  /\ LimitInv(Exchanges, attempts, tried, Address, now)
  /\ LimitInv(Sessions, asks, asked, Invite, now)

LEMMA LimitersFit ==
  /\ Exchanges.limit = ExchangeLimit /\ Exchanges.window = ExchangeWindow
  /\ Sessions.limit = SessionLimit /\ Sessions.window = SessionWindow
  /\ {ExchangeLimit, ExchangeWindow, SessionLimit, SessionWindow, MaxKeys} \subseteq Nat \ {0}
  BY GatewayAssumption DEF Exchanges, Sessions, Limiter

LEMMA TypedInit == Init => Typed
  BY DEF Init, Typed

LEMMA TypedStep == Typed /\ [Next]_vars => Typed'
<1> SUFFICES ASSUME Typed, [Next]_vars PROVE Typed'
  OBVIOUS
<1> USE DEF Typed
<1>1. ASSUME NEW r \in Request, AskAgain(r) \/ Refuse(r) \/ Answer(r) PROVE Typed'
  BY <1>1 DEF AskAgain, Refuse, Answer, Ends
<1>2. ASSUME NEW r \in Request, AskBody(r) PROVE Typed'
  <2>1. /\ now' = now /\ sent' = sent + 1
        /\ \/ pc' = [pc EXCEPT ![r] = "forwarded"] /\ who' = who
           \/ Ends(r)
    BY <1>2 DEF AskBody
  <2> QED
    BY <2>1 DEF Ends
<1>3. ASSUME NEW r \in Request, NEW a \in Address, Exchange(r, a) PROVE Typed'
  BY <1>3 DEF Exchange
<1>4. ASSUME NEW r \in Request, NEW i \in Invite, SignIn(r, i) \/ Ask(r, i) PROVE Typed'
  BY <1>4 DEF SignIn, Ask, Ends
<1>5. ASSUME NEW i \in Invite, StoreChanges(i) \/ CookieExpires(i) PROVE Typed'
  BY <1>5 DEF StoreChanges, CookieExpires
<1>6. ASSUME NewDay \/ Tick \/ UNCHANGED vars PROVE Typed'
  BY <1>6 DEF NewDay, Tick, vars
<1>7. ASSUME Restart PROVE Typed'
  BY <1>7 DEF Restart
<1> QED
  BY <1>1, <1>2, <1>3, <1>4, <1>5, <1>6, <1>7 DEF Next

\* An empty dict.
LEMMA EmptyLimit ==
  ASSUME NEW Key, NEW self, self.limit \in Nat, MaxKeys \in Nat, NEW at
  PROVE  LimitInv(self, Empty, [j \in Key |-> {}], Key, at)
<1>1. DOMAIN Empty = {} /\ Empty \in [{} -> Entries]
  BY DEF Empty
<1>2. Table(Empty, Key)
  BY <1>1, FS_EmptySet DEF Table
<1>3. \A j \in Key : Remembered(self, Empty, {}, j, at)
  BY <1>1, FS_EmptySet DEF Remembered, Hits, LiveOf
<1> QED
  BY <1>2, <1>3 DEF LimitInv

\* An attempt of k.
LEMMA HitLimit ==
  ASSUME NEW Key, NEW t, NEW H, NEW self, LimitInv(self, t, H, Key, now), NEW k \in Key,
         now \in Nat, sent \in Nat, MaxKeys \in Nat, self.limit \in Nat,
         self.window \in Nat \ {0}
  PROVE  LimitInv(self, Hit(self, t, k, now, sent), Counted(H, self, t, k), Key, now)
<1>1. Table(t, Key) /\ H = [j \in Key |-> H[j]] /\ \A j \in Key : Remembered(self, t, H[j], j, now)
  BY DEF LimitInv
<1>2. LET hit == Hit(self, t, k, now, sent)
          grown == Counted(H, self, t, k)
      IN  /\ Table(hit, Key)
          /\ \A j \in Key : Remembered(self, hit, grown[j], j, now)
          /\ grown = [j \in Key |-> grown[j]]
  BY <1>1, HitTable
<1> QED
  BY <1>2 DEF LimitInv

\* When time passes, what leaves the window leaves both sides.
LEMMA TickLimit ==
  ASSUME NEW Key, NEW self, NEW t, NEW H, NEW at \in Nat, LimitInv(self, t, H, Key, at),
         self.limit \in Nat, self.window \in Nat
  PROVE  LimitInv(self, t, [j \in Key |-> LiveOf(self, H[j], at + 1)], Key, at + 1)
<1>1. ASSUME NEW j \in Key PROVE Remembered(self, t, LiveOf(self, H[j], at + 1), j, at + 1)
  <2>1. /\ H[j] = LiveOf(self, Hits(t, j), at)
        /\ IsFiniteSet(H[j]) /\ Cardinality(H[j]) <= self.limit /\ Cardinality(H[j]) \in Nat
    BY FS_CardinalityType DEF LimitInv, Remembered
  <2>2. ASSUME NEW e \in Hits(t, j), Live(self, e, at + 1) PROVE Live(self, e, at)
    <3>1. e.time \in Nat
      BY DEF Hits, LimitInv, Table, Entries
    <3> QED
      BY <2>2, <3>1 DEF Live
  <2>3. LiveOf(self, H[j], at + 1) = LiveOf(self, Hits(t, j), at + 1)
    BY <2>1, <2>2 DEF LiveOf
  <2>4. LiveOf(self, H[j], at + 1) \in SUBSET H[j]
    BY DEF LiveOf
  <2>5. /\ IsFiniteSet(LiveOf(self, H[j], at + 1))
        /\ Cardinality(LiveOf(self, H[j], at + 1)) \in Nat
        /\ Cardinality(LiveOf(self, H[j], at + 1)) <= Cardinality(H[j])
    BY <2>1, <2>4, FS_Subset, FS_CardinalityType
  <2> QED
    BY <2>1, <2>3, <2>5 DEF Remembered
<1> QED
  BY <1>1 DEF LimitInv

LEMMA LimitsInit == Init => LimitsInv
<1> SUFFICES ASSUME Init PROVE LimitsInv
  OBVIOUS
<1>1. /\ attempts = Empty /\ asks = Empty
      /\ tried = [a \in Address |-> {}] /\ asked = [i \in Invite |-> {}]
  BY DEF Init
<1>2. LimitInv(Exchanges, Empty, [a \in Address |-> {}], Address, now)
  BY LimitersFit, EmptyLimit
<1>3. LimitInv(Sessions, Empty, [i \in Invite |-> {}], Invite, now)
  BY LimitersFit, EmptyLimit
<1> QED
  BY <1>1, <1>2, <1>3 DEF LimitsInv

LEMMA LimitsStep == Typed /\ LimitsInv /\ [Next]_vars => LimitsInv'
<1> SUFFICES ASSUME Typed, LimitsInv, [Next]_vars PROVE LimitsInv'
  OBVIOUS
<1>1. /\ LimitInv(Exchanges, attempts, tried, Address, now)
      /\ LimitInv(Sessions, asks, asked, Invite, now)
      /\ now \in Nat /\ sent \in Nat
  BY DEF LimitsInv, Typed
<1>2. SUFFICES /\ LimitInv(Exchanges, attempts', tried', Address, now')
               /\ LimitInv(Sessions, asks', asked', Invite, now')
  BY DEF LimitsInv, Exchanges, Sessions
<1>3. ASSUME NEW r \in Request, AskBody(r)
      PROVE  /\ LimitInv(Exchanges, attempts', tried', Address, now')
             /\ LimitInv(Sessions, asks', asked', Invite, now')
  <2>1. /\ UNCHANGED <<attempts, tried, now>>
        /\ asks' = Hit(Sessions, asks, who[r], now, sent)
        /\ asked' = Counted(asked, Sessions, asks, who[r])
        /\ who[r] \in Invite
    BY <1>3 DEF AskBody, Typed
  <2>2. LimitInv(Sessions, asks', asked', Invite, now)
    BY <1>1, <2>1, LimitersFit, HitLimit
  <2> QED
    BY <1>1, <2>1, <2>2
<1>4. ASSUME NEW r \in Request, NEW a \in Address, Exchange(r, a)
      PROVE  /\ LimitInv(Exchanges, attempts', tried', Address, now')
             /\ LimitInv(Sessions, asks', asked', Invite, now')
  <2>1. /\ UNCHANGED <<asks, asked, now>>
        /\ attempts' = Hit(Exchanges, attempts, a, now, sent)
        /\ tried' = Counted(tried, Exchanges, attempts, a)
    BY <1>4 DEF Exchange
  <2>2. LimitInv(Exchanges, attempts', tried', Address, now)
    BY <1>1, <2>1, LimitersFit, HitLimit
  <2> QED
    BY <1>1, <2>1, <2>2
<1>5. ASSUME Tick
      PROVE  /\ LimitInv(Exchanges, attempts', tried', Address, now')
             /\ LimitInv(Sessions, asks', asked', Invite, now')
  <2>1. /\ now' = now + 1 /\ UNCHANGED <<attempts, asks>>
        /\ tried' = [a \in Address |-> LiveOf(Exchanges, tried[a], now + 1)]
        /\ asked' = [i \in Invite |-> LiveOf(Sessions, asked[i], now + 1)]
    BY <1>5 DEF Tick
  <2>2. LimitInv(Exchanges, attempts, [a \in Address |-> LiveOf(Exchanges, tried[a], now + 1)],
                 Address, now + 1)
    BY <1>1, LimitersFit, TickLimit
  <2>3. LimitInv(Sessions, asks, [i \in Invite |-> LiveOf(Sessions, asked[i], now + 1)],
                 Invite, now + 1)
    BY <1>1, LimitersFit, TickLimit
  <2> QED
    BY <2>1, <2>2, <2>3
<1>6. ASSUME Restart
      PROVE  /\ LimitInv(Exchanges, attempts', tried', Address, now')
             /\ LimitInv(Sessions, asks', asked', Invite, now')
  <2>1. /\ attempts' = Empty /\ asks' = Empty /\ now' = now
        /\ tried' = [a \in Address |-> {}] /\ asked' = [i \in Invite |-> {}]
    BY <1>6 DEF Restart
  <2>2. LimitInv(Exchanges, Empty, [a \in Address |-> {}], Address, now)
    BY LimitersFit, EmptyLimit
  <2>3. LimitInv(Sessions, Empty, [i \in Invite |-> {}], Invite, now)
    BY LimitersFit, EmptyLimit
  <2> QED
    BY <2>1, <2>2, <2>3
<1>7. ASSUME UNCHANGED <<attempts, tried, asks, asked, now>>
      PROVE  /\ LimitInv(Exchanges, attempts', tried', Address, now')
             /\ LimitInv(Sessions, asks', asked', Invite, now')
  BY <1>1, <1>7
<1>8. ASSUME NEW r \in Request, AskAgain(r) \/ Refuse(r) \/ Answer(r)
      PROVE  UNCHANGED <<attempts, tried, asks, asked, now>>
  BY <1>8 DEF AskAgain, Refuse, Answer
<1>9. ASSUME NEW r \in Request, NEW i \in Invite, SignIn(r, i) \/ Ask(r, i)
      PROVE  UNCHANGED <<attempts, tried, asks, asked, now>>
  BY <1>9 DEF SignIn, Ask
<1>10. ASSUME NEW i \in Invite, StoreChanges(i) \/ CookieExpires(i)
       PROVE  UNCHANGED <<attempts, tried, asks, asked, now>>
  BY <1>10 DEF StoreChanges, CookieExpires
<1>11. ASSUME NewDay \/ UNCHANGED vars PROVE UNCHANGED <<attempts, tried, asks, asked, now>>
  BY <1>11 DEF NewDay, vars
<1> QED
  BY <1>3, <1>4, <1>5, <1>6, <1>7, <1>8, <1>9, <1>10, <1>11 DEF Next

-----------------------------------------------------------------------------
(* The daily cap.                                                          *)

\* The strengthening: the day of the count has come, and the count is within
\* the cap.  At midnight the day differs, and nothing has been sent on it.
CapInv ==
  /\ day \in Nat /\ (capDay = NoDay \/ (capDay \in Nat /\ capDay <= day))
  /\ capCount \in Nat /\ capCount <= DailyLimit
  /\ forwarded = CountToday

LEMMA CapInit == Init => CapInv
  BY GatewayAssumption DEF Init, CapInv, CountToday, NoDay

LEMMA CapStep == CapInv /\ [Next]_vars => CapInv'
<1> SUFFICES ASSUME CapInv, [Next]_vars PROVE CapInv'
  OBVIOUS
<1> USE GatewayAssumption DEF CapInv, CountToday, NoDay
<1>1. ASSUME NEW r \in Request, AskBody(r) PROVE CapInv'
  <2> DEFINE ok == Accepts(Sessions, asks, who[r], now)
  <2>1. CASE ~ok
    <3>1. UNCHANGED <<day, capDay, capCount, forwarded>>
      BY <1>1, <2>1 DEF AskBody, Takes
    <3> QED
      BY <3>1
  <2>2. CASE ok /\ CountToday < DailyLimit
    <3>1. /\ capDay' = day /\ day' = day /\ capCount' = CountToday + 1
          /\ forwarded' = forwarded + 1
      BY <1>1, <2>2 DEF AskBody, Takes
    <3> QED
      BY <2>2, <3>1
  <2>3. CASE ok /\ ~(CountToday < DailyLimit)
    <3>1. capDay' = day /\ day' = day /\ capCount' = CountToday /\ forwarded' = forwarded
      BY <1>1, <2>3 DEF AskBody, Takes
    <3> QED
      BY <3>1
  <2> QED
    BY <2>1, <2>2, <2>3
<1>2. ASSUME NewDay PROVE CapInv'
  BY <1>2 DEF NewDay
<1>3. ASSUME Restart PROVE CapInv'
  BY <1>3 DEF Restart
<1>4. ASSUME UNCHANGED <<day, capDay, capCount, forwarded>> PROVE CapInv'
  BY <1>4
<1>5. ASSUME NEW r \in Request, AskAgain(r) \/ Refuse(r) \/ Answer(r)
      PROVE  UNCHANGED <<day, capDay, capCount, forwarded>>
  BY <1>5 DEF AskAgain, Refuse, Answer
<1>6. ASSUME NEW r \in Request, NEW a \in Address, Exchange(r, a)
      PROVE  UNCHANGED <<day, capDay, capCount, forwarded>>
  BY <1>6 DEF Exchange
<1>7. ASSUME NEW r \in Request, NEW i \in Invite, SignIn(r, i) \/ Ask(r, i)
      PROVE  UNCHANGED <<day, capDay, capCount, forwarded>>
  BY <1>7 DEF SignIn, Ask
<1>8. ASSUME NEW i \in Invite, StoreChanges(i) \/ CookieExpires(i)
      PROVE  UNCHANGED <<day, capDay, capCount, forwarded>>
  BY <1>8 DEF StoreChanges, CookieExpires
<1>9. ASSUME Tick \/ UNCHANGED vars PROVE UNCHANGED <<day, capDay, capCount, forwarded>>
  BY <1>9 DEF Tick, vars
<1> HIDE DEF CapInv
<1> QED
  BY <1>1, <1>2, <1>3, <1>4, <1>5, <1>6, <1>7, <1>8, <1>9 DEF Next

-----------------------------------------------------------------------------
\* Neither limit forgets an attempt it accepted in its window, or accepts more
\* than its limit of one key in any window, whatever addresses and invites
\* come and are dropped; only the first attempt of a new key when MAX_KEYS keys
\* are remembered goes uncounted (limits.SlidingWindow, hit and _evict).
THEOREM LimitsAreKept == Spec => []LimitsRemember
<1>1. Typed /\ LimitsInv /\ [Next]_vars => Typed' /\ LimitsInv'
  BY TypedStep, LimitsStep
<1>2. ASSUME LimitsInv PROVE LimitsRemember
  <2>1. ASSUME NEW self, NEW t, NEW H, NEW Key, LimitInv(self, t, H, Key, now)
        PROVE  Remembers(self, t, H)
    <3>1. DOMAIN H = Key
      BY <2>1 DEF LimitInv
    <3> QED
      BY <2>1, <3>1 DEF LimitInv, Remembers, Remembered, Table
  <2> QED
    BY <1>2, <2>1 DEF LimitsInv, LimitsRemember
<1> QED
  BY <1>1, <1>2, TypedInit, LimitsInit, PTL DEF Spec

\* On no Pacific day are more questions sent than the cap, and none but those
\* sent use the day's count (DailyCap.take, ask).
THEOREM CapIsKept == Spec => []CapCountsForwarded
<1>1. CapInv => CapCountsForwarded
  BY GatewayAssumption DEF CapInv, CapCountsForwarded, CountToday
<1> QED
  BY <1>1, CapInit, CapStep, PTL DEF Spec
=============================================================================
