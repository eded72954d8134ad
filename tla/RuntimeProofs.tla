---------------------------- MODULE RuntimeProofs ---------------------------
(***************************************************************************)
(* The cache of rates and the challenges, for every number of requests,    *)
(* symbols, users and rates: what the mutex protects, and what remains     *)
(* true of the refresh, which works without it.                            *)
(***************************************************************************)
EXTENDS Runtime, FiniteSetTheorems, TLAPS

Asked == [ at : {"ticker"}, from : From ] \union [ at : {"pair"}, from : From, to : To ]

Asking == [ at : {"asking"}, for : Asked, symbols : SUBSET To, since : 0..MaxRate ]

ClientStates ==
    Asked \union Asking
    \union [ at : {"idle"}, outcome : {"none", "ok", "error", "undecodable"} ]
    \union [ at : {"get challenge"}, user : Users ]
    \union [ at : {"redeem"}, user : Users, challenge : Nat ]

TickerMaps == UNION { [S -> Tickers] : S \in SUBSET From }

PairMaps == UNION { [S -> SUBSET To] : S \in SUBSET From }

Refreshing == [ at : {"asking"}, fresh : TickerMaps, pairs : PairMaps ]

Typed ==
    /\ now \in 0..MaxRate
    /\ cached_tickers \in TickerMaps
    /\ client \in [Clients -> ClientStates]
    /\ worker \in Refreshing \union {Sleeping}
    /\ served \in [From \X To -> 0..MaxRate]
    /\ \A c \in Clients : (holder = c) = (client[c].at = "asking")

(* A challenge that can be redeemed is the latest of its user and has not  *)
(* been used, and was drawn since the last restart; challenges are drawn   *)
(* in order.                                                               *)
Keys ==
    /\ Cardinality(DOMAIN given) \in Nat
    /\ DOMAIN given = 1..Cardinality(DOMAIN given)
    /\ opened \in [Challenges -> [Users -> Nat]]
    /\ expired \subseteq DOMAIN given
    /\ \A u \in DOMAIN challenges :
          /\ challenges[u] \in DOMAIN given \ expired
          /\ given[challenges[u]] = u
          /\ \A k \in DOMAIN given : given[k] = u => k <= challenges[u]
          /\ challenges[u] \in Challenges /\ u \in Users => opened[challenges[u]][u] = 0
    /\ \A k \in Challenges \ DOMAIN given : \A u \in Users : opened[k][u] = 0

(* A client that holds the mutex asks for what the cache does not have,    *)
(* and has been told nothing newer than the answer will be.                *)
AsksForNew(a) ==
    /\ a.since <= now
    /\ \A p \in From \X To : served[p] <= a.since
    /\ a.for.at = "ticker" => a.for.from \notin DOMAIN cached_tickers /\ a.symbols = TickerETH
    /\ a.for.at = "pair" /\ a.for.from \in DOMAIN cached_tickers
         => a.for.to \notin DOMAIN cached_tickers[a.for.from]

(* What the refresh has, or is still to ask for, has been in the cache     *)
(* since it began and has not changed there.                               *)
Refreshes(w) ==
    /\ \A f \in DOMAIN w.pairs :
          /\ f \in DOMAIN cached_tickers
          /\ TickerETH \subseteq w.pairs[f]
          /\ w.pairs[f] \subseteq DOMAIN cached_tickers[f]
    /\ \A f \in DOMAIN w.fresh :
          /\ f \in DOMAIN cached_tickers
          /\ TickerETH \subseteq DOMAIN w.fresh[f]
          /\ \A t \in DOMAIN w.fresh[f] :
                /\ t \in DOMAIN cached_tickers[f]
                /\ cached_tickers[f][t] <= w.fresh[f][t]
                /\ w.fresh[f][t] <= now

Cached ==
    \A f \in DOMAIN cached_tickers :
       /\ TickerETH \subseteq DOMAIN cached_tickers[f]
       /\ \A t \in DOMAIN cached_tickers[f] :
             /\ served[<<f, t>>] <= cached_tickers[f][t]
             /\ cached_tickers[f][t] <= now

FullAnswers ==
    /\ Cached
    /\ \A p \in From \X To : served[p] <= now
    /\ \A c \in Clients : client[c].at = "asking" => AsksForNew(client[c])
    /\ \A c \in Clients : client[c] # Idle("undecodable")
    /\ worker.at = "asking" => Refreshes(worker)

RuntimeInv == Typed /\ Keys /\ ("partial" \notin kinds => FullAnswers)

-----------------------------------------------------------------------------
(* Rates and maps of rates, element by element.                            *)
LEMMA TickerFacts ==
    /\ \A m \in Tickers : DOMAIN m \subseteq To /\ \A t \in DOMAIN m : m[t] \in 0..MaxRate
    /\ \A S \in SUBSET To : \A m \in [S -> 0..MaxRate] : m \in Tickers
    /\ \A m \in TickerMaps : DOMAIN m \subseteq From /\ \A f \in DOMAIN m : m[f] \in Tickers
    /\ \A S \in SUBSET From : \A m \in [S -> Tickers] : m \in TickerMaps
    /\ \A m \in PairMaps : DOMAIN m \subseteq From /\ \A f \in DOMAIN m : m[f] \in SUBSET To
    /\ \A S \in SUBSET From : \A m \in [S -> SUBSET To] : m \in PairMaps
<1>1. /\ \A m \in Tickers : DOMAIN m \subseteq To /\ \A t \in DOMAIN m : m[t] \in 0..MaxRate
      /\ \A S \in SUBSET To : \A m \in [S -> 0..MaxRate] : m \in Tickers
  BY DEF Tickers
<1>2. /\ \A m \in TickerMaps : DOMAIN m \subseteq From /\ \A f \in DOMAIN m : m[f] \in Tickers
      /\ \A S \in SUBSET From : \A m \in [S -> Tickers] : m \in TickerMaps
  BY DEF TickerMaps
<1>3. /\ \A m \in PairMaps : DOMAIN m \subseteq From /\ \A f \in DOMAIN m : m[f] \in SUBSET To
      /\ \A S \in SUBSET From : \A m \in [S -> SUBSET To] : m \in PairMaps
  BY DEF PairMaps
<1> QED
  BY <1>1, <1>2, <1>3

LEMMA EmptyMaps == DOMAIN Empty = {} /\ Empty \in Tickers /\ Empty \in TickerMaps
<1>1. DOMAIN Empty = {} /\ Empty \in [{} -> 0..MaxRate] /\ Empty \in [{} -> Tickers]
  BY DEF Empty
<1> QED
  BY <1>1, TickerFacts

(* An answer of the provider: rates of symbols asked for, of all of them   *)
(* unless answers may be partial, and true at some time since the request. *)
LEMMA AnswerFacts ==
    ASSUME NEW symbols \in SUBSET To, NEW since \in 0..MaxRate, now \in 0..MaxRate,
           NEW vals \in Answers(symbols, since)
    PROVE  /\ vals \in Tickers /\ DOMAIN vals \subseteq symbols
           /\ "partial" \notin kinds => DOMAIN vals = symbols
           /\ \A t \in DOMAIN vals : vals[t] \in since..now
<1>1. PICK S \in IF "partial" \in kinds THEN SUBSET symbols ELSE {symbols}, r \in since..now :
         vals \in [S -> {r}]
  BY DEF Answers
<1>2. S \subseteq symbols /\ ("partial" \notin kinds => S = symbols)
  BY <1>1
<1>3. r \in 0..MaxRate
  BY RuntimeConstants
<1>4. vals \in [S -> 0..MaxRate] /\ DOMAIN vals = S /\ \A t \in S : vals[t] = r
  BY <1>1, <1>3
<1> QED
  BY <1>1, <1>2, <1>4, TickerFacts

(* What the cache has of a symbol.                                         *)
LEMMA SubmapFacts ==
    ASSUME Typed, NEW f \in From
    PROVE  /\ Submap(f) \in Tickers
           /\ \A t \in DOMAIN Submap(f) : f \in DOMAIN cached_tickers /\ t \in DOMAIN cached_tickers[f]
                                          /\ Submap(f)[t] = cached_tickers[f][t]
           /\ f \in DOMAIN cached_tickers => Submap(f) = cached_tickers[f]
           /\ f \notin DOMAIN cached_tickers => DOMAIN Submap(f) = {}
  BY TickerFacts, EmptyMaps DEF Submap, Typed

-----------------------------------------------------------------------------
(* A request comes to its next step without the mutex, or gives it back.   *)
LEMMA ClientSteps ==
    ASSUME Typed, NEW c \in Clients, NEW r \in ClientStates, r.at # "asking",
           client' = [client EXCEPT ![c] = r],
           IF client[c].at = "asking" THEN holder' = Free ELSE holder' = holder
    PROVE  /\ client' \in [Clients -> ClientStates]
           /\ client'[c] = r /\ \A d \in Clients \ {c} : client'[d] = client[d]
           /\ \A d \in Clients : (holder' = d) = (client'[d].at = "asking")
           /\ client[c].at = "asking" => \A d \in Clients : client'[d].at # "asking"
<1>1. /\ client' \in [Clients -> ClientStates]
      /\ client'[c] = r /\ \A d \in Clients \ {c} : client'[d] = client[d]
  BY DEF Typed
<1>2. \A d \in Clients : (holder' = d) = (client'[d].at = "asking")
  BY <1>1, FreeIsNobody DEF Typed
<1>3. ASSUME client[c].at = "asking" PROVE \A d \in Clients : client'[d].at # "asking"
  BY <1>2, <1>3, FreeIsNobody
<1> QED
  BY <1>1, <1>2, <1>3

(* The requests there are.                                                 *)
LEMMA StateFacts ==
    /\ \A o \in {"none", "ok", "error", "undecodable"} :
          Idle(o) \in ClientStates /\ Idle(o).at = "idle" /\ Idle(o).outcome = o
    /\ \A r \in ClientStates :
          /\ r.at \in {"ticker", "pair"} => r \in Asked
          /\ r.at = "asking" => r \in Asking
          /\ r.at = "get challenge" => r.user \in Users
          /\ r.at = "redeem" => r.user \in Users /\ r.challenge \in Nat
    /\ \A r \in Asked :
          /\ r \in ClientStates
          /\ r.from \in From /\ r.at \in {"ticker", "pair"}
          /\ r.at = "pair" => r.to \in To
    /\ \A r \in Asking :
          /\ r.at = "asking" /\ r \in ClientStates
          /\ r.for \in Asked /\ r.symbols \in SUBSET To /\ r.since \in 0..MaxRate
<1>1. \A o \in {"none", "ok", "error", "undecodable"} :
          Idle(o) \in ClientStates /\ Idle(o).at = "idle" /\ Idle(o).outcome = o
  BY DEF Idle, ClientStates
<1>2. \A r \in Asked : /\ r \in ClientStates
                       /\ r.from \in From /\ r.at \in {"ticker", "pair"}
                       /\ r.at = "pair" => r.to \in To
  BY DEF Asked, ClientStates
<1>3. \A r \in Asking : /\ r.at = "asking" /\ r \in ClientStates
                        /\ r.for \in Asked /\ r.symbols \in SUBSET To /\ r.since \in 0..MaxRate
  BY DEF Asking, ClientStates
<1>4. \A r \in ClientStates :
          /\ r.at \in {"ticker", "pair"} => r \in Asked
          /\ r.at = "asking" => r \in Asking
          /\ r.at = "get challenge" => r.user \in Users
          /\ r.at = "redeem" => r.user \in Users /\ r.challenge \in Nat
  BY <1>2, <1>3 DEF ClientStates
<1> QED
  BY <1>1, <1>2, <1>3, <1>4

LEMMA KeysAlone ==
    ASSUME Keys, UNCHANGED <<challenges, given, opened, expired>>
    PROVE  Keys'
  BY DEF Keys

(* Steps that leave the rates alone and take nobody's mutex.               *)
LEMMA RatesAlone ==
    ASSUME FullAnswers, UNCHANGED <<now, cached_tickers, served, worker>>,
           \A c \in Clients : \/ client'[c] = client[c]
                              \/ client'[c].at # "asking" /\ client'[c] # Idle("undecodable")
    PROVE  FullAnswers'
<1>1. /\ Cached' /\ \A p \in From \X To : served'[p] <= now'
      /\ \A a : AsksForNew(a) => AsksForNew(a)'
      /\ \A w : Refreshes(w) => Refreshes(w)'
  BY DEF FullAnswers, Cached, AsksForNew, Refreshes
<1> QED
  BY <1>1 DEF FullAnswers

-----------------------------------------------------------------------------
LEMMA RatesChangeKept ==
    ASSUME RuntimeInv, kinds' = kinds, RatesChange
    PROVE  RuntimeInv'
<1>1. /\ now < MaxRate /\ now' = now + 1 /\ now \in 0..MaxRate
      /\ UNCHANGED <<cached_tickers, challenges, holder, client, worker, given, opened, expired, served>>
  BY DEF RatesChange, runtime, history, RuntimeInv, Typed
<1>2. Typed'
  BY <1>1, RuntimeConstants DEF RuntimeInv, Typed
<1>3. Keys'
  BY <1>1, KeysAlone DEF RuntimeInv
<1>4. ASSUME FullAnswers PROVE FullAnswers'
  <2>1. /\ served \in [From \X To -> 0..MaxRate] /\ cached_tickers \in TickerMaps
        /\ client \in [Clients -> ClientStates] /\ worker \in Refreshing \union {Sleeping}
    BY DEF RuntimeInv, Typed
  <2>2. \A p \in From \X To : served[p] \in Int /\ served[p] <= now'
    BY <1>1, <1>4, <2>1 DEF FullAnswers
  <2>3. Cached'
    BY <1>1, <1>4, <2>1, TickerFacts DEF FullAnswers, Cached
  <2>4. ASSUME NEW c \in Clients, client[c].at = "asking" PROVE AsksForNew(client[c])'
    <3>1. client[c] \in Asking /\ AsksForNew(client[c])
      BY <1>4, <2>1, <2>4, StateFacts DEF FullAnswers
    <3>2. client[c].since \in 0..MaxRate /\ client'[c] = client[c]
      BY <1>1, <3>1, StateFacts
    <3> QED
      BY <1>1, <3>1, <3>2 DEF AsksForNew
  <2>5. ASSUME worker.at = "asking" PROVE Refreshes(worker)'
    <3>1. worker \in Refreshing /\ Refreshes(worker)
      BY <1>4, <2>1, <2>5 DEF FullAnswers, Sleeping
    <3>2. \A f \in DOMAIN worker.fresh : \A t \in DOMAIN worker.fresh[f] :
              worker.fresh[f][t] \in Int
      BY <3>1, TickerFacts DEF Refreshing
    <3> QED
      BY <1>1, <3>1, <3>2 DEF Refreshes
  <2> QED
    BY <1>1, <1>4, <2>2, <2>3, <2>4, <2>5 DEF FullAnswers
<1> QED
  BY <1>2, <1>3, <1>4 DEF RuntimeInv

(* A request arrives, or an error ends it.                                 *)
LEMMA StepAside ==
    ASSUME RuntimeInv, kinds' = kinds, NEW c \in Clients, NEW r \in ClientStates,
           r.at # "asking", r # Idle("undecodable"),
           client' = [client EXCEPT ![c] = r],
           IF client[c].at = "asking" THEN holder' = Free ELSE holder' = holder,
           UNCHANGED <<now, cached_tickers, worker, served>>
    PROVE  Typed' /\ ("partial" \notin kinds => FullAnswers')
<1>1. /\ client' \in [Clients -> ClientStates]
      /\ client'[c] = r /\ \A d \in Clients \ {c} : client'[d] = client[d]
      /\ \A d \in Clients : (holder' = d) = (client'[d].at = "asking")
  BY ClientSteps DEF RuntimeInv
<1>2. Typed'
  BY <1>1 DEF RuntimeInv, Typed
<1>3. ASSUME FullAnswers PROVE FullAnswers'
  BY <1>1, <1>3, RatesAlone
<1> QED
  BY <1>2, <1>3 DEF RuntimeInv

LEMMA RequestKept ==
    ASSUME RuntimeInv, kinds' = kinds, NEW c \in Clients, Requests(c)
    PROVE  RuntimeInv'
<1>1. PICK r \in ClientStates : /\ Request(c, r)
                                /\ r.at # "asking" /\ r # Idle("undecodable")
  <2>1. ASSUME NEW f \in From
        PROVE  /\ Ticker(f) \in ClientStates /\ Ticker(f).at = "ticker"
               /\ Ticker(f) # Idle("undecodable")
    BY DEF Ticker, ClientStates, Asked, Idle
  <2>2. ASSUME NEW f \in From, NEW t \in To
        PROVE  /\ Pair(f, t) \in ClientStates /\ Pair(f, t).at = "pair"
               /\ Pair(f, t) # Idle("undecodable")
    BY DEF Pair, ClientStates, Asked, Idle
  <2>3. ASSUME NEW u \in Users
        PROVE  /\ GetChallenge(u) \in ClientStates /\ GetChallenge(u).at = "get challenge"
               /\ GetChallenge(u) # Idle("undecodable")
    BY DEF GetChallenge, ClientStates, Idle
  <2>4. ASSUME NEW u \in Users, NEW k \in DOMAIN given
        PROVE  /\ Redeem(u, k) \in ClientStates /\ Redeem(u, k).at = "redeem"
               /\ Redeem(u, k) # Idle("undecodable")
    <3>1. k \in Nat
      <4>1. DOMAIN given = 1..Cardinality(DOMAIN given) /\ Cardinality(DOMAIN given) \in Nat
        BY DEF RuntimeInv, Keys
      <4> QED
        BY <4>1
    <3> QED
      BY <3>1 DEF Redeem, ClientStates, Idle
  <2> QED
    BY <2>1, <2>2, <2>3, <2>4 DEF Requests
<1>2. /\ client[c].at = "idle" /\ client' = [client EXCEPT ![c] = r]
      /\ UNCHANGED <<now, cached_tickers, challenges, holder, worker, given, opened, expired, served>>
  BY <1>1 DEF Request, runtime, history
<1>3. Typed' /\ ("partial" \notin kinds => FullAnswers')
  BY <1>1, <1>2, StepAside
<1>4. Keys'
  BY <1>2, KeysAlone DEF RuntimeInv
<1> QED
  BY <1>3, <1>4 DEF RuntimeInv

LEMMA ProviderFailsKept ==
    ASSUME RuntimeInv, kinds' = kinds, NEW c \in Clients, provider_fails(c)
    PROVE  RuntimeInv'
<1>1. /\ client[c].at = "asking" /\ holder' = Free
      /\ client' = [client EXCEPT ![c] = Idle("error")]
      /\ UNCHANGED <<now, cached_tickers, challenges, worker, given, opened, expired, served>>
  BY DEF provider_fails, Answer, history
<1>2. /\ Idle("error") \in ClientStates /\ Idle("error").at = "idle"
      /\ Idle("error") # Idle("undecodable")
  BY StateFacts
<1>3. Typed' /\ ("partial" \notin kinds => FullAnswers')
  BY <1>1, <1>2, StepAside
<1>4. Keys'
  BY <1>1, KeysAlone DEF RuntimeInv
<1> QED
  BY <1>3, <1>4 DEF RuntimeInv

(* What is told of a symbol from the cache, or from an answer.             *)
LEMMA TellsFacts ==
    ASSUME Typed, NEW from \in From, NEW vals \in Tickers, Tells(from, vals)
    PROVE  /\ served' \in [From \X To -> 0..MaxRate]
           /\ \A f \in From, t \in To :
                 served'[<<f, t>>] = IF f = from /\ t \in DOMAIN vals THEN vals[t]
                                     ELSE served[<<f, t>>]
  BY TickerFacts DEF Tells, Typed

(* All of it is in the cache.                                              *)
LEMMA CacheHitKept ==
    ASSUME RuntimeInv, kinds' = kinds, NEW c \in Clients, cache_hit(c)
    PROVE  RuntimeInv'
<1> DEFINE r == client[c]
           f == r.from
<1>1. /\ r \in Asked /\ r.at # "asking" /\ f \in From /\ holder = Free
      /\ client' = [client EXCEPT ![c] = Idle("ok")]
      /\ UNCHANGED <<now, cached_tickers, challenges, holder, worker, given, opened, expired>>
  BY StateFacts DEF RuntimeInv, Typed, cache_hit, Answer, runtime
<1>0. PICK v : v = Restrict(Submap(f), Wanted(r))
  OBVIOUS
<1>2. /\ Tells(f, v) /\ Missing(r) = {}
      /\ v = [t \in Wanted(r) |-> Submap(f)[t]]
  BY <1>0 DEF cache_hit, Restrict
<1>3. Wanted(r) \subseteq To /\ Wanted(r) \subseteq DOMAIN Submap(f)
  BY <1>1, <1>2, StateFacts DEF Wanted, Missing, To
<1>4. v \in Tickers
  <2>1. v \in [Wanted(r) -> 0..MaxRate]
    BY <1>1, <1>2, <1>3, SubmapFacts, TickerFacts DEF RuntimeInv
  <2> QED
    BY <1>3, <2>1, TickerFacts
<1>5. /\ served' \in [From \X To -> 0..MaxRate]
      /\ \A g \in From, t \in To :
            \/ served'[<<g, t>>] = served[<<g, t>>]
            \/ /\ g \in DOMAIN cached_tickers /\ t \in DOMAIN cached_tickers[g]
               /\ served'[<<g, t>>] = cached_tickers[g][t]
  <2>1. /\ served' \in [From \X To -> 0..MaxRate]
        /\ \A g \in From, t \in To :
              served'[<<g, t>>] = IF g = f /\ t \in DOMAIN v THEN v[t]
                                  ELSE served[<<g, t>>]
    BY <1>1, <1>2, <1>4, TellsFacts DEF RuntimeInv
  <2> QED
    BY <1>1, <1>2, <1>3, <2>1, SubmapFacts DEF RuntimeInv
<1>6. /\ client' \in [Clients -> ClientStates]
      /\ client'[c] = Idle("ok") /\ \A d \in Clients \ {c} : client'[d] = client[d]
      /\ \A d \in Clients : (holder' = d) = (client'[d].at = "asking")
  BY <1>1, ClientSteps, StateFacts DEF RuntimeInv
<1>7. Typed'
  BY <1>1, <1>5, <1>6 DEF RuntimeInv, Typed
<1>8. Keys'
  BY <1>1, KeysAlone DEF RuntimeInv
<1>9. ASSUME FullAnswers PROVE FullAnswers'
  <2>1. cached_tickers \in TickerMaps /\ served \in [From \X To -> 0..MaxRate] /\ now \in 0..MaxRate
    BY DEF RuntimeInv, Typed
  <2>2. Cached'
    BY <1>1, <1>5, <1>9, <2>1, TickerFacts DEF FullAnswers, Cached
  <2>3. \A p \in From \X To : served'[p] <= now'
    BY <1>1, <1>5, <1>9, <2>1 DEF FullAnswers, Cached
  <2>4. \A d \in Clients : client'[d].at # "asking"
    BY <1>1, <1>6, FreeIsNobody
  <2>5. \A d \in Clients : client'[d] # Idle("undecodable")
    <3>1. Idle("ok") # Idle("undecodable")
      BY DEF Idle
    <3> QED
      BY <1>6, <1>9, <3>1 DEF FullAnswers
  <2>6. worker'.at = "asking" => Refreshes(worker)'
    BY <1>1, <1>9 DEF FullAnswers, Refreshes
  <2> QED
    BY <2>2, <2>3, <2>4, <2>5, <2>6 DEF FullAnswers
<1> QED
  BY <1>7, <1>8, <1>9 DEF RuntimeInv

(* Some of it is missing: the provider is asked, with the mutex held.      *)
LEMMA CacheMissKept ==
    ASSUME RuntimeInv, kinds' = kinds, NEW c \in Clients, cache_miss(c)
    PROVE  RuntimeInv'
<1> DEFINE r == client[c]
<1>0. PICK a : a = [ at |-> "asking", for |-> r, symbols |-> Missing(r), since |-> now ]
  OBVIOUS
<1>1. /\ r \in Asked /\ r.from \in From /\ r.at \in {"ticker", "pair"} /\ holder = Free
      /\ Missing(r) # {} /\ holder' = c
      /\ client' = [client EXCEPT ![c] = a]
      /\ UNCHANGED <<now, cached_tickers, challenges, worker, given, opened, expired, served>>
  BY <1>0, StateFacts DEF RuntimeInv, Typed, cache_miss, history
<1>2. Missing(r) \in SUBSET To
  BY <1>1, StateFacts DEF Missing, Wanted, To
<1>3. a \in Asking /\ a.at = "asking" /\ a \in ClientStates
  BY <1>0, <1>1, <1>2, StateFacts DEF Asking, RuntimeInv, Typed
<1>4. /\ client' \in [Clients -> ClientStates]
      /\ client'[c] = a /\ \A d \in Clients \ {c} : client'[d] = client[d]
      /\ \A d \in Clients \ {c} : client[d].at # "asking"
      /\ \A d \in Clients : (holder' = d) = (client'[d].at = "asking")
  BY <1>1, <1>3, FreeIsNobody DEF RuntimeInv, Typed
<1>5. Typed'
  BY <1>1, <1>4 DEF RuntimeInv, Typed
<1>6. Keys'
  BY <1>1, KeysAlone DEF RuntimeInv
<1>7. ASSUME FullAnswers PROVE FullAnswers'
  <2>1. now \in Int
    BY DEF RuntimeInv, Typed
  <2>2. /\ a.since = now /\ a.for = r /\ a.symbols = Missing(r)
    BY <1>0
  <2>3. r.at = "ticker" => r.from \notin DOMAIN cached_tickers /\ Missing(r) = TickerETH
    BY <1>1, <1>7, SubmapFacts DEF RuntimeInv, FullAnswers, Cached, Missing, Wanted
  <2>4. r.at = "pair" /\ r.from \in DOMAIN cached_tickers
          => r.to \notin DOMAIN cached_tickers[r.from]
    BY <1>1, SubmapFacts DEF RuntimeInv, Missing, Wanted
  <2>5. AsksForNew(a)
    BY <1>7, <2>1, <2>2, <2>3, <2>4 DEF FullAnswers, AsksForNew
  <2>6. AsksForNew(a)'
    BY <1>1, <2>5 DEF AsksForNew
  <2>7. Cached' /\ (Refreshes(worker) => Refreshes(worker)')
    BY <1>1, <1>7 DEF FullAnswers, Cached, Refreshes
  <2>8. a # Idle("undecodable")
    BY <1>3, StateFacts
  <2> QED
    BY <1>1, <1>4, <1>7, <2>6, <2>7, <2>8 DEF FullAnswers
<1> QED
  BY <1>5, <1>6, <1>7 DEF RuntimeInv

(* An answer with the rates vals of a symbol fills a gap in the cache and  *)
(* changes nothing that is there.                                          *)
FillsGap(from, vals) ==
    /\ DOMAIN cached_tickers \subseteq DOMAIN cached_tickers'
    /\ \A f \in DOMAIN cached_tickers' \ {from} :
          f \in DOMAIN cached_tickers /\ cached_tickers'[f] = cached_tickers[f]
    /\ from \in DOMAIN cached_tickers' =>
         /\ TickerETH \subseteq DOMAIN cached_tickers'[from]
         /\ from \in DOMAIN cached_tickers =>
               DOMAIN cached_tickers[from] \subseteq DOMAIN cached_tickers'[from]
         /\ \A t \in DOMAIN cached_tickers'[from] :
               \/ /\ from \in DOMAIN cached_tickers
                  /\ t \in DOMAIN cached_tickers[from] \ DOMAIN vals
                  /\ cached_tickers'[from][t] = cached_tickers[from][t]
               \/ /\ t \in DOMAIN vals
                  /\ ~(from \in DOMAIN cached_tickers /\ t \in DOMAIN cached_tickers[from])
                  /\ cached_tickers'[from][t] = vals[t]

(* An answer comes: the mutex is given back, the cache changes only where  *)
(* something was missing, and the client may be told the answer.           *)
LEMMA ReplyKept ==
    ASSUME RuntimeInv, kinds' = kinds, NEW c \in Clients, client[c].at = "asking",
           NEW from \in From, from = client[c].for.from,
           NEW vals \in Tickers, \A t \in DOMAIN vals : vals[t] \in client[c].since..now,
           NEW o \in {"ok", "error", "undecodable"},
           client' = [client EXCEPT ![c] = Idle(o)], holder' = Free,
           Tells(from, vals) \/ served' = served,
           cached_tickers' \in TickerMaps,
           UNCHANGED <<now, challenges, worker, given, opened, expired>>,
           "partial" \notin kinds /\ FullAnswers => o # "undecodable" /\ FillsGap(from, vals)
    PROVE  RuntimeInv'
<1>1. /\ Typed /\ Keys
      /\ client[c] \in Asking /\ client[c].since \in 0..MaxRate /\ now \in 0..MaxRate
      /\ served \in [From \X To -> 0..MaxRate] /\ cached_tickers \in TickerMaps
  BY StateFacts DEF RuntimeInv, Typed
<1>2. /\ Idle(o) \in ClientStates /\ Idle(o).at = "idle" /\ Idle(o).outcome = o
      /\ Idle("undecodable").outcome = "undecodable"
  BY StateFacts
<1>3. /\ client' \in [Clients -> ClientStates]
      /\ client'[c] = Idle(o) /\ \A d \in Clients \ {c} : client'[d] = client[d]
      /\ \A d \in Clients : (holder' = d) = (client'[d].at = "asking")
      /\ \A d \in Clients : client'[d].at # "asking"
  BY <1>1, <1>2, ClientSteps
<1>4. /\ served' \in [From \X To -> 0..MaxRate]
      /\ \A f \in From, t \in To :
            \/ served'[<<f, t>>] = served[<<f, t>>]
            \/ f = from /\ t \in DOMAIN vals /\ served'[<<f, t>>] = vals[t]
  BY <1>1, TellsFacts
<1>5. Typed'
  BY <1>1, <1>3, <1>4 DEF Typed
<1>6. Keys'
  BY <1>1, KeysAlone
<1>7. ASSUME "partial" \notin kinds, FullAnswers PROVE FullAnswers'
  <2>1. /\ Cached /\ AsksForNew(client[c])
        /\ \A p \in From \X To : served[p] <= client[c].since
    BY <1>7 DEF FullAnswers, AsksForNew
  <2>2. \A p \in From \X To : served'[p] <= now'
    BY <1>1, <1>4, <1>7 DEF FullAnswers
  <2>3. ASSUME NEW f \in DOMAIN cached_tickers'
        PROVE  /\ TickerETH \subseteq DOMAIN cached_tickers'[f]
               /\ \A t \in DOMAIN cached_tickers'[f] :
                     /\ served'[<<f, t>>] <= cached_tickers'[f][t]
                     /\ cached_tickers'[f][t] <= now'
    <3>1. f \in From /\ DOMAIN cached_tickers'[f] \subseteq To
      BY TickerFacts
    <3>2. CASE f # from
      BY <1>4, <1>7, <2>1, <3>1, <3>2 DEF Cached, FillsGap
    <3>3. CASE f = from
      <4>1. TickerETH \subseteq DOMAIN cached_tickers'[f]
        BY <1>7, <3>3 DEF FillsGap
      <4>2. ASSUME NEW t \in DOMAIN cached_tickers'[f]
            PROVE  served'[<<f, t>>] <= cached_tickers'[f][t] /\ cached_tickers'[f][t] <= now'
        <5>1. t \in To /\ served[<<f, t>>] \in Int /\ served[<<f, t>>] <= client[c].since
          BY <1>1, <2>1, <3>1
        <5>2. CASE /\ from \in DOMAIN cached_tickers
                   /\ t \in DOMAIN cached_tickers[from] \ DOMAIN vals
                   /\ cached_tickers'[from][t] = cached_tickers[from][t]
          BY <1>4, <2>1, <3>1, <3>3, <5>1, <5>2 DEF Cached
        <5>3. CASE /\ t \in DOMAIN vals
                   /\ cached_tickers'[from][t] = vals[t]
          BY <1>1, <1>4, <3>1, <3>3, <5>1, <5>3
        <5> QED
          BY <1>7, <3>3, <5>2, <5>3 DEF FillsGap
      <4> QED
        BY <4>1, <4>2
    <3> QED
      BY <3>2, <3>3
  <2>4. \A d \in Clients : client'[d] # Idle("undecodable")
    BY <1>2, <1>3, <1>7 DEF FullAnswers
  <2>5. ASSUME worker.at = "asking" PROVE Refreshes(worker)'
    <3>1. Refreshes(worker)
      BY <1>7, <2>5 DEF FullAnswers
    <3>2. \A f \in DOMAIN cached_tickers :
             /\ f \in DOMAIN cached_tickers'
             /\ \A t \in DOMAIN cached_tickers[f] :
                   /\ t \in DOMAIN cached_tickers'[f]
                   /\ cached_tickers'[f][t] = cached_tickers[f][t]
      BY <1>7 DEF FillsGap
    <3> QED
      BY <3>1, <3>2 DEF Refreshes
  <2> QED
    BY <1>3, <2>2, <2>3, <2>4, <2>5 DEF FullAnswers, Cached
<1> QED
  BY <1>5, <1>6, <1>7 DEF RuntimeInv

LEMMA TickerReplyKept ==
    ASSUME RuntimeInv, kinds' = kinds, NEW c \in Clients, ticker_reply(c)
    PROVE  RuntimeInv'
<1>0. PICK from, symbols, since : /\ from = client[c].for.from
                                  /\ symbols = client[c].symbols /\ since = client[c].since
  OBVIOUS
<1>1. /\ client[c] \in Asking /\ client[c].at = "asking" /\ client[c].for.at = "ticker"
      /\ from \in From /\ symbols \in SUBSET To /\ since \in 0..MaxRate /\ now \in 0..MaxRate
      /\ cached_tickers \in TickerMaps /\ holder' = Free
      /\ UNCHANGED <<now, challenges, worker, given, opened, expired>>
  BY <1>0, StateFacts DEF RuntimeInv, Typed, ticker_reply
<1>2. PICK vals \in Answers(symbols, since) :
          /\ cached_tickers' = [f \in DOMAIN cached_tickers \union {from} |->
                                  IF f = from THEN vals ELSE cached_tickers[f]]
          /\ IF TickerETH \subseteq DOMAIN vals
             THEN Answer(c, "ok") /\ Tells(from, vals)
             ELSE Answer(c, "undecodable") /\ UNCHANGED served
  BY <1>0 DEF ticker_reply
<1>3. /\ vals \in Tickers /\ DOMAIN vals \subseteq symbols
      /\ "partial" \notin kinds => DOMAIN vals = symbols
      /\ \A t \in DOMAIN vals : vals[t] \in since..now
  BY <1>1, AnswerFacts
<1>4. cached_tickers' \in TickerMaps
  <2>1. /\ DOMAIN cached_tickers \union {from} \in SUBSET From
        /\ cached_tickers' \in [DOMAIN cached_tickers \union {from} -> Tickers]
    BY <1>1, <1>2, <1>3, TickerFacts
  <2> QED
    BY <2>1, TickerFacts
<1>5. ASSUME "partial" \notin kinds, FullAnswers
      PROVE  DOMAIN vals = TickerETH /\ from \notin DOMAIN cached_tickers
  BY <1>0, <1>1, <1>3, <1>5 DEF FullAnswers, AsksForNew
<1>6. PICK o \in {"ok", "undecodable"} :
          /\ client' = [client EXCEPT ![c] = Idle(o)]
          /\ Tells(from, vals) \/ served' = served
          /\ TickerETH \subseteq DOMAIN vals => o # "undecodable"
  BY <1>2 DEF Answer
<1>7. \A t \in DOMAIN vals : vals[t] \in client[c].since..now
  BY <1>0, <1>3
<1>8. ASSUME "partial" \notin kinds, FullAnswers
      PROVE  o # "undecodable" /\ FillsGap(from, vals)
  BY <1>2, <1>5, <1>6, <1>8 DEF FillsGap
<1> QED
  BY <1>0, <1>1, <1>3, <1>4, <1>5, <1>6, <1>7, <1>8, ReplyKept

LEMMA PairReplyKept ==
    ASSUME RuntimeInv, kinds' = kinds, NEW c \in Clients, pair_reply(c)
    PROVE  RuntimeInv'
<1>0. PICK from, to, since : /\ from = client[c].for.from
                             /\ to = client[c].for.to /\ since = client[c].since
  OBVIOUS
<1>1. /\ client[c] \in Asking /\ client[c].at = "asking" /\ client[c].for.at = "pair"
      /\ from \in From /\ to \in To /\ since \in 0..MaxRate /\ now \in 0..MaxRate
      /\ cached_tickers \in TickerMaps /\ holder' = Free
      /\ UNCHANGED <<now, challenges, worker, given, opened, expired>>
  BY <1>0, StateFacts DEF RuntimeInv, Typed, pair_reply
<1>2. PICK vals \in Answers({to}, since) :
          IF to \in DOMAIN vals
          THEN /\ cached_tickers' = WithRate(from, to, vals[to])
               /\ Answer(c, "ok") /\ Tells(from, vals)
          ELSE Answer(c, "error") /\ UNCHANGED <<cached_tickers, served>>
  BY <1>0 DEF pair_reply
<1>3. /\ vals \in Tickers /\ DOMAIN vals \subseteq {to}
      /\ \A t \in DOMAIN vals : vals[t] \in since..now
  <2>1. {to} \in SUBSET To
    BY <1>1
  <2> QED
    BY <1>1, <2>1, AnswerFacts
<1>4. CASE to \notin DOMAIN vals
  <2>1. /\ client' = [client EXCEPT ![c] = Idle("error")]
        /\ UNCHANGED <<now, cached_tickers, challenges, worker, given, opened, expired, served>>
    BY <1>1, <1>2, <1>4 DEF Answer
  <2>2. Idle("error") \in ClientStates /\ Idle("error").at = "idle" /\ Idle("error") # Idle("undecodable")
    BY StateFacts
  <2>3. Typed' /\ ("partial" \notin kinds => FullAnswers')
    BY <1>1, <2>1, <2>2, StepAside
  <2> QED
    BY <2>1, <2>3, KeysAlone DEF RuntimeInv
<1>5. CASE to \in DOMAIN vals
  <2>1. /\ cached_tickers' = WithRate(from, to, vals[to])
        /\ client' = [client EXCEPT ![c] = Idle("ok")] /\ Tells(from, vals)
    BY <1>2, <1>5 DEF Answer
  <2>2. /\ DOMAIN cached_tickers' = DOMAIN cached_tickers
        /\ \A f \in DOMAIN cached_tickers \ {from} : cached_tickers'[f] = cached_tickers[f]
        /\ from \in DOMAIN cached_tickers =>
             cached_tickers'[from] = [t \in DOMAIN cached_tickers[from] \union {to} |->
                                        IF t = to THEN vals[to] ELSE cached_tickers[from][t]]
    BY <2>1 DEF WithRate
  <2>3. cached_tickers' \in TickerMaps
    <3>1. ASSUME from \in DOMAIN cached_tickers PROVE cached_tickers'[from] \in Tickers
      <4>1. /\ DOMAIN cached_tickers[from] \union {to} \in SUBSET To
            /\ cached_tickers'[from] \in [DOMAIN cached_tickers[from] \union {to} -> 0..MaxRate]
        BY <1>1, <1>3, <1>5, <2>2, <3>1, TickerFacts
      <4> QED
        BY <4>1, TickerFacts
    <3>2. cached_tickers' \in [DOMAIN cached_tickers -> Tickers]
      BY <1>1, <2>1, <2>2, <3>1, TickerFacts DEF WithRate
    <3>3. DOMAIN cached_tickers \in SUBSET From
      BY <1>1, TickerFacts
    <3> QED
      BY <3>2, <3>3, TickerFacts
  <2>4. ASSUME FullAnswers
        PROVE  from \in DOMAIN cached_tickers => /\ to \notin DOMAIN cached_tickers[from]
                                                 /\ TickerETH \subseteq DOMAIN cached_tickers[from]
    BY <1>0, <1>1, <2>4 DEF FullAnswers, AsksForNew, Cached
  <2>5. DOMAIN vals = {to}
    BY <1>3, <1>5
  <2>6. \A t \in DOMAIN vals : vals[t] \in client[c].since..now
    BY <1>0, <1>3
  <2>7. ASSUME FullAnswers PROVE FillsGap(from, vals)
    BY <2>2, <2>4, <2>5, <2>7 DEF FillsGap
  <2> QED
    BY <1>0, <1>1, <1>3, <2>1, <2>2, <2>3, <2>6, <2>7, ReplyKept
<1> QED
  BY <1>4, <1>5

-----------------------------------------------------------------------------
(* Signing in with a key.                                                  *)
LEMMA GetChallengeKept ==
    ASSUME RuntimeInv, kinds' = kinds, NEW c \in Clients, get_challenge(c)
    PROVE  RuntimeInv'
<1>0. PICK u, n, k : u = client[c].user /\ n = Cardinality(DOMAIN given) /\ k = n + 1
  OBVIOUS
<1>1. /\ client[c].at = "get challenge" /\ client' = [client EXCEPT ![c] = Idle("ok")]
      /\ challenges' = [v \in DOMAIN challenges \union {u} |-> IF v = u THEN k ELSE challenges[v]]
      /\ given' = [j \in 1..k |-> IF j = k THEN u ELSE given[j]]
      /\ UNCHANGED <<now, cached_tickers, holder, worker, opened, expired, served>>
  BY <1>0 DEF get_challenge, Answer
<1>2. Idle("ok") \in ClientStates /\ Idle("ok").at = "idle" /\ Idle("ok") # Idle("undecodable")
  BY StateFacts
<1>3. Typed' /\ ("partial" \notin kinds => FullAnswers')
  BY <1>1, <1>2, StepAside
<1>4. /\ n \in Nat /\ DOMAIN given = 1..n /\ opened \in [Challenges -> [Users -> Nat]]
      /\ expired \subseteq 1..n
      /\ \A v \in DOMAIN challenges :
            /\ challenges[v] \in 1..n /\ challenges[v] \notin expired
            /\ given[challenges[v]] = v
            /\ \A j \in 1..n : given[j] = v => j <= challenges[v]
            /\ challenges[v] \in Challenges /\ v \in Users => opened[challenges[v]][v] = 0
      /\ \A j \in Challenges, v \in Users : j \notin 1..n => opened[j][v] = 0
  <2>1. n \in Nat /\ DOMAIN given = 1..n
    BY <1>0 DEF RuntimeInv, Keys
  <2> QED
    BY <2>1 DEF RuntimeInv, Keys
<1>5. /\ DOMAIN given' = 1..k /\ given'[k] = u
      /\ \A j \in 1..n : j \in 1..k /\ j # k /\ given'[j] = given[j]
      /\ k \in 1..k /\ k \notin 1..n /\ k \in Nat
      /\ \A j \in 1..k : j = k \/ j \in 1..n
  <2>1. k \in 1..k /\ k \notin 1..n /\ k \in Nat /\ \A j \in 1..n : j \in 1..k /\ j # k
    BY <1>0, <1>4
  <2>2. \A j \in 1..k : j = k \/ j \in 1..n
    BY <1>0, <1>4
  <2> QED
    BY <1>1, <2>1, <2>2
<1>6. Cardinality(DOMAIN given') = k /\ k \in Nat
  BY <1>5, FS_Interval
<1>7. ASSUME NEW v \in DOMAIN challenges'
      PROVE  /\ challenges'[v] \in DOMAIN given' \ expired
             /\ given'[challenges'[v]] = v
             /\ \A j \in DOMAIN given' : given'[j] = v => j <= challenges'[v]
             /\ challenges'[v] \in Challenges /\ v \in Users => opened[challenges'[v]][v] = 0
  <2>1. CASE v = u
    <3>1. challenges'[v] = k
      BY <1>1, <2>1
    <3>2. \A j \in 1..k : j <= k
      OBVIOUS
    <3> QED
      BY <1>4, <1>5, <2>1, <3>1, <3>2
  <2>2. CASE v # u
    <3>1. v \in DOMAIN challenges /\ challenges'[v] = challenges[v]
      BY <1>1, <2>2
    <3> QED
      BY <1>4, <1>5, <2>2, <3>1
  <2> QED
    BY <2>1, <2>2
<1>8. Keys'
  <2>1. /\ opened' \in [Challenges -> [Users -> Nat]] /\ expired' \subseteq DOMAIN given'
        /\ \A j \in Challenges \ DOMAIN given' : \A v \in Users : opened'[j][v] = 0
    <3>1. \A j \in Challenges \ DOMAIN given' : j \notin 1..n
      BY <1>5
    <3>2. expired' \subseteq DOMAIN given'
      BY <1>1, <1>4, <1>5
    <3> QED
      BY <1>1, <1>4, <3>1, <3>2
  <2> QED
    BY <1>1, <1>5, <1>6, <1>7, <2>1 DEF Keys
<1> QED
  BY <1>3, <1>8 DEF RuntimeInv

LEMMA RedeemKept ==
    ASSUME RuntimeInv, kinds' = kinds, NEW c \in Clients, redeem_challenge(c)
    PROVE  RuntimeInv'
<1>0. PICK u, k : u = client[c].user /\ k = client[c].challenge
  OBVIOUS
<1>1. PICK o \in {"ok", "error"} :
        /\ client[c].at = "redeem" /\ client' = [client EXCEPT ![c] = Idle(o)]
        /\ UNCHANGED <<now, cached_tickers, holder, worker, given, expired, served>>
  BY DEF redeem_challenge, Answer
<1>2. Idle(o) \in ClientStates /\ Idle(o).at = "idle" /\ Idle(o) # Idle("undecodable")
  BY StateFacts
<1>3. Typed' /\ ("partial" \notin kinds => FullAnswers')
  BY <1>1, <1>2, StepAside
<1>4. CASE ~Redeems(client[c])
  BY <1>1, <1>3, <1>4, KeysAlone DEF redeem_challenge, RuntimeInv
<1>5. CASE Redeems(client[c])
  <2>1. /\ u \in DOMAIN challenges /\ challenges[u] = k
        /\ opened' = [opened EXCEPT ![k][u] = @ + 1]
        /\ challenges' = [v \in DOMAIN challenges \ {u} |-> challenges[v]]
        /\ UNCHANGED <<given, expired>>
    BY <1>0, <1>1, <1>5 DEF redeem_challenge, Redeems, Restrict
  <2>7. u \in Users
    BY <1>0, <1>1, StateFacts DEF RuntimeInv, Typed
  <2>2. /\ Keys /\ opened \in [Challenges -> [Users -> Nat]] /\ k \in DOMAIN given /\ given[k] = u
    BY <2>1 DEF RuntimeInv, Keys
  <2>3. /\ opened' \in [Challenges -> [Users -> Nat]]
        /\ \A j \in Challenges, v \in Users : j # k \/ v # u => opened'[j][v] = opened[j][v]
    <3>1. CASE k \in Challenges
      <4>1. opened[k][u] + 1 \in Nat /\ opened[k] \in [Users -> Nat]
        BY <2>2, <2>7, <3>1
      <4> QED
        BY <2>1, <2>2, <2>7, <3>1, <4>1
    <3>2. CASE k \notin Challenges
      BY <2>1, <2>2, <3>2
    <3> QED
      BY <3>1, <3>2
  <2>4. \A v \in DOMAIN challenges' : v \in DOMAIN challenges /\ challenges'[v] = challenges[v]
                                      /\ v # u
    BY <2>1
  <2>5. Keys'
    BY <2>1, <2>2, <2>3, <2>4 DEF Keys
  <2> QED
    BY <1>3, <2>5 DEF RuntimeInv
<1> QED
  BY <1>4, <1>5

-----------------------------------------------------------------------------
(* A step of ticker_worker changes nothing but what it holds itself, until *)
(* it replaces the cache.                                                  *)
LEMMA WorkerSteps ==
    ASSUME RuntimeInv, kinds' = kinds, worker' \in Refreshing,
           UNCHANGED <<now, cached_tickers, challenges, holder, client, given, opened, expired, served>>,
           "partial" \notin kinds /\ FullAnswers => Refreshes(worker')
    PROVE  RuntimeInv'
<1>1. Typed' /\ Keys'
  BY KeysAlone DEF RuntimeInv, Typed
<1>2. ASSUME FullAnswers, "partial" \notin kinds PROVE FullAnswers'
  <2>1. /\ Cached' /\ (\A p \in From \X To : served'[p] <= now')
        /\ \A a : AsksForNew(a) => AsksForNew(a)'
    BY <1>2 DEF FullAnswers, Cached, AsksForNew
  <2>2. Refreshes(worker)'
    BY <1>2 DEF Refreshes
  <2> QED
    BY <1>2, <2>1, <2>2 DEF FullAnswers
<1> QED
  BY <1>1, <1>2 DEF RuntimeInv

LEMMA WorkerReadsKept ==
    ASSUME RuntimeInv, kinds' = kinds, worker_reads
    PROVE  RuntimeInv'
<1>0. PICK p : p = [f \in DOMAIN cached_tickers |-> DOMAIN cached_tickers[f]]
  OBVIOUS
<1>1. /\ worker' = [ at |-> "asking", fresh |-> Empty, pairs |-> p ]
      /\ UNCHANGED <<now, cached_tickers, challenges, holder, client, given, opened, expired, served>>
  BY <1>0 DEF worker_reads, runtime, history
<1>2. cached_tickers \in TickerMaps
  BY DEF RuntimeInv, Typed
<1>3. p \in PairMaps
  <2>1. DOMAIN cached_tickers \in SUBSET From /\ p \in [DOMAIN cached_tickers -> SUBSET To]
    BY <1>0, <1>2, TickerFacts
  <2> QED
    BY <2>1, TickerFacts
<1>4. /\ worker' \in Refreshing /\ worker'.pairs = p /\ worker'.fresh = Empty
  BY <1>1, <1>3, EmptyMaps DEF Refreshing
<1>5. FullAnswers => Refreshes(worker')
  BY <1>0, <1>4, EmptyMaps DEF FullAnswers, Cached, Refreshes
<1> QED
  BY <1>1, <1>4, <1>5, WorkerSteps

(* One symbol less to ask for.                                             *)
LEMMA FewerPairs ==
    ASSUME Typed, NEW f, worker.at = "asking", f \in DOMAIN worker.pairs
    PROVE  /\ worker \in Refreshing /\ f \in From /\ worker.pairs[f] \in SUBSET To
           /\ Without(worker.pairs, f) \in PairMaps
           /\ DOMAIN Without(worker.pairs, f) = DOMAIN worker.pairs \ {f}
           /\ \A g \in DOMAIN worker.pairs \ {f} : Without(worker.pairs, f)[g] = worker.pairs[g]
<1>1. worker \in Refreshing /\ worker.pairs \in PairMaps
  BY DEF Typed, Sleeping, Refreshing
<1>2. Without(worker.pairs, f) = [g \in DOMAIN worker.pairs \ {f} |-> worker.pairs[g]]
  BY DEF Without, Restrict
<1>3. /\ f \in From /\ worker.pairs[f] \in SUBSET To
      /\ DOMAIN worker.pairs \ {f} \in SUBSET From
      /\ Without(worker.pairs, f) \in [DOMAIN worker.pairs \ {f} -> SUBSET To]
  BY <1>1, <1>2, TickerFacts
<1> QED
  BY <1>1, <1>2, <1>3, TickerFacts

(* Asking in vain drops the symbol.                                        *)
LEMMA WorkerAsksFailsKept ==
    ASSUME RuntimeInv, kinds' = kinds, NEW f \in From, worker_asks_fails(f)
    PROVE  RuntimeInv'
<1>0. PICK p : p = Without(worker.pairs, f)
  OBVIOUS
<1>1. /\ worker.at = "asking" /\ f \in DOMAIN worker.pairs
      /\ worker' = [ worker EXCEPT !.pairs = p ]
      /\ UNCHANGED <<now, cached_tickers, challenges, holder, client, given, opened, expired, served>>
  BY <1>0 DEF worker_asks_fails, runtime, history
<1>2. /\ worker \in Refreshing /\ p \in PairMaps
      /\ DOMAIN p = DOMAIN worker.pairs \ {f}
      /\ \A g \in DOMAIN worker.pairs \ {f} : p[g] = worker.pairs[g]
  BY <1>0, <1>1, FewerPairs DEF RuntimeInv
<1>3. worker' \in Refreshing /\ worker'.pairs = p /\ worker'.fresh = worker.fresh
  BY <1>1, <1>2 DEF Refreshing
<1>4. FullAnswers => Refreshes(worker')
  BY <1>1, <1>2, <1>3 DEF FullAnswers, Refreshes
<1> QED
  BY <1>1, <1>3, <1>4, WorkerSteps

LEMMA WorkerAsksKept ==
    ASSUME RuntimeInv, kinds' = kinds, NEW f \in From, worker_asks(f)
    PROVE  RuntimeInv'
<1>0. PICK p : p = Without(worker.pairs, f)
  OBVIOUS
<1>1. PICK vals \in Answers(worker.pairs[f], now) :
        worker' = [ worker EXCEPT
                      !.pairs = Without(@, f),
                      !.fresh = [g \in DOMAIN @ \union {f} |-> IF g = f THEN vals ELSE @[g]] ]
  BY DEF worker_asks
<1>2. PICK m : m = [g \in DOMAIN worker.fresh \union {f} |-> IF g = f THEN vals ELSE worker.fresh[g]]
  OBVIOUS
<1>3. /\ worker.at = "asking" /\ f \in DOMAIN worker.pairs
      /\ worker' = [ worker EXCEPT !.pairs = p, !.fresh = m ]
      /\ UNCHANGED <<now, cached_tickers, challenges, holder, client, given, opened, expired, served>>
  BY <1>0, <1>1, <1>2 DEF worker_asks, runtime, history
<1>4. /\ worker \in Refreshing /\ p \in PairMaps /\ worker.pairs[f] \in SUBSET To
      /\ DOMAIN p = DOMAIN worker.pairs \ {f}
      /\ \A g \in DOMAIN worker.pairs \ {f} : p[g] = worker.pairs[g]
  BY <1>0, <1>3, FewerPairs DEF RuntimeInv
<1>5. now \in 0..MaxRate
  BY DEF RuntimeInv, Typed
<1>6. /\ vals \in Tickers
      /\ "partial" \notin kinds => DOMAIN vals = worker.pairs[f]
      /\ \A t \in DOMAIN vals : vals[t] = now
  <2>1. /\ vals \in Tickers
        /\ "partial" \notin kinds => DOMAIN vals = worker.pairs[f]
        /\ \A t \in DOMAIN vals : vals[t] \in now..now
    <3>1. PICK symbols \in SUBSET To, since \in 0..MaxRate : symbols = worker.pairs[f] /\ since = now
      BY <1>4, <1>5
    <3>2. vals \in Answers(symbols, since)
      BY <3>1
    <3> QED
      BY <1>5, <3>1, <3>2, AnswerFacts
  <2> QED
    BY <1>5, <2>1
<1>7. m \in TickerMaps
  <2>1. worker.fresh \in TickerMaps
    BY <1>4 DEF Refreshing
  <2>2. /\ DOMAIN worker.fresh \union {f} \in SUBSET From
        /\ m \in [DOMAIN worker.fresh \union {f} -> Tickers]
    BY <1>2, <1>6, <2>1, TickerFacts
  <2> QED
    BY <2>2, TickerFacts
<1>8. worker' \in Refreshing /\ worker'.pairs = p /\ worker'.fresh = m
  BY <1>3, <1>4, <1>7 DEF Refreshing
<1>9. ASSUME "partial" \notin kinds, FullAnswers PROVE Refreshes(worker')
  <2>1. Refreshes(worker) /\ Cached
    BY <1>3, <1>9 DEF FullAnswers
  <2>2. ASSUME NEW g \in DOMAIN m
        PROVE  /\ g \in DOMAIN cached_tickers
               /\ TickerETH \subseteq DOMAIN m[g]
               /\ \A t \in DOMAIN m[g] : /\ t \in DOMAIN cached_tickers[g]
                                         /\ cached_tickers[g][t] <= m[g][t]
                                         /\ m[g][t] <= now
    <3>1. CASE g = f
      <4>1. m[f] = vals /\ DOMAIN vals = worker.pairs[f] /\ now <= now
        BY <1>2, <1>5, <1>6, <1>9
      <4>2. /\ f \in DOMAIN cached_tickers /\ TickerETH \subseteq worker.pairs[f]
            /\ worker.pairs[f] \subseteq DOMAIN cached_tickers[f]
        BY <1>3, <2>1 DEF Refreshes
      <4>3. \A t \in DOMAIN cached_tickers[f] : cached_tickers[f][t] <= now
        BY <2>1, <4>2 DEF Cached
      <4> QED
        BY <1>6, <3>1, <4>1, <4>2, <4>3
    <3>2. CASE g # f
      BY <1>2, <2>1, <2>2, <3>2 DEF Refreshes
    <3> QED
      BY <3>1, <3>2
  <2> QED
    BY <1>4, <1>8, <2>1, <2>2 DEF Refreshes
<1> QED
  BY <1>3, <1>8, <1>9, WorkerSteps

(* The cache is replaced by what was asked for in the meantime.            *)
LEMMA WorkerReplacesKept ==
    ASSUME RuntimeInv, kinds' = kinds, worker_replaces
    PROVE  RuntimeInv'
<1>1. /\ worker.at = "asking" /\ holder = Free
      /\ cached_tickers' = worker.fresh /\ worker' = Sleeping
      /\ UNCHANGED <<now, challenges, holder, client, given, opened, expired, served>>
  BY DEF worker_replaces, history
<1>2. /\ worker \in Refreshing /\ worker.fresh \in TickerMaps
      /\ \A c \in Clients : client[c].at # "asking"
  BY <1>1, FreeIsNobody DEF RuntimeInv, Typed, Sleeping, Refreshing
<1>3. Typed' /\ Keys'
  BY <1>1, <1>2, KeysAlone DEF RuntimeInv, Typed
<1>4. ASSUME FullAnswers PROVE FullAnswers'
  <2>1. Refreshes(worker) /\ Cached
    BY <1>1, <1>4 DEF FullAnswers
  <2>2. ASSUME NEW f \in DOMAIN worker.fresh, NEW t \in DOMAIN worker.fresh[f]
        PROVE  served[<<f, t>>] <= worker.fresh[f][t] /\ worker.fresh[f][t] <= now
    <3>1. f \in From /\ t \in To /\ worker.fresh[f][t] \in Int
      BY <1>2, TickerFacts
    <3>2. /\ f \in DOMAIN cached_tickers /\ t \in DOMAIN cached_tickers[f]
          /\ served[<<f, t>>] <= cached_tickers[f][t]
          /\ cached_tickers[f][t] <= worker.fresh[f][t] /\ worker.fresh[f][t] <= now
      BY <2>1 DEF Refreshes, Cached
    <3>3. served[<<f, t>>] \in Int /\ cached_tickers[f][t] \in Int
      BY <3>1, <3>2, TickerFacts DEF RuntimeInv, Typed
    <3> QED
      BY <3>1, <3>2, <3>3
  <2>3. Cached'
    BY <1>1, <2>1, <2>2 DEF Cached, Refreshes
  <2> QED
    BY <1>1, <1>2, <1>4, <2>3 DEF FullAnswers, Sleeping
<1> QED
  BY <1>3, <1>4 DEF RuntimeInv

LEMMA RestartKept ==
    ASSUME RuntimeInv, kinds' = kinds, Restart
    PROVE  RuntimeInv'
<1>1. /\ cached_tickers' = Empty /\ challenges' = Empty /\ holder' = Free
      /\ client' = [c \in Clients |-> Idle("none")] /\ worker' = Sleeping
      /\ expired' = DOMAIN given
      /\ UNCHANGED <<now, given, opened, served>>
  BY DEF Restart
<1>2. /\ Idle("none") \in ClientStates /\ Idle("none").at = "idle"
      /\ Idle("none") # Idle("undecodable")
  BY StateFacts
<1>3. Typed'
  BY <1>1, <1>2, EmptyMaps, FreeIsNobody DEF RuntimeInv, Typed
<1>4. Keys'
  BY <1>1, EmptyMaps DEF RuntimeInv, Keys
<1>5. FullAnswers => FullAnswers'
  BY <1>1, <1>2, EmptyMaps DEF FullAnswers, Cached, Sleeping
<1> QED
  BY <1>3, <1>4, <1>5 DEF RuntimeInv

-----------------------------------------------------------------------------
LEMMA InitHolds == RuntimeInit => RuntimeInv
<1> SUFFICES ASSUME RuntimeInit PROVE RuntimeInv
  OBVIOUS
<1>1. /\ now = 0 /\ cached_tickers = Empty /\ challenges = Empty /\ holder = Free
      /\ client = [c \in Clients |-> Idle("none")] /\ worker = Sleeping
      /\ given = Empty /\ opened = [k \in Challenges |-> [u \in Users |-> 0]] /\ expired = {}
      /\ served = [p \in From \X To |-> 0]
  BY DEF RuntimeInit
<1>7. served \in [From \X To -> {0}]
  BY <1>1
<1>2. /\ Idle("none") \in ClientStates /\ Idle("none").at = "idle"
      /\ Idle("none") # Idle("undecodable")
  BY StateFacts
<1>3. 0 \in 0..MaxRate
  BY RuntimeConstants
<1>4. Typed
  BY <1>1, <1>2, <1>3, <1>7, EmptyMaps, FreeIsNobody DEF Typed
<1>5. Keys
  <2>1. Cardinality(DOMAIN given) = 0 /\ DOMAIN given = {} /\ DOMAIN challenges = {}
    BY <1>1, EmptyMaps, FS_EmptySet
  <2>2. 1..0 = {}
    OBVIOUS
  <2> QED
    BY <1>1, <2>1, <2>2 DEF Keys
<1>6. FullAnswers
  BY <1>1, <1>2, <1>7, EmptyMaps DEF FullAnswers, Cached, Sleeping
<1> QED
  BY <1>4, <1>5, <1>6 DEF RuntimeInv

LEMMA NextKeepsInv == RuntimeInv /\ [RuntimeNext]_vars => RuntimeInv'
<1> SUFFICES ASSUME RuntimeInv, [RuntimeNext]_vars PROVE RuntimeInv'
  OBVIOUS
<1>1. CASE UNCHANGED vars
  BY <1>1 DEF vars, state, runtime, history, RuntimeInv, Typed, Keys, FullAnswers, Cached,
              AsksForNew, Refreshes
<1>2. CASE RuntimeNext
  <2>0. kinds' = kinds
    BY <1>2 DEF RuntimeNext
  <2>1. CASE RatesChange
    BY <2>0, <2>1, RatesChangeKept
  <2>2. ASSUME NEW c \in Clients, Requests(c) PROVE RuntimeInv'
    BY <2>0, <2>2, RequestKept
  <2>3. ASSUME NEW c \in Clients, Handler(c) PROVE RuntimeInv'
    BY <2>0, <2>3, CacheHitKept, CacheMissKept, GetChallengeKept, RedeemKept DEF Handler
  <2>4. ASSUME NEW c \in Clients, Provider(c) PROVE RuntimeInv'
    BY <2>0, <2>4, TickerReplyKept, PairReplyKept, ProviderFailsKept DEF Provider
  <2>5. CASE ticker_worker
    BY <2>0, <2>5, WorkerReadsKept, WorkerAsksKept, WorkerAsksFailsKept, WorkerReplacesKept
       DEF ticker_worker
  <2>6. CASE Restart
    BY <2>0, <2>6, RestartKept
  <2> QED
    BY <1>2, <2>1, <2>2, <2>3, <2>4, <2>5, <2>6 DEF RuntimeNext
<1> QED
  BY <1>1, <1>2

LEMMA RuntimeInvariance == RuntimeSpec => []RuntimeInv
<1> QED
  BY InitHolds, NextKeepsInv, PTL DEF RuntimeSpec

-----------------------------------------------------------------------------
(* Whatever is asked, refreshed and broken off, the mutex is held only by  *)
(* one request that asks the provider, the cache has rates of known        *)
(* symbols, and each challenge in RuntimeState is the latest of its user.  *)
THEOREM RuntimeTypeCorrect == RuntimeSpec => []RuntimeTypeOK
<1>1. RuntimeInv => RuntimeTypeOK
  BY TickerFacts DEF RuntimeInv, Typed, Keys, RuntimeTypeOK
<1> QED
  BY <1>1, RuntimeInvariance, PTL

(* As long as the provider answers in full, ticker decodes every answer,   *)
(* though it decodes only the part it has just asked for: the cache never  *)
(* has just one of the two currencies.                                     *)
THEOREM FullAnswersDecode == RuntimeSpec => []TickerIsDecoded
<1>1. RuntimeInv => TickerIsDecoded
  BY DEF RuntimeInv, FullAnswers, TickerIsDecoded
<1> QED
  BY <1>1, RuntimeInvariance, PTL

-----------------------------------------------------------------------------
(* What the cache has of a pair is no older than what anybody was told.    *)
LEMMA HitTellsNewer ==
    ASSUME RuntimeInv, FullAnswers, NEW c \in Clients, cache_hit(c)
    PROVE  \A p \in From \X To : served'[p] >= served[p]
<1>0. PICK r, f, v : r = client[c] /\ f = r.from /\ v = Restrict(Submap(f), Wanted(r))
  OBVIOUS
<1>1. /\ r \in Asked /\ f \in From /\ Tells(f, v) /\ Missing(r) = {}
      /\ v = [t \in Wanted(r) |-> Submap(f)[t]]
  BY <1>0, StateFacts DEF RuntimeInv, Typed, cache_hit, Restrict
<1>2. Wanted(r) \subseteq To /\ Wanted(r) \subseteq DOMAIN Submap(f)
  BY <1>0, <1>1, StateFacts DEF Wanted, Missing, To
<1>3. v \in Tickers
  <2>1. v \in [Wanted(r) -> 0..MaxRate]
    BY <1>1, <1>2, SubmapFacts, TickerFacts DEF RuntimeInv
  <2> QED
    BY <1>2, <2>1, TickerFacts
<1>4. /\ served \in [From \X To -> 0..MaxRate]
      /\ \A t \in DOMAIN v : /\ v[t] \in 0..MaxRate
                             /\ served[<<f, t>>] <= v[t]
  BY <1>1, <1>2, <1>3, SubmapFacts, TickerFacts DEF RuntimeInv, Typed, FullAnswers, Cached
<1>5. \A g \in From, t \in To :
          served'[<<g, t>>] = IF g = f /\ t \in DOMAIN v THEN v[t] ELSE served[<<g, t>>]
  BY <1>1, <1>3, TellsFacts DEF RuntimeInv
<1>6. ASSUME NEW g \in From, NEW t \in To PROVE served'[<<g, t>>] >= served[<<g, t>>]
  <2>1. CASE g = f /\ t \in DOMAIN v
    <3>1. served'[<<g, t>>] = v[t]
      BY <1>5, <2>1
    <3>2. v[t] \in Int /\ served[<<g, t>>] \in Int /\ served[<<g, t>>] <= v[t]
      BY <1>4, <2>1
    <3> QED
      BY <3>1, <3>2
  <2>2. CASE ~(g = f /\ t \in DOMAIN v)
    <3>1. served'[<<g, t>>] = served[<<g, t>>] /\ served[<<g, t>>] \in Int
      BY <1>4, <1>5, <2>2
    <3> QED
      BY <3>1
  <2> QED
    BY <2>1, <2>2
<1> QED
  BY <1>6

(* An answer of the provider is no older than the request it answers, and  *)
(* while that was under way nobody else was told anything.                 *)
LEMMA ReplyTellsNewer ==
    ASSUME RuntimeInv, FullAnswers, NEW c \in Clients, ticker_reply(c) \/ pair_reply(c)
    PROVE  \A p \in From \X To : served'[p] >= served[p]
<1>0. PICK from, since : from = client[c].for.from /\ since = client[c].since
  OBVIOUS
<1>1. /\ client[c] \in Asking /\ client[c].at = "asking"
      /\ from \in From /\ since \in 0..MaxRate /\ now \in 0..MaxRate
      /\ served \in [From \X To -> 0..MaxRate]
  BY <1>0, StateFacts DEF RuntimeInv, Typed, ticker_reply, pair_reply
<1>2. \A p \in From \X To : served[p] <= since
  BY <1>0, <1>1 DEF FullAnswers, AsksForNew
<1>7. PICK symbols \in SUBSET To :
          \E vals \in Answers(symbols, since) : Tells(from, vals) \/ served' = served
  <2>1. CASE ticker_reply(c)
    <3>1. client[c].symbols \in SUBSET To
      BY <1>1, StateFacts
    <3> QED
      BY <1>0, <2>1, <3>1 DEF ticker_reply
  <2>2. CASE pair_reply(c)
    <3>1. {client[c].for.to} \in SUBSET To
      BY <1>1, <2>2, StateFacts DEF pair_reply
    <3> QED
      BY <1>0, <2>2, <3>1 DEF pair_reply
  <2> QED
    BY <2>1, <2>2
<1>3. PICK vals \in Answers(symbols, since) : Tells(from, vals) \/ served' = served
  BY <1>7
<1>4. vals \in Tickers /\ \A t \in DOMAIN vals : vals[t] \in since..now
  BY <1>1, AnswerFacts
<1>5. CASE served' = served
  BY <1>1, <1>5
<1>6. CASE Tells(from, vals)
  <2>1. \A f \in From, t \in To :
            served'[<<f, t>>] = IF f = from /\ t \in DOMAIN vals THEN vals[t]
                                ELSE served[<<f, t>>]
    <3>1. Typed
      BY DEF RuntimeInv
    <3> QED
      BY <1>1, <1>4, <1>6, <3>1, TellsFacts
  <2>2. ASSUME NEW f \in From, NEW t \in To PROVE served'[<<f, t>>] >= served[<<f, t>>]
    <3>1. served[<<f, t>>] \in Int /\ served[<<f, t>>] <= since
      BY <1>1, <1>2
    <3>2. CASE f = from /\ t \in DOMAIN vals
      <4>1. served'[<<f, t>>] = vals[t] /\ vals[t] \in Int /\ since <= vals[t]
        BY <1>1, <1>4, <2>1, <3>2
      <4> QED
        BY <1>1, <3>1, <4>1
    <3>3. CASE ~(f = from /\ t \in DOMAIN vals)
      <4>1. served'[<<f, t>>] = served[<<f, t>>]
        BY <2>1, <3>3
      <4> QED
        BY <3>1, <4>1
    <3> QED
      BY <3>2, <3>3
  <2> QED
    BY <2>2
<1> QED
  BY <1>3, <1>5, <1>6

(* Only a request that answers tells a client anything.                    *)
LEMMA OthersTellNothing ==
    ASSUME RuntimeNext,
           \A c \in Clients : ~cache_hit(c) /\ ~ticker_reply(c) /\ ~pair_reply(c)
    PROVE  served' = served
  BY DEF RuntimeNext, RatesChange, Requests, Request, Handler, cache_miss, get_challenge,
         redeem_challenge, Provider, provider_fails, ticker_worker, worker_reads, worker_asks,
         worker_asks_fails, worker_replaces, Restart, history

(* Only a challenge that is redeemed opens a session.                      *)
LEMMA OthersOpenNothing ==
    ASSUME RuntimeNext, \A c \in Clients : ~redeem_challenge(c)
    PROVE  opened' = opened
  BY DEF RuntimeNext, RatesChange, Requests, Request, Handler, cache_hit, cache_miss,
         get_challenge, Provider, ticker_reply, pair_reply, provider_fails, ticker_worker,
         worker_reads, worker_asks, worker_asks_fails, worker_replaces, Restart, history

(* No client is told an older rate of a pair after a newer one, as long as *)
(* the provider answers in full: the refresh asks without the mutex, but   *)
(* only for what stays in the cache until it ends, so that nobody else     *)
(* asks for the same rates meanwhile.                                      *)
THEOREM ToldRatesAreNewer == RuntimeSpec => RatesNeverGoBack
<1>1. ASSUME RuntimeInv, [RuntimeNext]_vars, "partial" \notin kinds
      PROVE  \A p \in From \X To : served'[p] >= served[p]
  <2>1. FullAnswers /\ served \in [From \X To -> 0..MaxRate]
    BY <1>1 DEF RuntimeInv, Typed
  <2>2. CASE served' = served
    BY <2>1, <2>2
  <2>3. ASSUME NEW c \in Clients, cache_hit(c)
        PROVE  \A p \in From \X To : served'[p] >= served[p]
    BY <1>1, <2>1, <2>3, HitTellsNewer
  <2>4. ASSUME NEW c \in Clients, ticker_reply(c) \/ pair_reply(c)
        PROVE  \A p \in From \X To : served'[p] >= served[p]
    BY <1>1, <2>1, <2>4, ReplyTellsNewer
  <2>5. UNCHANGED vars => served' = served
    BY DEF vars, state, history
  <2> QED
    BY <1>1, <2>2, <2>3, <2>4, <2>5, OthersTellNothing
<1>2. RuntimeInv /\ [RuntimeNext]_vars =>
        ("partial" \notin kinds => \A p \in From \X To : served'[p] >= served[p])
  BY <1>1
<1> QED
  BY <1>2, RuntimeInvariance, PTL DEF RuntimeSpec, RatesNeverGoBack

(* A challenge opens one session at most, of the user it was drawn for,    *)
(* and only as long as it is the latest of that user and the hot wallet    *)
(* runs: whoever draws another, or signs in, spends it, and RuntimeState   *)
(* is lost with the process.                                               *)
THEOREM OneSessionPerChallenge == RuntimeSpec => ChallengeOnce
<1>1. ASSUME RuntimeInv, [RuntimeNext]_vars,
             NEW k \in Challenges, NEW u \in Users, opened'[k][u] # opened[k][u]
      PROVE  /\ k \in DOMAIN given \ expired /\ given[k] = u
             /\ opened[k][u] = 0
             /\ \A j \in DOMAIN given : given[j] = u => j <= k
  <2>1. PICK c \in Clients : redeem_challenge(c)
    <3>1. UNCHANGED vars => opened' = opened
      BY DEF vars, state, history
    <3> QED
      BY <1>1, <3>1, OthersOpenNothing
  <2>2. PICK v, i : v = client[c].user /\ i = client[c].challenge
    OBVIOUS
  <2>3. /\ v \in DOMAIN challenges /\ challenges[v] = i
        /\ opened' = [opened EXCEPT ![i][v] = @ + 1]
    BY <1>1, <2>1, <2>2 DEF redeem_challenge, Redeems
  <2>4. opened \in [Challenges -> [Users -> Nat]]
    BY <1>1 DEF RuntimeInv, Keys
  <2>5. i = k
    BY <1>1, <2>3, <2>4
  <2>6. v = u
    BY <1>1, <2>3, <2>4, <2>5
  <2> QED
    BY <1>1, <2>3, <2>6 DEF RuntimeInv, Keys
<1>2. RuntimeInv /\ [RuntimeNext]_vars =>
        \A k \in Challenges, u \in Users :
          opened'[k][u] # opened[k][u] =>
             /\ k \in DOMAIN given \ expired /\ given[k] = u
             /\ opened[k][u] = 0
             /\ \A j \in DOMAIN given : given[j] = u => j <= k
  BY <1>1
<1> QED
  BY <1>2, RuntimeInvariance, PTL DEF RuntimeSpec, ChallengeOnce
=============================================================================
