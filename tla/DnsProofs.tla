------------------------------ MODULE DnsProofs ------------------------------
(* Proofs about the resolver and its caches, for any rules that the          *)
(* configuration accepts, any hosts, callers, TTLs and size of the caches.   *)
EXTENDS DnsResolver, FiniteSetTheorems, NaturalsInduction, TLAPS

-----------------------------------------------------------------------------
(* The inductive invariant.                                                  *)

Lookups == [pc : {"query"}, family : {"ipv4", "ipv6"}, server : Nat]
Results == [pc : {"store"}, entry : [found : BOOLEAN, after : Nat], ttl : Nat]
Entries == [found : BOOLEAN, after : Nat, stored : Nat, expires : Nat]
Ended   == [pc : {"end"}, entry : Entries \cup {Failed}]
Flights == {NoLookup} \cup Lookups \cup Results \cup Ended
Places  == {"idle", "miss", "wait", "late", "done"}

TypeInv ==
    /\ now \in Nat
    /\ invalidations \in [Hosts -> Nat] /\ began \in [Callers -> Nat]
    /\ DOMAIN cache = RuleIds
    /\ flight \in [Hosts -> Flights]
    /\ cpc \in [Callers -> Places]
    /\ asked \in [Callers -> Hosts \cup {None}]
    /\ DOMAIN answer = Callers

\* An entry is as old as the lookups allow under rule i, and is from after the
\* last counted invalidation of its host.
Sound(i, h, e) ==
    /\ e.stored \in Nat /\ e.stored <= now /\ e.expires \in Nat
    /\ e.found \in BOOLEAN /\ (e.found => e.expires <= e.stored + Rules[i].maxTTL)
    /\ e.after \in Nat /\ invalidations[h] <= e.after

CacheInv ==
    \A i \in RuleIds : \A h \in DOMAIN cache[i] : h \in Hosts /\ Sound(i, h, cache[i][h])

\* Only hosts with a rule are looked up, and an answer that waits to be stored
\* is not overtaken by an invalidation that counts.
FlightInv ==
    \A h \in Hosts :
        /\ flight[h] # NoLookup => Covering(h) # {}
        /\ flight[h].pc = "store" => invalidations[h] <= flight[h].entry.after

\* Callers: those that need a lookup, and what those that are done have got.
Good(h, a) == a.kind = "ip" => a.age < Rules[MatchRule(h)].maxTTL /\ (a.requeried \/ a.late)

CallerInv ==
    \A c \in Callers :
        /\ cpc[c] # "idle" => asked[c] \in Hosts
        /\ cpc[c] \in {"miss", "wait", "late"} => /\ Covering(asked[c]) # {}
                                          /\ began[c] <= invalidations[asked[c]]
        /\ cpc[c] = "done" => Good(asked[c], answer[c])

\* Who joined a lookup before it had its result began before that.
WaitInv ==
    \A c \in Callers :
        cpc[c] = "wait" /\ flight[asked[c]].pc = "end" /\ flight[asked[c]].entry.found
            => began[c] <= flight[asked[c]].entry.after

Inv == TypeInv /\ CacheInv /\ FlightInv /\ CallerInv /\ WaitInv

-----------------------------------------------------------------------------
(* Lemmas about the rules and the caches.                                    *)

\* A host that a rule covers has a first rule (config.MatchRule).
LEMMA FirstRule ==
  ASSUME NEW h, Covering(h) # {}
  PROVE  MatchRule(h) \in RuleIds /\ h \in Rules[MatchRule(h)].hosts
<1>1. RuleIds \subseteq Nat
  BY DnsAssumption DEF RuleIds
<1>2. Covering(h) \subseteq Nat
  BY <1>1 DEF Covering
<1>3. \E i \in Covering(h) : \A j \in Covering(h) : ~(<<j, i>> \in OpToRel(<, Nat))
  BY <1>2, WFMin, NatLessThanWellFounded
<1>4. PICK i \in Covering(h) : \A j \in Covering(h) : ~(<<j, i>> \in OpToRel(<, Nat))
  BY <1>3
<1>5. ASSUME NEW j \in Covering(h)
      PROVE  i <= j
  <2>1. i \in Nat /\ j \in Nat /\ <<j, i>> \in Nat \X Nat
    BY <1>2
  <2>2. j < i => <<j, i>> \in OpToRel(<, Nat)
    BY <2>1, SMT DEF OpToRel
  <2>3. ~ (j < i)
    BY <1>4, <2>2, Zenon
  <2> QED
    BY <2>1, <2>3
<1>6. MatchRule(h) \in Covering(h)
  BY <1>5 DEF MatchRule
<1> QED
  BY <1>6 DEF Covering

\* What buildRule makes of a rule.
LEMMA RuleValues ==
  ASSUME NEW i \in RuleIds
  PROVE  /\ Rules[i].minTTL \in Nat \ {0} /\ Rules[i].maxTTL \in Nat \ {0}
         /\ Rules[i].negativeTTL \in Nat \ {0} /\ Rules[i].minTTL <= Rules[i].maxTTL
         /\ Rules[i].prefer \in {"ipv4", "ipv6"} /\ Rules[i].onFailure \in {"fail", "fallthrough"}
         /\ Rules[i].servers \in Nat \ {0}
<1>1. Rules[i] \in RuleSpecs
  BY DnsAssumption DEF RuleIds
<1> QED
  BY <1>1 DEF RuleSpecs

\* A clamped TTL is positive and at most max-ttl, whatever the server gave.
LEMMA Clamped ==
  ASSUME NEW i \in RuleIds, NEW ttl \in Nat
  PROVE  ClampTTL(Rules[i], ttl) \in 1 .. Rules[i].maxTTL
BY RuleValues DEF ClampTTL

\* A store keeps entries of the old cache and adds the new one, nothing else.
LEMMA StoreKeeps ==
  ASSUME NEW c, NEW h, NEW e, NEW r \in Stored(c, h, e)
  PROVE  /\ DOMAIN r \subseteq DOMAIN c \cup {h}
         /\ h \in DOMAIN r /\ r[h] = e
         /\ \A k \in DOMAIN r : k # h => r[k] = c[k]
<1>1. CASE r = With(c, h, e)
  BY <1>1 DEF With
<1>2. ASSUME NEW hs, r = With(Without(c, hs), h, e)
      PROVE  /\ DOMAIN r \subseteq DOMAIN c \cup {h}
             /\ h \in DOMAIN r /\ r[h] = e
             /\ \A k \in DOMAIN r : k # h => r[k] = c[k]
  <2>1. DOMAIN Without(c, hs) = DOMAIN c \ hs
        /\ \A k \in DOMAIN c \ hs : Without(c, hs)[k] = c[k]
    BY DEF Without
  <2> QED
    BY <1>2, <2>1 DEF With
<1> QED
  BY <1>1, <1>2 DEF Stored

\* The cache of at most one host less is a part of the cache.
LEMMA WithoutKeeps ==
  ASSUME NEW c, NEW hs
  PROVE  /\ DOMAIN Without(c, hs) = DOMAIN c \ hs
         /\ \A k \in DOMAIN c \ hs : Without(c, hs)[k] = c[k]
BY DEF Without

-----------------------------------------------------------------------------
(* Answers.                                                                  *)

\* An answer is good that has not been cached for too long and was asked for
\* after the last invalidation that its caller counted, or that came late.
LEMMA AnswerIsGood ==
  ASSUME NEW h \in Hosts, Covering(h) # {}, NEW e, NEW age, NEW start, NEW late,
         e.found => age < Rules[MatchRule(h)].maxTTL /\ (start <= e.after \/ late = TRUE)
  PROVE  Good(h, AnswerOf(h, e, age, start, late))
<1> DEFINE a == AnswerOf(h, e, age, start, late)
<1>1. CASE e.found
  <2>1. a.age = age /\ a.requeried = (e.after >= start) /\ a.late = late
    BY <1>1 DEF AnswerOf
  <2> QED
    BY <1>1, <2>1 DEF Good
<1>2. CASE ~e.found
  <2>1. Rules[MatchRule(h)].onFailure # "ip"
    BY FirstRule, RuleValues
  <2> QED
    BY <1>2, <2>1 DEF Good, AnswerOf
<1> QED
  BY <1>1, <1>2

\* Steps that leave the callers' pc, question and answer alone.
LEMMA CallersAlone ==
  ASSUME CallerInv, UNCHANGED <<cpc, asked, answer, began, invalidations>>
  PROVE  CallerInv'
BY DEF CallerInv, Good, MatchRule, Covering, RuleIds

\* Steps that leave the waiting alone, and the results for which they wait.
LEMMA WaitersAlone ==
  ASSUME WaitInv, UNCHANGED <<asked, began>>,
         \A c \in Callers : cpc'[c] = "wait" => cpc[c] = "wait",
         \A c \in Callers : cpc'[c] = "wait" =>
            flight'[asked[c]] = flight[asked[c]] \/ flight'[asked[c]].pc # "end"
               \/ ~flight'[asked[c]].entry.found
  PROVE  WaitInv'
BY DEF WaitInv

\* Steps that leave the caches alone, in an instant.
LEMMA CachesAlone ==
  ASSUME CacheInv, UNCHANGED <<now, cache, invalidations>>
  PROVE  CacheInv'
BY DEF CacheInv, Sound, RuleIds

\* A sound entry that is live is younger than max-ttl.
LEMMA LiveIsYoung ==
  ASSUME NEW i \in RuleIds, NEW h, NEW e, now \in Nat, Sound(i, h, e), Live(e)
  PROVE  e.found => now - e.stored < Rules[i].maxTTL /\ invalidations[h] <= e.after
<1>1. /\ e.stored \in Nat /\ e.expires \in Nat /\ now < e.expires
      /\ e.found => e.expires <= e.stored + Rules[i].maxTTL
      /\ invalidations[h] <= e.after
  BY DEF Sound, Live
<1>2. Rules[i].maxTTL \in Nat
  BY RuleValues
<1> QED
  BY <1>1, <1>2

-----------------------------------------------------------------------------
(* Every step preserves the invariant.                                       *)

LEMMA InitInv == Init => Inv
<1> SUFFICES ASSUME Init PROVE Inv
  OBVIOUS
<1>1. TypeInv
  <2>1. "idle" \in Places /\ NoLookup \in Flights
    BY DEF Places, Flights
  <2> QED
    BY <2>1 DEF Init, TypeInv
<1>2. CacheInv
  <2>1. \A i \in RuleIds : cache[i] = << >>
    BY DEF Init
  <2>2. DOMAIN << >> = {}
    OBVIOUS
  <2> QED
    BY <2>1, <2>2 DEF CacheInv
<1>3. FlightInv
  BY DEF Init, FlightInv, NoLookup
<1>4. CallerInv
  BY DEF Init, CallerInv
<1>5. WaitInv
  BY DEF Init, WaitInv
<1> QED
  BY <1>1, <1>2, <1>3, <1>4, <1>5 DEF Inv

LEMMA ResolveKeeps ==
  ASSUME Inv, NEW c \in Callers, NEW h \in Hosts, Resolve(c, h)
  PROVE  Inv'
<1> USE DEF Inv
<1> DEFINE i == MatchRule(h)
<1>1. /\ asked' = [asked EXCEPT ![c] = h] /\ began' = [began EXCEPT ![c] = invalidations[h]]
      /\ UNCHANGED <<now, flight, invalidations>> /\ cpc[c] = "idle"
  BY DEF Resolve
<1>2. /\ asked' \in [Callers -> Hosts \cup {None}] /\ began' \in [Callers -> Nat]
      /\ asked'[c] = h /\ began'[c] = invalidations[h] /\ invalidations[h] \in Nat /\ now \in Nat
      /\ \A d \in Callers \ {c} : asked'[d] = asked[d] /\ began'[d] = began[d]
  BY <1>1 DEF TypeInv
\* What is left to show of each case.
<1>3. ASSUME CacheInv', DOMAIN cache' = RuleIds,
             cpc' = [cpc EXCEPT ![c] = "done"] \/ cpc' = [cpc EXCEPT ![c] = "miss"],
             DOMAIN answer' = Callers, \A d \in Callers \ {c} : answer'[d] = answer[d],
             cpc'[c] = "miss" => Covering(h) # {},
             cpc'[c] = "done" => Good(h, answer'[c])
      PROVE  Inv'
  <2>1. TypeInv'
    <3>1. cpc' \in [Callers -> Places]
      BY <1>3 DEF TypeInv, Places
    <3> QED
      BY <1>1, <1>2, <1>3, <3>1 DEF TypeInv
  <2>2. FlightInv'
    BY <1>1 DEF FlightInv
  <2>3. /\ cpc'[c] \in {"done", "miss"} /\ \A d \in Callers \ {c} : cpc'[d] = cpc[d]
    BY <1>3 DEF TypeInv
  <2>4. ASSUME NEW d \in Callers
        PROVE  /\ cpc'[d] # "idle" => asked'[d] \in Hosts
               /\ cpc'[d] \in {"miss", "wait", "late"} => /\ Covering(asked'[d]) # {}
                                                  /\ began'[d] <= invalidations'[asked'[d]]
               /\ cpc'[d] = "done" => Good(asked'[d], answer'[d])
    <3>1. CASE d = c
      BY <1>1, <1>2, <1>3, <2>3, <3>1
    <3>2. CASE d # c
      <4>1. cpc'[d] = cpc[d] /\ asked'[d] = asked[d] /\ answer'[d] = answer[d]
            /\ began'[d] = began[d] /\ invalidations' = invalidations
        BY <1>1, <1>2, <1>3, <2>3, <3>2
      <4>2. CallerInv!(d)
        BY DEF CallerInv
      <4> QED
        BY <4>1, <4>2
    <3> QED
      BY <3>1, <3>2
  <2>5. CallerInv'
    BY <2>4 DEF CallerInv
  <2>6. WaitInv'
    BY <1>1, <1>2, <2>3 DEF WaitInv
  <2> QED
    BY <1>3, <2>1, <2>2, <2>5, <2>6
<1>4. ASSUME NEW a, Return(c, a), UNCHANGED cache, Good(h, a)
      PROVE  Inv'
  <2>1. CacheInv' /\ DOMAIN cache' = RuleIds
    BY <1>1, <1>4, CachesAlone DEF TypeInv
  <2>2. /\ cpc' = [cpc EXCEPT ![c] = "done"] /\ answer' = [answer EXCEPT ![c] = a]
    BY <1>4 DEF Return
  <2>3. /\ cpc'[c] = "done" /\ DOMAIN answer' = Callers /\ answer'[c] = a
        /\ \A d \in Callers \ {c} : answer'[d] = answer[d]
    BY <2>2 DEF TypeInv
  <2> QED
    BY <1>3, <1>4, <2>1, <2>2, <2>3
<1>5. CASE Covering(h) = {}
  <2>1. Return(c, [kind |-> "keep"]) /\ UNCHANGED cache
    BY <1>5 DEF Resolve
  <2>2. Good(h, [kind |-> "keep"])
    BY DEF Good
  <2> QED
    BY <1>4, <2>1, <2>2
<1>6. CASE Covering(h) # {} /\ Fresh(cache[i], h)
  <2> DEFINE e == cache[i][h]
             a == AnswerOf(h, e, now - e.stored, invalidations[h], FALSE)
  <2>1. Return(c, a) /\ UNCHANGED cache
    BY <1>6 DEF Resolve
  <2>2. i \in RuleIds
    BY <1>6, FirstRule
  <2>3. h \in DOMAIN cache[i] /\ Live(e)
    BY <1>6 DEF Fresh
  <2>4. Sound(i, h, e)
    BY <2>2, <2>3 DEF CacheInv
  <2>5. e.found => now - e.stored < Rules[i].maxTTL /\ invalidations[h] <= e.after
    BY <1>2, <2>2, <2>3, <2>4, LiveIsYoung
  <2> HIDE DEF e
  <2>6. Good(h, a)
    BY <1>6, <2>5, AnswerIsGood
  <2> HIDE DEF a
  <2> QED
    BY <1>4, <2>1, <2>6
<1>7. CASE Covering(h) # {} /\ ~Fresh(cache[i], h)
  <2>1. /\ cpc' = [cpc EXCEPT ![c] = "miss"] /\ UNCHANGED answer
        /\ cache' = [cache EXCEPT ![i] = Without(cache[i], {h})]
    BY <1>7 DEF Resolve
  <2>2. cpc'[c] = "miss"
    BY <2>1 DEF TypeInv
  <2>3. DOMAIN cache' = RuleIds
    BY <2>1 DEF TypeInv
  <2>4. ASSUME NEW j \in RuleIds, NEW k \in DOMAIN cache'[j]
        PROVE  k \in Hosts /\ Sound(j, k, cache[j][k])'
    <3>1. cache'[j] = IF j = i THEN Without(cache[i], {h}) ELSE cache[j]
      BY <2>1 DEF TypeInv
    <3>2. k \in DOMAIN cache[j] /\ cache'[j][k] = cache[j][k]
      <4>1. DOMAIN Without(cache[i], {h}) = DOMAIN cache[i] \ {h}
            /\ \A m \in DOMAIN cache[i] \ {h} : Without(cache[i], {h})[m] = cache[i][m]
        BY WithoutKeeps
      <4> QED
        BY <3>1, <4>1
    <3>3. k \in Hosts /\ Sound(j, k, cache[j][k])
      BY <3>2 DEF CacheInv
    <3> QED
      BY <1>1, <3>2, <3>3 DEF Sound
  <2>5. CacheInv'
    BY <2>4 DEF CacheInv, RuleIds
  <2>6. DOMAIN answer' = Callers
    BY <2>1 DEF TypeInv
  <2> QED
    BY <1>3, <1>7, <2>1, <2>2, <2>3, <2>5, <2>6
<1> QED
  BY <1>5, <1>6, <1>7

LEMMA DoKeeps ==
  ASSUME Inv, NEW c \in Callers, Do(c)
  PROVE  Inv'
<1> USE DEF Inv
<1> DEFINE h == asked[c]
<1>1. /\ cpc[c] = "miss"
      /\ cpc' = [cpc EXCEPT ![c] = IF flight[h].pc = "end" THEN "late" ELSE "wait"]
      /\ UNCHANGED <<now, cache, asked, answer, invalidations, began>>
      /\ flight' = IF flight[h] # NoLookup THEN flight
                   ELSE [flight EXCEPT ![h] = Lookup(h, Rules[MatchRule(h)].prefer, 1)]
  BY DEF Do
<1>2. h \in Hosts /\ Covering(h) # {}
  BY <1>1 DEF CallerInv
<1>3. Lookup(h, Rules[MatchRule(h)].prefer, 1) \in Lookups
  BY <1>2, FirstRule, RuleValues DEF Lookup, Lookups
<1>4. \A k \in Hosts : flight'[k] = flight[k] \/ (k = h /\ flight'[k] \in Lookups)
  BY <1>1, <1>2, <1>3 DEF TypeInv
<1>5. TypeInv'
  <2>1. cpc' \in [Callers -> Places]
    BY <1>1 DEF TypeInv, Places
  <2>2. flight' \in [Hosts -> Flights]
    BY <1>1, <1>2, <1>3 DEF TypeInv, Flights
  <2> QED
    BY <1>1, <2>1, <2>2 DEF TypeInv
<1>6. CacheInv'
  BY <1>1, CachesAlone
<1>7. FlightInv'
  <2>1. \A f \in Lookups : f.pc = "query"
    BY DEF Lookups
  <2> QED
    BY <1>1, <1>2, <1>4, <2>1 DEF FlightInv
<1>8. CallerInv'
  <2>1. \A d \in Callers : d # c => cpc'[d] = cpc[d]
    BY <1>1 DEF TypeInv
  <2>2. cpc'[c] \in {"wait", "late"}
    BY <1>1 DEF TypeInv
  <2> QED
    BY <1>1, <2>1, <2>2 DEF CallerInv
<1>9. WaitInv'
  <2>1. ASSUME NEW d \in Callers, cpc'[d] = "wait", flight'[asked[d]].pc = "end"
        PROVE  d # c /\ cpc[d] = "wait" /\ flight'[asked[d]] = flight[asked[d]]
    <3>1. asked[d] \in Hosts
      BY <1>1, <1>8, <2>1 DEF CallerInv
    <3>2. flight'[asked[d]] = flight[asked[d]]
      BY <1>4, <2>1, <3>1 DEF Lookups
    <3>3. d # c
      BY <1>1, <2>1, <3>2 DEF TypeInv
    <3> QED
      BY <1>1, <2>1, <3>2, <3>3 DEF TypeInv
  <2> QED
    BY <1>1, <2>1 DEF WaitInv
<1> QED
  BY <1>5, <1>6, <1>7, <1>8, <1>9

\* An invalidation takes every entry of the host away, and does not count while
\* an answer waits to be stored.
LEMMA InvalidateKeeps ==
  ASSUME Inv, NEW h \in Hosts, Invalidate(h), UNCHANGED <<now, flight>>
  PROVE  /\ invalidations' \in [Hosts -> Nat]
         /\ \A k \in Hosts : invalidations[k] <= invalidations'[k]
         /\ DOMAIN cache' = RuleIds /\ CacheInv' /\ FlightInv'
<1> USE DEF Inv
<1>1. /\ invalidations \in [Hosts -> Nat]
      /\ invalidations' = IF flight[h].pc = "store" THEN invalidations
                          ELSE [invalidations EXCEPT ![h] = invalidations[h] + 1]
  BY DEF Invalidate, TypeInv
<1>2. /\ invalidations' \in [Hosts -> Nat]
      /\ \A k \in Hosts : /\ invalidations[k] <= invalidations'[k]
                          /\ k # h \/ flight[h].pc = "store" => invalidations'[k] = invalidations[k]
  BY <1>1
<1>3. cache' = [i \in RuleIds |-> Without(cache[i], {h})]
  BY DEF Invalidate
<1>4. ASSUME NEW i \in RuleIds, NEW k \in DOMAIN cache'[i]
      PROVE  k \in Hosts /\ Sound(i, k, cache[i][k])'
  <2>1. DOMAIN Without(cache[i], {h}) = DOMAIN cache[i] \ {h}
        /\ \A m \in DOMAIN cache[i] \ {h} : Without(cache[i], {h})[m] = cache[i][m]
    BY WithoutKeeps
  <2>2. k \in DOMAIN cache[i] /\ k # h /\ cache'[i][k] = cache[i][k]
    BY <1>3, <1>4, <2>1
  <2>3. k \in Hosts /\ Sound(i, k, cache[i][k])
    BY <2>2 DEF CacheInv
  <2> QED
    BY <1>2, <2>2, <2>3 DEF Sound
<1>5. CacheInv'
  BY <1>4 DEF CacheInv, RuleIds
<1>6. FlightInv'
  BY <1>2 DEF FlightInv
<1> QED
  BY <1>2, <1>3, <1>5, <1>6

LEMMA DialFailsKeeps ==
  ASSUME Inv, NEW c \in Callers, DialFails(c)
  PROVE  Inv'
<1> USE DEF Inv
<1>1. /\ cpc[c] = "done" /\ Invalidate(asked[c])
      /\ cpc' = [cpc EXCEPT ![c] = "idle"] /\ answer' = [answer EXCEPT ![c] = None]
      /\ UNCHANGED <<now, flight, asked, began>>
  BY DEF DialFails
<1>2. asked[c] \in Hosts
  BY <1>1 DEF CallerInv
<1>3. /\ invalidations' \in [Hosts -> Nat]
      /\ \A k \in Hosts : invalidations[k] <= invalidations'[k]
      /\ DOMAIN cache' = RuleIds /\ CacheInv' /\ FlightInv'
  BY <1>1, <1>2, InvalidateKeeps
<1>4. cpc' \in [Callers -> Places]
  BY <1>1 DEF TypeInv, Places
<1>5. DOMAIN answer' = Callers
  BY <1>1 DEF TypeInv
<1>6. TypeInv'
  BY <1>1, <1>3, <1>4, <1>5 DEF TypeInv
<1>7. ASSUME NEW d \in Callers
      PROVE  /\ cpc'[d] # "idle" => asked'[d] \in Hosts
             /\ cpc'[d] \in {"miss", "wait", "late"} => /\ Covering(asked'[d]) # {}
                                                /\ began'[d] <= invalidations'[asked'[d]]
             /\ cpc'[d] = "done" => Good(asked'[d], answer'[d])
  <2>1. CASE d = c
    BY <1>1, <2>1 DEF TypeInv
  <2>2. CASE d # c
    <3>1. cpc'[d] = cpc[d] /\ answer'[d] = answer[d] /\ asked'[d] = asked[d] /\ began'[d] = began[d]
      BY <1>1, <2>2 DEF TypeInv
    <3>2. CallerInv!(d)
      BY DEF CallerInv
    <3>3. cpc[d] \in {"miss", "wait", "late"} => began[d] <= invalidations'[asked[d]]
      <4>1. began[d] \in Nat /\ \A k \in Hosts : invalidations[k] \in Nat /\ invalidations'[k] \in Nat
        BY <1>3 DEF TypeInv
      <4> QED
        BY <1>3, <3>2, <4>1
    <3> QED
      BY <3>1, <3>2, <3>3
  <2> QED
    BY <2>1, <2>2
<1>8. CallerInv'
  BY <1>7 DEF CallerInv
<1>9. WaitInv'
  <2>1. \A d \in Callers : cpc'[d] = "wait" => cpc[d] = "wait"
    BY <1>1 DEF TypeInv
  <2> QED
    BY <1>1, <2>1, WaitersAlone
<1> QED
  BY <1>3, <1>6, <1>8, <1>9

LEMMA ServerAnswersKeeps ==
  ASSUME Inv, NEW h \in Hosts, ServerAnswers(h)
  PROVE  Inv'
<1> USE DEF Inv
<1> DEFINE f == flight[h]
           e == [found |-> f.family \in Zone[h], after |-> invalidations[h]]
<1>1. PICK ttl \in TTLs :
        flight' = [flight EXCEPT ![h] =
            IF ~e.found /\ f.family = "ipv6" THEN Lookup(h, "ipv4", 1)
            ELSE [pc |-> "store", entry |-> e, ttl |-> ttl]]
  BY DEF ServerAnswers
<1>2. f.pc = "query" /\ UNCHANGED <<now, cache, cpc, asked, answer, invalidations, began>>
  BY DEF ServerAnswers
<1>3. e \in [found : BOOLEAN, after : Nat] /\ e.after = invalidations[h]
  BY DEF TypeInv
<1>4. Lookup(h, "ipv4", 1) \in Lookups
  BY DEF Lookup, Lookups
<1>5. ttl \in Nat
  BY DnsAssumption
<1> DEFINE s == [pc |-> "store", entry |-> e, ttl |-> ttl]
<1>6. s \in Results /\ s.entry = e /\ s.pc = "store"
  BY <1>3, <1>5 DEF Results
<1>7. Covering(h) # {}
  BY <1>2 DEF FlightInv, NoLookup
<1>8. /\ flight'[h] = Lookup(h, "ipv4", 1) \/ flight'[h] = s
      /\ \A k \in Hosts \ {h} : flight'[k] = flight[k]
      /\ flight' \in [Hosts -> Flights]
  <2> HIDE DEF e, f, s
  <2>1. flight' = [flight EXCEPT ![h] = Lookup(h, "ipv4", 1)] \/ flight' = [flight EXCEPT ![h] = s]
    BY <1>1 DEF s
  <2> QED
    BY <1>4, <1>6, <2>1 DEF TypeInv, Flights
<1>9. TypeInv'
  BY <1>2, <1>8 DEF TypeInv
<1>10. FlightInv'
  <2>1. invalidations[h] <= e.after
    BY <1>3 DEF TypeInv
  <2> HIDE DEF e, f, s
  <2> QED
    BY <1>2, <1>6, <1>7, <1>8, <2>1 DEF FlightInv, Lookup
<1>11. WaitInv'
  <2>1. flight'[h].pc # "end"
    BY <1>6, <1>8 DEF Lookup
  <2>2. \A c \in Callers : cpc[c] = "wait" => asked[c] \in Hosts
    BY DEF CallerInv
  <2> QED
    BY <1>2, <1>8, <2>1, <2>2, WaitersAlone
<1> QED
  BY <1>2, <1>9, <1>10, <1>11, CallersAlone, CachesAlone

LEMMA ServerFailsKeeps ==
  ASSUME Inv, NEW h \in Hosts, ServerFails(h)
  PROVE  Inv'
<1> USE DEF Inv
<1> DEFINE f    == flight[h]
           next == [f EXCEPT !.server = f.server + 1]
           end  == [pc |-> "end", entry |-> Failed]
<1>1. /\ f.pc = "query" /\ UNCHANGED <<now, cache, cpc, asked, answer, invalidations, began>>
      /\ flight' = [flight EXCEPT ![h] = next] \/ flight' = [flight EXCEPT ![h] = end]
  BY DEF ServerFails
<1>2. f # NoLookup /\ Covering(h) # {} /\ f \in Lookups
  BY <1>1 DEF NoLookup, FlightInv, TypeInv, Flights, Results, Ended
<1>3. next \in Lookups /\ end \in Ended
  BY <1>2 DEF Lookups, Ended
<1>4. next.pc = "query" /\ end.pc = "end" /\ ~end.entry.found
  BY <1>3 DEF Lookups, Failed
<1> HIDE DEF f, next, end
<1>5. /\ flight'[h] = next \/ flight'[h] = end
      /\ \A k \in Hosts \ {h} : flight'[k] = flight[k]
      /\ flight' \in [Hosts -> Flights]
  BY <1>1, <1>3 DEF TypeInv, Flights
<1>6. TypeInv'
  BY <1>1, <1>5 DEF TypeInv
<1>7. FlightInv'
  BY <1>1, <1>2, <1>4, <1>5 DEF FlightInv
<1>8. WaitInv'
  <2>1. \A c \in Callers : cpc[c] = "wait" => asked[c] \in Hosts
    BY DEF CallerInv
  <2> QED
    BY <1>1, <1>4, <1>5, <2>1, WaitersAlone
<1> QED
  BY <1>1, <1>6, <1>7, <1>8, CallersAlone, CachesAlone

\* What is stored is sound, and those who wait began before it was found out.
LEMMA StoreResultKeeps ==
  ASSUME Inv, NEW h \in Hosts, StoreResult(h)
  PROVE  Inv'
<1> USE DEF Inv
<1> DEFINE f == flight[h]
           i == MatchRule(h)
           ttl == IF f.entry.found THEN ClampTTL(Rules[i], f.ttl) ELSE Rules[i].negativeTTL
           e == [found |-> f.entry.found, after |-> f.entry.after, stored |-> now, expires |-> now + ttl]
           end == [pc |-> "end", entry |-> e]
<1>1. /\ f.pc = "store" /\ flight' = [flight EXCEPT ![h] = end]
      /\ UNCHANGED <<now, cpc, asked, answer, invalidations, began>>
  BY DEF StoreResult
<1>2. PICK r \in Stored(cache[i], h, e) : cache' = [cache EXCEPT ![i] = r]
  BY DEF StoreResult
<1>3. f \in Results /\ f # NoLookup
  BY <1>1 DEF TypeInv, Flights, NoLookup, Lookups, Ended
<1>4. Covering(h) # {} /\ invalidations[h] <= f.entry.after
  BY <1>1, <1>3 DEF FlightInv
<1>5. i \in RuleIds
  BY <1>4, FirstRule
<1>6. Rules[i].negativeTTL \in Nat \ {0} /\ Rules[i].maxTTL \in Nat \ {0}
  BY <1>5, RuleValues
<1>7. f.entry.found \in BOOLEAN /\ f.entry.after \in Nat /\ f.ttl \in Nat /\ now \in Nat
  BY <1>3 DEF Results, TypeInv
<1>8. ttl \in Nat /\ (f.entry.found => ttl <= Rules[i].maxTTL)
  BY <1>5, <1>6, <1>7, Clamped
<1>9. /\ e.found = f.entry.found /\ e.after = f.entry.after /\ e.stored = now /\ e.expires = now + ttl
      /\ end.pc = "end" /\ end.entry = e
  OBVIOUS
<1>10. now + ttl \in Nat /\ (f.entry.found => now + ttl <= now + Rules[i].maxTTL)
  <2> HIDE DEF f, i, ttl
  <2> QED
    BY <1>6, <1>7, <1>8
<1>11. end \in Ended
  <2>1. e \in Entries
    <3> HIDE DEF f, i, ttl
    <3> QED
      BY <1>7, <1>10 DEF Entries
  <2> HIDE DEF e
  <2> QED
    BY <2>1 DEF Ended
<1> HIDE DEF e, ttl, f, end
<1>12. Sound(i, h, e)
  <2>1. e.stored \in Nat /\ e.stored <= now
    BY <1>7, <1>9
  <2> HIDE DEF i
  <2> QED
    BY <1>4, <1>7, <1>9, <1>10, <2>1 DEF Sound
<1>13. ASSUME NEW j \in RuleIds, NEW k \in DOMAIN cache'[j]
       PROVE  k \in Hosts /\ Sound(j, k, cache[j][k])'
  <2>1. cache'[j] = IF j = i THEN r ELSE cache[j]
    BY <1>2 DEF TypeInv
  <2> HIDE DEF i
  <2>2. /\ DOMAIN r \subseteq DOMAIN cache[i] \cup {h}
        /\ r[h] = e /\ \A m \in DOMAIN r : m # h => r[m] = cache[i][m]
    BY StoreKeeps
  <2>3. k \in Hosts /\ Sound(j, k, cache'[j][k])
    <3>1. CASE j = i /\ k = h
      BY <1>12, <2>1, <2>2, <3>1
    <3>2. CASE ~(j = i /\ k = h)
      <4>1. k \in DOMAIN cache[j] /\ cache'[j][k] = cache[j][k]
        BY <1>13, <2>1, <2>2, <3>2
      <4> QED
        BY <4>1 DEF CacheInv
    <3> QED
      BY <3>1, <3>2
  <2> QED
    BY <1>1, <2>3 DEF Sound
<1>14. CacheInv'
  BY <1>13 DEF CacheInv, RuleIds
<1>15. /\ flight'[h] = end /\ \A k \in Hosts \ {h} : flight'[k] = flight[k]
       /\ flight' \in [Hosts -> Flights]
  BY <1>1, <1>11 DEF TypeInv, Flights
<1>16. TypeInv'
  <2>1. DOMAIN cache' = RuleIds
    BY <1>2 DEF TypeInv
  <2> QED
    BY <1>1, <1>15, <2>1 DEF TypeInv
<1>17. FlightInv'
  BY <1>1, <1>4, <1>9, <1>15 DEF FlightInv
<1>18. WaitInv'
  <2>1. ASSUME NEW c \in Callers, cpc[c] = "wait", asked[c] = h
        PROVE  began[c] <= e.after
    <3>1. began[c] <= invalidations[h] /\ began[c] \in Nat /\ invalidations[h] \in Nat
      BY <2>1 DEF CallerInv, TypeInv
    <3> QED
      BY <1>4, <1>7, <1>9, <3>1
  <2>2. \A c \in Callers : cpc[c] = "wait" => asked[c] \in Hosts
    BY DEF CallerInv
  <2> QED
    BY <1>1, <1>9, <1>15, <2>1, <2>2 DEF WaitInv
<1> QED
  BY <1>1, <1>14, <1>16, <1>17, <1>18, CallersAlone

\* The callers get what the cache has, which is sound, or what the lookup found.
LEMMA EndLookupKeeps ==
  ASSUME Inv, NEW h \in Hosts, EndLookup(h)
  PROVE  Inv'
<1> USE DEF Inv
<1> DEFINE e == flight[h].entry
           i == MatchRule(h)
           hit == e.found /\ Fresh(cache[i], h)
           got == IF hit THEN cache[i][h] ELSE e
           age == IF hit THEN now - got.stored ELSE 0
           Served(c) == cpc[c] \in {"wait", "late"} /\ asked[c] = h
           Given(c)  == AnswerOf(h, got, age, began[c], cpc[c] = "late")
<1>1. /\ flight[h].pc = "end" /\ flight' = [flight EXCEPT ![h] = NoLookup]
      /\ UNCHANGED <<now, asked, invalidations, began>>
      /\ cache' = cache \/ cache' = [cache EXCEPT ![i] = Without(cache[i], {h})]
  BY DEF EndLookup
<1>2. /\ cpc' = [c \in Callers |-> IF Served(c) THEN "done" ELSE cpc[c]]
      /\ answer' = [c \in Callers |-> IF Served(c) THEN Given(c) ELSE answer[c]]
  BY DEF EndLookup
<1>3. Covering(h) # {}
  BY <1>1 DEF FlightInv, NoLookup
<1>4. i \in RuleIds /\ Rules[i].maxTTL \in Nat \ {0}
  BY <1>3, FirstRule, RuleValues
<1>5. now \in Nat /\ invalidations[h] \in Nat /\ \A c \in Callers : began[c] \in Nat
  BY DEF TypeInv
<1>6. ASSUME NEW c \in Callers, Served(c)
      PROVE  Good(h, Given(c))
  <2>1. began[c] <= invalidations[h]
    BY <1>6 DEF CallerInv
  <2>2. CASE hit
    <3> DEFINE x == cache[i][h]
    <3>1. h \in DOMAIN cache[i] /\ Live(x)
      BY <2>2 DEF Fresh
    <3>2. Sound(i, h, x)
      BY <1>4, <3>1 DEF CacheInv
    <3>3. x.found => now - x.stored < Rules[i].maxTTL /\ invalidations[h] <= x.after
      BY <1>4, <1>5, <3>1, <3>2, LiveIsYoung
    <3>4. x.after \in Nat
      BY <3>2 DEF Sound
    <3>5. got = x /\ age = now - x.stored
      BY <2>2
    <3> HIDE DEF x, got, age, hit
    <3>6. got.found => age < Rules[i].maxTTL /\ began[c] <= got.after
      BY <1>5, <2>1, <3>3, <3>4, <3>5
    <3> QED
      BY <1>3, <3>6, AnswerIsGood
  <2>3. CASE ~hit
    <3>1. got = e /\ age = 0
      BY <2>3
    <3>2. cpc[c] = "wait" /\ e.found => began[c] <= e.after
      BY <1>1, <1>6 DEF WaitInv
    <3>3. cpc[c] # "wait" => (cpc[c] = "late") = TRUE
      BY <1>6
    <3> HIDE DEF got, age, e, hit
    <3>4. got.found => age < Rules[i].maxTTL /\ (began[c] <= got.after \/ (cpc[c] = "late") = TRUE)
      BY <1>4, <3>1, <3>2, <3>3
    <3> HIDE DEF i
    <3> QED
      BY <1>3, <3>4, AnswerIsGood DEF i
  <2> QED
    BY <2>2, <2>3
<1> HIDE DEF e, hit, got, age, Given
<1>7. TypeInv'
  <2>1. cpc' \in [Callers -> Places] /\ DOMAIN answer' = Callers
    BY <1>2 DEF TypeInv, Places
  <2>2. flight' \in [Hosts -> Flights] /\ DOMAIN cache' = RuleIds
    BY <1>1 DEF TypeInv, Flights
  <2> QED
    BY <1>1, <2>1, <2>2 DEF TypeInv
<1>8. CacheInv'
  <2>1. ASSUME NEW j \in RuleIds, NEW k \in DOMAIN cache'[j]
        PROVE  k \in DOMAIN cache[j] /\ cache'[j][k] = cache[j][k]
    <3>1. cache'[j] = cache[j] \/ cache'[j] = Without(cache[j], {h})
      BY <1>1 DEF TypeInv
    <3>2. DOMAIN Without(cache[j], {h}) = DOMAIN cache[j] \ {h}
          /\ \A m \in DOMAIN cache[j] \ {h} : Without(cache[j], {h})[m] = cache[j][m]
      BY WithoutKeeps
    <3> QED
      BY <2>1, <3>1, <3>2
  <2> QED
    BY <1>1, <2>1 DEF CacheInv, Sound, RuleIds
<1>9. FlightInv'
  BY <1>1 DEF FlightInv, NoLookup, TypeInv
<1>10. ASSUME NEW c \in Callers
       PROVE  /\ cpc'[c] # "idle" => asked'[c] \in Hosts
              /\ cpc'[c] \in {"miss", "wait", "late"} => /\ Covering(asked'[c]) # {}
                                                         /\ began'[c] <= invalidations'[asked'[c]]
              /\ cpc'[c] = "done" => Good(asked'[c], answer'[c])
  <2>1. CASE Served(c)
    <3>1. cpc'[c] = "done" /\ answer'[c] = Given(c) /\ asked'[c] = h
      BY <1>1, <1>2, <2>1
    <3> QED
      BY <1>6, <2>1, <3>1
  <2>2. CASE ~Served(c)
    <3>1. cpc'[c] = cpc[c] /\ answer'[c] = answer[c] /\ asked'[c] = asked[c]
          /\ began'[c] = began[c] /\ invalidations' = invalidations
      BY <1>1, <1>2, <2>2
    <3>2. CallerInv!(c)
      BY DEF CallerInv
    <3> QED
      BY <3>1, <3>2
  <2> QED
    BY <2>1, <2>2
<1>11. CallerInv'
  BY <1>10 DEF CallerInv
<1>12. WaitInv'
  <2>1. ASSUME NEW c \in Callers, cpc'[c] = "wait"
        PROVE  cpc[c] = "wait" /\ asked[c] \in Hosts \ {h}
    <3>1. ~Served(c) /\ cpc[c] = "wait"
      BY <1>2, <2>1
    <3> QED
      BY <3>1 DEF CallerInv
  <2>2. \A k \in Hosts \ {h} : flight'[k] = flight[k]
    BY <1>1 DEF TypeInv
  <2> QED
    BY <1>1, <2>1, <2>2, WaitersAlone
<1> QED
  BY <1>7, <1>8, <1>9, <1>11, <1>12

LEMMA TickKeeps ==
  ASSUME Inv, Tick
  PROVE  Inv'
<1> USE DEF Inv
<1>1. /\ now' = now + 1 /\ now \in Nat
      /\ UNCHANGED <<cache, flight, cpc, asked, answer, invalidations, began>>
  BY DEF Tick, TypeInv
<1>2. TypeInv'
  BY <1>1 DEF TypeInv
<1>3. FlightInv'
  BY <1>1 DEF FlightInv
<1>4. ASSUME NEW i \in RuleIds, NEW k \in DOMAIN cache[i]
      PROVE  k \in Hosts /\ Sound(i, k, cache[i][k])'
  <2>1. k \in Hosts /\ Sound(i, k, cache[i][k])
    BY DEF CacheInv
  <2> QED
    BY <1>1, <2>1 DEF Sound
<1>5. CacheInv'
  BY <1>1, <1>4 DEF CacheInv, RuleIds
<1>6. WaitInv'
  BY <1>1 DEF WaitInv
<1> QED
  BY <1>1, <1>2, <1>3, <1>5, <1>6, CallersAlone

LEMMA StepInv == Inv /\ [Next]_vars => Inv'
<1> SUFFICES ASSUME Inv, [Next]_vars PROVE Inv'
  OBVIOUS
<1>1. ASSUME NEW c \in Callers, NEW h \in Hosts, Resolve(c, h) PROVE Inv'
  BY <1>1, ResolveKeeps
<1>2. ASSUME NEW c \in Callers, Do(c) PROVE Inv'
  BY <1>2, DoKeeps
<1>3. ASSUME NEW c \in Callers, DialFails(c) PROVE Inv'
  BY <1>3, DialFailsKeeps
<1>4. ASSUME NEW h \in Hosts, LookupProceeds(h) PROVE Inv'
  BY <1>4, ServerAnswersKeeps, ServerFailsKeeps, StoreResultKeeps, EndLookupKeeps DEF LookupProceeds
<1>5. CASE Tick
  BY <1>5, TickKeeps
<1>6. CASE UNCHANGED vars
  <2>1. TypeInv' /\ FlightInv' /\ WaitInv'
    BY <1>6 DEF vars, Inv, TypeInv, FlightInv, WaitInv
  <2> QED
    BY <1>6, <2>1, CallersAlone, CachesAlone DEF vars, Inv
<1> QED
  BY <1>1, <1>2, <1>3, <1>4, <1>5, <1>6 DEF Next

LEMMA Invariance == Spec => []Inv
BY InitInv, StepInv, PTL DEF Spec

-----------------------------------------------------------------------------
(* The theorems.                                                             *)

\* No address is given out that has been cached for its rule's max-ttl or
\* longer (clampTTL, Get), under any rules and whatever TTLs servers give.
THEOREM NoAnswerOutlivesMaxTTL == Spec => []NotOutlived
<1>1. Inv => NotOutlived
  BY DEF Inv, CallerInv, Good, NotOutlived
<1> QED
  BY <1>1, Invariance, PTL

\* After an invalidation a Resolve that starts later gets what was asked for
\* since (Invalidate, lookup), for any number of callers that share lookups and
\* of dials that fail, although Put and the end of a lookup are two steps.  The
\* two exceptions are in the property: an answer that waited to be stored when
\* Invalidate came, and a Resolve that joins a lookup that is about to end.
THEOREM InvalidatedIsRequeried == Spec => []RequeriedAfterInvalidate
<1>1. Inv => RequeriedAfterInvalidate
  BY DEF Inv, CallerInv, Good, RequeriedAfterInvalidate
<1> QED
  BY <1>1, Invariance, PTL

\* A full cache of any size and content lets go what has expired, or else one
\* entry that expires no later than the others, and does not grow (store,
\* evictLocked); a host that it holds is refreshed without letting anything go.
THEOREM EvictionIsRight == Spec => []EvictsTheFirstToExpire
<1> DEFINE Right(D, x, r) ==
             LET dead == {h \in D : x[h] <= now}
             IN  /\ Cardinality(DOMAIN r) <= Cardinality(D)
                 /\ IF dead # {} THEN D \ DOMAIN r = dead
                    ELSE \E h \in D : D \ DOMAIN r = {h} /\ \A k \in D : x[h] <= x[k]
<1>1. ASSUME now \in Nat, NEW D \in SUBSET Hosts \ {{}}, NEW x \in [D -> 0 .. MaxTime + 1],
             NEW new \in Hosts \ D,
             NEW r \in Stored([h \in D |-> [expires |-> x[h]]], new, [expires |-> now + 1]),
             Cardinality(D) >= MaxEntries
      PROVE  Right(D, x, r)
  <2> DEFINE c    == [h \in D |-> [expires |-> x[h]]]
             e    == [expires |-> now + 1]
             dead == {h \in D : x[h] <= now}
  <2>1. \A h \in D : c[h].expires = x[h] /\ x[h] \in Nat
    BY DnsAssumption
  <2>2. {h \in DOMAIN c : ~Live(c[h])} = dead
    BY <1>1, <2>1 DEF Live
  <2>3. r \in {With(Without(c, hs), new, e) : hs \in Evicted(c)}
    BY <1>1 DEF Stored
  <2>4. PICK hs \in Evicted(c) : r = With(Without(c, hs), new, e)
    BY <2>3
  <2>5. DOMAIN r = (D \ hs) \cup {new}
    BY <2>4 DEF With, Without
  <2>6. /\ hs \subseteq D /\ hs # {}
        /\ IF dead # {} THEN hs = dead
           ELSE \E h \in D : hs = {h} /\ \A k \in D : x[h] <= x[k]
    <3>1. CASE dead # {}
      BY <2>2, <3>1 DEF Evicted
    <3>2. CASE dead = {}
      <4>1. hs \in {{h} : h \in {k \in D : \A j \in D : c[k].expires <= c[j].expires}}
        BY <2>2, <3>2 DEF Evicted
      <4>2. PICK h \in D : hs = {h} /\ \A j \in D : c[h].expires <= c[j].expires
        BY <4>1
      <4>3. \A j \in D : x[h] <= x[j]
        BY <2>1, <4>2
      <4> QED
        BY <3>2, <4>2, <4>3
    <3> QED
      BY <3>1, <3>2
  <2>7. D \ DOMAIN r = hs
    BY <2>5, <2>6
  <2>8. Cardinality(DOMAIN r) <= Cardinality(D)
    <3>1. IsFiniteSet(D)
      BY DnsAssumption, FS_Subset
    <3>2. PICK h \in hs : h \in D
      BY <2>6
    <3>3. IsFiniteSet(D \ {h}) /\ Cardinality(D \ {h}) = Cardinality(D) - 1
      BY <3>1, <3>2, FS_RemoveElement
    <3>4. D \ hs \in SUBSET (D \ {h})
      BY <3>2
    <3>5. IsFiniteSet(D \ hs) /\ Cardinality(D \ hs) <= Cardinality(D \ {h})
      BY <3>3, <3>4, FS_Subset
    <3>6. Cardinality((D \ hs) \cup {new}) = Cardinality(D \ hs) + 1
      BY <3>5, FS_AddElement
    <3>7. Cardinality(D) \in Nat /\ Cardinality(D \ hs) \in Nat
      BY <3>1, <3>5, FS_CardinalityType
    <3> QED
      BY <2>5, <3>3, <3>5, <3>6, <3>7
  <2> QED
    BY <2>6, <2>7, <2>8
<1>2. ASSUME NEW D \in SUBSET Hosts, NEW x \in [D -> 0 .. MaxTime + 1], NEW new \in D, NEW e,
             NEW r \in Stored([h \in D |-> [expires |-> x[h]]], new, e)
      PROVE  DOMAIN r = D
  BY DEF Stored, With
<1>3. now \in Nat => EvictsTheFirstToExpire
  <2> SUFFICES ASSUME now \in Nat, NEW D \in SUBSET Hosts \ {{}}, NEW x \in [D -> 0 .. MaxTime + 1],
                      NEW new \in Hosts,
                      NEW r \in Stored([h \in D |-> [expires |-> x[h]]], new, [expires |-> now + 1])
               PROVE  /\ new \in D => DOMAIN r = D
                      /\ new \notin D /\ Cardinality(D) >= MaxEntries => Right(D, x, r)
    BY DEF EvictsTheFirstToExpire
  <2>1. CASE new \in D
    BY <1>2, <2>1
  <2>2. CASE new \notin D
    <3> HIDE DEF Right
    <3> QED
      BY <1>1, <2>2
  <2> QED
    BY <2>1, <2>2
<1>4. Inv => EvictsTheFirstToExpire
  BY <1>3 DEF Inv, TypeInv
<1> QED
  BY <1>4, Invariance, PTL

=============================================================================
