----------------------------- MODULE DnsResolver -----------------------------
(***************************************************************************)
(* The DNS resolver with its caches and shared lookups (dns/resolver.go,   *)
(* dns/cache.go and Query of dns/client.go), as the dialer uses it: it     *)
(* resolves a host, dials the address and invalidates one that it cannot   *)
(* reach.                                                                  *)
(*                                                                         *)
(* Which address a host has does not matter, only whether one was found    *)
(* and when.  A host is looked up under one rule only, the first that      *)
(* covers it, so lookups are per host.  A lookup stores its result before  *)
(* it ends; the caches and singleflight have locks of their own, so that   *)
(* anything can happen in between.  Invalidations are counted, and an      *)
(* answer remembers how many preceded it, so that a property can tell an   *)
(* answer from before an invalidation.                                     *)
(***************************************************************************)
EXTENDS Naturals, FiniteSets, Sequences

CONSTANTS
    Callers,
    Hosts,
    Rules,       \* hosts, prefer, minTTL, maxTTL, negativeTTL, servers of each rule
    Zone,        \* the address families of each host
    TTLs,        \* the TTLs that servers give
    MaxEntries,  \* of a cache
    MaxTime, MaxFailures,  \* bounds: the clock, dials of a host that fail
    None

\* What buildRule accepts: durations are positive and min-ttl does not exceed
\* max-ttl.
RuleSpecs ==
    {rule \in [hosts : SUBSET Hosts, prefer : {"ipv4", "ipv6"}, servers : Nat \ {0},
               onFailure : {"fail", "fallthrough"},
               minTTL : Nat \ {0}, maxTTL : Nat \ {0}, negativeTTL : Nat \ {0}] :
        rule.minTTL <= rule.maxTTL}

ASSUME DnsAssumption ==
    /\ IsFiniteSet(Hosts) /\ Zone \in [Hosts -> SUBSET {"ipv4", "ipv6"}]
    /\ Rules \in Seq(RuleSpecs)
    /\ TTLs \subseteq Nat /\ MaxEntries \in Nat \ {0} /\ MaxTime \in Nat /\ MaxFailures \in Nat
    /\ None \notin Nat /\ None \notin Hosts

VARIABLES
    now,
    cache,   \* the cache of each rule: entries by host
    flight,  \* the shared lookup of each host
    cpc, asked, answer,
    invalidations, began

vars == <<now, cache, flight, cpc, asked, answer, invalidations, began>>

RuleIds == DOMAIN Rules

\* The first rule that covers the host; the host is then its cache key.
Covering(h)  == {i \in RuleIds : h \in Rules[i].hosts}
MatchRule(h) == CHOOSE i \in Covering(h) : \A j \in Covering(h) : i <= j

NoLookup == [pc |-> "none"]

-----------------------------------------------------------------------------
(* The cache.                                                              *)

Live(e) == now < e.expires

\* Mutant: an entry is served in the instant in which it expires.
Fresh_OffByOne(c, h) == h \in DOMAIN c /\ now <= c[h].expires

\* Get finds an entry; it also drops the one that it finds expired.
Fresh(c, h) == h \in DOMAIN c /\ Live(c[h])

Without(c, hs) == [h \in DOMAIN c \ hs |-> c[h]]

\* Mutant: the entry that would live longest goes.
Evicted_Longest(c) ==
    LET expired == {h \in DOMAIN c : ~Live(c[h])}
    IN  IF expired # {} THEN {expired}
        ELSE {{h} : h \in {k \in DOMAIN c : \A j \in DOMAIN c : c[k].expires >= c[j].expires}}

\* The hosts that a full cache lets go: all that are expired, or else one of
\* those that expire first.
Evicted(c) ==
    LET expired == {h \in DOMAIN c : ~Live(c[h])}
    IN  IF expired # {} THEN {expired}
        ELSE {{h} : h \in {k \in DOMAIN c : \A j \in DOMAIN c : c[k].expires <= c[j].expires}}

With(c, h, e) == [k \in DOMAIN c \cup {h} |-> IF k = h THEN e ELSE c[k]]

\* What the cache can be after a store.
Stored(c, h, e) ==
    IF h \notin DOMAIN c /\ Cardinality(DOMAIN c) >= MaxEntries
    THEN {With(Without(c, hs), h, e) : hs \in Evicted(c)}
    ELSE {With(c, h, e)}

ClampTTL(rule, ttl) ==
    IF ttl < rule.minTTL THEN rule.minTTL
    ELSE IF rule.maxTTL > 0 /\ ttl > rule.maxTTL THEN rule.maxTTL ELSE ttl

-----------------------------------------------------------------------------
(* Resolve.                                                                *)

\* Resolve returns the address of entry e, or, after a failure, the hostname
\* or an error.  The rest is there for the properties: for how long it has been
\* in the cache, whether a server was asked since the caller's last known
\* invalidation, and whether the caller joined a lookup that had its result.
AnswerOf(h, e, age, start, late) ==
    IF e.found
    THEN [kind |-> "ip", age |-> age, requeried |-> e.after >= start, late |-> late]
    ELSE [kind |-> Rules[MatchRule(h)].onFailure]

Failed == [found |-> FALSE]

Return(c, a) ==
    cpc' = [cpc EXCEPT ![c] = "done"] /\ answer' = [answer EXCEPT ![c] = a]

\* No rule covers the host, the cache has an entry, or a lookup is needed.
Resolve(c, h) ==
    /\ cpc[c] = "idle"
    /\ asked' = [asked EXCEPT ![c] = h] /\ began' = [began EXCEPT ![c] = invalidations[h]]
    /\ IF Covering(h) = {}
       THEN Return(c, [kind |-> "keep"]) /\ UNCHANGED cache
       ELSE LET i == MatchRule(h)
            IN  IF Fresh(cache[i], h)
                THEN /\ UNCHANGED cache
                     /\ LET e == cache[i][h]
                        IN  Return(c, AnswerOf(h, e, now - e.stored, invalidations[h], FALSE))
                ELSE /\ cpc' = [cpc EXCEPT ![c] = "miss"] /\ UNCHANGED answer
                     /\ cache' = [cache EXCEPT ![i] = Without(@, {h})]
    /\ UNCHANGED <<now, flight, invalidations>>

Lookup(h, family, server) == [pc |-> "query", family |-> family, server |-> server]

\* singleflight: the first caller starts the lookup, others wait for it, also
\* for one that has its result already and is about to end.
Do(c) ==
    LET h == asked[c]
    IN  /\ cpc[c] = "miss"
        /\ cpc' = [cpc EXCEPT ![c] = IF flight[h].pc = "end" THEN "late" ELSE "wait"]
        /\ flight' = IF flight[h] # NoLookup THEN flight
                     ELSE [flight EXCEPT ![h] = Lookup(h, Rules[MatchRule(h)].prefer, 1)]
        /\ UNCHANGED <<now, cache, asked, answer, invalidations, began>>

\* A server answers with addresses or with none; after none for IPv6 the
\* lookup asks for IPv4, but not the other way round.
ServerAnswers(h) ==
    LET f == flight[h]
        e == [found |-> f.family \in Zone[h], after |-> invalidations[h]]
    IN  /\ f.pc = "query"
        /\ \E ttl \in TTLs :
            flight' = [flight EXCEPT ![h] =
                IF ~e.found /\ f.family = "ipv6" THEN Lookup(h, "ipv4", 1)
                ELSE [pc |-> "store", entry |-> e, ttl |-> ttl]]
        /\ UNCHANGED <<now, cache, cpc, asked, answer, invalidations, began>>

\* Mutant: the servers are asked round and round.
ServerFails_Forever(h) ==
    LET f == flight[h]
    IN  /\ f.pc = "query"
        /\ flight' = [flight EXCEPT ![h].server = (@ % Rules[MatchRule(h)].servers) + 1]
        /\ UNCHANGED <<now, cache, cpc, asked, answer, invalidations, began>>

\* A server cannot be reached or does not answer in time: the next one is
\* asked, and after the last one the lookup fails without being cached.
ServerFails(h) ==
    LET f == flight[h]
    IN  /\ f.pc = "query"
        /\ flight' = IF f.server < Rules[MatchRule(h)].servers
                     THEN [flight EXCEPT ![h].server = @ + 1]
                     ELSE [flight EXCEPT ![h] = [pc |-> "end", entry |-> Failed]]
        /\ UNCHANGED <<now, cache, cpc, asked, answer, invalidations, began>>

\* Put and PutNegative: the result is cached, for negativeTTL if there is no
\* address.
StoreResult(h) ==
    LET f == flight[h]
        i == MatchRule(h)
        ttl == IF f.entry.found THEN ClampTTL(Rules[i], f.ttl) ELSE Rules[i].negativeTTL
        e == [found |-> f.entry.found, after |-> f.entry.after, stored |-> now, expires |-> now + ttl]
    IN  /\ f.pc = "store"
        /\ \E c \in Stored(cache[i], h, e) : cache' = [cache EXCEPT ![i] = c]
        /\ flight' = [flight EXCEPT ![h] = [pc |-> "end", entry |-> e]]
        /\ UNCHANGED <<now, cpc, asked, answer, invalidations, began>>

\* A lookup that has found an address gets it back from the cache; if it is no
\* longer there, or has expired, the lookup returns what it has found.  Then
\* the call is forgotten, and all who wait for it have the same result.
EndLookup(h) ==
    LET e == flight[h].entry
        i == MatchRule(h)
        hit == e.found /\ Fresh(cache[i], h)
        got == IF hit THEN cache[i][h] ELSE e
        age == IF hit THEN now - got.stored ELSE 0
        waiting == {c \in Callers : cpc[c] \in {"wait", "late"} /\ asked[c] = h}
    IN  /\ flight[h].pc = "end"
        /\ cache' = IF hit \/ ~e.found THEN cache ELSE [cache EXCEPT ![i] = Without(@, {h})]
        /\ cpc' = [c \in Callers |-> IF c \in waiting THEN "done" ELSE cpc[c]]
        /\ answer' = [c \in Callers |->
              IF c \in waiting THEN AnswerOf(h, got, age, began[c], cpc[c] = "late") ELSE answer[c]]
        /\ flight' = [flight EXCEPT ![h] = NoLookup]
        /\ UNCHANGED <<now, asked, invalidations, began>>

LookupProceeds(h) == ServerAnswers(h) \/ ServerFails(h) \/ StoreResult(h) \/ EndLookup(h)

\* Mutant: only the cache of the first rule forgets the host.
Invalidate_FirstRule(h) ==
    /\ cache' = [i \in RuleIds |-> IF i = 1 THEN Without(cache[i], {h}) ELSE cache[i]]
    /\ invalidations' = [invalidations EXCEPT ![h] = @ + 1]

\* Every cache forgets the host.  An answer that is on its way into the cache
\* is not affected, and such an invalidation is not counted.
Invalidate(h) ==
    /\ cache' = [i \in RuleIds |-> Without(cache[i], {h})]
    /\ invalidations' = IF flight[h].pc = "store" THEN invalidations
                        ELSE [invalidations EXCEPT ![h] = @ + 1]

\* The address cannot be dialed, for any reason that lets the dialer fall back:
\* it invalidates the host, and its client tries again.
DialFails(c) ==
    /\ cpc[c] = "done" /\ answer[c].kind = "ip" /\ invalidations[asked[c]] < MaxFailures
    /\ Invalidate(asked[c])
    /\ cpc' = [cpc EXCEPT ![c] = "idle"] /\ answer' = [answer EXCEPT ![c] = None]
    /\ UNCHANGED <<now, flight, asked, began>>

Tick ==
    /\ now < MaxTime /\ now' = now + 1
    /\ UNCHANGED <<cache, flight, cpc, asked, answer, invalidations, began>>

Init ==
    /\ now = 0
    /\ cache = [i \in RuleIds |-> << >>]
    /\ flight = [h \in Hosts |-> NoLookup]
    /\ cpc = [c \in Callers |-> "idle"] /\ asked = [c \in Callers |-> None]
    /\ answer = [c \in Callers |-> None]
    /\ invalidations = [h \in Hosts |-> 0] /\ began = [c \in Callers |-> 0]

Next ==
    \/ \E c \in Callers : (\E h \in Hosts : Resolve(c, h)) \/ Do(c) \/ DialFails(c)
    \/ \E h \in Hosts : LookupProceeds(h)
    \/ Tick

Spec == Init /\ [][Next]_vars

\* A caller goes on after its cache miss, and an exchange with a server ends
\* by an answer or by its timeout.
FairSpec ==
    /\ Spec
    /\ \A c \in Callers : WF_vars(Do(c))
    /\ \A h \in Hosts : WF_vars(LookupProceeds(h))

-----------------------------------------------------------------------------

\* No address is given out of the cache that has been there for the rule's
\* max-ttl or longer, whatever TTL the server gave (clampTTL, Get).
NotOutlived ==
    \A c \in Callers : (cpc[c] = "done" /\ answer[c].kind = "ip") =>
        answer[c].age < Rules[MatchRule(asked[c])].maxTTL

\* Once an unreachable address is invalidated, a Resolve that starts later gets
\* what a server answers after that: the entry is dropped so that the next
\* attempt re-queries (README.md:203).  Two exceptions: an answer that had
\* arrived and was not stored yet when Invalidate came (lookup between Query
\* and Put; Invalidate does not count it), and a Resolve that joins a lookup
\* between its Put and the end of its singleflight call, which only hands on
\* the old address and leaves none in the cache.
RequeriedAfterInvalidate ==
    \A c \in Callers : (cpc[c] = "done" /\ answer[c].kind = "ip" /\ ~answer[c].late) =>
        answer[c].requeried

\* A full cache of any content lets go what has expired, or else one entry and
\* none that would have expired later than another, and so does not grow; a host
\* that it holds is refreshed without letting anything go (store, evictLocked).
EvictsTheFirstToExpire ==
    (\A c \in Callers : cpc[c] = "idle") =>
        \A D \in SUBSET Hosts \ {{}} : \A x \in [D -> 0 .. MaxTime + 1] :
            LET c    == [h \in D |-> [expires |-> x[h]]]
                dead == {h \in D : x[h] <= now}
            IN  \A new \in Hosts : \A r \in Stored(c, new, [expires |-> now + 1]) :
                    /\ new \in D => DOMAIN r = D
                    /\ new \notin D /\ Cardinality(D) >= MaxEntries =>
                        /\ Cardinality(DOMAIN r) <= Cardinality(D)
                        /\ IF dead # {} THEN D \ DOMAIN r = dead
                           ELSE \E h \in D : D \ DOMAIN r = {h} /\ \A k \in D : x[h] <= x[k]

\* Every Resolve returns, whatever servers fail, also for those who joined the
\* lookup of another.
Answered == \A c \in Callers : cpc[c] \in {"miss", "wait", "late"} ~> cpc[c] = "done"

=============================================================================
