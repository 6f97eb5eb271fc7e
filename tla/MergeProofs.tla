---------------------------- MODULE MergeProofs ----------------------------
(* Proofs about the merged configuration, for layers of any content.         *)
EXTENDS ProxyProofs

-----------------------------------------------------------------------------
(* The operators that Merge and its documentation are made of.               *)

\* Join is made of two maps with different keys.
LEMMA Joined ==
  ASSUME NEW f, NEW g
  PROVE  /\ \A x \in DOMAIN f : Join(f, g)[x] = f[x]
         /\ \A x \in DOMAIN g \ DOMAIN f : Join(f, g)[x] = g[x]
         /\ DOMAIN Join(f, g) = DOMAIN f \cup DOMAIN g
BY DEF Join

\* The first value that is not blank is the highest.
LEMMA HighestIs ==
  ASSUME NEW values, NEW blank, DOMAIN values \subseteq Nat, NEW k \in DOMAIN values,
         values[k] # blank, \A j \in DOMAIN values : j < k => values[j] = blank
  PROVE  Highest(values, blank) = values[k]
<1> DEFINE P(i) == values[i] # blank /\ \A j \in DOMAIN values : values[j] # blank => i <= j
<1>1. P(k)
  OBVIOUS
<1>2. \A i \in DOMAIN values : P(i) => i = k
  OBVIOUS
<1>3. (CHOOSE i \in DOMAIN values : P(i)) = k
  <2> HIDE DEF P
  <2> QED
    BY <1>1, <1>2
<1> QED
  BY <1>3 DEF Highest

\* So for the layers that a setting may come from.
LEMMA HighestOfTwo ==
  ASSUME NEW a, NEW b, NEW u
  PROVE  Highest(<<a, b>>, u) = IF a # u THEN a ELSE b
<1> DEFINE v == <<a, b>>
<1>1. DOMAIN v = 1 .. 2 /\ v[1] = a /\ v[2] = b
  OBVIOUS
<1> HIDE DEF v
<1>0. ASSUME NEW k \in DOMAIN v, v[k] # u, \A j \in DOMAIN v : j < k => v[j] = u
      PROVE  Highest(v, u) = v[k]
  <2>1. DOMAIN v \subseteq Nat
    BY <1>1
  <2> QED
    BY <1>0, <2>1, HighestIs
<1>2. CASE a # u
  <2>1. 1 \in DOMAIN v /\ v[1] # u /\ \A j \in DOMAIN v : j < 1 => v[j] = u
    BY <1>1, <1>2
  <2>2. Highest(v, u) = v[1]
    BY <1>0, <2>1
  <2> QED
    BY <1>1, <1>2, <2>2 DEF v
<1>3. CASE a = u /\ b # u
  <2>1. 2 \in DOMAIN v /\ v[2] # u /\ \A j \in DOMAIN v : j < 2 => v[j] = u
    BY <1>1, <1>3
  <2>2. Highest(v, u) = v[2]
    BY <1>0, <2>1
  <2> QED
    BY <1>1, <1>3, <2>2 DEF v
<1>4. CASE a = u /\ b = u
  <2>1. \A i \in DOMAIN v : v[i] = u
    BY <1>1, <1>4
  <2> QED
    BY <1>4, <2>1 DEF Highest
<1> QED
  BY <1>2, <1>3, <1>4 DEF v

LEMMA HighestOfThree ==
  ASSUME NEW a, NEW b, NEW c, NEW u
  PROVE  Highest(<<a, b, c>>, u) = IF a # u THEN a ELSE IF b # u THEN b ELSE c
<1> DEFINE v == <<a, b, c>>
<1>1. DOMAIN v = 1 .. 3 /\ v[1] = a /\ v[2] = b /\ v[3] = c
  OBVIOUS
<1> HIDE DEF v
<1>0. ASSUME NEW k \in DOMAIN v, v[k] # u, \A j \in DOMAIN v : j < k => v[j] = u
      PROVE  Highest(v, u) = v[k]
  <2>1. DOMAIN v \subseteq Nat
    BY <1>1
  <2> QED
    BY <1>0, <2>1, HighestIs
<1>2. CASE a # u
  <2>1. 1 \in DOMAIN v /\ v[1] # u /\ \A j \in DOMAIN v : j < 1 => v[j] = u
    BY <1>1, <1>2
  <2>2. Highest(v, u) = v[1]
    BY <1>0, <2>1
  <2> QED
    BY <1>1, <1>2, <2>2 DEF v
<1>3. CASE a = u /\ b # u
  <2>1. 2 \in DOMAIN v /\ v[2] # u /\ \A j \in DOMAIN v : j < 2 => v[j] = u
    BY <1>1, <1>3
  <2>2. Highest(v, u) = v[2]
    BY <1>0, <2>1
  <2> QED
    BY <1>1, <1>3, <2>2 DEF v
<1>4. CASE a = u /\ b = u /\ c # u
  <2>1. 3 \in DOMAIN v /\ v[3] # u /\ \A j \in DOMAIN v : j < 3 => v[j] = u
    BY <1>1, <1>4
  <2>2. Highest(v, u) = v[3]
    BY <1>0, <2>1
  <2> QED
    BY <1>1, <1>4, <2>2 DEF v
<1>5. CASE a = u /\ b = u /\ c = u
  <2>1. \A i \in DOMAIN v : v[i] = u
    BY <1>1, <1>5
  <2> QED
    BY <1>5, <2>1 DEF Highest
<1> QED
  BY <1>2, <1>3, <1>4, <1>5 DEF v

LEMMA HighestOfFour ==
  ASSUME NEW a, NEW b, NEW c, NEW d, NEW u
  PROVE  Highest(<<a, b, c, d>>, u) = IF a # u THEN a ELSE IF b # u THEN b ELSE IF c # u THEN c ELSE d
<1> DEFINE v == <<a, b, c, d>>
<1>1. DOMAIN v = 1 .. 4 /\ v[1] = a /\ v[2] = b /\ v[3] = c /\ v[4] = d
  OBVIOUS
<1> HIDE DEF v
<1>0. ASSUME NEW k \in DOMAIN v, v[k] # u, \A j \in DOMAIN v : j < k => v[j] = u
      PROVE  Highest(v, u) = v[k]
  <2>1. DOMAIN v \subseteq Nat
    BY <1>1
  <2> QED
    BY <1>0, <2>1, HighestIs
<1>2. CASE a # u
  <2>1. 1 \in DOMAIN v /\ v[1] # u /\ \A j \in DOMAIN v : j < 1 => v[j] = u
    BY <1>1, <1>2
  <2>2. Highest(v, u) = v[1]
    BY <1>0, <2>1
  <2> QED
    BY <1>1, <1>2, <2>2 DEF v
<1>3. CASE a = u /\ b # u
  <2>1. 2 \in DOMAIN v /\ v[2] # u /\ \A j \in DOMAIN v : j < 2 => v[j] = u
    BY <1>1, <1>3
  <2>2. Highest(v, u) = v[2]
    BY <1>0, <2>1
  <2> QED
    BY <1>1, <1>3, <2>2 DEF v
<1>4. CASE a = u /\ b = u /\ c # u
  <2>1. 3 \in DOMAIN v /\ v[3] # u /\ \A j \in DOMAIN v : j < 3 => v[j] = u
    BY <1>1, <1>4
  <2>2. Highest(v, u) = v[3]
    BY <1>0, <2>1
  <2> QED
    BY <1>1, <1>4, <2>2 DEF v
<1>5. CASE a = u /\ b = u /\ c = u /\ d # u
  <2>1. 4 \in DOMAIN v /\ v[4] # u /\ \A j \in DOMAIN v : j < 4 => v[j] = u
    BY <1>1, <1>5
  <2>2. Highest(v, u) = v[4]
    BY <1>0, <2>1
  <2> QED
    BY <1>1, <1>5, <2>2 DEF v
<1>6. CASE a = u /\ b = u /\ c = u /\ d = u
  <2>1. \A i \in DOMAIN v : v[i] = u
    BY <1>1, <1>6
  <2> QED
    BY <1>6, <2>1 DEF Highest
<1> QED
  BY <1>2, <1>3, <1>4, <1>5, <1>6 DEF v

-----------------------------------------------------------------------------
(* Merge.                                                                    *)

\* What Merge gives for each setting.
LEMMA Merged ==
  ASSUME NEW d, NEW p, NEW c
  PROVE  LET m == Merge(d, p, c)
             r == MergeRoutingFromProfile(d.routing, p.routing)
         IN  /\ \A f \in Scalars : m[f] = Override(Override(Override(BuiltIn[f], d[f]), p[f]), c[f])
             /\ m.autoStart = MergeSwitch(p.autoStart, c.autoStart)
             /\ m.autoStop = MergeSwitch(p.autoStop, c.autoStop)
             /\ m.upstream = MergeUpstream(d.upstream, p.upstream, c.upstream)
             /\ m.routing = MergeRoutingFromCLI(r, c.routing)
             /\ "network" \in DOMAIN m
<1> DEFINE s == [f \in Scalars |-> Override(Override(Override(BuiltIn[f], d[f]), p[f]), c[f])]
           t == [autoStart |-> MergeSwitch(p.autoStart, c.autoStart),
                 autoStop  |-> MergeSwitch(p.autoStop, c.autoStop),
                 idle      |-> MergeIdleTimeout(d.idle, p.idle),
                 keepalive |-> MergeKeepalive(d.keepalive, p.keepalive, c.keepalive),
                 upstream  |-> MergeUpstream(d.upstream, p.upstream, c.upstream),
                 routing   |-> MergeRoutingFromCLI(
                                 MergeRoutingFromProfile(d.routing, p.routing), c.routing)]
<1>1. Merge(d, p, c) = Join(s, t)
  BY DEF Merge
<1>2. /\ DOMAIN s = Scalars
      /\ \A x \in {"autoStart", "autoStop", "upstream", "routing"} : x \in DOMAIN t \ DOMAIN s
  BY DEF Scalars
<1>3. "network" \in DOMAIN s
  BY DEF Scalars
<1>4. /\ \A f \in Scalars : s[f] = Override(Override(Override(BuiltIn[f], d[f]), p[f]), c[f])
      /\ t.autoStart = MergeSwitch(p.autoStart, c.autoStart)
      /\ t.autoStop = MergeSwitch(p.autoStop, c.autoStop)
      /\ t.upstream = MergeUpstream(d.upstream, p.upstream, c.upstream)
      /\ t.routing = MergeRoutingFromCLI(MergeRoutingFromProfile(d.routing, p.routing), c.routing)
  OBVIOUS
<1>5. /\ \A f \in Scalars : Join(s, t)[f] = s[f]
      /\ \A x \in {"autoStart", "autoStop", "upstream", "routing"} : Join(s, t)[x] = t[x]
      /\ "network" \in DOMAIN Join(s, t)
  <2> HIDE DEF s, t
  <2> QED
    BY <1>2, <1>3 DEF Join
<1> HIDE DEF s, t
<1> QED
  BY <1>1, <1>4, <1>5

\* The routing section of the file's two layers, and that with the flags.
LEMMA RoutingFromProfile ==
  ASSUME NEW b, NEW p
  PROVE  LET r == MergeRoutingFromProfile(b, p)
         IN  /\ \A l \in Lists : r[l] = b[l] \cup p[l]
             /\ r.default = IF p.default # NoRoute THEN p.default ELSE b.default
             /\ r.hosts = MergeMaps(b.hosts, p.hosts)
             /\ r.dns = IF p.dns # << >> THEN p.dns ELSE b.dns
<1> DEFINE s == [l \in Lists |-> MergeStringSlices(b[l], p[l])]
           t == [default |-> IF p.default # NoRoute THEN p.default ELSE b.default,
                 hosts   |-> MergeMaps(b.hosts, p.hosts),
                 dns     |-> IF p.dns # << >> THEN p.dns ELSE b.dns]
<1>1. MergeRoutingFromProfile(b, p) = Join(s, t)
  BY DEF MergeRoutingFromProfile
<1>2. DOMAIN s = Lists /\ \A x \in {"default", "hosts", "dns"} : x \in DOMAIN t \ DOMAIN s
  BY DEF Lists
<1>3. /\ \A l \in Lists : s[l] = b[l] \cup p[l]
      /\ t.default = IF p.default # NoRoute THEN p.default ELSE b.default
      /\ t.hosts = MergeMaps(b.hosts, p.hosts)
      /\ t.dns = IF p.dns # << >> THEN p.dns ELSE b.dns
  BY DEF MergeStringSlices
<1>4. /\ \A l \in Lists : Join(s, t)[l] = s[l]
      /\ \A x \in {"default", "hosts", "dns"} : Join(s, t)[x] = t[x]
  <2> HIDE DEF s, t
  <2> QED
    BY <1>2 DEF Join
<1> HIDE DEF s, t
<1> QED
  BY <1>1, <1>3, <1>4

\* The patterns of a flag, if there is one for the list, and the DNS rules with
\* the servers of --dns-server.
Given(c, l) == IF l \in DOMAIN c THEN c[l] ELSE {}

WithServers(rules, servers) ==
    IF servers = << >> THEN rules
    ELSE IF rules = << >> THEN <<[servers |-> servers, patterns |-> {}]>>
    ELSE [i \in DOMAIN rules |-> [rules[i] EXCEPT !.servers = servers]]

LEMMA RoutingFromCLI ==
  ASSUME NEW b, NEW c
  PROVE  LET r == MergeRoutingFromCLI(b, c)
         IN  /\ \A l \in Lists : r[l] = b[l] \cup Given(c, l)
             /\ r.default = IF c.default # NoRoute THEN c.default ELSE b.default
             /\ r.hosts = b.hosts
             /\ r.dns = WithServers(b.dns, c.servers)
             /\ DOMAIN r = Lists \cup {"default", "hosts", "dns"}
<1> DEFINE s == [l \in Lists |-> IF l \in DOMAIN c THEN MergeStringSlices(b[l], c[l]) ELSE b[l]]
           t == [default |-> IF c.default # NoRoute THEN c.default ELSE b.default,
                 hosts   |-> b.hosts,
                 dns     |-> WithServers(b.dns, c.servers)]
<1>1. MergeRoutingFromCLI(b, c) = Join(s, t)
  BY DEF MergeRoutingFromCLI, WithServers
<1>2. DOMAIN s = Lists /\ DOMAIN t = {"default", "hosts", "dns"}
      /\ \A x \in {"default", "hosts", "dns"} : x \in DOMAIN t \ DOMAIN s
  BY DEF Lists
<1>3. \A l \in Lists : s[l] = b[l] \cup Given(c, l)
  BY DEF MergeStringSlices, Given
<1>4. /\ t.default = IF c.default # NoRoute THEN c.default ELSE b.default
      /\ t.hosts = b.hosts /\ t.dns = WithServers(b.dns, c.servers)
  OBVIOUS
<1>5. /\ \A l \in Lists : Join(s, t)[l] = s[l]
      /\ \A x \in {"default", "hosts", "dns"} : Join(s, t)[x] = t[x]
      /\ DOMAIN Join(s, t) = Lists \cup {"default", "hosts", "dns"}
  <2> HIDE DEF s, t
  <2> QED
    BY <1>2 DEF Join
<1> HIDE DEF s, t
<1> QED
  BY <1>1, <1>3, <1>4, <1>5

\* The router takes the hosts as they are.
LEMMA RouterHosts ==
  ASSUME NEW m, "hosts" \in DOMAIN m.routing
  PROVE  NewRouter(m).hosts = m.routing.hosts
<1> DEFINE t == [m.routing EXCEPT !.vmDirect    = IF VMMode(m) THEN m.routing.vmDirect ELSE {},
                                  !.preVMDirect = IF VMMode(m) THEN m.routing.preVMDirect ELSE {}]
<1>1. "hosts" \in DOMAIN t \ DOMAIN [vmMode |-> VMMode(m)] /\ t.hosts = m.routing.hosts
  OBVIOUS
<1>2. NewRouter(m) = Join([vmMode |-> VMMode(m)], t)
  BY DEF NewRouter
<1> DEFINE u == [vmMode |-> VMMode(m)]
<1>3. Join(u, t)["hosts"] = t["hosts"]
  <2>1. "hosts" \in DOMAIN t \ DOMAIN u
    BY <1>1
  <2> HIDE DEF t, u
  <2> QED
    BY <2>1 DEF Join
<1> HIDE DEF t
<1> QED
  BY <1>1, <1>2, <1>3

\* The DNS rules of one layer.
IsRules(rules) ==
    /\ Len(rules) \in Nat
    /\ rules = [i \in 1 .. Len(rules) |-> [servers |-> rules[i].servers, patterns |-> rules[i].patterns]]

\* --dns-server puts its servers into every rule of the file.
LEMMA ServersEverywhere ==
  ASSUME NEW b, NEW c, IsRules(b.dns), c.servers # << >>
  PROVE  LET r == MergeRoutingFromCLI(b, c)
         IN  r.dns # << >> /\ \A i \in DOMAIN r.dns : r.dns[i].servers = c.servers
<1> DEFINE r == MergeRoutingFromCLI(b, c)
           one == <<[servers |-> c.servers, patterns |-> {}]>>
           each == [i \in DOMAIN b.dns |-> [b.dns[i] EXCEPT !.servers = c.servers]]
<1>1. r.dns = IF b.dns = << >> THEN one ELSE each
  BY RoutingFromCLI DEF WithServers
<1>2. one # << >> /\ \A i \in DOMAIN one : one[i].servers = c.servers
  <2>1. DOMAIN one = {1} /\ one[1].servers = c.servers
    OBVIOUS
  <2>2. one # << >>
    OBVIOUS
  <2> HIDE DEF one
  <2> QED
    BY <2>1, <2>2
<1>3. CASE b.dns # << >>
  <2> DEFINE n == Len(b.dns)
  <2>1. n \in Nat /\ b.dns = [i \in 1 .. n |-> [servers |-> b.dns[i].servers, patterns |-> b.dns[i].patterns]]
    BY DEF IsRules
  <2> HIDE DEF n
  <2>2. DOMAIN b.dns = 1 .. n
    BY <2>1
  <2>3. \A i \in 1 .. n : "servers" \in DOMAIN b.dns[i]
    BY <2>1
  <2>4. n # 0
    <3>1. SUFFICES ASSUME n = 0 PROVE FALSE
      OBVIOUS
    <3>2. 1 .. n = {}
      BY <3>1
    <3>3. b.dns = << >>
      BY <2>1, <3>2
    <3> QED
      BY <1>3, <3>3
  <2>5. 1 \in DOMAIN each
    BY <2>1, <2>2, <2>4
  <2>6. \A i \in DOMAIN each : each[i].servers = c.servers
    BY <2>2, <2>3
  <2>7. each # << >>
    <3> HIDE DEF each
    <3> QED
      BY <2>5
  <2> QED
    BY <1>1, <1>3, <2>6, <2>7
<1>4. CASE b.dns = << >>
  <2> HIDE DEF one, each
  <2> QED
    BY <1>1, <1>2, <1>4
<1> QED
  BY <1>3, <1>4

\* The merged configuration is what the comment of Merge says, whatever the
\* layers set.
LEMMA MergeIsDocumented ==
  ASSUME NEW d, NEW p, NEW c, Unset \notin BOOLEAN, p.autoStart \in BOOLEAN, p.autoStop \in BOOLEAN,
         IsRules(d.routing.dns), IsRules(p.routing.dns)
  PROVE  Documented(d, p, c, Merge(d, p, c))
<1> DEFINE m == Merge(d, p, c)
           r == MergeRoutingFromProfile(d.routing, p.routing)
           section == Highest(<<p.upstream, d.upstream>>, Unset)
<1>1. /\ \A f \in Scalars : m[f] = Override(Override(Override(BuiltIn[f], d[f]), p[f]), c[f])
      /\ m.autoStart = MergeSwitch(p.autoStart, c.autoStart)
      /\ m.autoStop = MergeSwitch(p.autoStop, c.autoStop)
      /\ m.upstream = MergeUpstream(d.upstream, p.upstream, c.upstream)
      /\ m.routing = MergeRoutingFromCLI(r, c.routing)
  BY Merged
<1>2. /\ \A l \in Lists : r[l] = d.routing[l] \cup p.routing[l]
      /\ r.default = IF p.routing.default # NoRoute THEN p.routing.default ELSE d.routing.default
      /\ r.hosts = MergeMaps(d.routing.hosts, p.routing.hosts)
      /\ r.dns = IF p.routing.dns # << >> THEN p.routing.dns ELSE d.routing.dns
  BY RoutingFromProfile
<1> HIDE DEF m, r
<1>3. /\ \A l \in Lists : m.routing[l] = r[l] \cup Given(c.routing, l)
      /\ m.routing.default = IF c.routing.default # NoRoute THEN c.routing.default ELSE r.default
      /\ m.routing.hosts = r.hosts
      /\ "hosts" \in DOMAIN m.routing
  BY <1>1, RoutingFromCLI
<1>4. \A f \in Scalars : m[f] = Highest(<<c[f], p[f], d[f], BuiltIn[f]>>, Unset)
  BY <1>1, HighestOfFour DEF Override
<1>5. /\ m.autoStart = Highest(<<c.autoStart, p.autoStart>>, Unset)
      /\ m.autoStop = Highest(<<c.autoStop, p.autoStop>>, Unset)
  <2>1. (p.autoStart = TRUE) = p.autoStart /\ (p.autoStop = TRUE) = p.autoStop
    OBVIOUS
  <2> QED
    BY <1>1, <2>1, HighestOfTwo DEF MergeSwitch, Override
<1>6. \A l \in Lists : m.routing[l] = d.routing[l] \cup p.routing[l]
                                      \cup (IF l \in DOMAIN c.routing THEN c.routing[l] ELSE {})
  BY <1>2, <1>3 DEF Given
<1>7. m.routing.default = Highest(<<c.routing.default, p.routing.default, d.routing.default>>, NoRoute)
  BY <1>2, <1>3, HighestOfThree
<1>8. m.upstream.url = IF section = Unset THEN c.upstream.url
                       ELSE Highest(<<c.upstream.url, section.url>>, Unset)
  <2> DEFINE base == Override(Override([url |-> Unset, patterns |-> {}], d.upstream), p.upstream)
  <2>1. m.upstream.url = Override(base.url, c.upstream.url)
    BY <1>1 DEF MergeUpstream
  <2>2. section = IF p.upstream # Unset THEN p.upstream ELSE d.upstream
    BY HighestOfTwo
  <2>3. base = IF section # Unset THEN section ELSE [url |-> Unset, patterns |-> {}]
    BY <2>2 DEF Override
  <2> HIDE DEF base, section
  <2>4. CASE section = Unset
    BY <2>1, <2>3, <2>4 DEF Override
  <2>5. CASE section # Unset
    BY <2>1, <2>3, <2>5, HighestOfTwo DEF Override
  <2> QED
    BY <2>4, <2>5
<1>9. \A h \in Hosts : ResolveHost(NewRouter(m), h) =
          IF h \in DOMAIN p.routing.hosts THEN p.routing.hosts[h]
          ELSE IF h \in DOMAIN d.routing.hosts THEN d.routing.hosts[h] ELSE h
  <2>1. NewRouter(m).hosts = Join(p.routing.hosts, d.routing.hosts)
    BY <1>2, <1>3, RouterHosts DEF MergeMaps
  <2> QED
    BY <2>1 DEF ResolveHost, Join
<1>10. c.routing.servers # << >> =>
         /\ m.routing.dns # << >>
         /\ \A i \in DOMAIN m.routing.dns : m.routing.dns[i].servers = c.routing.servers
  <2>1. IsRules(r.dns)
    BY <1>2
  <2> QED
    BY <1>1, <2>1, ServersEverywhere
<1> QED
  BY <1>4, <1>5, <1>6, <1>7, <1>8, <1>9, <1>10 DEF Documented, m

-----------------------------------------------------------------------------
(* The configuration that the program runs with.                             *)

\* It is what Merge makes of the layers, until Start has read it.
ConfigInv ==
    /\ phase \in {"flags", "merged"} => layers \in Layers
    /\ phase = "merged" => cfg = Merge(layers.d, layers.p, CLIFlags(layers.c))

LEMMA StepConfig == IndInv /\ ConfigInv /\ [Next]_vars => ConfigInv'
<1> SUFFICES ASSUME IndInv, ConfigInv, [Next]_vars PROVE ConfigInv'
  OBVIOUS
<1>1. CASE UNCHANGED vars
  BY <1>1 DEF ConfigInv, vars, managerVars, configVars
<1>2. CASE LoadConfig
  BY <1>2 DEF LoadConfig, ConfigInv
<1>3. CASE StartVMFails \/ Start \/ StartServers \/ Stop
  BY <1>3 DEF StartVMFails, Start, StartServers, Stop, StopServers, StopBackend, StopInstance, Exit,
              ConfigInv
<1>4. ASSUME NEW x \in Dialers \cup {Main}, InitializeProxy(x) PROVE ConfigInv'
  <2>1. UNCHANGED <<layers, cfg>> /\ (phase' = phase \/ phase' = "failed")
    BY <1>4 DEF InitializeProxy, InitDescribe, InitAwaitStopped, InitStartInstance, InitAwaitAgent,
                InitBackend, InitFails, configVars
  <2> QED
    BY <2>1 DEF ConfigInv
<1>5. ASSUME NEW d \in Dialers, EnsureInitialized(d) PROVE ConfigInv'
  <2>1. CASE EnsureLock(d)
    <3>1. phase \notin Early /\ phase' = phase
      BY <2>1, Running DEF EnsureLock
    <3> QED
      BY <3>1 DEF ConfigInv, Early
  <2>2. CASE ~EnsureLock(d) /\ ~InitializeProxy(d)
    BY <1>5, <2>2 DEF EnsureInitialized, EnsurePublish, EnsureFinish, EnsureFailClose, EnsureFailReplace,
                      ConfigInv, configVars
  <2> QED
    BY <1>4, <2>1, <2>2
<1>6. CASE (\E f \in Fires : IdleFires(f) \/ Suspend(f)) \/ InstanceStops \/ TunnelChanges
  BY <1>6 DEF IdleFires, Suspend, SuspendLock, SuspendClose, SuspendStop, InstanceStops, TunnelChanges,
              ConfigInv, configVars
<1>7. ASSUME NEW d \in Dialers, DialProceeds(d) \/ \E h \in Hosts : DialByRule(d, h) \/ DialGate(d, h)
      PROVE  ConfigInv'
  BY <1>7 DEF DialProceeds, DialFetch, DialWoken, DialProxy, DialSucceeds, DialTouch, DialFails, DialByRule,
              DialGate, ConfigInv, managerVars, configVars
<1> QED
  BY <1>1, <1>2, <1>3, <1>4, <1>5, <1>6, <1>7 DEF Next, ManagerNext

\* The program runs with the configuration that the comment of Merge
\* describes, for any file and flags (merge.go:88, startAction).
THEOREM ConfigIsDocumented == Spec => []MergedAsDocumented
<1>1. Init => ConfigInv
  BY DEF Init, ManagerInit, ConfigInv
<1>2. ConfigInv => MergedAsDocumented
  <2> SUFFICES ASSUME phase = "merged", layers \in Layers,
                      cfg = Merge(layers.d, layers.p, CLIFlags(layers.c))
               PROVE  Documented(layers.d, layers.p, CLIFlags(layers.c), cfg)
    BY DEF ConfigInv, MergedAsDocumented
  <2>1. /\ Unset \notin BOOLEAN /\ layers.p.autoStart \in BOOLEAN /\ layers.p.autoStop \in BOOLEAN
        /\ IsRules(layers.d.routing.dns) /\ IsRules(layers.p.routing.dns)
    BY LayersAssumption DEF IsRules
  <2> QED
    BY <2>1, MergeIsDocumented
<1> QED
  BY <1>1, <1>2, StepConfig, Inductive, PTL DEF Spec

=============================================================================
