------------------------------ MODULE Routing ------------------------------
(***************************************************************************)
(* Configuration and routing as pure operators: Merge (config/merge.go),   *)
(* which combines the defaults of the file, a profile and the flags, and   *)
(* the router built from the result (routing/router.go).                   *)
(*                                                                         *)
(* A pattern list is the set of the hosts that it matches, because the     *)
(* router only asks whether any pattern of a list matches.  A setting that *)
(* a layer leaves out is Unset (in Go an empty string, a zero or a nil     *)
(* pointer), Bad is a duration that does not parse and Off the zero value. *)
(* The instance is one setting, whether given by ID or by name.  Host names *)
(* compare as the code makes them do, without regard to case: a host is an *)
(* element of a set, and the ToLower of the router is left out.            *)
(***************************************************************************)
EXTENDS Naturals, Sequences

CONSTANTS Unset, Bad, Off

NoRoute == ""

\* Two maps, or the fields of two records: those of f and the others of g.
Join(f, g) == [x \in DOMAIN f \cup DOMAIN g |-> IF x \in DOMAIN f THEN f[x] ELSE g[x]]

Override(base, value) == IF value = Unset THEN base ELSE value

\* The settings that every layer may set and that the last one to do so wins.
Scalars == {"instance", "network", "lazy", "listen"}

\* The pattern lists of a routing section, which accumulate.
Lists == {"proxy", "direct", "vmDirect", "preDirect", "preVMDirect"}

\* The routing section that sets nothing.
NoRouting == Join([l \in Lists |-> {}], [default |-> NoRoute, hosts |-> << >>, dns |-> << >>])

BuiltIn == [instance |-> Off, network |-> Off, lazy |-> TRUE, listen |-> "127.0.0.1:1080"]

\* buildCLIFlags: a flag that is not given leaves its setting alone.
CLIFlags(given) ==
    LET Flag(f, blank) == IF f \in DOMAIN given THEN given[f] ELSE blank
    IN  Join([f \in Scalars \cup {"autoStart", "autoStop", "keepalive"} |-> Flag(f, Unset)],
             [upstream |-> [url |-> Flag("upstreamURL", Unset), patterns |-> Flag("upstreamPatterns", {})],
              routing  |-> [proxy |-> Flag("proxy", {}), direct |-> Flag("direct", {}),
                            vmDirect |-> Flag("vmDirect", {}), default |-> Flag("default", NoRoute),
                            servers |-> Flag("servers", << >>)]])

\* Lists are joined and duplicates dropped.
MergeStringSlices(base, additional) == base \cup additional

\* Entries of the additional map override those of the base.
MergeMaps(base, additional) == Join(additional, base)

\* A profile's patterns are added, its hosts override, and its DNS rules
\* replace the list, which is an ordered decision table.
MergeRoutingFromProfile(base, p) ==
    Join([l \in Lists |-> MergeStringSlices(base[l], p[l])],
         [default |-> IF p.default # NoRoute THEN p.default ELSE base.default,
          hosts   |-> MergeMaps(base.hosts, p.hosts),
          dns     |-> IF p.dns # << >> THEN p.dns ELSE base.dns])

\* The flags add patterns, and --dns-server puts its servers into every rule
\* or makes one rule for all hosts (patterns |-> {}).
MergeRoutingFromCLI(base, c) ==
    Join([l \in Lists |-> IF l \in DOMAIN c THEN MergeStringSlices(base[l], c[l]) ELSE base[l]],
         [default |-> IF c.default # NoRoute THEN c.default ELSE base.default,
          hosts   |-> base.hosts,
          dns     |-> IF c.servers = << >> THEN base.dns
                      ELSE IF base.dns = << >> THEN <<[servers |-> c.servers, patterns |-> {}]>>
                      ELSE [i \in DOMAIN base.dns |-> [base.dns[i] EXCEPT !.servers = c.servers]]])

\* A duration that does not parse is ignored in the defaults and in the flags,
\* but switches the idle timeout off in a profile.
MergeIdleTimeout(d, p) ==
    LET base == IF d \in {Unset, Bad} THEN Off ELSE d
    IN  IF p = Bad THEN Off ELSE Override(base, p)

MergeKeepalive(d, p, c) ==
    LET Valid(v) == IF v = Bad THEN Unset ELSE v
    IN  Override(Override(Override("30s", Valid(d)), Valid(p)), Valid(c))

\* A profile can switch AutoStart on but not off, a flag can do both.
MergeSwitch(p, c) == Override(p = TRUE, c)

\* A profile's section replaces that of the defaults, a flag one of its fields.
MergeUpstream(d, p, c) ==
    LET base == Override(Override([url |-> Unset, patterns |-> {}], d), p)
    IN  [url      |-> Override(base.url, c.url),
         patterns |-> IF c.patterns # {} THEN c.patterns ELSE base.patterns]

\* Mutant: the profile is applied after the flags.
Merge_Swapped(d, p, c) ==
    Join([f \in Scalars |-> Override(Override(Override(BuiltIn[f], d[f]), c[f]), p[f])],
         [autoStart |-> MergeSwitch(p.autoStart, c.autoStart),
          autoStop  |-> MergeSwitch(p.autoStop, c.autoStop),
          idle      |-> MergeIdleTimeout(d.idle, p.idle),
          keepalive |-> MergeKeepalive(d.keepalive, p.keepalive, c.keepalive),
          upstream  |-> MergeUpstream(d.upstream, p.upstream, c.upstream),
          routing   |-> MergeRoutingFromCLI(
                          MergeRoutingFromProfile(d.routing, p.routing), c.routing)])

Merge(d, p, c) ==
    Join([f \in Scalars |-> Override(Override(Override(BuiltIn[f], d[f]), p[f]), c[f])],
         [autoStart |-> MergeSwitch(p.autoStart, c.autoStart),
          autoStop  |-> MergeSwitch(p.autoStop, c.autoStop),
          idle      |-> MergeIdleTimeout(d.idle, p.idle),
          keepalive |-> MergeKeepalive(d.keepalive, p.keepalive, c.keepalive),
          upstream  |-> MergeUpstream(d.upstream, p.upstream, c.upstream),
          routing   |-> MergeRoutingFromCLI(
                          MergeRoutingFromProfile(d.routing, p.routing), c.routing)])

-----------------------------------------------------------------------------
(* The router.                                                             *)

\* createRouter: the proxy network is the VM, or hosts are to leave through it.
VMMode(cfg) == cfg.network = "vm" \/ cfg.routing.vmDirect # {}

\* The router keeps the patterns for the VM's network in VM mode only.
NewRouter(cfg) ==
    Join([vmMode |-> VMMode(cfg)],
         [cfg.routing EXCEPT !.vmDirect    = IF VMMode(cfg) THEN @ ELSE {},
                             !.preVMDirect = IF VMMode(cfg) THEN @ ELSE {}])

\* The manager starts the VM for the proxy network or for the router's patterns.
NeedsVM(cfg) == cfg.network = "vm" \/ NewRouter(cfg).vmDirect # {}

NeedsProxy(cfg) == cfg.instance # Off

\* The first of vm-direct, direct and proxy whose list matches.  The default
\* may be NoRoute: Dial treats every route that is not direct or vm-direct as
\* proxy.
Route(r, host) ==
    IF host \in r.vmDirect THEN "vm-direct"
    ELSE IF host \in r.direct THEN "direct"
    ELSE IF host \in r.proxy THEN "proxy"
    ELSE r.default

ResolveHost(r, host) == IF host \in DOMAIN r.hosts THEN r.hosts[host] ELSE host

RoutePreConnect(r, host) ==
    IF host \in r.preVMDirect THEN "vm-direct"
    ELSE IF host \in r.preDirect THEN "direct"
    ELSE NoRoute

\* The errors of a dial, of which those that tell that the host cannot be
\* reached lead to the fallback.
DialErrors               == {"unreachable", "refused", "other"}
IsFallbackableError(err) == err \in {"unreachable", "refused"}

FallbackRoute(r, current) ==
    IF current = "proxy" THEN IF r.vmMode THEN "vm-direct" ELSE "direct"
    ELSE IF current = (IF r.vmMode THEN "vm-direct" ELSE "direct") THEN "proxy"
    ELSE NoRoute

=============================================================================
