------------------------------- MODULE MCProxy -------------------------------
(* An instance of ProxyDialer for TLC. *)
EXTENDS ProxyDialer, TLC

CONSTANTS d1, d2

MCHosts == {"web", "portal", "lan"}

\* No layer sets anything.
Blank ==
    [d |-> [f \in Scalars \cup {"idle", "keepalive", "upstream"} |-> Unset] @@ [routing |-> NoRouting],
     p |-> [f \in Scalars \cup {"idle", "keepalive", "upstream"} |-> Unset]
           @@ [autoStart |-> FALSE, autoStop |-> FALSE, routing |-> NoRouting],
     c |-> << >>]

\* The flag f, unless its value is blank.
Flag(f, value, blank) == IF value = blank THEN << >> ELSE f :> value

\* One setting at a time, in every combination of layers.
MergeLayers ==
    {[Blank EXCEPT !.d.listen = x, !.p.listen = y, !.c = Flag("listen", z, Unset)] :
        x \in {Unset, "x"}, y \in {Unset, "y"}, z \in {Unset, "z"}}
    \cup {[Blank EXCEPT !.d.lazy = x, !.p.lazy = y, !.c = Flag("lazy", z, Unset)] :
        x \in {Unset, FALSE}, y \in {Unset, TRUE, FALSE}, z \in {Unset, TRUE, FALSE}}
    \cup {[Blank EXCEPT !.d.routing.proxy = x, !.p.routing.direct = y, !.c = Flag("direct", z, {}),
                        !.d.routing.preDirect = y, !.p.routing.proxy = z] :
        x \in {{}, {"web"}}, y \in {{}, {"lan"}}, z \in {{}, {"web", "portal"}}}
    \cup {[Blank EXCEPT !.d.routing.default = x, !.p.routing.default = y,
                        !.c = Flag("default", z, NoRoute)] :
        x \in {NoRoute, "proxy"}, y \in {NoRoute, "direct"}, z \in {NoRoute, "vm-direct"}}
    \cup {[Blank EXCEPT !.d.routing.hosts = x, !.p.routing.hosts = y] :
        x \in {<< >>, "web" :> "a"}, y \in {<< >>, "lan" :> "b", "web" :> "c" @@ "lan" :> "b"}}
    \cup {[Blank EXCEPT !.d.routing.dns = x, !.p.routing.dns = y, !.c = Flag("servers", z, << >>)] :
        x \in {<< >>, <<[servers |-> <<"s">>, patterns |-> {"web"}]>>},
        y \in {<< >>, <<[servers |-> <<"t">>, patterns |-> {"lan"}]>>}, z \in {<< >>, <<"u">>}}
    \cup {[Blank EXCEPT !.d.upstream = x, !.p.upstream = y,
                        !.c = Flag("upstreamURL", z, Unset) @@ Flag("upstreamPatterns", w, {})] :
        x \in {Unset, [url |-> "x", patterns |-> {"web"}]},
        y \in {Unset, [url |-> "y", patterns |-> {"lan"}]}, z \in {Unset, "z"}, w \in {{}, {"portal"}}}
    \cup {[Blank EXCEPT !.d.idle = x, !.p.idle = y, !.p.autoStart = z,
                        !.c = Flag("autoStop", z, FALSE)] :
        x \in {Unset, Bad, "30m"}, y \in {Unset, Bad, "1h"}, z \in BOOLEAN}

\* An instance behind the proxy: lazy with a pre-connect host and an idle
\* timeout, on the host's network and on the VM's, and eager with one.
Running ==
    [Blank EXCEPT !.d.routing.default = "proxy", !.d.routing.preDirect = {"portal"},
                  !.d.routing.direct = {"lan"}, !.p.instance = "i-1", !.p.idle = "30m"]

RunLayers ==
    {Running,
     [Running EXCEPT !.c = "network" :> "vm" @@ "vmDirect" :> {"lan"}, !.p.routing.preVMDirect = {"portal"}],
     [Running EXCEPT !.p.lazy = FALSE],
     [Running EXCEPT !.p.idle = Unset, !.c = "autoStart" :> TRUE, !.p.autoStop = TRUE]}

MCLayers == MergeLayers \cup RunLayers

=============================================================================
