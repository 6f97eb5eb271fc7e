---------------------------- MODULE MCDnsResolver ----------------------------
(* An instance of DnsResolver for TLC. *)
EXTENDS DnsResolver

MCHosts == {"db", "web", "v6", "other"}

\* A rule for one host and one for the rest, with different policies; "other"
\* is covered by none.
MCRules ==
    <<[hosts |-> {"db"}, prefer |-> "ipv4", servers |-> 2, onFailure |-> "fail",
       minTTL |-> 1, maxTTL |-> 1, negativeTTL |-> 1],
      [hosts |-> {"db", "web", "v6"}, prefer |-> "ipv6", servers |-> 1, onFailure |-> "fallthrough",
       minTTL |-> 1, maxTTL |-> 2, negativeTTL |-> 1]>>

MCZone == [h \in MCHosts |->
    CASE h = "v6" -> {"ipv6"} [] h = "other" -> {} [] OTHER -> {"ipv4"}]

=============================================================================
