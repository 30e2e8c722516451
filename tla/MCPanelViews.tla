---------------------------- MODULE MCPanelViews ----------------------------
(***************************************************************************)
(* Three independent views of the panel explored side by side for TLC: the *)
(* live monitor, the connection log and the client rules.  A behaviour     *)
(* picks one of them and keeps to it.                                      *)
(***************************************************************************)
EXTENDS LiveMonitor, ConnectionLog, ClientRules

VARIABLE view

Init == /\ view \in {"live", "log", "rules"}
        /\ LiveInit /\ LogInit /\ RulesInit

Live == view = "live" /\ UNCHANGED <<view, logVars, rulesVars>>
Log  == view = "log" /\ UNCHANGED <<view, liveVars, rulesVars>>
Client == view = "rules" /\ UNCHANGED <<view, liveVars, logVars>>

Next == \/ LiveNext /\ Live
        \/ LogNext /\ Log
        \/ RulesNext /\ Client

Spec == Init /\ [][Next]_<<view, liveVars, logVars, rulesVars>>
        /\ WF_<<view, liveVars, logVars, rulesVars>>(Run /\ Live)

\* Rules of every kind, some old, sloppy or wrong.
Rule(type, of, policy) ==
  [type |-> type, value |-> [of |-> of, canonical |-> FALSE], policy |-> policy,
   noResolve |-> FALSE, provider |-> NoValue, domain |-> "", outbound |-> ""]
Set(provider, policy) == [Rule("RULE-SET", "set", policy) EXCEPT !.provider = provider]
Old(domain, outbound) == [Rule("", "", "") EXCEPT !.value = Blank, !.domain = domain, !.outbound = outbound]

Ads     == [valid |-> TRUE, covers |-> {"foreign", "cnsite"}, src |-> 1]
OtherAds == [valid |-> TRUE, covers |-> {"gemini"}, src |-> 2]
BadAds  == [valid |-> FALSE, covers |-> {}, src |-> 3]

TestRules == {
  Old("foreign", "direct"), Old("cnsite", "upstream"),
  Rule("DOMAIN", "gemini", "REJECT"), Rule("DOMAIN-SUFFIX", "server", "node"),
  Rule("IP-CIDR", "cn", "node"), [Rule("IP-CIDR", "abroad", "REJECT") EXCEPT !.noResolve = TRUE],
  Rule("IP-CIDR6", "v6", "auto"), Rule("SRC-IP-CIDR", "private", "REJECT"), Rule("GEOIP", "cn", "REJECT"),
  Set(Ads, "failover"), Set(OtherAds, "DIRECT"), Set(BadAds, "DIRECT"),
  [Rule("DOMAIN", "foreign", "DIRECT") EXCEPT !.noResolve = TRUE],
  [Rule("DOMAIN", "foreign", "DIRECT") EXCEPT !.value = Illegal],
  [Rule("MATCH", "", "REJECT") EXCEPT !.value = Blank]}
=============================================================================
