---------------------------- MODULE ClientRules ----------------------------
(***************************************************************************)
(* The rules a subscription gives to clients (backend/internal/inbound:    *)
(* routing.go, subscription.go): the administrator's list, normalised when *)
(* it is saved and again whenever it is read, between the panel's own      *)
(* rules.  Clients decide by the first rule that matches.                  *)
(*                                                                         *)
(* A value says what it covers (of) and whether it is spelled the way      *)
(* normalisation spells it: lower case without a leading dot for domains,  *)
(* without host bits for networks.  Domains are equal or unrelated.        *)
(***************************************************************************)
EXTENDS Naturals, Sequences, SequencesExt, FiniteSetsExt

CONSTANTS Name, Net,       \* domains, and disjoint sets of IP addresses
          SetName,         \* names of rule sets
          Server,          \* the host's own domain
          Server4, Server6, \* the nets of its address alone
          Gemini, CnSite,  \* a domain of geminiDomains, one in geosite CN
          Private, Cn, V6, \* literal networks; V6 is all of IPv6
          NoValue, Blank, Illegal, Refused,
          RawRule,         \* the rules an administrator or an old database may hold
          MaxRules         \* bound

VARIABLE rules \* the list, as it comes in

rulesVars == rules

RulesInit == rules = <<>>
RulesNext == Len(rules) < MaxRules /\ \E r \in RawRule : rules' = Append(rules, r)
RulesSpec == RulesInit /\ [][RulesNext]_rulesVars

-----------------------------------------------------------------------------
(* normalizeRouteRules                                                     *)

Policies == {"DIRECT", "REJECT", "node", "auto", "failover"}
DomainTypes == {"DOMAIN", "DOMAIN-SUFFIX"}
CidrTypes   == {"IP-CIDR", "IP-CIDR6", "SRC-IP-CIDR"}
GeoTypes    == {"GEOSITE", "GEOIP", "SRC-GEOIP"}

Value    == [of : Name \cup Net \cup SetName, canonical : BOOLEAN]
Provider == [valid : BOOLEAN, covers : SUBSET Name, src : Nat]

RouteRule ==
  [type : DomainTypes \cup CidrTypes \cup GeoTypes \cup {"RULE-SET", "MATCH", ""},
   value : Value \cup {Blank, Illegal}, policy : Policies \cup {""}, noResolve : BOOLEAN,
   provider : Provider \cup {NoValue}, domain : Name \cup {""}, outbound : {"", "direct", "upstream"}]

Distinct(s) == \A i, j \in 1..Len(s) : s[i] = s[j] => i = j

ASSUME RulesAssumption ==
  /\ RawRule \subseteq RouteRule
  /\ Blank \notin Value /\ Illegal \notin Value
  /\ NoValue \notin Name \cup Provider
  /\ {Server, Gemini, CnSite} \subseteq Name /\ Distinct(<<Server, Gemini, CnSite>>)
  /\ {Server4, Server6, Private, Cn, V6} \subseteq Net
  /\ Distinct(<<Server4, Server6, Private, Cn, V6>>)

supportsNoResolve(type) == type \in {"IP-CIDR", "IP-CIDR6", "IP-ASN", "GEOIP"}

\* A rule saved by the version that only knew domains.
Migrated(r) ==
  IF r.type = "" /\ r.domain # ""
  THEN [r EXCEPT !.type = "DOMAIN-SUFFIX", !.value = [of |-> r.domain, canonical |-> FALSE],
                 !.policy = IF r.outbound \in {"", "direct"} THEN "DIRECT" ELSE "node"]
  ELSE r

\* the old fields are cleared before they are read
FaultyNormal(rule) ==
  LET r == Migrated([rule EXCEPT !.domain = "", !.outbound = ""]) IN
  IF r.type \in DomainTypes \cup CidrTypes THEN [r EXCEPT !.value.canonical = TRUE] ELSE r

Normal(rule) ==
  LET r == [Migrated(rule) EXCEPT !.domain = "", !.outbound = ""] IN
  IF r.type \in DomainTypes \cup CidrTypes THEN [r EXCEPT !.value.canonical = TRUE] ELSE r

ValueFits(r) ==
  IF r.type = "MATCH" THEN r.value = Blank
  ELSE /\ r.value \notin {Blank, Illegal}
       /\ CASE r.type \in DomainTypes -> r.value.of \in Name
            [] r.type \in CidrTypes   -> r.value.of \in Net
            [] r.type \in GeoTypes    -> r.value.of = Cn
            [] OTHER -> r.type = "RULE-SET" /\ r.provider # NoValue /\ r.provider.valid

\* conflicting sources of one rule set are not noticed
FaultyAccepted(list, i) ==
  LET r == Migrated(list[i]) IN
  /\ r.policy \in Policies /\ ValueFits(r)
  /\ r.noResolve => supportsNoResolve(r.type)
  /\ r.provider # NoValue => r.type = "RULE-SET"
  /\ r.type = "MATCH" => i = Len(list)

Accepted(list, i) ==
  LET r == Migrated(list[i]) IN
  /\ r.policy \in Policies /\ ValueFits(r)
  /\ r.noResolve => supportsNoResolve(r.type)
  /\ r.provider # NoValue => r.type = "RULE-SET"
  /\ r.type = "MATCH" => i = Len(list)
  /\ \A j \in 1..(i - 1) : r.type = "RULE-SET" /\ list[j].type = "RULE-SET"
                           /\ list[j].value.of = r.value.of => list[j].provider = r.provider

normalizeRouteRules(list) ==
  IF \A i \in 1..Len(list) : Accepted(list, i)
  THEN [i \in 1..Len(list) |-> Normal(list[i])] ELSE Refused

-----------------------------------------------------------------------------
(* UserSubscription                                                        *)

\* RouteRule.clashRule, and the panel's own lines.
Line(type, of, policy, noResolve) ==
  [type |-> type, of |-> of, policy |-> policy, noResolve |-> noResolve]
clashRule(r) == Line(r.type, IF r.type = "MATCH" THEN NoValue ELSE r.value.of, r.policy, r.noResolve)

\* What the request or SERVER_HOST names, with or without a port; a Host header
\* writes an IPv6 address in brackets, and only SplitHostPort takes them off.
Authority == [host : {"domain", "ipv4", "ipv6"}, brackets : BOOLEAN, port : BOOLEAN]
Authorities == {a \in Authority : /\ a.brackets => a.host = "ipv6"
                                  /\ a.host = "ipv6" /\ a.port => a.brackets}

hostOnly(a) == IF a.brackets /\ ~a.port THEN "[ipv6]" ELSE a.host
Hosts       == {hostOnly(a) : a \in Authorities}

\* net.ParseIP takes an address in brackets for neither kind.
ServerRule(host) ==
  CASE host = "domain" -> Line("DOMAIN", Server, "DIRECT", FALSE)
    [] host = "ipv4"   -> Line("IP-CIDR", Server4, "DIRECT", TRUE)
    [] host = "ipv6"   -> Line("IP-CIDR6", Server6, "DIRECT", TRUE)
    [] OTHER           -> Line("DOMAIN", NoValue, "DIRECT", FALSE)

Fallback(list) == IF list # <<>> /\ Last(list).type = "MATCH" THEN clashRule(Last(list))
                  ELSE Line("MATCH", NoValue, "node", FALSE)

AppendRule(lines, r) == IF r.type = "MATCH" THEN lines ELSE Append(lines, clashRule(r))

\* the administrator's rules come first
FaultyClientRules(list, host) ==
  FoldLeft(AppendRule, <<>>, list)
  \o <<ServerRule(host), Line("IP-CIDR6", V6, "REJECT", TRUE)>>
  \o <<Line("DOMAIN-SUFFIX", Gemini, "node", FALSE), Line("IP-CIDR", Private, "DIRECT", TRUE),
       Line("GEOSITE", Cn, "DIRECT", FALSE), Line("GEOIP", Cn, "DIRECT", FALSE), Fallback(list)>>

ClientRulesOf(list, host) ==
  FoldLeft(AppendRule, <<ServerRule(host), Line("IP-CIDR6", V6, "REJECT", TRUE)>>, list)
  \o <<Line("DOMAIN-SUFFIX", Gemini, "node", FALSE), Line("IP-CIDR", Private, "DIRECT", TRUE),
       Line("GEOSITE", Cn, "DIRECT", FALSE), Line("GEOIP", Cn, "DIRECT", FALSE), Fallback(list)>>

\* The rule-providers section: a name has one source, the last one given.
ProviderOf(list, name) ==
  list[Max({i \in 1..Len(list) : list[i].provider # NoValue /\ list[i].value.of = name})].provider

RuleSets(list) == {list[i].value.of : i \in {i \in 1..Len(list) : list[i].type = "RULE-SET"}}

-----------------------------------------------------------------------------
(* What a client does with the lines (Mihomo): the first line that matches *)
(* decides.  A name is resolved when a line that needs its address, and    *)
(* may ask for it, is reached; from then on every line sees the address.   *)

Destination ==
  [name : {NoValue}, nets : {{Server4}, {Server6, V6}, {V6}, {Private}, {Cn}}]
  \cup {[name |-> n, nets |-> {Cn}] : n \in {Gemini, CnSite}}
  \cup {[name |-> n, nets |-> {a}] : n \in Name \ {Gemini, CnSite, Server}, a \in Net \ {Private, Server6, V6}}
  \cup {[name |-> Server, nets |-> {Server4}]}

ByAddress == {"IP-CIDR", "IP-CIDR6", "GEOIP"}

Resolved(lines, i, d) ==
  d.name = NoValue \/ \E j \in 1..i : lines[j].type \in ByAddress /\ ~lines[j].noResolve

Matches(lines, i, d, covers) ==
  LET l == lines[i] IN
  CASE l.type = "MATCH"        -> TRUE
    [] l.type \in DomainTypes  -> l.of = d.name /\ d.name # NoValue
    [] l.type = "GEOSITE"      -> d.name = CnSite
    [] l.type = "RULE-SET"     -> d.name \in covers[l.of]
    [] l.type \in ByAddress    -> l.of \in d.nets /\ Resolved(lines, i, d)
    [] OTHER                   -> FALSE \* the client's own address is not this one's business

\* {} if no line matches; covers: what each rule set lists.
Decision(lines, d, covers) ==
  LET hits == {i \in 1..Len(lines) : Matches(lines, i, d, covers)} IN
  IF hits = {} THEN {} ELSE {lines[Min(hits)].policy}

-----------------------------------------------------------------------------
(* What the administrator and the comments of UserSubscription want.       *)

\* The rule as it was meant, whatever its spelling and age.
Meant(r) ==
  IF r.type = "" /\ r.domain # ""
  THEN Line("DOMAIN-SUFFIX", r.domain, IF r.outbound \in {"", "direct"} THEN "DIRECT" ELSE "node", FALSE)
  ELSE Line(r.type, IF r.type = "MATCH" THEN NoValue ELSE r.value.of, r.policy, r.noResolve)

OwnEndpoint(host, d) ==
  CASE host = "domain" -> d.name = Server
    [] host = "ipv4"   -> d = [name |-> NoValue, nets |-> {Server4}]
    [] host = "ipv6"   -> d = [name |-> NoValue, nets |-> {Server6, V6}]

\* The policy of the first rule, the fallback aside, that covers the destination.
Chosen(meant, d, covers) ==
  LET hits == {i \in 1..Len(meant) : meant[i].type # "MATCH" /\ Matches(meant, i, d, covers)}
  IN IF hits = {} THEN {} ELSE {meant[Min(hits)].policy}

Wanted(list, host, d) ==
  LET meant   == [i \in 1..Len(list) |-> Meant(list[i])]
      covers  == [name \in RuleSets(list) |-> UNION {list[i].provider.covers : i \in
                   {i \in 1..Len(list) : list[i].type = "RULE-SET" /\ list[i].value.of = name}}]
      special == Chosen(meant, d, covers)
  IN
  IF OwnEndpoint(host, d) THEN {"DIRECT"}
  ELSE IF d.name = NoValue /\ V6 \in d.nets THEN {"REJECT"}
  ELSE IF special # {} THEN special
  ELSE IF d.name = Gemini THEN {"node"}
  ELSE IF d.name = CnSite \/ Cn \in d.nets \/ (d.name = NoValue /\ Private \in d.nets) THEN {"DIRECT"}
  ELSE IF list # <<>> /\ Last(list).type = "MATCH" THEN {Last(list).policy} ELSE {"node"}

Saved == normalizeRouteRules(rules)

(* Traffic to the panel's host is direct, literal IPv6 is refused, then    *)
(* the administrator's rules decide in their order, also old and sloppily  *)
(* written ones, then Gemini goes out through a node although its address  *)
(* may count as Chinese, private and Chinese destinations are direct, and  *)
(* the rest falls to the fallback.  Excepted is the host given as an IPv6  *)
(* address in brackets without a port, which the panel does not recognise. *)
DecisionsWanted ==
  LET saved  == Saved
      covers == [name \in RuleSets(saved) |-> ProviderOf(saved, name).covers]
  IN
  saved # Refused => \A host \in Hosts \ {"[ipv6]"} :
    LET lines == ClientRulesOf(saved, host) IN
    \A d \in Destination :
      Decision(lines, d, covers) = Wanted(rules, host, d)

(* Every rule set a client is told to use comes with the source the        *)
(* administrator gave that rule, although sources are kept by name.        *)
ProvidersComplete ==
  Saved # Refused => \A i \in 1..Len(rules) :
    Saved[i].type = "RULE-SET" => ProviderOf(Saved, Saved[i].value.of) = rules[i].provider

(* A list that could be saved can be read: subscriptions normalise it      *)
(* again, and would all fail on a rule refused then or changed twice.      *)
SavedStaysReadable == Saved # Refused => normalizeRouteRules(Saved) = Saved
=============================================================================
