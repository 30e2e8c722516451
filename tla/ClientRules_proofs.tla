-------------------------- MODULE ClientRules_proofs --------------------------
(***************************************************************************)
(* Theorems about ClientRules for lists of any length over any names, nets *)
(* and rule sets.  A list that can be saved is characterised rule by rule  *)
(* (NormalForm, MeantForm); the lines of a subscription are given by       *)
(* position (LinesForm), so that the first match can be found by cases.    *)
(***************************************************************************)
EXTENDS ClientRules, Inductions

(* Spelling a value the way normalisation does.                            *)
LEMMA Canonical ==
  ASSUME NEW v \in Value
  PROVE  LET c == [of |-> v.of, canonical |-> TRUE] IN
         /\ [v EXCEPT !.canonical = TRUE] = c
         /\ c \in Value /\ c.of = v.of /\ c \notin {Blank, Illegal}
         /\ [c EXCEPT !.canonical = TRUE] = c
<1> DEFINE w == [v EXCEPT !.canonical = TRUE]
           c == [of |-> v.of, canonical |-> TRUE]
<1>0. w \in Value /\ w.of = v.of /\ w.canonical = TRUE
  BY DEF Value
<1>2. c \in Value /\ c.of = v.of /\ c.canonical = TRUE
  BY DEF Value
<1>1. w = c
  <2> HIDE DEF w, c
  <2> QED
    BY <1>0, <1>2 DEF Value
<1>3. [c EXCEPT !.canonical = TRUE] = c
  <2> DEFINE e == [c EXCEPT !.canonical = TRUE]
  <2> HIDE DEF c
  <2>1. e \in Value /\ e.of = c.of /\ e.canonical = TRUE
    BY <1>2 DEF Value
  <2> HIDE DEF e
  <2>2. e = c
    BY <1>2, <2>1 DEF Value
  <2> QED
    BY <2>2 DEF e
<1> QED
  BY <1>1, <1>2, <1>3, RulesAssumption DEF RulesAssumption

(* An accepted value is one unless the rule is the fallback.               *)
LEMMA FitsValue ==
  ASSUME NEW m \in RouteRule, ValueFits(m)
  PROVE  m.type # "MATCH" => m.value \in Value
BY DEF ValueFits, RouteRule

(* The fields of a rule, whatever their ranges are.                        *)
LEMMA Clearing ==
  ASSUME NEW T, NEW V, NEW P, NEW R, NEW D, NEW O, NEW d \in D, NEW o \in O,
         NEW m \in [type : T, value : V, policy : P, noResolve : BOOLEAN, provider : R,
                    domain : D, outbound : O]
  PROVE  LET b == [m EXCEPT !.domain = d, !.outbound = o] IN
         /\ b \in [type : T, value : V, policy : P, noResolve : BOOLEAN, provider : R,
                   domain : D, outbound : O]
         /\ b.type = m.type /\ b.value = m.value /\ b.policy = m.policy
         /\ b.noResolve = m.noResolve /\ b.provider = m.provider /\ b.domain = d /\ b.outbound = o
         /\ m.domain = d /\ m.outbound = o => b = m
OBVIOUS

LEMMA Respelling ==
  ASSUME NEW T, NEW V, NEW P, NEW R, NEW D, NEW O, NEW v \in V,
         NEW m \in [type : T, value : V, policy : P, noResolve : BOOLEAN, provider : R,
                    domain : D, outbound : O]
  PROVE  LET b == [m EXCEPT !.value = v] IN
         /\ b \in [type : T, value : V, policy : P, noResolve : BOOLEAN, provider : R,
                   domain : D, outbound : O]
         /\ b.type = m.type /\ b.value = v /\ b.policy = m.policy /\ b.noResolve = m.noResolve
         /\ b.provider = m.provider /\ b.domain = m.domain /\ b.outbound = m.outbound
         /\ m.value = v => b = m
OBVIOUS

LEMMA MigratedType == ASSUME NEW r \in RouteRule PROVE Migrated(r) \in RouteRule
<1>1. CASE r.type = "" /\ r.domain # ""
  <2> DEFINE v == [of |-> r.domain, canonical |-> FALSE]
             p == IF r.outbound \in {"", "direct"} THEN "DIRECT" ELSE "node"
  <2>1. r.domain \in Name
    BY <1>1 DEF RouteRule
  <2>2. v \in Value
    BY <2>1 DEF Value
  <2>3. Migrated(r) = [r EXCEPT !.type = "DOMAIN-SUFFIX", !.value = v, !.policy = p]
    BY <1>1 DEF Migrated
  <2>4. p \in Policies
    BY DEF Policies
  <2> HIDE DEF v, p
  <2> QED
    BY <2>2, <2>3, <2>4 DEF RouteRule, DomainTypes
<1>2. CASE ~(r.type = "" /\ r.domain # "")
  BY <1>2 DEF Migrated
<1> QED
  BY <1>1, <1>2

(* What normalisation keeps of a rule and what it makes of its value.      *)
LEMMA NormalForm ==
  ASSUME NEW r \in RouteRule, ValueFits(Migrated(r))
  PROVE  LET m == Migrated(r)
             n == Normal(r) IN
         /\ n \in RouteRule /\ m \in RouteRule
         /\ n.type = m.type /\ n.policy = m.policy /\ n.noResolve = m.noResolve
         /\ n.provider = m.provider /\ n.domain = "" /\ n.outbound = ""
         /\ m.type \in DomainTypes \cup CidrTypes =>
              n.value = [of |-> m.value.of, canonical |-> TRUE] /\ m.value \in Value
         /\ m.type \notin DomainTypes \cup CidrTypes => n.value = m.value
<1> DEFINE m == Migrated(r)
           n == Normal(r)
           b == [m EXCEPT !.domain = "", !.outbound = ""]
<1>1. m \in RouteRule /\ ValueFits(m)
  BY MigratedType
<1>2. n = IF b.type \in DomainTypes \cup CidrTypes THEN [b EXCEPT !.value.canonical = TRUE] ELSE b
  BY DEF Normal
<1> HIDE DEF m, n
<1>3. /\ b \in RouteRule /\ b.type = m.type /\ b.policy = m.policy /\ b.noResolve = m.noResolve
      /\ b.provider = m.provider /\ b.domain = "" /\ b.outbound = "" /\ b.value = m.value
  <2> DEFINE D == Name \cup {""}
             O == {"", "direct", "upstream"}
             V == Value \cup {Blank, Illegal}
             T == DomainTypes \cup CidrTypes \cup GeoTypes \cup {"RULE-SET", "MATCH", ""}
             P == Policies \cup {""}
             R == Provider \cup {NoValue}
             S == [type : T, value : V, policy : P, noResolve : BOOLEAN, provider : R,
                   domain : D, outbound : O]
  <2>1. S = RouteRule /\ "" \in D /\ "" \in O
    BY DEF RouteRule
  <2> HIDE DEF D, O, V, T, P, R
  <2> QED
    BY <1>1, <2>1, Clearing
<1> HIDE DEF b
<1>4. CASE m.type \in DomainTypes \cup CidrTypes
  <2> DEFINE c == [of |-> m.value.of, canonical |-> TRUE]
  <2>1. m.value \in Value
    BY <1>1, <1>4, FitsValue DEF DomainTypes, CidrTypes
  <2>2. [b.value EXCEPT !.canonical = TRUE] = c /\ c \in Value
    BY <1>3, <2>1, Canonical
  <2>3. n = [b EXCEPT !.value = [b.value EXCEPT !.canonical = TRUE]]
    BY <1>2, <1>3, <1>4
  <2>4. n = [b EXCEPT !.value = c]
    BY <2>2, <2>3
  <2> HIDE DEF c
  <2>5. /\ n \in RouteRule /\ n.value = c /\ n.type = b.type /\ n.policy = b.policy
        /\ n.noResolve = b.noResolve /\ n.provider = b.provider
        /\ n.domain = b.domain /\ n.outbound = b.outbound
    <3> DEFINE D == Name \cup {""}
               O == {"", "direct", "upstream"}
               V == Value \cup {Blank, Illegal}
               T == DomainTypes \cup CidrTypes \cup GeoTypes \cup {"RULE-SET", "MATCH", ""}
               P == Policies \cup {""}
               R == Provider \cup {NoValue}
               S == [type : T, value : V, policy : P, noResolve : BOOLEAN, provider : R,
                     domain : D, outbound : O]
    <3>1. S = RouteRule /\ c \in V
      BY <2>2 DEF RouteRule
    <3> HIDE DEF D, O, V, T, P, R
    <3> QED
      BY <1>3, <2>4, <3>1, Respelling
  <2>6. c = [of |-> m.value.of, canonical |-> TRUE]
    BY DEF c
  <2> QED
    BY <1>1, <1>3, <1>4, <2>1, <2>5, <2>6 DEF m, n
<1>5. CASE m.type \notin DomainTypes \cup CidrTypes
  <2>1. n = b
    BY <1>2, <1>3, <1>5
  <2> QED
    BY <1>1, <1>3, <1>5, <2>1 DEF m, n
<1> QED
  BY <1>4, <1>5

(* A normalised rule is accepted wherever the raw one was, and left alone. *)
LEMMA NormalAgain ==
  ASSUME NEW r \in RouteRule, ValueFits(Migrated(r))
  PROVE  LET n == Normal(r) IN Migrated(n) = n /\ ValueFits(n) /\ Normal(n) = n
<1> DEFINE m == Migrated(r)
           n == Normal(r)
<1>1. /\ n \in RouteRule /\ m \in RouteRule
      /\ n.type = m.type /\ n.provider = m.provider /\ n.domain = "" /\ n.outbound = ""
      /\ m.type \in DomainTypes \cup CidrTypes =>
           n.value = [of |-> m.value.of, canonical |-> TRUE] /\ m.value \in Value
      /\ m.type \notin DomainTypes \cup CidrTypes => n.value = m.value
  BY NormalForm
<1>2. ValueFits(m)
  OBVIOUS
<1> HIDE DEF n, m
<1>3. Migrated(n) = n
  BY <1>1 DEF Migrated
<1>4. ValueFits(n)
  <2>1. CASE m.type \in DomainTypes \cup CidrTypes
    <3>1. n.value \notin {Blank, Illegal} /\ n.value.of = m.value.of
      BY <1>1, <2>1, Canonical
    <3> QED
      BY <1>1, <1>2, <2>1, <3>1 DEF ValueFits, DomainTypes, CidrTypes, GeoTypes
  <2>2. CASE m.type \notin DomainTypes \cup CidrTypes
    BY <1>1, <1>2, <2>2 DEF ValueFits
  <2> QED
    BY <2>1, <2>2
<1>5. Normal(n) = n
  <2> DEFINE b == [n EXCEPT !.domain = "", !.outbound = ""]
  <2>1. b = n
    BY <1>1 DEF RouteRule
  <2>2. Normal(n) = IF b.type \in DomainTypes \cup CidrTypes THEN [b EXCEPT !.value.canonical = TRUE] ELSE b
    BY <1>3 DEF Normal
  <2> HIDE DEF b
  <2>3. CASE n.type \in DomainTypes \cup CidrTypes
    <3>1. [n.value EXCEPT !.canonical = TRUE] = n.value
      BY <1>1, <2>3, Canonical
    <3>2. Normal(n) = [n EXCEPT !.value = [n.value EXCEPT !.canonical = TRUE]]
      BY <2>1, <2>2, <2>3
    <3>3. [n EXCEPT !.value = n.value] = n
      BY <1>1 DEF RouteRule
    <3> QED
      BY <3>1, <3>2, <3>3
  <2>4. CASE n.type \notin DomainTypes \cup CidrTypes
    BY <2>1, <2>2, <2>4
  <2> QED
    BY <2>3, <2>4
<1> QED
  BY <1>3, <1>4, <1>5 DEF n

-----------------------------------------------------------------------------
(* Lists.                                                                  *)

\* The inductive invariant: what RawRule allows is all that is known of a list.
Listed == rules \in Seq(RouteRule)

LEMMA ListedThm == RulesSpec => []Listed
<1>1. RulesInit => Listed
  BY DEF RulesInit, Listed
<1>2. Listed /\ [RulesNext]_rulesVars => Listed'
  <2> SUFFICES ASSUME Listed, [RulesNext]_rulesVars PROVE Listed'
    OBVIOUS
  <2>1. ASSUME NEW r \in RawRule, rules' = Append(rules, r) PROVE Listed'
    <3>1. r \in RouteRule
      BY RulesAssumption DEF RulesAssumption
    <3> QED
      BY <2>1, <3>1 DEF Listed
  <2>2. CASE UNCHANGED rulesVars
    BY <2>2 DEF Listed, rulesVars
  <2> QED
    BY <2>1, <2>2 DEF RulesNext
<1> QED
  BY <1>1, <1>2, PTL DEF RulesSpec

(* A list that can be saved was accepted rule by rule.                     *)
LEMMA SavedForm ==
  ASSUME NEW list \in Seq(RouteRule), normalizeRouteRules(list) # Refused
  PROVE  LET saved == normalizeRouteRules(list) IN
         /\ saved \in Seq(RouteRule) /\ Len(saved) = Len(list)
         /\ \A i \in 1..Len(list) :
              Accepted(list, i) /\ ValueFits(Migrated(list[i])) /\ saved[i] = Normal(list[i])
<1>1. \A i \in 1..Len(list) : Accepted(list, i)
  BY DEF normalizeRouteRules
<1>2. \A i \in 1..Len(list) : list[i] \in RouteRule /\ ValueFits(Migrated(list[i]))
  BY <1>1 DEF Accepted
<1>3. normalizeRouteRules(list) = [i \in 1..Len(list) |-> Normal(list[i])]
  BY <1>1 DEF normalizeRouteRules
<1>4. \A i \in 1..Len(list) : Normal(list[i]) \in RouteRule
  BY <1>2, NormalForm
<1> QED
  BY <1>1, <1>2, <1>3, <1>4

(* Rule sets are not migrated, and normalisation leaves them alone.        *)
LEMMA RuleSetForm ==
  ASSUME NEW r \in RouteRule, ValueFits(Migrated(r)), Normal(r).type = "RULE-SET"
  PROVE  /\ r.type = "RULE-SET" /\ Migrated(r) = r
         /\ Normal(r).value = r.value /\ Normal(r).provider = r.provider
<1>1. Migrated(r).type = "RULE-SET"
  BY NormalForm
<1>2. Migrated(r) = r
  <2>1. CASE r.type = "" /\ r.domain # ""
    <3>1. Migrated(r).type = "DOMAIN-SUFFIX"
      BY <2>1 DEF Migrated, RouteRule
    <3> QED
      BY <1>1, <3>1
  <2>2. CASE ~(r.type = "" /\ r.domain # "")
    BY <2>2 DEF Migrated
  <2> QED
    BY <2>1, <2>2
<1>3. Migrated(r).type \notin DomainTypes \cup CidrTypes
  BY <1>1 DEF DomainTypes, CidrTypes
<1>4. Normal(r).value = Migrated(r).value /\ Normal(r).provider = Migrated(r).provider
  BY <1>3, NormalForm
<1> QED
  BY <1>1, <1>2, <1>4

LEMMA ReadableAgain ==
  ASSUME NEW list \in Seq(RouteRule), normalizeRouteRules(list) # Refused
  PROVE  normalizeRouteRules(normalizeRouteRules(list)) = normalizeRouteRules(list)
<1> DEFINE saved == normalizeRouteRules(list)
<1>1. /\ saved \in Seq(RouteRule) /\ Len(saved) = Len(list)
      /\ \A i \in 1..Len(list) :
           /\ Accepted(list, i) /\ ValueFits(Migrated(list[i]))
           /\ list[i] \in RouteRule /\ saved[i] = Normal(list[i])
  BY SavedForm
<1> HIDE DEF saved
<1>2. ASSUME NEW i \in 1..Len(saved) PROVE Accepted(saved, i) /\ Normal(saved[i]) = saved[i]
  <2> DEFINE n == saved[i]
             m == Migrated(list[i])
  <2>1. /\ i \in 1..Len(list) /\ list[i] \in RouteRule /\ n = Normal(list[i]) /\ ValueFits(m)
        /\ Accepted(list, i)
    BY <1>1
  <2>2. Migrated(n) = n /\ ValueFits(n) /\ Normal(n) = n
    BY <2>1, NormalAgain
  <2>3. /\ n.type = m.type /\ n.policy = m.policy /\ n.noResolve = m.noResolve
        /\ n.provider = m.provider
    BY <2>1, NormalForm
  <2>4. /\ m.policy \in Policies
        /\ m.noResolve => supportsNoResolve(m.type)
        /\ m.provider # NoValue => m.type = "RULE-SET"
        /\ m.type = "MATCH" => i = Len(list)
    BY <2>1 DEF Accepted
  <2>5. ASSUME NEW j \in 1..(i - 1), n.type = "RULE-SET", saved[j].type = "RULE-SET",
               saved[j].value.of = n.value.of
        PROVE  saved[j].provider = n.provider
    <3>1. /\ j \in 1..Len(list) /\ list[j] \in RouteRule /\ saved[j] = Normal(list[j])
          /\ ValueFits(Migrated(list[j]))
      BY <1>1, <2>1
    <3>2. /\ list[j].type = "RULE-SET" /\ saved[j].value = list[j].value
          /\ saved[j].provider = list[j].provider
      BY <2>5, <3>1, RuleSetForm
    <3>3. m = list[i] /\ n.value = list[i].value /\ m.type = "RULE-SET"
      BY <2>1, <2>3, <2>5, RuleSetForm
    <3>4. m.type = "RULE-SET" /\ list[j].type = "RULE-SET" /\ list[j].value.of = m.value.of
            => list[j].provider = m.provider
      BY <2>1 DEF Accepted
    <3> QED
      BY <2>3, <2>5, <3>2, <3>3, <3>4
  <2> HIDE DEF m
  <2>6. Accepted(saved, i)
    BY <1>1, <2>2, <2>3, <2>4, <2>5 DEF Accepted
  <2> QED
    BY <2>2, <2>6
<1>3. normalizeRouteRules(saved) = [i \in 1..Len(saved) |-> Normal(saved[i])]
  BY <1>2 DEF normalizeRouteRules
<1>4. normalizeRouteRules(saved) = saved
  BY <1>1, <1>2, <1>3
<1> QED
  BY <1>4 DEF saved

(* A list that could be saved can be read again, and reads the same:       *)
(* subscriptions normalise what createRule and updateRule stored.          *)
THEOREM SavedStaysReadableThm == RulesSpec => []SavedStaysReadable
<1>1. Listed => SavedStaysReadable
  BY ReadableAgain DEF Listed, SavedStaysReadable, Saved
<1> QED
  BY <1>1, ListedThm, PTL

(* Of the rules of one name the last one with a source gives it: it is the *)
(* source of every one of them.                                            *)
LEMMA OneSource ==
  ASSUME NEW list \in Seq(RouteRule), normalizeRouteRules(list) # Refused,
         NEW i \in 1..Len(list), normalizeRouteRules(list)[i].type = "RULE-SET"
  PROVE  LET saved == normalizeRouteRules(list) IN
         /\ ProviderOf(saved, saved[i].value.of) = list[i].provider
         /\ list[i].provider \in Provider
<1> DEFINE saved == normalizeRouteRules(list)
           given == {k \in 1..Len(saved) : saved[k].provider # NoValue
                                           /\ saved[k].value.of = saved[i].value.of}
           last  == Max(given)
<1>1. /\ saved \in Seq(RouteRule) /\ Len(saved) = Len(list)
      /\ \A k \in 1..Len(list) :
           /\ Accepted(list, k) /\ ValueFits(Migrated(list[k]))
           /\ list[k] \in RouteRule /\ saved[k] = Normal(list[k])
  BY SavedForm
<1>2. ASSUME NEW k \in 1..Len(list), saved[k].type = "RULE-SET"
      PROVE  /\ list[k].type = "RULE-SET" /\ Migrated(list[k]) = list[k]
             /\ saved[k].value = list[k].value /\ saved[k].provider = list[k].provider
             /\ list[k].provider \in Provider
  <2>1. /\ list[k].type = "RULE-SET" /\ Migrated(list[k]) = list[k]
        /\ saved[k].value = list[k].value /\ saved[k].provider = list[k].provider
    BY <1>1, <1>2, RuleSetForm
  <2>2. list[k].provider # NoValue
    BY <1>1, <2>1 DEF ValueFits, DomainTypes, CidrTypes, GeoTypes
  <2> QED
    BY <1>1, <2>1, <2>2 DEF RouteRule
<1>3. NoValue \notin Provider
  BY RulesAssumption DEF RulesAssumption
<1>4. ASSUME NEW k \in given PROVE saved[k].type = "RULE-SET" /\ k \in 1..Len(list)
  <2>1. k \in 1..Len(list) /\ saved[k].provider # NoValue
    BY <1>1
  <2>2. saved[k].provider = Migrated(list[k]).provider /\ saved[k].type = Migrated(list[k]).type
    <3> DEFINE r == list[k]
    <3>1. r \in RouteRule /\ ValueFits(Migrated(r)) /\ saved[k] = Normal(r)
      BY <1>1, <2>1
    <3> HIDE DEF saved, r
    <3>2. Normal(r).provider = Migrated(r).provider /\ Normal(r).type = Migrated(r).type
      BY <3>1, NormalForm
    <3> QED
      BY <3>1, <3>2 DEF r
  <2>3. Migrated(list[k]).type = "RULE-SET"
    BY <1>1, <2>1, <2>2 DEF Accepted
  <2> QED
    BY <2>1, <2>2, <2>3
<1>5. i \in given
  BY <1>1, <1>2, <1>3
<1>6. last \in given
  <2>1. given \in SUBSET (0..Len(saved)) /\ given # {} /\ Len(saved) \in Nat
    BY <1>1, <1>5
  <2> HIDE DEF given
  <2> QED
    BY <2>1, MaxOf
<1>7. saved[last].provider = saved[i].provider
  <2> HIDE DEF given, last, saved
  <2>1. /\ saved[last].type = "RULE-SET" /\ last \in 1..Len(list)
        /\ saved[last].value.of = saved[i].value.of
    BY <1>4, <1>6 DEF given
  <2>2. ASSUME NEW j \in 1..Len(list), NEW k \in 1..Len(list), j < k,
               saved[j].type = "RULE-SET", saved[k].type = "RULE-SET",
               saved[j].value.of = saved[k].value.of
        PROVE  saved[j].provider = saved[k].provider
    <3>1. Accepted(list, k)
      BY <1>1
    <3>4. j \in 1..(k - 1)
      BY <2>2
    <3>2. /\ Migrated(list[k]) = list[k] /\ list[k].type = "RULE-SET" /\ list[j].type = "RULE-SET"
          /\ list[j].value.of = list[k].value.of
      BY <1>2, <2>2
    <3>3. list[j].provider = list[k].provider
      BY <3>1, <3>2, <3>4 DEF Accepted
    <3> QED
      BY <1>2, <2>2, <3>3
  <2>3. i \in 1..Len(list) /\ saved[i].type = "RULE-SET"
    BY <1>4, <1>5
  <2>4. CASE last = i
    BY <2>4
  <2>5. CASE last < i
    BY <2>1, <2>2, <2>3, <2>5
  <2>6. CASE i < last
    BY <2>1, <2>2, <2>3, <2>6
  <2> QED
    BY <2>1, <2>3, <2>4, <2>5, <2>6
<1>8. ProviderOf(saved, saved[i].value.of) = saved[last].provider
  BY DEF ProviderOf
<1> HIDE DEF last, given
<1> QED
  BY <1>2, <1>7, <1>8

(* Every rule set a client is told to use comes with the source its rule   *)
(* names, though UserSubscription keeps sources in a map by name and the   *)
(* last one wins: normalizeRouteRules refuses lists where that matters.    *)
THEOREM ProvidersCompleteThm == RulesSpec => []ProvidersComplete
<1>1. Listed => ProvidersComplete
  <2> SUFFICES ASSUME Listed, Saved # Refused, NEW i \in 1..Len(rules), Saved[i].type = "RULE-SET"
               PROVE  ProviderOf(Saved, Saved[i].value.of) = rules[i].provider
    BY DEF ProvidersComplete
  <2> QED
    BY OneSource DEF Listed, Saved
<1> QED
  BY <1>1, ListedThm, PTL

-----------------------------------------------------------------------------
(* The lines of a subscription.                                            *)

\* How many lines the administrator's rules make: the fallback comes last.
Customs(list) == IF list # <<>> /\ Last(list).type = "MATCH" THEN Len(list) - 1 ELSE Len(list)

\* g is the table of the lines over sets of positions of the list.
IsLines(g, base, list) ==
  g = [s \in SUBSET DOMAIN list |->
        IF s = {} THEN base ELSE LET x == Max(s) IN AppendRule(g[s \ {x}], list[x])]

LEMMA FoldIsLines ==
  ASSUME NEW base, NEW list
  PROVE  FoldLeft(AppendRule, base, list) = (CHOOSE g : IsLines(g, base, list))[DOMAIN list]
BY DEF FoldLeft, MapThenFoldSet, IsLines

LEMMA CustomsForm ==
  ASSUME NEW list \in Seq(RouteRule)
  PROVE  /\ Customs(list) \in 0..Len(list)
         /\ Len(list) > 0 /\ list[Len(list)].type = "MATCH" => Customs(list) = Len(list) - 1
         /\ ~(Len(list) > 0 /\ list[Len(list)].type = "MATCH") => Customs(list) = Len(list)
<1>1. list = <<>> <=> Len(list) = 0
  OBVIOUS
<1> QED
  BY <1>1 DEF Customs, Last

(* The loop of UserSubscription appends one line per rule but the fallback. *)
LEMMA AppendedLines ==
  ASSUME NEW base, Len(base) = 2, NEW U, base \in Seq(U), NEW list \in Seq(RouteRule),
         \A i \in 1..Len(list) : clashRule(list[i]) \in U,
         \A i \in 1..Len(list) : list[i].type = "MATCH" => i = Len(list)
  PROVE  LET lines == FoldLeft(AppendRule, base, list)
             k     == Customs(list) IN
         /\ lines \in Seq(U) /\ Len(lines) = k + 2
         /\ lines[1] = base[1] /\ lines[2] = base[2]
         /\ \A i \in 1..k : lines[i + 2] = clashRule(list[i])
<1> DEFINE n == Len(list)
           ch == [s \in SUBSET (1..n) |-> Max(s)]
           step == [p \in Seq(U) \X (1..n) |-> AppendRule(p[1], list[p[2]])]
           g == CHOOSE g : IsLines(g, base, list)
<1>1. n \in Nat /\ DOMAIN list = 1..n /\ IsFiniteSet(1..n)
  BY FS_Interval
<1> HIDE DEF n
<1>2. ASSUME NEW s \in SUBSET (1..n), s # {} PROVE ch[s] = Max(s) /\ ch[s] \in s
  <2>1. s \in SUBSET (0..n)
    BY <1>1
  <2> QED
    BY <1>1, <1>2, <2>1, MaxOf
<1>3. \A a \in Seq(U), i \in 1..n : step[<<a, i>>] = AppendRule(a, list[i])
  OBVIOUS
<1>4. \A a \in Seq(U), i \in 1..n : AppendRule(a, list[i]) \in Seq(U)
  BY DEF AppendRule, n
<1> HIDE DEF ch, step
<1>5. ASSUME NEW t, IsTable(t, 1..n, Seq(U), base, ch, step) PROVE IsLines(t, base, list)
  <2>1. t = [s \in SUBSET (1..n) |-> t[s]] /\ t[{}] = base
    BY <1>5 DEF IsTable
  <2>2. ASSUME NEW s \in SUBSET (1..n), s # {}
        PROVE  t[s] = AppendRule(t[s \ {Max(s)}], list[Max(s)])
    <3>1. t[s] = step[<<t[s \ {ch[s]}], ch[s]>>] /\ t[s \ {ch[s]}] \in Seq(U)
      BY <1>5, <2>2 DEF IsTable
    <3>2. ch[s] \in 1..n /\ ch[s] = Max(s)
      BY <1>2, <2>2
    <3> QED
      BY <1>3, <3>1, <3>2
  <2> QED
    BY <1>1, <2>1, <2>2 DEF IsLines
<1>6. \E t : IsTable(t, 1..n, Seq(U), base, ch, step)
  <2> DEFINE S == 1..n
             A == Seq(U)
  <2>1. \A s \in SUBSET S : s # {} => ch[s] \in s
    BY <1>2
  <2>2. \A a \in A, i \in S : step[<<a, i>>] \in A
    BY <1>3, <1>4
  <2>3. base \in A /\ IsFiniteSet(S)
    BY <1>1
  <2> HIDE DEF S, A
  <2>4. \E t : IsTable(t, S, A, base, ch, step)
    BY <2>1, <2>2, <2>3, TableExists
  <2> QED
    BY <2>4 DEF S, A
<1>7. IsLines(g, base, list)
  BY <1>5, <1>6
<1> HIDE DEF g
<1>8. IsTable(g, 1..n, Seq(U), base, ch, step)
  <2>1. PICK t : IsTable(t, 1..n, Seq(U), base, ch, step)
    BY <1>6
  <2>2. IsLines(t, base, list)
    BY <1>5, <2>1
  <2>3. g = t
    <3> DEFINE B == {s \in SUBSET (1..n) : g[s] # t[s]}
    <3>1. ASSUME B # {} PROVE FALSE
      <4>1. PICK s \in B : \A V \in B : V \subseteq s => V = s
        <5> DEFINE S == 1..n
        <5>1. B \in SUBSET SUBSET S /\ IsFiniteSet(S) /\ B # {}
          BY <1>1, <3>1
        <5> HIDE DEF B, S
        <5> QED
          BY <5>1, MinimalSubset
      <4>2. s # {}
        BY <1>1, <1>7, <2>2, <4>1 DEF IsLines
      <4> DEFINE V == s \ {Max(s)}
      <4>3. Max(s) \in s
        BY <1>2, <4>1, <4>2
      <4>4. V \in SUBSET (1..n) /\ V # s /\ V \subseteq s
        BY <4>1, <4>3
      <4>5. g[V] = t[V]
        BY <4>1, <4>4
      <4>6. g[s] = AppendRule(g[V], list[Max(s)]) /\ t[s] = AppendRule(t[V], list[Max(s)])
        BY <1>1, <1>7, <2>2, <4>1, <4>2 DEF IsLines
      <4> QED
        BY <4>1, <4>5, <4>6
    <3>2. \A s \in SUBSET (1..n) : g[s] = t[s]
      BY <3>1
    <3>3. g = [s \in SUBSET (1..n) |-> g[s]] /\ t = [s \in SUBSET (1..n) |-> t[s]]
      BY <1>1, <1>7, <2>2 DEF IsLines
    <3> QED
      BY <3>2, <3>3
  <2> QED
    BY <2>1, <2>3
<1> DEFINE h(j) == g[1..j]
<1>9. /\ h(0) = base /\ \A j \in 0..n : h(j) \in Seq(U)
      /\ \A j \in 1..n : h(j) = AppendRule(h(j - 1), list[j])
  <2>1. \A s \in SUBSET (1..n) : ch[s] = Max(s)
    BY DEF ch
  <2>2. /\ g[1..0] = base /\ \A j \in 0..n : g[1..j] \in Seq(U)
        /\ \A j \in 1..n : g[1..j] = step[<<g[1..(j - 1)], j>>]
    <3> DEFINE A == Seq(U)
    <3>1. n \in Nat /\ IsTable(g, 1..n, A, base, ch, step)
      BY <1>1, <1>8
    <3> HIDE DEF A
    <3>2. g[1..0] = base
      <4>1. g[{}] = base
        BY <3>1 DEF IsTable
      <4> QED
        BY <4>1
    <3>3. \A j \in 1..n : g[1..j] = step[<<g[1..(j - 1)], j>>]
      BY <2>1, <3>1, PrefixTable
    <3>4. \A j \in 0..n : g[1..j] \in A
      BY <2>1, <3>1, PrefixTable
    <3> QED
      BY <3>2, <3>3, <3>4 DEF A
  <2>3. \A j \in 1..n : j - 1 \in 0..n
    BY <1>1
  <2> QED
    BY <1>3, <2>2, <2>3
<1> DEFINE k == Customs(list)
           Good(j) == /\ Len(h(j)) = j + 2 /\ h(j)[1] = base[1] /\ h(j)[2] = base[2]
                      /\ \A i \in 1..j : h(j)[i + 2] = clashRule(list[i])
<1>10. k \in 0..n /\ k <= n /\ (\A i \in 1..k : list[i].type # "MATCH")
  <2>1. CASE n > 0 /\ list[n].type = "MATCH"
    <3>1. k = n - 1
      BY <2>1, CustomsForm DEF n
    <3>2. \A i \in 1..n : list[i].type = "MATCH" => i = n
      BY DEF n
    <3> HIDE DEF k
    <3>3. k \in 0..n /\ k <= n /\ \A i \in 1..k : i \in 1..n /\ i # n
      BY <1>1, <2>1, <3>1
    <3> QED
      BY <3>2, <3>3
  <2>2. CASE ~(n > 0 /\ list[n].type = "MATCH")
    <3>1. k = n
      BY <2>2, CustomsForm DEF n
    <3> HIDE DEF k
    <3>2. ASSUME NEW i \in 1..n, list[i].type = "MATCH" PROVE FALSE
      <4>1. i = n
        BY <3>2 DEF n
      <4> QED
        BY <1>1, <2>2, <3>2, <4>1
    <3> QED
      BY <1>1, <3>1, <3>2
  <2> QED
    BY <2>1, <2>2
<1>11. \A j \in 0..k : Good(j)
  <2> DEFINE B == {j \in 0..k : ~Good(j)}
  <2> SUFFICES ASSUME B # {} PROVE FALSE
    OBVIOUS
  <2>1. Good(0)
    BY <1>9
  <2>2. k \in Nat /\ B \in SUBSET (0..k)
    BY <1>10
  <2>3. Min(B) \in B /\ \A x \in B : Min(B) <= x
    <3> HIDE DEF B
    <3> QED
      BY <2>2, MinOf
  <2> DEFINE m == Min(B)
  <2>4. m \in 1..k /\ m \in 1..n /\ m - 1 \in 0..n /\ m - 1 \in 0..k
    <3>1. m \in 0..k /\ m # 0
      BY <2>1, <2>3
    <3> HIDE DEF B, m, k
    <3> QED
      BY <1>1, <1>10, <3>1
  <2>5. Good(m - 1)
    <3> HIDE DEF Good
    <3>1. m - 1 \notin B
      BY <2>2, <2>3, <2>4
    <3> QED
      BY <2>4, <3>1
  <2>6. ~Good(m)
    BY <2>3
  <2> HIDE DEF m, B, k, h
  <2>7. list[m].type # "MATCH" /\ h(m) = AppendRule(h(m - 1), list[m]) /\ h(m - 1) \in Seq(U)
    BY <1>9, <1>10, <2>4
  <2>8. h(m) = Append(h(m - 1), clashRule(list[m]))
    BY <2>7 DEF AppendRule
  <2>9. /\ Len(h(m)) = Len(h(m - 1)) + 1
        /\ \A j \in 1..Len(h(m - 1)) : h(m)[j] = h(m - 1)[j]
        /\ h(m)[Len(h(m - 1)) + 1] = clashRule(list[m])
    <3> DEFINE before == h(m - 1)
    <3>1. before \in Seq(U)
      BY <2>7
    <3> HIDE DEF before
    <3>2. /\ Len(Append(before, clashRule(list[m]))) = Len(before) + 1
          /\ \A j \in 1..Len(before) : Append(before, clashRule(list[m]))[j] = before[j]
          /\ Append(before, clashRule(list[m]))[Len(before) + 1] = clashRule(list[m])
      BY ONLY <3>1, Appended
    <3> QED
      BY <2>8, <3>2 DEF before
  <2>10. m \in Int /\ Len(h(m - 1)) = (m - 1) + 2
    BY <2>4, <2>5
  <2>11. Len(h(m)) = m + 2 /\ Len(h(m - 1)) = m + 1
    BY ONLY <2>9, <2>10
  <2>12. \A j \in 1..(m + 1) : h(m)[j] = h(m - 1)[j]
    BY ONLY <2>9, <2>11
  <2>13. h(m)[m + 2] = clashRule(list[m])
    <3>1. (m + 1) + 1 = m + 2
      BY ONLY <2>10
    <3> QED
      BY ONLY <2>9, <2>11, <3>1
  <2>14. \A i \in 1..(m - 1) : h(m)[i + 2] = clashRule(list[i])
    BY <2>4, <2>5, <2>12
  <2>15. \A i \in 1..m : h(m)[i + 2] = clashRule(list[i])
    BY <2>4, <2>13, <2>14
  <2> QED
    BY <2>4, <2>5, <2>6, <2>11, <2>12, <2>15
<1>12. FoldLeft(AppendRule, base, list) = h(n)
  BY <1>1, FoldIsLines DEF g
<1>13. h(n) = h(k)
  <2>1. CASE n > 0 /\ list[n].type = "MATCH"
    <3>1. k = n - 1
      BY <2>1, CustomsForm DEF n
    <3>2. h(n) = AppendRule(h(n - 1), list[n])
      BY <1>1, <1>9, <2>1
    <3> HIDE DEF k, h
    <3> QED
      BY <2>1, <3>1, <3>2 DEF AppendRule
  <2>2. CASE ~(n > 0 /\ list[n].type = "MATCH")
    BY <2>2, CustomsForm DEF n
  <2> QED
    BY <2>1, <2>2
<1>14. h(k) \in Seq(U) /\ Good(k)
  <2>1. k \in 0..k /\ k \in 0..n
    <3> HIDE DEF k
    <3> QED
      BY <1>1, <1>10
  <2> HIDE DEF k, h, Good
  <2> QED
    BY <1>9, <1>11, <2>1
<1> HIDE DEF h
<1> QED
  BY <1>12, <1>13, <1>14

V6Rule == Line("IP-CIDR6", V6, "REJECT", TRUE)

(* All the lines, by position.                                             *)
LEMMA LinesForm ==
  ASSUME NEW list \in Seq(RouteRule), NEW host,
         \A i \in 1..Len(list) : list[i].type = "MATCH" => i = Len(list)
  PROVE  LET lines == ClientRulesOf(list, host)
             k     == Customs(list) IN
         /\ k \in 0..Len(list) /\ Len(lines) = k + 7
         /\ lines[1] = ServerRule(host) /\ lines[2] = V6Rule
         /\ \A i \in 1..k : lines[i + 2] = clashRule(list[i])
         /\ lines[k + 3] = Line("DOMAIN-SUFFIX", Gemini, "node", FALSE)
         /\ lines[k + 4] = Line("IP-CIDR", Private, "DIRECT", TRUE)
         /\ lines[k + 5] = Line("GEOSITE", Cn, "DIRECT", FALSE)
         /\ lines[k + 6] = Line("GEOIP", Cn, "DIRECT", FALSE)
         /\ lines[k + 7] = Fallback(list)
<1> DEFINE base == <<ServerRule(host), V6Rule>>
           last == <<Line("DOMAIN-SUFFIX", Gemini, "node", FALSE), Line("IP-CIDR", Private, "DIRECT", TRUE),
                     Line("GEOSITE", Cn, "DIRECT", FALSE), Line("GEOIP", Cn, "DIRECT", FALSE), Fallback(list)>>
           U == {ServerRule(host), V6Rule} \cup {clashRule(list[i]) : i \in 1..Len(list)}
           W == {Line("DOMAIN-SUFFIX", Gemini, "node", FALSE), Line("IP-CIDR", Private, "DIRECT", TRUE),
                 Line("GEOSITE", Cn, "DIRECT", FALSE), Line("GEOIP", Cn, "DIRECT", FALSE), Fallback(list)}
           first == FoldLeft(AppendRule, base, list)
           k == Customs(list)
<1>1. base \in Seq(U) /\ Len(base) = 2 /\ base[1] = ServerRule(host) /\ base[2] = V6Rule
  OBVIOUS
<1>2. \A i \in 1..Len(list) : clashRule(list[i]) \in U
  OBVIOUS
<1>3. /\ first \in Seq(U) /\ Len(first) = k + 2 /\ first[1] = base[1] /\ first[2] = base[2]
      /\ \A i \in 1..k : first[i + 2] = clashRule(list[i])
  <2> HIDE DEF base, U
  <2> QED
    BY <1>1, <1>2, AppendedLines
<1>4. /\ last \in Seq(W) /\ Len(last) = 5
      /\ last[1] = Line("DOMAIN-SUFFIX", Gemini, "node", FALSE)
      /\ last[2] = Line("IP-CIDR", Private, "DIRECT", TRUE)
      /\ last[3] = Line("GEOSITE", Cn, "DIRECT", FALSE) /\ last[4] = Line("GEOIP", Cn, "DIRECT", FALSE)
      /\ last[5] = Fallback(list)
  BY FiveTuple
<1>5. ClientRulesOf(list, host) = first \o last
  BY DEF ClientRulesOf, V6Rule
<1>6. k \in 0..Len(list)
  BY CustomsForm
<1> HIDE DEF base, last, first, U, W, k
<1> DEFINE all == first \o last
<1>7. /\ Len(all) = Len(first) + Len(last)
      /\ \A i \in 1..Len(first) : all[i] = first[i]
      /\ \A i \in 1..Len(last) : all[Len(first) + i] = last[i]
  <2>1. first \in Seq(U) /\ last \in Seq(W)
    BY <1>3, <1>4
  <2>2. /\ Len(first \o last) = Len(first) + Len(last)
        /\ \A i \in 1..Len(first) : (first \o last)[i] = first[i]
        /\ \A i \in 1..Len(last) : (first \o last)[Len(first) + i] = last[i]
    BY <2>1, Concatenation
  <2> QED
    BY <2>2
<1> HIDE DEF all
<1>8. Len(all) = k + 7 /\ \A i \in 1..(k + 2) : all[i] = first[i]
  BY <1>3, <1>4, <1>6, <1>7
<1>9. \A i \in 1..5 : all[k + 2 + i] = last[i]
  BY <1>3, <1>4, <1>7
<1>10. \A i \in 1..k : all[i + 2] = clashRule(list[i])
  BY <1>3, <1>6, <1>8
<1>11. all[1] = ServerRule(host) /\ all[2] = V6Rule
  BY <1>1, <1>3, <1>6, <1>8
<1>12. /\ k + 2 + 1 = k + 3 /\ k + 2 + 2 = k + 4 /\ k + 2 + 3 = k + 5
       /\ k + 2 + 4 = k + 6 /\ k + 2 + 5 = k + 7
  BY <1>6
<1>13. /\ all[k + 3] = last[1] /\ all[k + 4] = last[2] /\ all[k + 5] = last[3]
       /\ all[k + 6] = last[4] /\ all[k + 7] = last[5]
  BY <1>9, <1>12
<1> QED
  BY <1>4, <1>5, <1>6, <1>8, <1>10, <1>11, <1>13 DEF k, all

(* What each type of line asks of a destination.                           *)
LEMMA MatchForm ==
  ASSUME NEW lines, NEW i, NEW d, NEW covers
  PROVE  LET l == lines[i]
             hit == Matches(lines, i, d, covers) IN
         /\ l.type = "MATCH" => hit
         /\ l.type \in DomainTypes => (hit <=> l.of = d.name /\ d.name # NoValue)
         /\ l.type = "GEOSITE" => (hit <=> d.name = CnSite)
         /\ l.type \in ByAddress => (hit <=> l.of \in d.nets /\ Resolved(lines, i, d))
BY DEF Matches, DomainTypes, ByAddress

(* The decision is that of the first line that matches.                    *)
LEMMA FirstMatch ==
  ASSUME NEW lines, NEW d, NEW covers, Len(lines) \in Nat, NEW q \in 1..Len(lines),
         Matches(lines, q, d, covers), \A i \in 1..(q - 1) : ~Matches(lines, i, d, covers)
  PROVE  Decision(lines, d, covers) = {lines[q].policy}
<1> DEFINE hits == {i \in 1..Len(lines) : Matches(lines, i, d, covers)}
<1>1. q \in hits /\ hits \in SUBSET (0..Len(lines))
  OBVIOUS
<1>2. \A i \in hits : q <= i
  OBVIOUS
<1>3. Min(hits) \in hits /\ \A i \in hits : Min(hits) <= i
  <2>1. hits # {}
    BY <1>1
  <2> HIDE DEF hits
  <2> QED
    BY <1>1, <2>1, MinOf
<1>4. Min(hits) = q
  <2>1. q \in Nat /\ Min(hits) \in 0..Len(lines)
    BY <1>1, <1>3
  <2>2. q <= Min(hits) /\ Min(hits) <= q
    BY <1>1, <1>2, <1>3
  <2> HIDE DEF hits
  <2> QED
    BY <2>1, <2>2
<1> QED
  BY <1>1, <1>4 DEF Decision

-----------------------------------------------------------------------------
(* The administrator's rules among them.                                   *)

(* The line of an accepted rule says what the rule was meant to say.       *)
LEMMA MeantForm ==
  ASSUME NEW list \in Seq(RouteRule), NEW i \in 1..Len(list), Accepted(list, i)
  PROVE  LET r == list[i] IN
         /\ clashRule(Normal(r)) = Meant(r)
         /\ Normal(r).type = "MATCH" <=> r.type = "MATCH"
         /\ Meant(r).type = Normal(r).type /\ Meant(r).policy = Normal(r).policy
         /\ r.type = "MATCH" => i = Len(list) /\ Normal(r).policy = r.policy
<1> DEFINE r == list[i]
           m == Migrated(r)
           n == Normal(r)
<1>1. r \in RouteRule
  OBVIOUS
<1>2. ValueFits(m) /\ (m.noResolve => supportsNoResolve(m.type)) /\ (m.type = "MATCH" => i = Len(list))
  BY DEF Accepted
<1>3. /\ n.type = m.type /\ n.policy = m.policy /\ n.noResolve = m.noResolve
      /\ m.type \in DomainTypes \cup CidrTypes => n.value = [of |-> m.value.of, canonical |-> TRUE]
      /\ m.type \notin DomainTypes \cup CidrTypes => n.value = m.value
  BY <1>1, <1>2, NormalForm
<1>4. CASE r.type = "" /\ r.domain # ""
  <2> DEFINE v == [of |-> r.domain, canonical |-> FALSE]
             p == IF r.outbound \in {"", "direct"} THEN "DIRECT" ELSE "node"
  <2>1. m = [r EXCEPT !.type = "DOMAIN-SUFFIX", !.value = v, !.policy = p]
    BY <1>4 DEF Migrated
  <2>2. v.of = r.domain /\ Meant(r) = Line("DOMAIN-SUFFIX", r.domain, p, FALSE)
    BY <1>4 DEF Meant
  <2> HIDE DEF v, p, r
  <2>3. m.type = "DOMAIN-SUFFIX" /\ m.value = v /\ m.policy = p /\ m.noResolve = r.noResolve
    BY <1>1, <2>1 DEF RouteRule
  <2> HIDE DEF m, n
  <2>4. m.noResolve = FALSE
    BY <1>1, <1>2, <2>3 DEF supportsNoResolve, RouteRule
  <2>5. n.value.of = r.domain
    BY <1>3, <2>2, <2>3 DEF DomainTypes
  <2>6. clashRule(n) = Line("DOMAIN-SUFFIX", r.domain, p, FALSE)
    BY <1>3, <2>3, <2>4, <2>5 DEF clashRule
  <2>7. /\ Line("DOMAIN-SUFFIX", r.domain, p, FALSE).type = "DOMAIN-SUFFIX"
        /\ Line("DOMAIN-SUFFIX", r.domain, p, FALSE).policy = p
    BY DEF Line
  <2> QED
    BY <1>3, <1>4, <2>2, <2>3, <2>6, <2>7 DEF r, n
<1>5. CASE ~(r.type = "" /\ r.domain # "")
  <2>1. m = r
    BY <1>5 DEF Migrated
  <2>2. Meant(r) = Line(r.type, IF r.type = "MATCH" THEN NoValue ELSE r.value.of, r.policy, r.noResolve)
    BY <1>5 DEF Meant
  <2> HIDE DEF m, n, r
  <2>3. n.value.of = r.value.of
    BY <1>3, <2>1
  <2>4. clashRule(n) = Meant(r)
    BY <1>3, <2>1, <2>2, <2>3 DEF clashRule
  <2>5. Meant(r).type = r.type /\ Meant(r).policy = r.policy
    BY <2>2 DEF Line
  <2> QED
    BY <1>2, <1>3, <2>1, <2>4, <2>5 DEF r, n
<1> QED
  BY <1>4, <1>5

(* What each rule set lists, seen from the sources and from the rules.     *)
LEMMA SameCovers ==
  ASSUME NEW list \in Seq(RouteRule), normalizeRouteRules(list) # Refused
  PROVE  LET saved == normalizeRouteRules(list) IN
         [name \in RuleSets(saved) |-> ProviderOf(saved, name).covers]
         = [name \in RuleSets(list) |-> UNION {list[i].provider.covers : i \in
             {i \in 1..Len(list) : list[i].type = "RULE-SET" /\ list[i].value.of = name}}]
<1> DEFINE saved == normalizeRouteRules(list)
           Using(name) == {i \in 1..Len(list) : list[i].type = "RULE-SET" /\ list[i].value.of = name}
           Listing(name) == UNION {list[i].provider.covers : i \in Using(name)}
<1>1. /\ Len(saved) = Len(list)
      /\ \A i \in 1..Len(list) :
           /\ Accepted(list, i) /\ ValueFits(Migrated(list[i]))
           /\ list[i] \in RouteRule /\ saved[i] = Normal(list[i])
  BY SavedForm
<1> HIDE DEF saved
<1>2. ASSUME NEW i \in 1..Len(list), saved[i].type = "RULE-SET"
      PROVE  list[i].type = "RULE-SET" /\ saved[i].value = list[i].value
  BY <1>1, <1>2, RuleSetForm
<1>3. ASSUME NEW i \in 1..Len(list), list[i].type = "RULE-SET"
      PROVE  saved[i].type = "RULE-SET"
  <2>1. Migrated(list[i]) = list[i]
    BY <1>3 DEF Migrated
  <2>2. list[i] \in RouteRule /\ ValueFits(Migrated(list[i])) /\ saved[i] = Normal(list[i])
    BY <1>1
  <2>3. Normal(list[i]).type = Migrated(list[i]).type
    BY <2>2, NormalForm
  <2> QED
    BY <1>3, <2>1, <2>2, <2>3
<1>4. RuleSets(saved) = RuleSets(list)
  <2>1. \A i \in 1..Len(list) : 
          /\ saved[i].type = "RULE-SET" <=> list[i].type = "RULE-SET"
          /\ saved[i].type = "RULE-SET" => saved[i].value.of = list[i].value.of
    BY <1>2, <1>3
  <2> QED
    BY <1>1, <2>1 DEF RuleSets
<1>5. ASSUME NEW name \in RuleSets(list)
      PROVE  ProviderOf(saved, name).covers = Listing(name)
  <2>1. PICK i \in Using(name) : TRUE
    BY DEF RuleSets
  <2>2. \A j \in Using(name) : ProviderOf(saved, name) = list[j].provider
    <3> TAKE j \in Using(name)
    <3>1. j \in 1..Len(list) /\ saved[j].type = "RULE-SET" /\ saved[j].value.of = name
      BY <1>2, <1>3
    <3> QED
      BY <3>1, OneSource DEF saved
  <2> DEFINE c == ProviderOf(saved, name).covers
  <2>3. {list[j].provider.covers : j \in Using(name)} = {c}
    BY <2>1, <2>2
  <2> HIDE DEF c
  <2>4. UNION {c} = c
    OBVIOUS
  <2> QED
    BY <2>3, <2>4 DEF c
<1> QED
  BY <1>4, <1>5 DEF saved

-----------------------------------------------------------------------------
(* The decision, by cases on the first line that matches.                  *)

LEMMA Apart ==
  /\ Server # Gemini /\ Server # CnSite /\ Gemini # CnSite
  /\ Server4 # Server6 /\ Server4 # Private /\ Server4 # Cn /\ Server4 # V6
  /\ Server6 # Private /\ Server6 # Cn /\ Server6 # V6
  /\ Private # Cn /\ Private # V6 /\ Cn # V6
  /\ Server # NoValue /\ Gemini # NoValue /\ CnSite # NoValue
<1>1. /\ Distinct(<<Server, Gemini, CnSite>>)
      /\ Distinct(<<Server4, Server6, Private, Cn, V6>>)
      /\ {Server, Gemini, CnSite} \subseteq Name /\ NoValue \notin Name
  BY RulesAssumption DEF RulesAssumption
<1> DEFINE s == <<Server, Gemini, CnSite>>
           t == <<Server4, Server6, Private, Cn, V6>>
<1>2. /\ Len(s) = 3 /\ s[1] = Server /\ s[2] = Gemini /\ s[3] = CnSite
      /\ Len(t) = 5 /\ t[1] = Server4 /\ t[2] = Server6 /\ t[3] = Private /\ t[4] = Cn /\ t[5] = V6
  OBVIOUS
<1>3. /\ \A i, j \in 1..3 : s[i] = s[j] => i = j
      /\ \A i, j \in 1..5 : t[i] = t[j] => i = j
  BY <1>1, <1>2 DEF Distinct
<1> HIDE DEF s, t
<1>4. /\ s[1] # s[2] /\ s[1] # s[3] /\ s[2] # s[3]
      /\ t[1] # t[2] /\ t[1] # t[3] /\ t[1] # t[4] /\ t[1] # t[5] /\ t[2] # t[3]
      /\ t[2] # t[4] /\ t[2] # t[5] /\ t[3] # t[4] /\ t[3] # t[5] /\ t[4] # t[5]
  BY <1>3
<1> QED
  BY <1>1, <1>2, <1>4

(* Only an address somebody typed is literal IPv6, private or the server's *)
(* own IPv6 address.                                                       *)
LEMMA DestinationForm ==
  ASSUME NEW d \in Destination
  PROVE  /\ d.name # NoValue => V6 \notin d.nets /\ Private \notin d.nets /\ Server6 \notin d.nets
         /\ d.name = NoValue /\ Server4 \in d.nets => d = [name |-> NoValue, nets |-> {Server4}]
         /\ d.name = NoValue /\ Server6 \in d.nets => d = [name |-> NoValue, nets |-> {Server6, V6}]
<1>1. CASE d \in [name : {NoValue}, nets : {{Server4}, {Server6, V6}, {V6}, {Private}, {Cn}}]
  BY <1>1, Apart
<1>2. CASE d \in {[name |-> n, nets |-> {Cn}] : n \in {Gemini, CnSite}}
  BY <1>2, Apart
<1>3. CASE d \in {[name |-> n, nets |-> {a}] : n \in Name \ {Gemini, CnSite, Server},
                                            a \in Net \ {Private, Server6, V6}}
  BY <1>3, RulesAssumption DEF RulesAssumption
<1>4. CASE d \in {[name |-> Server, nets |-> {Server4}]}
  BY <1>4, Apart
<1> QED
  BY <1>1, <1>2, <1>3, <1>4 DEF Destination

(* The panel's first two lines do not have names resolved.                 *)
LEMMA ServerForm ==
  ASSUME NEW host \in {"domain", "ipv4", "ipv6"}
  PROVE  LET l == ServerRule(host) IN
         /\ l.policy = "DIRECT" /\ l.type # "MATCH"
         /\ ~(l.type \in ByAddress /\ ~l.noResolve)
         /\ host = "domain" => l.type \in DomainTypes /\ l.of = Server
         /\ host = "ipv4" => l.type \in ByAddress /\ l.of = Server4
         /\ host = "ipv6" => l.type \in ByAddress /\ l.of = Server6
<1>1. CASE host = "domain"
  BY <1>1 DEF ServerRule, Line, ByAddress, DomainTypes
<1>2. CASE host = "ipv4"
  BY <1>2 DEF ServerRule, Line, ByAddress, DomainTypes
<1>3. CASE host = "ipv6"
  BY <1>3 DEF ServerRule, Line, ByAddress, DomainTypes
<1> QED
  BY <1>1, <1>2, <1>3

LEMMA PanelLines ==
  /\ V6Rule.type \in ByAddress /\ V6Rule.of = V6 /\ V6Rule.policy = "REJECT" /\ V6Rule.noResolve
  /\ LET l == Line("DOMAIN-SUFFIX", Gemini, "node", FALSE) IN
       l.type \in DomainTypes /\ l.of = Gemini /\ l.policy = "node"
  /\ LET l == Line("IP-CIDR", Private, "DIRECT", TRUE) IN
       l.type \in ByAddress /\ l.of = Private /\ l.policy = "DIRECT"
  /\ LET l == Line("GEOSITE", Cn, "DIRECT", FALSE) IN l.type = "GEOSITE" /\ l.policy = "DIRECT"
  /\ LET l == Line("GEOIP", Cn, "DIRECT", FALSE) IN
       l.type \in ByAddress /\ l.of = Cn /\ l.policy = "DIRECT" /\ ~l.noResolve
BY DEF V6Rule, Line, ByAddress, DomainTypes

LEMMA FallbackForm ==
  ASSUME NEW list \in Seq(RouteRule), normalizeRouteRules(list) # Refused
  PROVE  LET saved == normalizeRouteRules(list)
             l == Fallback(saved) IN
         /\ l.type = "MATCH"
         /\ l.policy = IF list # <<>> /\ Last(list).type = "MATCH" THEN Last(list).policy ELSE "node"
<1> DEFINE saved == normalizeRouteRules(list)
           n == Len(list)
<1>1. /\ saved \in Seq(RouteRule) /\ Len(saved) = n
      /\ \A i \in 1..n : Accepted(list, i) /\ saved[i] = Normal(list[i])
  BY SavedForm
<1> HIDE DEF saved
<1>2. list = <<>> <=> n = 0
  OBVIOUS
<1>3. saved = <<>> <=> n = 0
  BY <1>1
<1>4. CASE n = 0
  BY <1>2, <1>3, <1>4 DEF Fallback, Line, saved
<1>5. CASE n # 0
  <2>1. n \in 1..n /\ Last(list) = list[n] /\ Last(saved) = saved[n]
    BY <1>1, <1>5 DEF Last
  <2>2. /\ saved[n].type = "MATCH" <=> list[n].type = "MATCH"
        /\ list[n].type = "MATCH" => saved[n].policy = list[n].policy
    <3>1. Accepted(list, n) /\ saved[n] = Normal(list[n])
      BY <1>1, <2>1
    <3> QED
      BY <2>1, <3>1, MeantForm
  <2>3. \A r : clashRule(r).type = r.type /\ clashRule(r).policy = r.policy
    BY DEF clashRule, Line
  <2>4. /\ Line("MATCH", NoValue, "node", FALSE).type = "MATCH"
        /\ Line("MATCH", NoValue, "node", FALSE).policy = "node"
    BY DEF Line
  <2>5. CASE list[n].type = "MATCH"
    <3>1. Fallback(saved) = clashRule(Last(saved))
      BY <1>3, <1>5, <2>1, <2>2, <2>5 DEF Fallback
    <3> QED
      BY <1>2, <1>5, <2>1, <2>2, <2>3, <2>5, <3>1 DEF saved
  <2>6. CASE list[n].type # "MATCH"
    <3>1. Fallback(saved) = Line("MATCH", NoValue, "node", FALSE)
      BY <2>1, <2>2, <2>6 DEF Fallback
    <3> QED
      BY <2>1, <2>4, <2>6, <3>1 DEF saved
  <2> QED
    BY <2>5, <2>6
<1> QED
  BY <1>4, <1>5

LEMMA HostsForm == Hosts \ {"[ipv6]"} \subseteq {"domain", "ipv4", "ipv6"}
BY DEF Hosts, Authorities, Authority, hostOnly

(* Which lines match, in terms of the destination and the rules as meant.  *)
LEMMA LineByLine ==
  ASSUME NEW list \in Seq(RouteRule), normalizeRouteRules(list) # Refused,
         NEW host \in {"domain", "ipv4", "ipv6"}, NEW d \in Destination, NEW covers
  PROVE  LET saved == normalizeRouteRules(list)
             lines == ClientRulesOf(saved, host)
             meant == [i \in 1..Len(list) |-> Meant(list[i])]
             k     == Customs(saved)
             Hit(i) == Matches(lines, i, d, covers) IN
         /\ k \in 0..Len(list) /\ Len(lines) = k + 7
         /\ \A i \in 1..Len(list) : meant[i].type # "MATCH" <=> i \in 1..k
         /\ \A i \in 1..k : lines[i + 2].policy = meant[i].policy
         /\ Hit(1) <=> OwnEndpoint(host, d)
         /\ Hit(2) <=> d.name = NoValue /\ V6 \in d.nets
         /\ \A i \in 1..k : Hit(i + 2) <=> Matches(meant, i, d, covers)
         /\ Hit(k + 3) <=> d.name = Gemini
         /\ Hit(k + 4) <=> d.name = NoValue /\ Private \in d.nets
         /\ Hit(k + 5) <=> d.name = CnSite
         /\ Hit(k + 6) <=> Cn \in d.nets
         /\ Hit(k + 7)
<1> DEFINE n == Len(list)
           saved == normalizeRouteRules(list)
           lines == ClientRulesOf(saved, host)
           meant == [i \in 1..n |-> Meant(list[i])]
           k     == Customs(saved)
           Hit(i) == Matches(lines, i, d, covers)
           Res(i) == Resolved(lines, i, d)
<1>1. /\ saved \in Seq(RouteRule) /\ Len(saved) = n /\ n \in Nat
      /\ \A i \in 1..n : Accepted(list, i) /\ saved[i] = Normal(list[i])
  BY SavedForm
<1>2. \A i \in 1..n : /\ clashRule(saved[i]) = meant[i] /\ meant[i].type = saved[i].type
                      /\ saved[i].type = "MATCH" => i = n
  <2> TAKE i \in 1..n
  <2>1. Accepted(list, i) /\ saved[i] = Normal(list[i]) /\ meant[i] = Meant(list[i])
    BY <1>1
  <2> HIDE DEF saved, meant
  <2> QED
    BY <2>1, MeantForm
<1> HIDE DEF saved, meant
<1>3. /\ k \in 0..n /\ Len(lines) = k + 7
      /\ lines[1] = ServerRule(host) /\ lines[2] = V6Rule
      /\ \A i \in 1..k : lines[i + 2] = clashRule(saved[i])
      /\ lines[k + 3] = Line("DOMAIN-SUFFIX", Gemini, "node", FALSE)
      /\ lines[k + 4] = Line("IP-CIDR", Private, "DIRECT", TRUE)
      /\ lines[k + 5] = Line("GEOSITE", Cn, "DIRECT", FALSE)
      /\ lines[k + 6] = Line("GEOIP", Cn, "DIRECT", FALSE)
      /\ lines[k + 7] = Fallback(saved)
  <2>1. saved \in Seq(RouteRule) /\ \A i \in 1..Len(saved) : saved[i].type = "MATCH" => i = Len(saved)
    BY <1>1, <1>2
  <2>2. /\ k \in 0..Len(saved) /\ Len(lines) = k + 7
        /\ lines[1] = ServerRule(host) /\ lines[2] = V6Rule
        /\ \A i \in 1..k : lines[i + 2] = clashRule(saved[i])
        /\ lines[k + 3] = Line("DOMAIN-SUFFIX", Gemini, "node", FALSE)
        /\ lines[k + 4] = Line("IP-CIDR", Private, "DIRECT", TRUE)
        /\ lines[k + 5] = Line("GEOSITE", Cn, "DIRECT", FALSE)
        /\ lines[k + 6] = Line("GEOIP", Cn, "DIRECT", FALSE)
        /\ lines[k + 7] = Fallback(saved)
    BY ONLY <2>1, LinesForm
  <2> QED
    BY <1>1, <2>2
<1> HIDE DEF lines
<1>4. \A i \in 1..n : meant[i].type # "MATCH" <=> i \in 1..k
  <2>1. CASE n > 0 /\ saved[n].type = "MATCH"
    <3>1. k = n - 1
      BY <1>1, <2>1, CustomsForm
    <3> HIDE DEF k
    <3> QED
      BY <1>1, <1>2, <2>1, <3>1
  <2>2. CASE ~(n > 0 /\ saved[n].type = "MATCH")
    <3>1. k = n
      BY <1>1, <2>2, CustomsForm
    <3> HIDE DEF k
    <3> QED
      BY <1>1, <1>2, <2>2, <3>1
  <2> QED
    BY <2>1, <2>2
<1> HIDE DEF k
<1>5. \A i \in 1..k : i \in 1..n /\ lines[i + 2] = meant[i]
  BY <1>1, <1>2, <1>3
<1>6. /\ ~(lines[1].type \in ByAddress /\ ~lines[1].noResolve)
      /\ ~(lines[2].type \in ByAddress /\ ~lines[2].noResolve)
      /\ lines[k + 6].type \in ByAddress /\ ~lines[k + 6].noResolve
  BY <1>3, ServerForm, PanelLines
<1>7. /\ Res(1) <=> d.name = NoValue
      /\ Res(2) <=> d.name = NoValue
      /\ d.name = NoValue => Res(k + 4)
      /\ Res(k + 6)
  <2>1. 1..1 = {1} /\ 1..2 = {1, 2} /\ k + 6 \in 1..(k + 6)
    BY <1>3
  <2> QED
    BY <1>6, <2>1 DEF Resolved
<1>8. \A i \in 1..k : Res(i + 2) <=> Resolved(meant, i, d)
  <2> TAKE i \in 1..k
  <2>1. /\ \A j \in 1..i : j \in 1..k /\ j + 2 \in 1..(i + 2) /\ lines[j + 2] = meant[j]
        /\ \A j \in 1..(i + 2) : j = 1 \/ j = 2 \/ (j - 2 \in 1..i /\ lines[j] = meant[j - 2])
    <3>1. \A j \in 1..i : j \in 1..k /\ j + 2 \in 1..(i + 2)
      BY <1>3
    <3>2. \A j \in 1..(i + 2) : j = 1 \/ j = 2 \/ (j - 2 \in 1..i /\ (j - 2) + 2 = j)
      BY <1>3
    <3> QED
      BY <1>5, <3>1, <3>2
  <2> DEFINE Asks(l) == l.type \in ByAddress /\ ~l.noResolve
  <2>2. (\E j \in 1..(i + 2) : Asks(lines[j])) <=> (\E j \in 1..i : Asks(meant[j]))
    <3> HIDE DEF Asks
    <3>1. ~Asks(lines[1]) /\ ~Asks(lines[2])
      BY <1>6 DEF Asks
    <3> QED
      BY <2>1, <3>1
  <2> QED
    BY <2>2 DEF Resolved
<1>9. \A i \in 1..k : Hit(i + 2) <=> Matches(meant, i, d, covers)
  <2> TAKE i \in 1..k
  <2>1. lines[i + 2] = meant[i] /\ (Res(i + 2) <=> Resolved(meant, i, d))
    BY <1>5, <1>8
  <2> QED
    BY <2>1 DEF Matches
<1>10. Hit(1) <=> OwnEndpoint(host, d)
  <2>1. CASE host = "domain"
    BY <1>3, <2>1, MatchForm, ServerForm, Apart DEF OwnEndpoint
  <2>2. CASE host = "ipv4"
    <3>1. Hit(1) <=> Server4 \in d.nets /\ d.name = NoValue
      BY <1>3, <1>7, <2>2, MatchForm, ServerForm
    <3>2. OwnEndpoint(host, d) <=> d = [name |-> NoValue, nets |-> {Server4}]
      BY <2>2 DEF OwnEndpoint
    <3> QED
      BY <3>1, <3>2, DestinationForm
  <2>3. CASE host = "ipv6"
    <3>1. Hit(1) <=> Server6 \in d.nets /\ d.name = NoValue
      BY <1>3, <1>7, <2>3, MatchForm, ServerForm
    <3>2. OwnEndpoint(host, d) <=> d = [name |-> NoValue, nets |-> {Server6, V6}]
      BY <2>3 DEF OwnEndpoint
    <3> QED
      BY <3>1, <3>2, DestinationForm
  <2> QED
    BY <2>1, <2>2, <2>3
<1>11. Hit(2) <=> d.name = NoValue /\ V6 \in d.nets
  BY <1>3, <1>7, MatchForm, PanelLines
<1>12. Hit(k + 3) <=> d.name = Gemini
  <2>1. lines[k + 3].type \in DomainTypes /\ lines[k + 3].of = Gemini
    BY <1>3, PanelLines
  <2> QED
    BY <2>1, MatchForm, Apart
<1>13. Hit(k + 4) <=> d.name = NoValue /\ Private \in d.nets
  <2>2. lines[k + 4].type \in ByAddress /\ lines[k + 4].of = Private
    BY <1>3, PanelLines
  <2>1. Hit(k + 4) <=> Private \in d.nets /\ Res(k + 4)
    BY <2>2, MatchForm
  <2> QED
    BY <1>7, <2>1, DestinationForm
<1>14. Hit(k + 5) <=> d.name = CnSite
  <2>1. lines[k + 5].type = "GEOSITE"
    BY <1>3, PanelLines
  <2> QED
    BY <2>1, MatchForm
<1>15. Hit(k + 6) <=> Cn \in d.nets
  <2>1. lines[k + 6].type \in ByAddress /\ lines[k + 6].of = Cn
    BY <1>3, PanelLines
  <2> QED
    BY <1>7, <2>1, MatchForm
<1>16. Hit(k + 7)
  BY <1>3, MatchForm, FallbackForm DEF saved
<1>17. \A i \in 1..k : lines[i + 2].policy = meant[i].policy
  BY <1>5
<1> HIDE DEF Hit
<1> QED
  BY <1>3, <1>4, <1>9, <1>10, <1>11, <1>12, <1>13, <1>14, <1>15, <1>16, <1>17
     DEF saved, lines, meant, k, Hit

(* The administrator's first rule that covers the destination, if any.     *)
LEMMA ChosenForm ==
  ASSUME NEW n \in Nat, NEW k \in 0..n, NEW meant, Len(meant) = n,
         \A i \in 1..n : meant[i].type # "MATCH" <=> i \in 1..k, NEW d, NEW covers
  PROVE  \/ /\ Chosen(meant, d, covers) = {}
            /\ \A i \in 1..k : ~Matches(meant, i, d, covers)
         \/ \E q \in 1..k :
              /\ Chosen(meant, d, covers) = {meant[q].policy}
              /\ Matches(meant, q, d, covers)
              /\ \A i \in 1..(q - 1) : ~Matches(meant, i, d, covers)
<1> DEFINE hits == {i \in 1..Len(meant) : meant[i].type # "MATCH" /\ Matches(meant, i, d, covers)}
           Hit(i) == Matches(meant, i, d, covers)
<1> HIDE DEF Hit
<1>1. hits = {i \in 1..k : Hit(i)}
  <2>1. \A i \in 1..k : i \in 1..n
    OBVIOUS
  <2> QED
    BY <2>1 DEF Hit
<1>2. CASE hits = {}
  <2>1. Chosen(meant, d, covers) = {}
    BY <1>2 DEF Chosen
  <2>2. \A i \in 1..k : ~Hit(i)
    BY <1>1, <1>2
  <2> QED
    BY <2>1, <2>2 DEF Hit
<1>3. CASE hits # {}
  <2>1. k \in Nat /\ hits \in SUBSET (0..k)
    BY <1>1
  <2>2. Chosen(meant, d, covers) = {meant[Min(hits)].policy}
    BY <1>3 DEF Chosen
  <2> HIDE DEF hits
  <2>3. Min(hits) \in hits /\ \A i \in hits : Min(hits) <= i
    BY <1>3, <2>1, MinOf
  <2> DEFINE q == Min(hits)
  <2> HIDE DEF q
  <2>4. q \in 1..k /\ Hit(q) /\ \A i \in 1..k : Hit(i) => q <= i
    BY <1>1, <2>3 DEF q
  <2>5. \A i \in 1..(q - 1) : i \in 1..k /\ ~(q <= i)
    BY <2>1, <2>4
  <2>6. \A i \in 1..(q - 1) : ~Hit(i)
    BY <2>4, <2>5
  <2> QED
    BY <2>2, <2>4, <2>6 DEF q, Hit
<1> QED
  BY <1>2, <1>3

LEMMA Decided ==
  ASSUME NEW list \in Seq(RouteRule), normalizeRouteRules(list) # Refused,
         NEW host \in {"domain", "ipv4", "ipv6"}, NEW d \in Destination
  PROVE  LET saved  == normalizeRouteRules(list)
             covers == [name \in RuleSets(saved) |-> ProviderOf(saved, name).covers] IN
         Decision(ClientRulesOf(saved, host), d, covers) = Wanted(list, host, d)
<1> DEFINE saved  == normalizeRouteRules(list)
           covers == [name \in RuleSets(list) |-> UNION {list[i].provider.covers : i \in
                       {i \in 1..Len(list) : list[i].type = "RULE-SET" /\ list[i].value.of = name}}]
           n      == Len(list)
           lines  == ClientRulesOf(saved, host)
           meant  == [i \in 1..n |-> Meant(list[i])]
           k      == Customs(saved)
           Hit(i) == Matches(lines, i, d, covers)
           special == Chosen(meant, d, covers)
           decision == Decision(lines, d, covers)
           wanted == Wanted(list, host, d)
           last == IF list # <<>> /\ Last(list).type = "MATCH" THEN Last(list).policy ELSE "node"
<1>1. covers = [name \in RuleSets(saved) |-> ProviderOf(saved, name).covers]
  BY SameCovers
<1> SUFFICES decision = wanted
  BY <1>1
<1> DEFINE own    == OwnEndpoint(host, d)
           v6     == d.name = NoValue /\ V6 \in d.nets
           gemini == d.name = Gemini
           direct == d.name = CnSite \/ Cn \in d.nets \/ (d.name = NoValue /\ Private \in d.nets)
<1>2. wanted = IF own THEN {"DIRECT"} ELSE IF v6 THEN {"REJECT"} ELSE IF special # {} THEN special
               ELSE IF gemini THEN {"node"} ELSE IF direct THEN {"DIRECT"}
               ELSE IF list # <<>> /\ Last(list).type = "MATCH" THEN {Last(list).policy} ELSE {"node"}
  BY DEF Wanted
<1> HIDE DEF own, v6, gemini, direct, wanted, special
<1>3. /\ own => wanted = {"DIRECT"}
      /\ ~own /\ v6 => wanted = {"REJECT"}
      /\ ~own /\ ~v6 /\ special # {} => wanted = special
      /\ ~own /\ ~v6 /\ special = {} /\ gemini => wanted = {"node"}
      /\ ~own /\ ~v6 /\ special = {} /\ ~gemini /\ direct => wanted = {"DIRECT"}
      /\ ~own /\ ~v6 /\ special = {} /\ ~gemini /\ ~direct => wanted = {last}
  BY <1>2
<1> HIDE DEF covers
<1>4. /\ k \in 0..n /\ Len(lines) = k + 7
      /\ \A i \in 1..n : meant[i].type # "MATCH" <=> i \in 1..k
      /\ \A i \in 1..k : lines[i + 2].policy = meant[i].policy
      /\ Hit(1) <=> OwnEndpoint(host, d)
      /\ Hit(2) <=> d.name = NoValue /\ V6 \in d.nets
      /\ \A i \in 1..k : Hit(i + 2) <=> Matches(meant, i, d, covers)
      /\ Hit(k + 3) <=> d.name = Gemini
      /\ Hit(k + 4) <=> d.name = NoValue /\ Private \in d.nets
      /\ Hit(k + 5) <=> d.name = CnSite
      /\ Hit(k + 6) <=> Cn \in d.nets
      /\ Hit(k + 7)
  BY LineByLine
<1>5. /\ Hit(1) <=> own
      /\ Hit(2) <=> v6
      /\ Hit(k + 3) <=> gemini
      /\ direct <=> Hit(k + 4) \/ Hit(k + 5) \/ Hit(k + 6)
  BY <1>4 DEF own, v6, gemini, direct
<1>6. /\ lines[1].policy = "DIRECT" /\ lines[2].policy = "REJECT"
      /\ lines[k + 3].policy = "node" /\ lines[k + 4].policy = "DIRECT" /\ lines[k + 5].policy = "DIRECT"
      /\ lines[k + 6].policy = "DIRECT" /\ lines[k + 7].policy = last
  <2>1. /\ saved \in Seq(RouteRule) /\ Len(saved) = n
        /\ \A i \in 1..n : Accepted(list, i) /\ saved[i] = Normal(list[i])
    BY SavedForm
  <2>2. \A i \in 1..Len(saved) : saved[i].type = "MATCH" => i = Len(saved)
    <3> TAKE i \in 1..Len(saved)
    <3>1. i \in 1..n /\ Accepted(list, i) /\ saved[i] = Normal(list[i])
      BY <2>1
    <3> HIDE DEF saved
    <3> QED
      BY <2>1, <3>1, MeantForm
  <2>3. /\ lines[1] = ServerRule(host) /\ lines[2] = V6Rule
        /\ lines[k + 3] = Line("DOMAIN-SUFFIX", Gemini, "node", FALSE)
        /\ lines[k + 4] = Line("IP-CIDR", Private, "DIRECT", TRUE)
        /\ lines[k + 5] = Line("GEOSITE", Cn, "DIRECT", FALSE)
        /\ lines[k + 6] = Line("GEOIP", Cn, "DIRECT", FALSE)
        /\ lines[k + 7] = Fallback(saved)
    <3> HIDE DEF saved
    <3> QED
      BY <2>1, <2>2, LinesForm
  <2>4. Fallback(saved).policy = last
    BY FallbackForm
  <2> HIDE DEF lines, saved, k, last
  <2> QED
    BY <2>3, <2>4, ServerForm, PanelLines
<1>7. Len(meant) = n /\ n \in Nat
  OBVIOUS
<1> HIDE DEF lines, saved, meant, k, n
<1>8. ASSUME NEW q \in 1..(k + 7), Hit(q), \A i \in 1..(q - 1) : ~Hit(i)
      PROVE  decision = {lines[q].policy}
  <2>1. Len(lines) \in Nat /\ q \in 1..Len(lines)
    BY <1>4, <1>7
  <2> QED
    BY <1>8, <2>1, FirstMatch
<1>9. k \in Nat
  BY <1>4, <1>7
<1>10. /\ 1 \in 1..(k + 7) /\ 2 \in 1..(k + 7) /\ k + 3 \in 1..(k + 7) /\ k + 4 \in 1..(k + 7)
       /\ k + 5 \in 1..(k + 7) /\ k + 6 \in 1..(k + 7) /\ k + 7 \in 1..(k + 7)
  BY <1>9
<1> HIDE DEF Hit, decision, last
<1>11. CASE own
  <2>1. Hit(1) /\ \A i \in 1..(1 - 1) : ~Hit(i)
    BY <1>11, <1>5
  <2>2. decision = {lines[1].policy}
    BY <1>8, <1>10, <2>1
  <2> QED
    BY <1>6, <1>11, <1>3, <2>2
<1>12. CASE ~own /\ v6
  <2>1. Hit(2) /\ \A i \in 1..(2 - 1) : ~Hit(i)
    BY <1>12, <1>5
  <2>2. decision = {lines[2].policy}
    BY <1>8, <1>10, <2>1
  <2> QED
    BY <1>6, <1>12, <1>3, <2>2
<1>13. CASE ~own /\ ~v6
  <2>1. ~Hit(1) /\ ~Hit(2)
    BY <1>13, <1>5
  <2>2. \/ /\ special = {}
           /\ \A i \in 1..k : ~Matches(meant, i, d, covers)
        \/ \E q \in 1..k :
             /\ special = {meant[q].policy}
             /\ Matches(meant, q, d, covers)
             /\ \A i \in 1..(q - 1) : ~Matches(meant, i, d, covers)
    BY <1>4, <1>7, ChosenForm DEF special
  <2>3. ASSUME NEW j \in 1..k, ~Matches(meant, j, d, covers), NEW i, i = j + 2 PROVE ~Hit(i)
    BY <1>4, <2>3
  <2>4. ASSUME NEW q \in 1..k, special = {meant[q].policy}, Matches(meant, q, d, covers),
               \A i \in 1..(q - 1) : ~Matches(meant, i, d, covers)
        PROVE  decision = wanted
    <3>1. q + 2 \in 1..(k + 7) /\ Hit(q + 2) /\ lines[q + 2].policy = meant[q].policy
      BY <1>4, <1>9, <2>4
    <3>2. ASSUME NEW i \in 1..(q + 2 - 1) PROVE ~Hit(i)
      <4>1. i = 1 \/ i = 2 \/ (i - 2 \in 1..k /\ i - 2 \in 1..(q - 1) /\ i = (i - 2) + 2)
        BY <1>9
      <4> QED
        BY <2>1, <2>3, <2>4, <4>1
    <3>3. decision = {lines[q + 2].policy}
      BY <1>8, <3>1, <3>2
    <3>4. decision = special /\ special # {}
      BY <2>4, <3>1, <3>3
    <3> QED
      BY <1>13, <1>3, <3>4
  <2>5. ASSUME special = {}, \A i \in 1..k : ~Matches(meant, i, d, covers)
        PROVE  decision = wanted
    <3>1. ASSUME NEW i \in 1..(k + 2) PROVE ~Hit(i)
      <4>1. i = 1 \/ i = 2 \/ (i - 2 \in 1..k /\ i = (i - 2) + 2)
        BY <1>9
      <4> QED
        BY <2>1, <2>3, <2>5, <4>1
    <3>2. /\ \A i \in 1..(k + 3 - 1) : i \in 1..(k + 2)
          /\ \A i \in 1..(k + 4 - 1) : i \in 1..(k + 2) \/ i = k + 3
          /\ \A i \in 1..(k + 5 - 1) : i \in 1..(k + 2) \/ i = k + 3 \/ i = k + 4
          /\ \A i \in 1..(k + 6 - 1) : i \in 1..(k + 2) \/ i = k + 3 \/ i = k + 4 \/ i = k + 5
          /\ \A i \in 1..(k + 7 - 1) : i \in 1..(k + 2) \/ i = k + 3 \/ i = k + 4 \/ i = k + 5 \/ i = k + 6
      BY <1>9
    <3>3. CASE Hit(k + 3)
      <4>1. \A i \in 1..(k + 3 - 1) : ~Hit(i)
        BY <3>1, <3>2
      <4>2. decision = {lines[k + 3].policy}
        BY <1>8, <1>9, <1>10, <3>3, <4>1
      <4> QED
        BY <1>6, <1>13, <1>3, <1>5, <2>5, <3>3, <4>2
    <3>4. CASE ~Hit(k + 3) /\ Hit(k + 4)
      <4>1. \A i \in 1..(k + 4 - 1) : ~Hit(i)
        BY <3>1, <3>2, <3>4
      <4>2. decision = {lines[k + 4].policy}
        BY <1>8, <1>9, <1>10, <3>4, <4>1
      <4> QED
        BY <1>6, <1>13, <1>3, <1>5, <2>5, <3>4, <4>2
    <3>5. CASE ~Hit(k + 3) /\ ~Hit(k + 4) /\ Hit(k + 5)
      <4>1. \A i \in 1..(k + 5 - 1) : ~Hit(i)
        BY <3>1, <3>2, <3>5
      <4>2. decision = {lines[k + 5].policy}
        BY <1>8, <1>9, <1>10, <3>5, <4>1
      <4> QED
        BY <1>6, <1>13, <1>3, <1>5, <2>5, <3>5, <4>2
    <3>6. CASE ~Hit(k + 3) /\ ~Hit(k + 4) /\ ~Hit(k + 5) /\ Hit(k + 6)
      <4>1. \A i \in 1..(k + 6 - 1) : ~Hit(i)
        BY <3>1, <3>2, <3>6
      <4>2. decision = {lines[k + 6].policy}
        BY <1>8, <1>9, <1>10, <3>6, <4>1
      <4> QED
        BY <1>6, <1>13, <1>3, <1>5, <2>5, <3>6, <4>2
    <3>7. CASE ~Hit(k + 3) /\ ~Hit(k + 4) /\ ~Hit(k + 5) /\ ~Hit(k + 6)
      <4>1. \A i \in 1..(k + 7 - 1) : ~Hit(i)
        BY <3>1, <3>2, <3>7
      <4>2. decision = {lines[k + 7].policy}
        BY <1>4, <1>8, <1>10, <4>1
      <4> QED
        BY <1>6, <1>13, <1>3, <1>5, <2>5, <3>7, <4>2
    <3> QED
      BY <3>3, <3>4, <3>5, <3>6, <3>7
  <2> QED
    BY <2>2, <2>4, <2>5
<1> QED
  BY <1>11, <1>12, <1>13

(* What a client decides by the first line that matches is what the        *)
(* administrator and the comments of UserSubscription want, for every list *)
(* that could be saved and every destination, unless the panel's host is   *)
(* given as an IPv6 address in brackets without a port.                    *)
THEOREM DecisionsWantedThm == RulesSpec => []DecisionsWanted
<1>1. Listed => DecisionsWanted
  <2> SUFFICES ASSUME Listed, Saved # Refused, NEW host \in Hosts \ {"[ipv6]"}, NEW d \in Destination
               PROVE  Decision(ClientRulesOf(Saved, host), d,
                               [name \in RuleSets(Saved) |-> ProviderOf(Saved, name).covers])
                      = Wanted(rules, host, d)
    BY DEF DecisionsWanted
  <2>1. host \in {"domain", "ipv4", "ipv6"}
    BY HostsForm
  <2> QED
    BY <2>1, Decided DEF Listed, Saved
<1> QED
  BY <1>1, ListedThm, PTL
=============================================================================
