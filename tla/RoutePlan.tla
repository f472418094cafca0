------------------------------ MODULE RoutePlan ------------------------------
(***************************************************************************)
(* The routing rules the user edits (routing.rs and its commands in        *)
(* lib.rs) and the route section of the engine's configuration that is     *)
(* generated from them (config.rs): where each connection goes.            *)
(*                                                                         *)
(* A geo entry "kind:name" is the pair <<kind, name>>, the name in pieces  *)
(* so that the colons and dashes in it can be told apart; a preset is      *)
(* <<"preset", name>>; a process name is its lower-case form and its       *)
(* spelling.  A rule matches a connection on one of its facts or on the    *)
(* process that opened it, and the first rule that matches decides.        *)
(***************************************************************************)
EXTENDS Integers, Sequences, FiniteSetsExt

CONSTANTS
    Domains,        \* domain suffixes a user may list, normalised
    GeoInputs,      \* geo entries a user may type, right or wrong
    ProcessInputs   \* process names a user may type: <<name, spelling>>

\* The list a new user starts with can be typed as well.
ASSUME PackAssumption == <<"preset", "russia_pack">> \in GeoInputs

\* A suffix is the pair <<"domain", name>>: no rule set's tag.
ASSUME DomainsAssumption == \A d \in Domains : d[1] = "domain"

Presets == {<<"preset", "russia_pack">>, <<"preset", "telegram_combo">>,
            <<"preset", "discord_combo">>}

VARIABLES
    mode,           \* "global" or "rule"
    domains, geo, processes,    \* the three lists of routing.rs
    packs           \* pack files on disk: "inside", "outside"

lists == <<domains, geo, processes>>
vars == <<mode, domains, geo, processes, packs>>

Init ==
    /\ mode = "rule"
    /\ domains = {} /\ processes = {}
    /\ geo = {<<"preset", "russia_pack">>}
    /\ packs \in SUBSET {"inside", "outside"}

-----------------------------------------------------------------------------
(* The commands that change the rules.                                     *)

SetMode(m) == mode' = m /\ UNCHANGED <<lists, packs>>

AddDomain(d) ==
    /\ d \notin domains
    /\ domains' = domains \cup {d}
    /\ UNCHANGED <<mode, geo, processes, packs>>

RemoveDomain(d) ==
    /\ domains' = domains \ {d}
    /\ UNCHANGED <<mode, geo, processes, packs>>

\* Only geosite:, geoip: and the presets are accepted, each once.
AddGeoRule(g) ==
    /\ g[1] \in {"geosite", "geoip"} \/ g \in Presets
    /\ g \notin geo
    /\ geo' = geo \cup {g}
    /\ UNCHANGED <<mode, domains, processes, packs>>

RemoveGeoRule(g) ==
    /\ geo' = geo \ {g}
    /\ UNCHANGED <<mode, domains, processes, packs>>

\* The comparison that ignores the spelling.
SameName(p, q) == p[1] = q[1]

AddProcess(p) ==
    /\ \A q \in processes : ~SameName(p, q)
    /\ processes' = processes \cup {p}
    /\ UNCHANGED <<mode, domains, geo, packs>>

RemoveProcess(p) ==
    /\ processes' = {q \in processes : ~SameName(p, q)}
    /\ UNCHANGED <<mode, domains, geo, packs>>

\* set_all_routing_rules, as "clear the list" sends it; undo and redo send a
\* state the other commands reach.
SetAllRoutingRules(d, g, p) ==
    /\ domains' = d /\ geo' = g /\ processes' = p
    /\ UNCHANGED <<mode, packs>>

\* The thread of russia_pack.rs saves a list; nothing deletes it.
UpdateList(pack) ==
    /\ packs' = packs \cup {pack}
    /\ UNCHANGED <<mode, lists>>

Next ==
    \/ \E m \in {"global", "rule"} : SetMode(m)
    \/ \E d \in Domains : AddDomain(d) \/ RemoveDomain(d)
    \/ \E g \in GeoInputs : AddGeoRule(g) \/ RemoveGeoRule(g)
    \/ \E p \in ProcessInputs : AddProcess(p) \/ RemoveProcess(p)
    \/ \E d \in {domains, {}}, g \in {geo, {}}, p \in {processes, {}} :
          SetAllRoutingRules(d, g, p)
    \/ \E pack \in {"inside", "outside"} : UpdateList(pack)

Spec == Init /\ [][Next]_vars

-----------------------------------------------------------------------------
(* The server's address in the profile, and the bypass written for it.     *)

\* A host with a colon is an IPv6 literal (the URL parser keeps its brackets);
\* "digits" is a domain name that begins with a digit.
ServerKinds == {"ipv4", "ipv6", "domain", "digits"}

IsIp(s) == s # "domain"

\* What the engine can parse: <host>/32 is a prefix for an IPv4 literal only.
BypassParses(s) == IsIp(s) => s = "ipv4"

-----------------------------------------------------------------------------
(* The rules of the configuration, in order.                               *)

Combo(name) == mode = "rule" /\ <<"preset", name>> \in geo

Ads == <<"geosite", <<"category", "-", "ads", "-", "all">> >>
Telegram == <<"geosite", <<"telegram">> >>
Discord == <<"geosite", <<"discord">> >>

\* Mutant: the colons of a name stay, and tags differ wherever entries do.
DashedNot(name) == name

\* geo_rule.replace(":", "-")
Dashed(name) == [i \in DOMAIN name |-> IF name[i] = ":" THEN "-" ELSE name[i]]

\* The tag of the rule set an entry stands for; the combos name theirs themselves.
TagOf(g) ==
    CASE g = <<"preset", "russia_pack">> -> <<"pack", "inside">>
      [] g = <<"preset", "telegram_combo">> -> Telegram
      [] g = <<"preset", "discord_combo">> -> Discord
      [] OTHER -> <<g[1], Dashed(g[2])>>

\* The entries that put a tag into the configuration: russia_pack only when
\* its file is there.
Tagged ==
    IF mode = "rule"
    THEN {g \in geo : g = <<"preset", "russia_pack">> => "inside" \in packs}
    ELSE {}

HasSource(g) == g[1] \in {"geosite", "geoip"} \/ g \in Presets

\* The rule_set list: each tag with the geo entry it was added for; the two that
\* no entry asks for come first.
Always == <<"always", "always">>

RuleSets ==
    {<<Always, Ads>>}
    \cup (IF "outside" \in packs THEN {<<Always, <<"pack", "outside">> >>} ELSE {})
    \cup {<<g, TagOf(g)>> : g \in {h \in Tagged : HasSource(h)}}

Rule(facts, names, outbound) ==
    [facts |-> facts, processes |-> names, do |-> outbound]

ServerFact == <<"server", "server">>

\* Mutant: the rules of the user come before the bypasses.
TopRulesLate(s, listed) ==
    << Rule({<<"port", "53">>}, {}, "dns"),
       Rule({}, listed, "proxy"),
       Rule(IF BypassParses(s) THEN {ServerFact} ELSE {}, {}, "direct"),
       Rule({<<"ip", "private">>}, {}, "direct") >>

\* DNS, the VLESS server itself, private addresses, then processes.
TopRules(s, listed) ==
    << Rule({<<"port", "53">>}, {}, "dns"),
       Rule(IF BypassParses(s) THEN {ServerFact} ELSE {}, {}, "direct"),
       Rule({<<"ip", "private">>}, {}, "direct"),
       Rule({}, listed, "proxy") >>

\* Mutant: no process gets ahead of the advertising block.
ListedLate == {}

Listed ==
    (IF mode = "rule" THEN processes ELSE {})
    \cup (IF Combo("telegram_combo") THEN {<<"telegram", "lower">>} ELSE {})
    \cup (IF Combo("discord_combo") THEN {<<"discord", "lower">>} ELSE {})

\* The whitelist, the advertising block, then the sites that go direct.
MiddleRules ==
    << Rule({<<"keyword", "yandex">>}, {}, "direct"),
       Rule({Ads}, {}, "reject"),
       Rule(IF "outside" \in packs THEN {<<"pack", "outside">>} ELSE {}, {},
            "direct") >>

TelegramNames ==
    {<<"telegram", "lower">>, <<"telegram", "mixed">>, <<"tg", "lower">>,
     <<"tdata", "lower">>}
DiscordNames ==
    {<<"discord", "lower">>, <<"discord", "mixed">>, <<"update", "mixed">>}

\* The user's domains and entries, in rule mode only.
LastRules ==
    << Rule(IF mode = "rule" THEN domains ELSE {}, {}, "proxy"),
       Rule({}, IF Combo("telegram_combo") THEN TelegramNames ELSE {}, "proxy"),
       Rule({}, IF Combo("discord_combo") THEN DiscordNames ELSE {}, "proxy"),
       Rule({TagOf(g) : g \in Tagged}, {}, "proxy") >>

Plan(s) == TopRules(s, Listed) \o MiddleRules \o LastRules

\* Mutant: direct by default only once there is a domain to proxy.
FinalByDomains == IF mode = "rule" /\ domains # {} THEN "direct" ELSE "proxy"

Final == IF mode = "rule" THEN "direct" ELSE "proxy"

-----------------------------------------------------------------------------
(* The engine: the first rule that matches decides.                        *)

Matches(rule, c) == rule.facts \cap c.facts # {} \/ c.process \in rule.processes

Route(plan, final, c) ==
    LET hits == {k \in DOMAIN plan : Matches(plan[k], c)}
    IN  IF hits = {} THEN final ELSE plan[Min(hits)].do

-----------------------------------------------------------------------------
(* Properties.  A connection has at most two facts here, which is enough   *)
(* for any two rules to compete for it.                                    *)

Facts ==
    {<<"port", "53">>, ServerFact, <<"ip", "private">>, <<"keyword", "yandex">>,
     Ads, <<"pack", "outside">>, <<"pack", "inside">>, Telegram}
    \cup Domains

Names ==
    ProcessInputs \cup {<<"telegram", "mixed">>, <<"update", "mixed">>,
                        <<"other", "lower">>}

Connections == [facts : UNION {kSubset(n, Facts) : n \in 0..2}, process : Names]

\* The type invariant, and that two spellings of a process are never listed.
TypeOK ==
    /\ mode \in {"global", "rule"}
    /\ domains \subseteq Domains /\ geo \subseteq GeoInputs
    /\ processes \subseteq ProcessInputs
    /\ \A p, q \in processes : SameName(p, q) => p = q
    /\ packs \in SUBSET {"inside", "outside"}

\* No rule of the user's routes the tunnel into itself or a private address
\* out of the network: such a connection goes direct, DNS apart.
BypassFirst ==
    \A s \in {k \in ServerKinds : BypassParses(k)} :
        LET plan == Plan(s)
        IN  \A c \in Connections :
              /\ c.facts \cap {ServerFact, <<"ip", "private">>} # {}
              /\ <<"port", "53">> \notin c.facts
              => Route(plan, Final, c) = "direct"

\* config.rs:267: a listed process has the highest priority.  In rule mode
\* everything it opens goes through the proxy, advertising and the whitelist
\* included, but for DNS and the bypasses.
ProcessFirst ==
    mode = "rule" =>
        LET plan == Plan("ipv4")
        IN  \A c \in Connections :
              /\ c.process \in processes
              /\ c.facts \cap {<<"port", "53">>, ServerFact, <<"ip", "private">>} = {}
              => Route(plan, Final, c) = "proxy"

TagsDefined(plan) ==
    \A k \in DOMAIN plan : \A f \in plan[k].facts :
        f[1] \in {"geosite", "geoip", "pack", "plain"} => \E r \in RuleSets : r[2] = f

TagsUnique == \A r, q \in RuleSets : r[2] = q[2] => r = q

\* Two entries that a tag cannot tell apart: they differ in colons for dashes.
SameButColons(g, h) ==
    /\ g[1] = h[1] /\ DOMAIN g[2] = DOMAIN h[2]
    /\ \A i \in DOMAIN g[2] :
           g[2][i] = h[2][i] \/ {g[2][i], h[2][i]} = {":", "-"}

\* Entries that are each accepted by add_geo_rule and stand for one tag: with
\* each other, with the advertising list, or with the list of a combo.
Clash ==
    \E g \in geo \ Presets :
        \/ SameButColons(g, Ads)
        \/ \E h \in geo \ Presets : g # h /\ SameButColons(g, h)
        \/ <<"preset", "telegram_combo">> \in geo /\ SameButColons(g, Telegram)
        \/ <<"preset", "discord_combo">> \in geo /\ SameButColons(g, Discord)

\* When the engine refuses to start on the configuration - a rule names a rule
\* set it was not given, two sets share a tag (router.go, Initialize), a bypass
\* is no prefix: for no list the user can enter and no pack file missing, except
\* in rule mode for an entry that stands for a set which is there already, and
\* for a server given as an IPv6 literal or by a name that begins with a digit.
RefusedOnlyFor ==
    \A s \in ServerKinds :
        TagsDefined(Plan(s)) /\ TagsUnique /\ BypassParses(s)
        <=> s \notin {"ipv6", "digits"} /\ ~(mode = "rule" /\ Clash)

\* The mode decides.  In rule mode a connection that no listed domain, entry or
\* process covers does not go through the proxy.  In global mode everything
\* does, but for DNS, the server, private addresses, three whitelisted names,
\* advertising and the list of the outside pack, and nothing in the lists of
\* the user changes that.
ModeDecides ==
    LET plan == Plan("ipv4")
        covered == domains \cup {TagOf(g) : g \in geo}
        names == processes
                 \cup (IF Combo("telegram_combo") THEN TelegramNames ELSE {})
                 \cup (IF Combo("discord_combo") THEN DiscordNames ELSE {})
        exempt == {<<"port", "53">>, ServerFact, <<"ip", "private">>,
                   <<"keyword", "yandex">>, Ads}
                  \cup (IF "outside" \in packs THEN {<<"pack", "outside">>} ELSE {})
    IN  \A c \in Connections :
          /\ mode = "rule" /\ c.facts \cap covered = {} /\ c.process \notin names =>
                 Route(plan, Final, c) # "proxy"
          /\ mode = "global" =>
                 (Route(plan, Final, c) = "proxy" <=> c.facts \cap exempt = {})

\* In rule mode, listing one thing more never takes a connection off the proxy.
Adds ==
    /\ mode = "rule" /\ mode' = "rule" /\ packs' = packs
    /\ domains \subseteq domains' /\ geo \subseteq geo'
    /\ processes \subseteq processes'

AddingKeeps ==
    [][Adds => LET old == Plan("ipv4")  new == Plan("ipv4")'
                   before == Final      after == Final'
               IN  \A c \in Connections :
                     Route(old, before, c) = "proxy" =>
                         Route(new, after, c) = "proxy"]_vars

=============================================================================
