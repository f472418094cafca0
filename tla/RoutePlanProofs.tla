--------------------------- MODULE RoutePlanProofs ---------------------------
(***************************************************************************)
(* Theorems about the generated route, for every set of domains, entries   *)
(* and process names.  The rules are a sequence of eleven; the first that  *)
(* matches decides (LeastHit), and what each promise needs is which of the *)
(* eleven can match, and what those say.  That the engine accepts the      *)
(* result is a statement about tags: two that are equal come from one of   *)
(* the collisions that RefusedOnlyFor names.                               *)
(***************************************************************************)
EXTENDS RoutePlan, SequenceTheorems, WellFoundedInduction, TLAPS

-----------------------------------------------------------------------------
(* The sequence and its first match.                                       *)

\* What is where when two sequences are laid end to end.
LEMMA Joined ==
    ASSUME NEW S, NEW a \in Seq(S), NEW b \in Seq(S)
    PROVE  /\ a \o b \in Seq(S) /\ Len(a \o b) = Len(a) + Len(b)
           /\ \A i \in 1..Len(a) : (a \o b)[i] = a[i]
           /\ \A i \in 1..Len(b) : (a \o b)[i + Len(a)] = b[i]
  <1>1. Len(a) \in Nat /\ Len(b) \in Nat
    BY LenProperties
  <1>2. /\ a \o b \in Seq(S) /\ Len(a \o b) = Len(a) + Len(b)
        /\ \A i \in 1..Len(a) + Len(b) :
              (a \o b)[i] = IF i <= Len(a) THEN a[i] ELSE b[i - Len(a)]
    BY ConcatProperties, Zenon
  <1>3. ASSUME NEW i \in 1..Len(b) PROVE (a \o b)[i + Len(a)] = b[i]
    <2>1. /\ i + Len(a) \in 1..Len(a) + Len(b)
          /\ ~(i + Len(a) <= Len(a)) /\ (i + Len(a)) - Len(a) = i
      BY <1>1
    <2>. QED  BY <1>2, <2>1
  <1>4. ASSUME NEW i \in 1..Len(a) PROVE (a \o b)[i] = a[i]
    <2>1. i \in 1..Len(a) + Len(b) /\ i <= Len(a)
      BY <1>1
    <2>. QED  BY <1>2, <2>1
  <1>. QED  BY <1>2, <1>3, <1>4

\* The three groups of config.rs laid end to end.
LEMMA Eleven ==
    ASSUME NEW r1, NEW r2, NEW r3, NEW r4, NEW r5, NEW r6, NEW r7,
           NEW r8, NEW r9, NEW r10, NEW r11
    PROVE  LET p == <<r1, r2, r3, r4>> \o <<r5, r6, r7>> \o <<r8, r9, r10, r11>>
           IN  /\ DOMAIN p = 1..11
               /\ p[1] = r1 /\ p[2] = r2 /\ p[3] = r3 /\ p[4] = r4
               /\ p[5] = r5 /\ p[6] = r6 /\ p[7] = r7
               /\ p[8] = r8 /\ p[9] = r9 /\ p[10] = r10 /\ p[11] = r11
  <1> DEFINE S == {r1, r2, r3, r4, r5, r6, r7, r8, r9, r10, r11}
             top == <<r1, r2, r3, r4>>
             middle == <<r5, r6, r7>>
             last == <<r8, r9, r10, r11>>
  <1>1. top \in Seq(S) /\ middle \in Seq(S) /\ last \in Seq(S)
    OBVIOUS
  <1>2. /\ Len(top) = 4 /\ Len(middle) = 3 /\ Len(last) = 4
        /\ top[1] = r1 /\ top[2] = r2 /\ top[3] = r3 /\ top[4] = r4
        /\ middle[1] = r5 /\ middle[2] = r6 /\ middle[3] = r7
        /\ last[1] = r8 /\ last[2] = r9 /\ last[3] = r10 /\ last[4] = r11
    OBVIOUS
  <1> DEFINE q == top \o middle
             p == q \o last
  <1>. HIDE DEF S, top, middle, last, q, p
  <1>3. /\ q \in Seq(S) /\ Len(q) = Len(top) + Len(middle)
        /\ \A i \in 1..Len(top) : q[i] = top[i]
        /\ \A i \in 1..Len(middle) : q[i + Len(top)] = middle[i]
    BY <1>1, Joined DEF q
  <1>4. /\ Len(q) = 7
        /\ q[1] = r1 /\ q[2] = r2 /\ q[3] = r3 /\ q[4] = r4
        /\ q[5] = r5 /\ q[6] = r6 /\ q[7] = r7
    BY <1>2, <1>3
  <1>5. /\ p \in Seq(S) /\ Len(p) = Len(q) + Len(last)
        /\ \A i \in 1..Len(q) : p[i] = q[i]
        /\ \A i \in 1..Len(last) : p[i + Len(q)] = last[i]
    <2>1. q \in Seq(S) /\ last \in Seq(S)
      BY <1>1, <1>3
    <2>. QED  BY <2>1, Joined DEF p
  <1>6. p[8] = r8 /\ p[9] = r9 /\ p[10] = r10 /\ p[11] = r11
    BY <1>2, <1>4, <1>5
  <1>7. /\ p[1] = r1 /\ p[2] = r2 /\ p[3] = r3 /\ p[4] = r4
        /\ p[5] = r5 /\ p[6] = r6 /\ p[7] = r7
    BY <1>4, <1>5
  <1>8. DOMAIN p = 1..11
    BY <1>2, <1>4, <1>5
  <1>. QED  BY <1>6, <1>7, <1>8 DEF p, q, top, middle, last

\* A set of positions that is not empty has a least one, and Min is it.
LEMMA LeastPosition ==
    ASSUME NEW S, S # {}, S \subseteq Nat
    PROVE  Min(S) \in S /\ \A k \in S : Min(S) <= k
  <1>1. PICK k \in S : \A j \in S : ~(<<j, k>> \in OpToRel(<, Nat))
    BY WFMin, NatLessThanWellFounded
  <1>2. \A j \in S : k <= j
    <2>. SUFFICES ASSUME NEW j \in S PROVE k <= j
      OBVIOUS
    <2>1. ~(j < k)
      BY <1>1 DEF OpToRel
    <2>. QED  BY <2>1
  <1>3. \E i \in S : \A j \in S : i <= j
    BY <1>2
  <1>. QED  BY <1>3 DEF Min

\* Where a plan sends a connection: the first rule that matches says, or no
\* rule does and the default says.
LEMMA LeastHit ==
    ASSUME NEW plan, DOMAIN plan = 1..11, NEW final, NEW c
    PROVE  \/ /\ \A k \in 1..11 : ~Matches(plan[k], c)
              /\ Route(plan, final, c) = final
           \/ \E k \in 1..11 :
                 /\ Matches(plan[k], c)
                 /\ \A j \in 1..11 : Matches(plan[j], c) => k <= j
                 /\ Route(plan, final, c) = plan[k].do
  <1> DEFINE hits == {k \in DOMAIN plan : Matches(plan[k], c)}
  <1>1. Route(plan, final, c) = IF hits = {} THEN final ELSE plan[Min(hits)].do
    BY DEF Route
  <1>2. CASE hits = {}
    BY <1>1, <1>2
  <1>3. CASE hits # {}
    <2>1. Min(hits) \in hits /\ \A k \in hits : Min(hits) <= k
      BY <1>3, LeastPosition
    <2>2. Route(plan, final, c) = plan[Min(hits)].do
      BY <1>1, <1>3
    <2>. QED  BY <2>1, <2>2
  <1>. QED  BY <1>2, <1>3

\* The eleven rules of a plan in which the server's bypass can be parsed.
Shape(plan) ==
    /\ DOMAIN plan = 1..11
    /\ plan[1] = Rule({<<"port", "53">>}, {}, "dns")
    /\ plan[2] = Rule({ServerFact}, {}, "direct")
    /\ plan[3] = Rule({<<"ip", "private">>}, {}, "direct")
    /\ plan[4] = Rule({}, Listed, "proxy")
    /\ plan[5] = Rule({<<"keyword", "yandex">>}, {}, "direct")
    /\ plan[6] = Rule({Ads}, {}, "reject")
    /\ plan[7] = Rule(IF "outside" \in packs THEN {<<"pack", "outside">>} ELSE {},
                      {}, "direct")
    /\ plan[8] = Rule(IF mode = "rule" THEN domains ELSE {}, {}, "proxy")
    /\ plan[9] = Rule({}, IF Combo("telegram_combo") THEN TelegramNames ELSE {},
                      "proxy")
    /\ plan[10] = Rule({}, IF Combo("discord_combo") THEN DiscordNames ELSE {},
                       "proxy")
    /\ plan[11] = Rule({TagOf(g) : g \in Tagged}, {}, "proxy")

\* Every such plan has that shape, whatever the user listed.
LEMMA PlanShape ==
    \A s \in ServerKinds : BypassParses(s) => Shape(Plan(s))
  <1>. SUFFICES ASSUME NEW s \in ServerKinds, BypassParses(s) PROVE Shape(Plan(s))
    OBVIOUS
  <1> DEFINE r1 == Rule({<<"port", "53">>}, {}, "dns")
             r2 == Rule({ServerFact}, {}, "direct")
             r3 == Rule({<<"ip", "private">>}, {}, "direct")
             r4 == Rule({}, Listed, "proxy")
             r5 == Rule({<<"keyword", "yandex">>}, {}, "direct")
             r6 == Rule({Ads}, {}, "reject")
             r7 == Rule(IF "outside" \in packs THEN {<<"pack", "outside">>} ELSE {},
                        {}, "direct")
             r8 == Rule(IF mode = "rule" THEN domains ELSE {}, {}, "proxy")
             r9 == Rule({}, IF Combo("telegram_combo") THEN TelegramNames ELSE {},
                        "proxy")
             r10 == Rule({}, IF Combo("discord_combo") THEN DiscordNames ELSE {},
                         "proxy")
             r11 == Rule({TagOf(g) : g \in Tagged}, {}, "proxy")
  <1>1. TopRules(s, Listed) = <<r1, r2, r3, r4>>
    BY Zenon DEF TopRules
  <1>2. MiddleRules = <<r5, r6, r7>>
    BY Zenon DEF MiddleRules
  <1>3. LastRules = <<r8, r9, r10, r11>>
    BY Zenon DEF LastRules
  <1>4. Plan(s) = <<r1, r2, r3, r4>> \o <<r5, r6, r7>> \o <<r8, r9, r10, r11>>
    BY <1>1, <1>2, <1>3, Zenon DEF Plan
  <1>. HIDE DEF r1, r2, r3, r4, r5, r6, r7, r8, r9, r10, r11
  <1>5. /\ DOMAIN Plan(s) = 1..11
        /\ Plan(s)[1] = r1 /\ Plan(s)[2] = r2 /\ Plan(s)[3] = r3
        /\ Plan(s)[4] = r4 /\ Plan(s)[5] = r5 /\ Plan(s)[6] = r6
        /\ Plan(s)[7] = r7 /\ Plan(s)[8] = r8 /\ Plan(s)[9] = r9
        /\ Plan(s)[10] = r10 /\ Plan(s)[11] = r11
    BY <1>4, Eleven
  <1>. QED
    BY <1>5, Zenon DEF Shape, r1, r2, r3, r4, r5, r6, r7, r8, r9, r10, r11

\* When each of the eleven matches a connection.
LEMMA ShapeMatches ==
    ASSUME NEW plan, Shape(plan), NEW c
    PROVE  /\ Matches(plan[1], c) <=> <<"port", "53">> \in c.facts
           /\ Matches(plan[2], c) <=> ServerFact \in c.facts
           /\ Matches(plan[3], c) <=> <<"ip", "private">> \in c.facts
           /\ Matches(plan[4], c) <=> c.process \in Listed
           /\ Matches(plan[5], c) <=> <<"keyword", "yandex">> \in c.facts
           /\ Matches(plan[6], c) <=> Ads \in c.facts
           /\ Matches(plan[7], c) <=> /\ "outside" \in packs
                                      /\ <<"pack", "outside">> \in c.facts
           /\ Matches(plan[8], c) <=> mode = "rule" /\ domains \cap c.facts # {}
           /\ Matches(plan[9], c) <=> /\ Combo("telegram_combo")
                                      /\ c.process \in TelegramNames
           /\ Matches(plan[10], c) <=> /\ Combo("discord_combo")
                                       /\ c.process \in DiscordNames
           /\ Matches(plan[11], c) <=> {TagOf(g) : g \in Tagged} \cap c.facts # {}
  <1>1. ASSUME NEW facts, NEW names, NEW out
        PROVE  Matches(Rule(facts, names, out), c) <=>
                   facts \cap c.facts # {} \/ c.process \in names
    BY DEF Matches, Rule
  <1>2. ASSUME NEW f, NEW out
        PROVE  Matches(Rule({f}, {}, out), c) <=> f \in c.facts
    BY <1>1
  <1>3. ASSUME NEW facts, NEW out
         PROVE  Matches(Rule(facts, {}, out), c) <=> facts \cap c.facts # {}
    BY <1>1
  <1>4. ASSUME NEW names, NEW out
         PROVE  Matches(Rule({}, names, out), c) <=> c.process \in names
    BY <1>1
  <1>5. /\ Matches(plan[1], c) <=> <<"port", "53">> \in c.facts
        /\ Matches(plan[2], c) <=> ServerFact \in c.facts
        /\ Matches(plan[3], c) <=> <<"ip", "private">> \in c.facts
        /\ Matches(plan[5], c) <=> <<"keyword", "yandex">> \in c.facts
        /\ Matches(plan[6], c) <=> Ads \in c.facts
    <2>1. /\ plan[1] = Rule({<<"port", "53">>}, {}, "dns")
          /\ plan[2] = Rule({ServerFact}, {}, "direct")
          /\ plan[3] = Rule({<<"ip", "private">>}, {}, "direct")
      BY DEF Shape
    <2>2. /\ plan[5] = Rule({<<"keyword", "yandex">>}, {}, "direct")
          /\ plan[6] = Rule({Ads}, {}, "reject")
      BY DEF Shape
    <2>3. Matches(plan[1], c) <=> <<"port", "53">> \in c.facts
      BY <1>2, <2>1, Zenon
    <2>4. Matches(plan[2], c) <=> ServerFact \in c.facts
      BY <1>2, <2>1, Zenon
    <2>5. Matches(plan[3], c) <=> <<"ip", "private">> \in c.facts
      BY <1>2, <2>1, Zenon
    <2>6. Matches(plan[5], c) <=> <<"keyword", "yandex">> \in c.facts
      BY <1>2, <2>2, Zenon
    <2>7. Matches(plan[6], c) <=> Ads \in c.facts
      BY <1>2, <2>2, Zenon
    <2>. QED  BY <2>3, <2>4, <2>5, <2>6, <2>7
  <1>6. Matches(plan[7], c) <=> /\ "outside" \in packs
                                /\ <<"pack", "outside">> \in c.facts
    <2> DEFINE facts == IF "outside" \in packs THEN {<<"pack", "outside">>} ELSE {}
    <2>1. plan[7] = Rule(facts, {}, "direct")
      BY DEF Shape
    <2>2. Matches(plan[7], c) <=> facts \cap c.facts # {}
      <3>. HIDE DEF facts
      <3>. QED  BY <1>3, <2>1
    <2>. QED  BY <2>2
  <1>7. Matches(plan[4], c) <=> c.process \in Listed
    <2>1. plan[4] = Rule({}, Listed, "proxy")
      BY DEF Shape
    <2>. QED  BY <1>4, <2>1, Zenon
  <1>8. Matches(plan[8], c) <=> mode = "rule" /\ domains \cap c.facts # {}
    <2> DEFINE facts == IF mode = "rule" THEN domains ELSE {}
    <2>1. plan[8] = Rule(facts, {}, "proxy")
      BY DEF Shape
    <2>2. Matches(plan[8], c) <=> facts \cap c.facts # {}
      <3>. HIDE DEF facts
      <3>. QED  BY <1>3, <2>1
    <2>. QED  BY <2>2
  <1>9. Matches(plan[9], c) <=> /\ Combo("telegram_combo")
                                /\ c.process \in TelegramNames
    <2> DEFINE names == IF Combo("telegram_combo") THEN TelegramNames ELSE {}
    <2>1. plan[9] = Rule({}, names, "proxy")
      BY DEF Shape
    <2>2. Matches(plan[9], c) <=> c.process \in names
      <3>. HIDE DEF names
      <3>. QED  BY <1>4, <2>1
    <2>. QED  BY <2>2
  <1>10. Matches(plan[10], c) <=> /\ Combo("discord_combo")
                                 /\ c.process \in DiscordNames
    <2> DEFINE names == IF Combo("discord_combo") THEN DiscordNames ELSE {}
    <2>1. plan[10] = Rule({}, names, "proxy")
      BY DEF Shape
    <2>2. Matches(plan[10], c) <=> c.process \in names
      <3>. HIDE DEF names
      <3>. QED  BY <1>4, <2>1
    <2>. QED  BY <2>2
  <1>11. Matches(plan[11], c) <=> {TagOf(g) : g \in Tagged} \cap c.facts # {}
    <2> DEFINE facts == {TagOf(g) : g \in Tagged}
    <2>1. plan[11] = Rule(facts, {}, "proxy")
      BY DEF Shape
    <2>2. Matches(plan[11], c) <=> facts \cap c.facts # {}
      <3>. HIDE DEF facts
      <3>. QED  BY <1>3, <2>1
    <2>. QED  BY <2>2
  <1>. QED  BY <1>5, <1>6, <1>7, <1>8, <1>9, <1>10, <1>11

\* A position of the eleven, one by one.
LEMMA Positions ==
    ASSUME NEW k \in 1..11
    PROVE  \/ k = 1 \/ k = 2 \/ k = 3 \/ k = 4 \/ k = 5 \/ k = 6
           \/ k = 7 \/ k = 8 \/ k = 9 \/ k = 10 \/ k = 11
  OBVIOUS

\* What each of the eleven says.
LEMMA ShapeSays ==
    ASSUME NEW plan, Shape(plan)
    PROVE  /\ plan[1].do = "dns" /\ plan[2].do = "direct" /\ plan[3].do = "direct"
           /\ plan[4].do = "proxy" /\ plan[5].do = "direct"
           /\ plan[6].do = "reject" /\ plan[7].do = "direct"
           /\ plan[8].do = "proxy" /\ plan[9].do = "proxy"
           /\ plan[10].do = "proxy" /\ plan[11].do = "proxy"
  <1>1. \A facts, names, out : Rule(facts, names, out).do = out
    BY DEF Rule
  <1>2. plan[1].do = "dns" /\ plan[2].do = "direct" /\ plan[3].do = "direct"
    BY <1>1 DEF Shape
  <1>3. plan[4].do = "proxy" /\ plan[5].do = "direct" /\ plan[6].do = "reject"
    BY <1>1 DEF Shape
  <1>4. plan[7].do = "direct" /\ plan[8].do = "proxy"
    BY <1>1 DEF Shape
  <1>5. plan[9].do = "proxy" /\ plan[10].do = "proxy" /\ plan[11].do = "proxy"
    BY <1>1 DEF Shape
  <1>. QED  BY <1>2, <1>3, <1>4, <1>5

-----------------------------------------------------------------------------
(* What the order of the rules gives in every state.                       *)

\* The bypasses come first: see BypassFirst.
LEMMA BypassHolds == BypassFirst
  <1>. SUFFICES ASSUME NEW s \in ServerKinds, BypassParses(s),
                       NEW c \in Connections,
                       c.facts \cap {ServerFact, <<"ip", "private">>} # {},
                       <<"port", "53">> \notin c.facts
                PROVE  Route(Plan(s), Final, c) = "direct"
    BY DEF BypassFirst
  <1> DEFINE plan == Plan(s)
  <1>. HIDE DEF plan
  <1>1. Shape(plan)
    BY PlanShape DEF plan
  <1>2. ~Matches(plan[1], c) /\ (Matches(plan[2], c) \/ Matches(plan[3], c))
    BY <1>1, ShapeMatches
  <1>3. PICK k \in 1..11 : /\ Matches(plan[k], c)
                           /\ \A j \in 1..11 : Matches(plan[j], c) => k <= j
                           /\ Route(plan, Final, c) = plan[k].do
    <2>1. DOMAIN plan = 1..11
      BY <1>1 DEF Shape
    <2>. QED  BY <1>2, <2>1, LeastHit
  <1>4. k <= 3 /\ k # 1
    BY <1>2, <1>3
  <1>5. k = 2 \/ k = 3
    BY <1>4
  <1>. QED  BY <1>1, <1>3, <1>5, ShapeSays DEF plan

\* A listed process goes ahead of everything but DNS and the bypasses: see
\* ProcessFirst.
LEMMA ProcessHolds == ProcessFirst
  <1>. SUFFICES ASSUME mode = "rule", NEW c \in Connections,
                       c.process \in processes,
                       c.facts \cap {<<"port", "53">>, ServerFact,
                                     <<"ip", "private">>} = {}
                PROVE  Route(Plan("ipv4"), Final, c) = "proxy"
    BY DEF ProcessFirst
  <1> DEFINE plan == Plan("ipv4")
  <1>. HIDE DEF plan
  <1>1. Shape(plan)
    BY PlanShape DEF plan, ServerKinds, BypassParses, IsIp
  <1>2. /\ ~Matches(plan[1], c) /\ ~Matches(plan[2], c) /\ ~Matches(plan[3], c)
        /\ Matches(plan[4], c)
    <2>1. c.process \in Listed
      BY DEF Listed
    <2>. QED  BY <1>1, <2>1, ShapeMatches
  <1>3. PICK k \in 1..11 : /\ Matches(plan[k], c)
                           /\ \A j \in 1..11 : Matches(plan[j], c) => k <= j
                           /\ Route(plan, Final, c) = plan[k].do
    <2>1. DOMAIN plan = 1..11
      BY <1>1 DEF Shape
    <2>. QED  BY <1>2, <2>1, LeastHit
  <1>4. k = 4
    BY <1>2, <1>3
  <1>. QED  BY <1>1, <1>3, <1>4, ShapeSays DEF plan

\* In rule mode the proxy is not the default, and only a rule for something
\* listed sends a connection there: the first half of ModeDecides.
LEMMA RuleModeHolds ==
    ASSUME mode = "rule", NEW c \in Connections,
           c.facts \cap (domains \cup {TagOf(g) : g \in geo}) = {},
           c.process \notin processes
               \cup (IF Combo("telegram_combo") THEN TelegramNames ELSE {})
               \cup (IF Combo("discord_combo") THEN DiscordNames ELSE {})
    PROVE  Route(Plan("ipv4"), Final, c) # "proxy"
  <1> DEFINE covered == domains \cup {TagOf(g) : g \in geo}
             names == processes
                      \cup (IF Combo("telegram_combo") THEN TelegramNames ELSE {})
                      \cup (IF Combo("discord_combo") THEN DiscordNames ELSE {})
             plan == Plan("ipv4")
  <1>1. c.process \notin Listed
    BY DEF Listed, TelegramNames, DiscordNames
  <1>2. domains \cap c.facts = {} /\ {TagOf(g) : g \in Tagged} \cap c.facts = {}
    BY DEF Tagged
  <1>3. /\ ~(Combo("telegram_combo") /\ c.process \in TelegramNames)
        /\ ~(Combo("discord_combo") /\ c.process \in DiscordNames)
    OBVIOUS
  <1>4. Final = "direct"
    BY DEF Final
  <1>. HIDE DEF plan, covered, names
  <1>5. Shape(plan)
    BY PlanShape DEF plan, ServerKinds, BypassParses, IsIp
  <1>6. /\ ~Matches(plan[4], c) /\ ~Matches(plan[8], c) /\ ~Matches(plan[9], c)
        /\ ~Matches(plan[10], c) /\ ~Matches(plan[11], c)
    BY <1>1, <1>2, <1>3, <1>5, ShapeMatches
  <1>7. DOMAIN plan = 1..11
    BY <1>5 DEF Shape
  <1>8. CASE Route(plan, Final, c) = Final
    BY <1>4, <1>8 DEF plan
  <1>9. ASSUME NEW k \in 1..11, Matches(plan[k], c),
               Route(plan, Final, c) = plan[k].do
        PROVE  Route(plan, Final, c) # "proxy"
    <2>1. k = 1 \/ k = 2 \/ k = 3 \/ k = 5 \/ k = 6 \/ k = 7
      BY <1>6, <1>9, Positions
    <2>. QED  BY <1>5, <1>9, <2>1, ShapeSays
  <1>. QED  BY <1>7, <1>8, <1>9, LeastHit DEF plan

\* In global mode no rule of the user's is written, the rules that are send
\* nothing to the proxy, and the default is the proxy: the second half.
LEMMA GlobalModeHolds ==
    ASSUME mode = "global", NEW c \in Connections
    PROVE  Route(Plan("ipv4"), Final, c) = "proxy" <=>
             c.facts \cap
               ({<<"port", "53">>, ServerFact, <<"ip", "private">>,
                 <<"keyword", "yandex">>, Ads}
                \cup (IF "outside" \in packs THEN {<<"pack", "outside">>} ELSE {}))
             = {}
  <1> DEFINE plan == Plan("ipv4")
             outside == "outside" \in packs /\ <<"pack", "outside">> \in c.facts
             exempt == \/ <<"port", "53">> \in c.facts \/ ServerFact \in c.facts
                       \/ <<"ip", "private">> \in c.facts
                       \/ <<"keyword", "yandex">> \in c.facts \/ Ads \in c.facts
                       \/ outside
  <1>1. c.facts \cap
          ({<<"port", "53">>, ServerFact, <<"ip", "private">>,
            <<"keyword", "yandex">>, Ads}
           \cup (IF "outside" \in packs THEN {<<"pack", "outside">>} ELSE {})) = {}
        <=> ~exempt
    OBVIOUS
  <1>2. Final = "proxy" /\ Listed = {} /\ Tagged = {}
    BY DEF Final, Listed, Tagged, Combo
  <1>. HIDE DEF plan
  <1>3. Shape(plan)
    BY PlanShape DEF plan, ServerKinds, BypassParses, IsIp
  <1>4. /\ ~Matches(plan[4], c) /\ ~Matches(plan[8], c) /\ ~Matches(plan[9], c)
        /\ ~Matches(plan[10], c) /\ ~Matches(plan[11], c)
    BY <1>2, <1>3, ShapeMatches DEF Combo
  <1>5. exempt <=> \/ Matches(plan[1], c) \/ Matches(plan[2], c)
                   \/ Matches(plan[3], c) \/ Matches(plan[5], c)
                   \/ Matches(plan[6], c) \/ Matches(plan[7], c)
    BY <1>3, ShapeMatches
  <1>6. DOMAIN plan = 1..11
    BY <1>3 DEF Shape
  <1>7. CASE /\ \A k \in 1..11 : ~Matches(plan[k], c)
             /\ Route(plan, Final, c) = Final
    <2>1. ~exempt
      BY <1>5, <1>7
    <2>. QED  BY <1>1, <1>2, <1>7, <2>1 DEF plan
  <1>8. ASSUME NEW k \in 1..11, Matches(plan[k], c),
               Route(plan, Final, c) = plan[k].do
        PROVE  exempt /\ Route(plan, Final, c) # "proxy"
    <2>1. k = 1 \/ k = 2 \/ k = 3 \/ k = 5 \/ k = 6 \/ k = 7
      BY <1>4, <1>8, Positions
    <2>2. exempt
      BY <1>5, <1>8, <2>1
    <2>. QED  BY <1>3, <1>8, <2>1, <2>2, ShapeSays
  <1>9. CASE \E k \in 1..11 : Matches(plan[k], c) /\ Route(plan, Final, c) = plan[k].do
    <2>1. exempt /\ Route(plan, Final, c) # "proxy"
      BY <1>8, <1>9
    <2>. QED  BY <1>1, <2>1 DEF plan
  <1>. QED  BY <1>6, <1>7, <1>9, LeastHit

\* What the mode decides: see ModeDecides.
LEMMA ModeHolds == ModeDecides
  BY RuleModeHolds, GlobalModeHolds DEF ModeDecides

-----------------------------------------------------------------------------
(* What a longer list gives: the table of matches before and after a step.  *)

\* When each rule of the plan matches, and what it says, in one state.
PlanTable ==
    LET plan == Plan("ipv4")
    IN  /\ DOMAIN plan = 1..11
        /\ plan[1].do = "dns" /\ plan[2].do = "direct" /\ plan[3].do = "direct"
        /\ plan[4].do = "proxy" /\ plan[5].do = "direct"
        /\ plan[6].do = "reject" /\ plan[7].do = "direct"
        /\ plan[8].do = "proxy" /\ plan[9].do = "proxy"
        /\ plan[10].do = "proxy" /\ plan[11].do = "proxy"
        /\ \A c :
              /\ Matches(plan[1], c) <=> <<"port", "53">> \in c.facts
              /\ Matches(plan[2], c) <=> ServerFact \in c.facts
              /\ Matches(plan[3], c) <=> <<"ip", "private">> \in c.facts
              /\ Matches(plan[4], c) <=> c.process \in Listed
              /\ Matches(plan[5], c) <=> <<"keyword", "yandex">> \in c.facts
              /\ Matches(plan[6], c) <=> Ads \in c.facts
              /\ Matches(plan[7], c) <=> /\ "outside" \in packs
                                         /\ <<"pack", "outside">> \in c.facts
              /\ Matches(plan[8], c) <=> mode = "rule" /\ domains \cap c.facts # {}
              /\ Matches(plan[9], c) <=> /\ Combo("telegram_combo")
                                         /\ c.process \in TelegramNames
              /\ Matches(plan[10], c) <=> /\ Combo("discord_combo")
                                          /\ c.process \in DiscordNames
              /\ Matches(plan[11], c) <=>
                    {TagOf(g) : g \in Tagged} \cap c.facts # {}

\* The table is that of every state.
LEMMA PlanTableHolds == PlanTable
  <1> DEFINE plan == Plan("ipv4")
  <1>. HIDE DEF plan
  <1>1. Shape(plan)
    BY PlanShape DEF plan, ServerKinds, BypassParses, IsIp
  <1>2. DOMAIN plan = 1..11
    BY <1>1 DEF Shape
  <1>. QED  BY <1>1, <1>2, ShapeMatches, ShapeSays, Zenon DEF PlanTable, plan

\* A step that only adds leaves the proxied connections proxied: the rule that
\* sent one there still matches, and no rule before it that says otherwise has
\* come to match.
LEMMA AddingStep ==
    ASSUME Adds, NEW c, Route(Plan("ipv4"), Final, c) = "proxy"
    PROVE  Route(Plan("ipv4")', Final', c) = "proxy"
  <1> DEFINE old == Plan("ipv4")
             new == Plan("ipv4")'
  <1>1. PlanTable /\ PlanTable'
    BY PlanTableHolds, PTL
  <1>2. PICK k \in 1..11 : /\ Matches(old[k], c)
                           /\ \A j \in 1..11 : Matches(old[j], c) => k <= j
                           /\ old[k].do = "proxy"
    <2>1. Final = "direct"
      BY DEF Adds, Final
    <2>2. DOMAIN old = 1..11
      BY <1>1 DEF PlanTable
    <2>. HIDE DEF old
    <2>3. Route(old, Final, c) # Final
      BY <2>1 DEF old
    <2>. QED  BY <2>2, <2>3, LeastHit DEF old
  <1>3. k \in {4, 8, 9, 10, 11}
    <2>. HIDE DEF old
    <2>. QED  BY <1>1, <1>2, Positions DEF PlanTable, old
  <1>4. /\ Listed \subseteq Listed' /\ domains \subseteq domains'
        /\ Tagged \subseteq Tagged' /\ packs' = packs
        /\ \A n \in {"telegram_combo", "discord_combo"} : Combo(n) => Combo(n)'
        /\ mode = "rule" /\ mode' = "rule"
    BY DEF Adds, Listed, Tagged, Combo
  <1>5. {TagOf(g) : g \in Tagged} \subseteq {TagOf(g) : g \in Tagged}'
    BY <1>4
  <1>. HIDE DEF old, new
  <1>6. Matches(new[k], c)
    BY <1>1, <1>2, <1>3, <1>4, <1>5 DEF PlanTable, old, new
  <1>7. \A j \in {1, 2, 3, 5, 6, 7} : Matches(new[j], c) => Matches(old[j], c)
    BY <1>1, <1>4 DEF PlanTable, old, new
  <1>8. DOMAIN new = 1..11
    BY <1>1 DEF PlanTable, new
  <1>9. PICK j \in 1..11 : /\ Matches(new[j], c)
                           /\ \A i \in 1..11 : Matches(new[i], c) => j <= i
                           /\ Route(new, Final', c) = new[j].do
    BY <1>6, <1>8, LeastHit
  <1>10. j \notin {1, 2, 3, 5, 6, 7}
    <2>. SUFFICES ASSUME j \in {1, 2, 3, 5, 6, 7} PROVE FALSE
      OBVIOUS
    <2>1. Matches(old[j], c)
      BY <1>7, <1>9
    <2>2. k <= j /\ j <= k
      BY <1>2, <1>6, <1>9, <2>1
    <2>. QED  BY <1>3, <2>2
  <1>11. j \in {4, 8, 9, 10, 11}
    BY <1>10, Positions
  <1>12. new[j].do = "proxy"
    BY <1>1, <1>11 DEF PlanTable, new
  <1>. QED  BY <1>9, <1>12 DEF new

-----------------------------------------------------------------------------
(* Which configurations the engine refuses.                                *)

\* An entry of a kind the code accepts, and nothing else, is in the list.
SourcesInv == domains \subseteq Domains /\ \A g \in geo : HasSource(g)

\* A name without colons is left as it is.
LEMMA DashedSame ==
    ASSUME NEW n, n = [i \in DOMAIN n |-> n[i]], \A i \in DOMAIN n : n[i] # ":"
    PROVE  Dashed(n) = n
  <1>1. Dashed(n) = [i \in DOMAIN n |-> n[i]]
    BY DEF Dashed
  <1>. QED  BY <1>1

\* Two names lose their difference where it is colons for dashes, and only there.
LEMMA SameDashes ==
    ASSUME NEW m, NEW n
    PROVE  Dashed(m) = Dashed(n) <=>
               /\ DOMAIN m = DOMAIN n
               /\ \A i \in DOMAIN m : m[i] = n[i] \/ {m[i], n[i]} = {":", "-"}
  <1> DEFINE Dash(x) == IF x = ":" THEN "-" ELSE x
  <1>1. \A x, y : Dash(x) = Dash(y) <=> x = y \/ {x, y} = {":", "-"}
    OBVIOUS
  <1>2. /\ Dashed(m) = [i \in DOMAIN m |-> Dash(m[i])]
        /\ Dashed(n) = [i \in DOMAIN n |-> Dash(n[i])]
    BY DEF Dashed
  <1>. HIDE DEF Dash
  <1>3. ASSUME Dashed(m) = Dashed(n)
        PROVE  DOMAIN m = DOMAIN n /\ \A i \in DOMAIN m : Dash(m[i]) = Dash(n[i])
    <2>1. DOMAIN Dashed(m) = DOMAIN m /\ DOMAIN Dashed(n) = DOMAIN n
      BY <1>2
    <2>2. \A i \in DOMAIN m : Dashed(m)[i] = Dash(m[i])
      BY <1>2
    <2>3. \A i \in DOMAIN n : Dashed(n)[i] = Dash(n[i])
      BY <1>2
    <2>. QED  BY <1>3, <2>1, <2>2, <2>3
  <1>4. ASSUME DOMAIN m = DOMAIN n, \A i \in DOMAIN m : Dash(m[i]) = Dash(n[i])
        PROVE  Dashed(m) = Dashed(n)
    BY <1>2, <1>4
  <1>. QED  BY <1>1, <1>3, <1>4

\* The three names the code writes itself are such names.
LEMMA OwnNames ==
    /\ Ads[1] = "geosite" /\ Dashed(Ads[2]) = Ads[2]
    /\ Telegram[1] = "geosite" /\ Dashed(Telegram[2]) = Telegram[2]
    /\ Discord[1] = "geosite" /\ Dashed(Discord[2]) = Discord[2]
  <1> DEFINE ads == <<"category", "-", "ads", "-", "all">>
             telegram == <<"telegram">>
             discord == <<"discord">>
  <1>1. Ads[2] = ads /\ Telegram[2] = telegram /\ Discord[2] = discord
    BY DEF Ads, Telegram, Discord
  <1>2. Ads[1] = "geosite" /\ Telegram[1] = "geosite" /\ Discord[1] = "geosite"
    BY DEF Ads, Telegram, Discord
  <1>3. ads = [i \in DOMAIN ads |-> ads[i]] /\ \A i \in DOMAIN ads : ads[i] # ":"
    OBVIOUS
  <1>4. /\ telegram = [i \in DOMAIN telegram |-> telegram[i]]
        /\ \A i \in DOMAIN telegram : telegram[i] # ":"
    OBVIOUS
  <1>5. /\ discord = [i \in DOMAIN discord |-> discord[i]]
        /\ \A i \in DOMAIN discord : discord[i] # ":"
    OBVIOUS
  <1>. HIDE DEF ads, telegram, discord
  <1>6. Dashed(ads) = ads /\ Dashed(telegram) = telegram /\ Dashed(discord) = discord
    BY <1>3, <1>4, <1>5, DashedSame
  <1>. QED  BY <1>1, <1>2, <1>6

\* An entry the user types, as against a preset.
Typed(g) == g[1] \in {"geosite", "geoip"}

\* The tag of an accepted entry: its kind and its name without colons, or that
\* of the rule set its preset stands for.
LEMMA TagKinds ==
    ASSUME NEW g, HasSource(g)
    PROVE  \/ Typed(g) /\ g \notin Presets /\ TagOf(g) = <<g[1], Dashed(g[2])>>
           \/ g = <<"preset", "russia_pack">> /\ TagOf(g) = <<"pack", "inside">>
           \/ g = <<"preset", "telegram_combo">> /\ TagOf(g) = Telegram
           \/ g = <<"preset", "discord_combo">> /\ TagOf(g) = Discord
  <1>1. CASE g[1] \in {"geosite", "geoip"}
    <2>1. /\ g # <<"preset", "russia_pack">> /\ g # <<"preset", "telegram_combo">>
          /\ g # <<"preset", "discord_combo">>
      BY <1>1
    <2>2. TagOf(g) = <<g[1], Dashed(g[2])>>
      BY <2>1 DEF TagOf
    <2>. QED  BY <1>1, <2>1, <2>2 DEF Typed, Presets
  <1>2. CASE g \in Presets
    BY <1>2 DEF Presets, TagOf
  <1>. QED  BY <1>1, <1>2 DEF HasSource

\* A tag tells typed entries apart but for colons and dashes.
LEMMA TypedTags ==
    ASSUME NEW g, HasSource(g), g \notin Presets
    PROVE  /\ Typed(g)
           /\ TagOf(g) = Ads <=> SameButColons(g, Ads)
           /\ TagOf(g) = Telegram <=> SameButColons(g, Telegram)
           /\ TagOf(g) = Discord <=> SameButColons(g, Discord)
           /\ \A h : HasSource(h) /\ h \notin Presets =>
                        (TagOf(g) = TagOf(h) <=> SameButColons(g, h))
  <1>1. ASSUME NEW h, HasSource(h), h \notin Presets
        PROVE  Typed(h) /\ TagOf(h) = <<h[1], Dashed(h[2])>>
    BY <1>1, TagKinds DEF Presets
  <1>2. ASSUME NEW h, HasSource(h), h \notin Presets
        PROVE  TagOf(g) = TagOf(h) <=> SameButColons(g, h)
    <2>1. /\ TagOf(g) = <<g[1], Dashed(g[2])>>
          /\ TagOf(h) = <<h[1], Dashed(h[2])>>
      BY <1>1, <1>2
    <2>. QED  BY <2>1, SameDashes DEF SameButColons
  <1>3. /\ Ads = <<Ads[1], Ads[2]>> /\ Telegram = <<Telegram[1], Telegram[2]>>
        /\ Discord = <<Discord[1], Discord[2]>>
    BY DEF Ads, Telegram, Discord
  <1>4. ASSUME NEW tag, tag = <<tag[1], tag[2]>>, Dashed(tag[2]) = tag[2]
        PROVE  TagOf(g) = tag <=> SameButColons(g, tag)
    <2>1. TagOf(g) = <<g[1], Dashed(g[2])>>
      BY <1>1
    <2>. QED  BY <1>4, <2>1, SameDashes DEF SameButColons
  <1>. QED  BY <1>1, <1>2, <1>3, <1>4, OwnNames

\* Every tag a rule names comes with its rule set.
LEMMA TagsComplete ==
    ASSUME SourcesInv, NEW plan, Shape(plan)
    PROVE  TagsDefined(plan)
  <1>. SUFFICES ASSUME NEW k \in 1..11, NEW f \in plan[k].facts,
                       f[1] \in {"geosite", "geoip", "pack", "plain"}
                PROVE  \E r \in RuleSets : r[2] = f
    BY DEF TagsDefined, Shape
  <1>1. \A facts, names, out : Rule(facts, names, out).facts = facts
    BY DEF Rule
  <1>2. k \notin {1, 2, 3, 5}
    <2>1. /\ plan[1].facts = {<<"port", "53">>} /\ plan[2].facts = {ServerFact}
          /\ plan[3].facts = {<<"ip", "private">>}
          /\ plan[5].facts = {<<"keyword", "yandex">>}
      BY <1>1 DEF Shape
    <2>. QED  BY <2>1 DEF ServerFact
  <1>3. k \notin {4, 9, 10}
    <2>1. plan[4].facts = {} /\ plan[9].facts = {} /\ plan[10].facts = {}
      BY <1>1 DEF Shape
    <2>. QED  BY <2>1
  <1>4. k # 8
    <2> DEFINE listed == IF mode = "rule" THEN domains ELSE {}
    <2>1. plan[8].facts = listed
      BY <1>1 DEF Shape
    <2>2. \A d \in listed : d[1] = "domain"
      BY DomainsAssumption DEF SourcesInv
    <2>. QED  BY <2>1, <2>2
  <1>5. CASE k = 6
    <2>1. plan[6].facts = {Ads}
      BY <1>1 DEF Shape
    <2>2. <<Always, Ads>> \in RuleSets /\ <<Always, Ads>>[2] = Ads
      BY DEF RuleSets
    <2>. QED  BY <1>5, <2>1, <2>2
  <1>6. CASE k = 7
    <2> DEFINE tag == <<"pack", "outside">>
    <2>1. plan[7].facts = IF "outside" \in packs THEN {tag} ELSE {}
      BY <1>1 DEF Shape
    <2>2. f = tag /\ "outside" \in packs
      BY <1>6, <2>1
    <2>3. <<Always, tag>> \in RuleSets /\ <<Always, tag>>[2] = tag
      BY <2>2 DEF RuleSets
    <2>. QED  BY <2>2, <2>3
  <1>7. CASE k = 11
    <2> DEFINE tags == {TagOf(g) : g \in Tagged}
    <2>1. plan[11].facts = tags
      BY <1>1 DEF Shape
    <2>2. PICK g \in Tagged : f = TagOf(g)
      BY <1>7, <2>1
    <2>3. HasSource(g)
      BY <2>2 DEF Tagged, SourcesInv
    <2>4. <<g, TagOf(g)>> \in RuleSets /\ <<g, TagOf(g)>>[2] = TagOf(g)
      BY <2>3 DEF RuleSets
    <2>. QED  BY <2>2, <2>4
  <1>. QED  BY <1>2, <1>3, <1>4, <1>5, <1>6, <1>7, Positions

\* Two entries that stand for one rule set put its tag there twice.
LEMMA ClashRepeats ==
    ASSUME SourcesInv, mode = "rule", Clash
    PROVE  ~TagsUnique
  <1>1. ASSUME NEW g \in geo, g # <<"preset", "russia_pack">>
        PROVE  HasSource(g) /\ <<g, TagOf(g)>> \in RuleSets
    <2>1. g \in Tagged /\ HasSource(g)
      BY <1>1 DEF Tagged, SourcesInv
    <2>. QED  BY <2>1 DEF RuleSets
  <1>2. ASSUME NEW a, NEW b, NEW tag, <<a, tag>> \in RuleSets,
               <<b, tag>> \in RuleSets, a # b
        PROVE  ~TagsUnique
    <2>1. <<a, tag>>[2] = <<b, tag>>[2] /\ <<a, tag>> # <<b, tag>>
      BY <1>2
    <2>. QED  BY <1>2, <2>1 DEF TagsUnique
  <1>3. PICK g \in geo \ Presets :
          \/ SameButColons(g, Ads)
          \/ \E h \in geo \ Presets : g # h /\ SameButColons(g, h)
          \/ <<"preset", "telegram_combo">> \in geo /\ SameButColons(g, Telegram)
          \/ <<"preset", "discord_combo">> \in geo /\ SameButColons(g, Discord)
    BY DEF Clash
  <1>4. HasSource(g) /\ <<g, TagOf(g)>> \in RuleSets
    BY <1>1 DEF Presets
  <1>5. CASE SameButColons(g, Ads)
    <2>1. TagOf(g) = Ads
      BY <1>4, <1>5, TypedTags
    <2>2. <<Always, Ads>> \in RuleSets
      BY DEF RuleSets
    <2>3. Always # g
      BY <1>4, TypedTags DEF Always, Typed
    <2>. QED  BY <1>2, <1>4, <2>1, <2>2, <2>3
  <1>6. ASSUME NEW h \in geo \ Presets, g # h, SameButColons(g, h)
        PROVE  ~TagsUnique
    <2>1. HasSource(h) /\ <<h, TagOf(h)>> \in RuleSets
      BY <1>1 DEF Presets
    <2>2. TagOf(g) = TagOf(h)
      BY <1>4, <1>6, <2>1, TypedTags
    <2>. QED  BY <1>2, <1>4, <1>6, <2>1, <2>2
  <1>7. ASSUME NEW p \in geo \cap Presets, p # <<"preset", "russia_pack">>,
               TagOf(g) = TagOf(p)
        PROVE  ~TagsUnique
    <2>1. <<p, TagOf(p)>> \in RuleSets
      BY <1>1, <1>7
    <2>. QED  BY <1>2, <1>4, <1>7, <2>1
  <1>8. CASE <<"preset", "telegram_combo">> \in geo /\ SameButColons(g, Telegram)
    <2> DEFINE p == <<"preset", "telegram_combo">>
    <2>1. p \in geo \cap Presets /\ p # <<"preset", "russia_pack">>
      BY <1>8 DEF Presets
    <2>2. TagOf(p) = Telegram
      BY DEF TagOf
    <2>3. TagOf(g) = Telegram
      BY <1>4, <1>8, TypedTags
    <2>. QED  BY <1>7, <2>1, <2>2, <2>3
  <1>9. CASE <<"preset", "discord_combo">> \in geo /\ SameButColons(g, Discord)
    <2> DEFINE p == <<"preset", "discord_combo">>
    <2>1. p \in geo \cap Presets /\ p # <<"preset", "russia_pack">>
      BY <1>9 DEF Presets
    <2>2. TagOf(p) = Discord
      BY DEF TagOf
    <2>3. TagOf(g) = Discord
      BY <1>4, <1>9, TypedTags
    <2>. QED  BY <1>7, <2>1, <2>2, <2>3
  <1>. QED  BY <1>3, <1>5, <1>6, <1>8, <1>9

\* And only they do.
LEMMA UniqueWithoutClash ==
    ASSUME ~(mode = "rule" /\ Clash)
    PROVE  TagsUnique
  <1> DEFINE outside == <<"pack", "outside">>
  <1>1. ASSUME NEW r \in RuleSets
        PROVE  \/ r = <<Always, Ads>> \/ r = <<Always, outside>>
               \/ \E g \in Tagged : HasSource(g) /\ r = <<g, TagOf(g)>>
    BY <1>1 DEF RuleSets
  <1>2. ASSUME NEW g \in Tagged, HasSource(g)
        PROVE  TagOf(g) # Ads /\ TagOf(g) # outside
    <2>1. g \in geo /\ mode = "rule"
      BY DEF Tagged
    <2>2. CASE g \notin Presets
      <3>1. ~SameButColons(g, Ads)
        BY <2>1, <2>2 DEF Clash
      <3>2. TagOf(g) # Ads /\ Typed(g)
        BY <1>2, <2>2, <3>1, TypedTags
      <3>3. TagOf(g)[1] \in {"geosite", "geoip"}
        BY <1>2, <2>2, TagKinds DEF Typed, Presets
      <3>. QED  BY <3>2, <3>3
    <2>3. CASE g \in Presets
      BY <2>3 DEF Presets, TagOf, Ads, Telegram, Discord
    <2>. QED  BY <2>2, <2>3
  <1>3. ASSUME NEW g \in Tagged, NEW h \in Tagged, HasSource(g), HasSource(h),
               TagOf(g) = TagOf(h), g \notin Presets
        PROVE  g = h
    <2>1. g \in geo \ Presets /\ h \in geo /\ mode = "rule" /\ ~Clash
      BY <1>3 DEF Tagged
    <2>2. CASE h \notin Presets
      <3>1. SameButColons(g, h)
        BY <1>3, <2>2, TypedTags
      <3>. QED  BY <2>1, <2>2, <3>1 DEF Clash
    <2>3. CASE h = <<"preset", "russia_pack">>
      <3>1. TagOf(g)[1] \in {"geosite", "geoip"}
        BY <1>3, TagKinds DEF Typed, Presets
      <3>2. TagOf(h) = <<"pack", "inside">>
        BY <2>3 DEF TagOf
      <3>. QED  BY <1>3, <3>1, <3>2
    <2>4. CASE h = <<"preset", "telegram_combo">>
      <3>1. TagOf(g) = Telegram
        BY <1>3, <2>4 DEF TagOf
      <3>2. SameButColons(g, Telegram)
        BY <1>3, <3>1, TypedTags
      <3>. QED  BY <2>1, <2>4, <3>2 DEF Clash
    <2>5. CASE h = <<"preset", "discord_combo">>
      <3>1. TagOf(g) = Discord
        BY <1>3, <2>5 DEF TagOf
      <3>2. SameButColons(g, Discord)
        BY <1>3, <3>1, TypedTags
      <3>. QED  BY <2>1, <2>5, <3>2 DEF Clash
    <2>. QED  BY <2>2, <2>3, <2>4, <2>5 DEF Presets
  <1>4. ASSUME NEW g \in Tagged, NEW h \in Tagged, HasSource(g), HasSource(h),
               TagOf(g) = TagOf(h)
        PROVE  g = h
    <2>1. CASE g \notin Presets \/ h \notin Presets
      BY <1>3, <1>4, <2>1
    <2>2. CASE g \in Presets /\ h \in Presets
      <3>1. Telegram # Discord /\ Telegram[1] = "geosite" /\ Discord[1] = "geosite"
        BY DEF Telegram, Discord
      <3>2. Telegram # <<"pack", "inside">> /\ Discord # <<"pack", "inside">>
        BY <3>1
      <3>. QED  BY <1>4, <2>2, <3>1, <3>2 DEF Presets, TagOf
    <2>. QED  BY <2>1, <2>2
  <1>5. Ads # outside
    BY DEF Ads
  <1>. SUFFICES ASSUME NEW r \in RuleSets, NEW q \in RuleSets, r[2] = q[2]
                PROVE  r = q
    BY DEF TagsUnique
  <1>. HIDE DEF outside
  <1>6. CASE \E g \in Tagged : HasSource(g) /\ r = <<g, TagOf(g)>>
    <2>1. PICK g \in Tagged : HasSource(g) /\ r = <<g, TagOf(g)>>
      BY <1>6
    <2>2. r[2] = TagOf(g)
      BY <2>1
    <2>3. PICK h \in Tagged : HasSource(h) /\ q = <<h, TagOf(h)>>
      <3>1. q # <<Always, Ads>> /\ q # <<Always, outside>>
        BY <1>2, <2>1, <2>2
      <3>. QED  BY <1>1, <3>1
    <2>4. g = h
      BY <1>4, <2>1, <2>2, <2>3
    <2>. QED  BY <2>1, <2>3, <2>4
  <1>7. CASE r = <<Always, Ads>> \/ r = <<Always, outside>>
    <2>1. ~ \E g \in Tagged : HasSource(g) /\ q = <<g, TagOf(g)>>
      <3>. SUFFICES ASSUME NEW g \in Tagged, HasSource(g), q = <<g, TagOf(g)>>
                    PROVE  FALSE
        OBVIOUS
      <3>1. q[2] = TagOf(g) /\ (r[2] = Ads \/ r[2] = outside)
        BY <1>7
      <3>. QED  BY <1>2, <3>1
    <2>2. q = <<Always, Ads>> \/ q = <<Always, outside>>
      BY <1>1, <2>1
    <2>. QED  BY <1>5, <1>7, <2>2
  <1>. QED  BY <1>1, <1>6, <1>7

\* What the engine refuses, in a state whose entries are of an accepted kind:
\* see RefusedOnlyFor.
LEMMA RefusedHolds ==
    ASSUME SourcesInv
    PROVE  RefusedOnlyFor
  <1>. SUFFICES ASSUME NEW s \in ServerKinds
                PROVE  TagsDefined(Plan(s)) /\ TagsUnique /\ BypassParses(s)
                       <=> s \notin {"ipv6", "digits"} /\ ~(mode = "rule" /\ Clash)
    BY DEF RefusedOnlyFor
  <1>1. BypassParses(s) <=> s \notin {"ipv6", "digits"}
    BY DEF BypassParses, IsIp, ServerKinds
  <1>2. BypassParses(s) => TagsDefined(Plan(s))
    BY PlanShape, TagsComplete
  <1>3. TagsUnique <=> ~(mode = "rule" /\ Clash)
    BY ClashRepeats, UniqueWithoutClash
  <1>. QED  BY <1>1, <1>2, <1>3

-----------------------------------------------------------------------------
(* The theorems.                                                           *)

\* Types, and no process listed in two spellings.
THEOREM PlanTypes == Spec => []TypeOK
  <1>1. Init => TypeOK
    BY PackAssumption DEF Init, TypeOK
  <1>2. TypeOK /\ [Next]_vars => TypeOK'
    <2>. SUFFICES ASSUME TypeOK, [Next]_vars PROVE TypeOK'
      OBVIOUS
    <2>1. CASE \E p \in ProcessInputs : AddProcess(p)
      <3>. PICK p \in ProcessInputs : AddProcess(p)
        BY <2>1
      <3>1. /\ processes' = processes \cup {p}
            /\ \A q \in processes : ~SameName(p, q)
            /\ UNCHANGED <<mode, domains, geo, packs>>
        BY DEF AddProcess
      <3>2. \A q, r \in processes' : SameName(q, r) => q = r
        BY <3>1 DEF TypeOK, SameName
      <3>. QED  BY <3>1, <3>2 DEF TypeOK
    <2>2. CASE \E p \in ProcessInputs : RemoveProcess(p)
      BY <2>2 DEF TypeOK, RemoveProcess
    <2>3. CASE \E m \in {"global", "rule"} : SetMode(m)
      BY <2>3 DEF TypeOK, SetMode, lists
    <2>4. CASE \E d \in Domains : AddDomain(d) \/ RemoveDomain(d)
      BY <2>4 DEF TypeOK, AddDomain, RemoveDomain
    <2>5. CASE \E g \in GeoInputs : AddGeoRule(g) \/ RemoveGeoRule(g)
      BY <2>5 DEF TypeOK, AddGeoRule, RemoveGeoRule
    <2>6. CASE \E d \in {domains, {}}, g \in {geo, {}}, p \in {processes, {}} :
                  SetAllRoutingRules(d, g, p)
      BY <2>6 DEF TypeOK, SetAllRoutingRules
    <2>7. CASE \E pack \in {"inside", "outside"} : UpdateList(pack)
      BY <2>7 DEF TypeOK, UpdateList, lists
    <2>8. CASE UNCHANGED vars
      BY <2>8 DEF TypeOK, vars, lists
    <2>. QED  BY <2>1, <2>2, <2>3, <2>4, <2>5, <2>6, <2>7, <2>8 DEF Next
  <1>. QED  BY <1>1, <1>2, PTL DEF Spec

\* The tunnel is never routed into itself, nor a private address out of the
\* network, for every list.
THEOREM BypassFirstAlways == Spec => []BypassFirst
  BY BypassHolds, PTL

\* The promise of config.rs:267, for every list and every connection.
THEOREM ProcessFirstAlways == Spec => []ProcessFirst
  BY ProcessHolds, PTL

\* In rule mode nothing is proxied that no list covers; in global mode
\* everything is that no fixed rule exempts, whatever the lists hold.
THEOREM ModeDecidesAlways == Spec => []ModeDecides
  BY ModeHolds, PTL

\* Listing one thing more never takes a connection off the proxy.
THEOREM AddingKeepsAlways == Spec => AddingKeeps
  <1>1. Adds => LET old == Plan("ipv4")  new == Plan("ipv4")'
                    before == Final      after == Final'
                IN  \A c \in Connections :
                      Route(old, before, c) = "proxy" =>
                          Route(new, after, c) = "proxy"
    BY AddingStep
  <1>. QED  BY <1>1, PTL DEF AddingKeeps

\* The engine refuses to start for the two kinds of server and the entries that
\* clash, and for nothing else the user can do, whichever pack files are there.
THEOREM RefusedOnlyForAlways == Spec => []RefusedOnlyFor
  <1>1. Init => SourcesInv
    BY DEF Init, SourcesInv, HasSource, Presets
  <1>2. SourcesInv /\ [Next]_vars => SourcesInv'
    <2>. SUFFICES ASSUME SourcesInv, [Next]_vars PROVE SourcesInv'
      OBVIOUS
    <2>1. /\ domains' \subseteq Domains
          /\ \A g \in geo' : g \in geo \/ g[1] \in {"geosite", "geoip"} \/ g \in Presets
      <3>1. CASE \E d \in Domains : AddDomain(d) \/ RemoveDomain(d)
        BY <3>1 DEF SourcesInv, AddDomain, RemoveDomain
      <3>2. CASE \E g \in GeoInputs : AddGeoRule(g) \/ RemoveGeoRule(g)
        BY <3>2 DEF SourcesInv, AddGeoRule, RemoveGeoRule
      <3>3. CASE \E p \in ProcessInputs : AddProcess(p) \/ RemoveProcess(p)
        BY <3>3 DEF SourcesInv, AddProcess, RemoveProcess
      <3>4. CASE \E d \in {domains, {}}, g \in {geo, {}}, p \in {processes, {}} :
                    SetAllRoutingRules(d, g, p)
        BY <3>4 DEF SourcesInv, SetAllRoutingRules
      <3>5. CASE \/ \E m \in {"global", "rule"} : SetMode(m)
                 \/ \E pack \in {"inside", "outside"} : UpdateList(pack)
        BY <3>5 DEF SourcesInv, SetMode, UpdateList, lists
      <3>6. CASE UNCHANGED vars
        BY <3>6 DEF SourcesInv, vars, lists
      <3>. QED  BY <3>1, <3>2, <3>3, <3>4, <3>5, <3>6 DEF Next
    <2>. QED  BY <2>1 DEF SourcesInv, HasSource
  <1>. QED  BY <1>1, <1>2, RefusedHolds, PTL DEF Spec

=============================================================================
