---------------------------- MODULE PolicyProofs ----------------------------
(***************************************************************************)
(* Theorems about the way of a request: what trimming, patterns and the    *)
(* order of the rules do for every name, rule and request, what the        *)
(* configuration that init writes never lets a caller do, what redaction   *)
(* leaves of an input and of the arguments of a command, and what replay   *)
(* makes of the stored request.                                            *)
(***************************************************************************)
EXTENDS Replay, FiniteSetTheorems, WellFoundedInduction, TLAPS

-----------------------------------------------------------------------------
(* Least and greatest members *)

LEMMA LeastIs ==
    ASSUME NEW S \in SUBSET Nat, S # {}
    PROVE  \E x \in S : \A y \in S : x <= y
<1> DEFINE R == {ss \in Nat \X Nat : ss[1] < ss[2]}
<1>1. IsWellFoundedOn(R, Nat)
  BY NatLessThanWellFounded DEF OpToRel
<1>2. PICK x \in S : \A y \in S : ~ (<<y, x>> \in R)
  <2> HIDE DEF R
  <2> QED
    BY <1>1, WFMin
<1>3. \A y \in S : x <= y
  <2> SUFFICES ASSUME NEW y \in S, y < x PROVE FALSE
    OBVIOUS
  <2>1. x \in Nat /\ y \in Nat
    OBVIOUS
  <2>2. <<y, x>> \in Nat \X Nat /\ <<y, x>>[1] < <<y, x>>[2]
    BY <2>1
  <2>3. <<y, x>> \in R
    BY <2>2
  <2> QED
    BY <1>2, <2>3
<1> QED
  BY <1>3

LEMMA MinIs ==
    ASSUME NEW S \in SUBSET Nat, S # {}
    PROVE  Min(S) \in S /\ \A y \in S : Min(S) <= y
BY LeastIs DEF Min

LEMMA MaxIs ==
    ASSUME NEW n \in Nat, NEW S \in SUBSET (0 .. n), S # {}
    PROVE  Max(S) \in S /\ \A y \in S : y <= Max(S)
<1> DEFINE D == {d \in Nat : \E x \in S : d = n - x}
<1>1. \A x \in S : n - x \in D
  <2> SUFFICES ASSUME NEW x \in S PROVE n - x \in D
    OBVIOUS
  <2>1. x \in 0 .. n
    OBVIOUS
  <2>2. n - x \in Nat
    BY <2>1
  <2> QED
    BY <2>2
<1>2. PICK d \in D : \A e \in D : d <= e
  <2>1. D \in SUBSET Nat /\ D # {}
    BY <1>1
  <2> HIDE DEF D
  <2> QED
    BY <2>1, LeastIs
<1>3. PICK x \in S : d = n - x
  OBVIOUS
<1>4. \A y \in S : x >= y
  <2> SUFFICES ASSUME NEW y \in S PROVE x >= y
    OBVIOUS
  <2>1. n - y \in D
    BY <1>1
  <2>2. d <= n - y
    BY <1>2, <2>1
  <2>3. x \in Nat /\ y \in Nat
    OBVIOUS
  <2> QED
    BY <1>3, <2>2, <2>3
<1>5. \E z \in S : \A y \in S : z >= y
  BY <1>4
<1>6. Max(S) \in S /\ \A y \in S : Max(S) >= y
  BY <1>5 DEF Max
<1>7. S \subseteq Nat
  OBVIOUS
<1> QED
  BY <1>6, <1>7

-----------------------------------------------------------------------------
(* strings.TrimSpace *)

Space == " "

Solid(name) == {i \in DOMAIN name : name[i] # Space}

\* A name with no space around it.
Tight(name) == name = <<>> \/ (name[1] # Space /\ name[Len(name)] # Space)

LEMMA TrimIs ==
    ASSUME NEW name
    PROVE  /\ Solid(name) = {} => Trim(name) = <<>>
           /\ Solid(name) # {} =>
                 Trim(name) = SubSeq(name, Min(Solid(name)), Max(Solid(name)))
BY DEF Trim, Solid, Space

LEMMA SolidIs ==
    ASSUME NEW T, NEW name \in Seq(T)
    PROVE  /\ Solid(name) \in SUBSET Nat /\ Solid(name) \in SUBSET (0 .. Len(name))
           /\ \A i : i \in Solid(name) <=> i \in 1 .. Len(name) /\ name[i] # Space
BY DEF Solid

LEMMA EndsAre ==
    ASSUME NEW T, NEW name \in Seq(T), Solid(name) # {}
    PROVE  LET a == Min(Solid(name))
               b == Max(Solid(name))
           IN  /\ a \in Solid(name) /\ \A i \in Solid(name) : a <= i
               /\ b \in Solid(name) /\ \A i \in Solid(name) : i <= b
<1>1. Len(name) \in Nat
  OBVIOUS
<1>2. Solid(name) \in SUBSET Nat /\ Solid(name) \in SUBSET (0 .. Len(name))
  BY SolidIs
<1>3. Min(Solid(name)) \in Solid(name) /\ \A i \in Solid(name) : Min(Solid(name)) <= i
  BY <1>2, MinIs
<1>4. Max(Solid(name)) \in Solid(name) /\ \A i \in Solid(name) : i <= Max(Solid(name))
  BY <1>1, <1>2, MaxIs
<1> QED
  BY <1>3, <1>4

LEMMA TrimOfTight ==
    ASSUME NEW T, NEW name \in Seq(T), Tight(name)
    PROVE  Trim(name) = name
<1>1. CASE name = <<>>
  <2>1. Solid(name) = {}
    BY <1>1 DEF Solid
  <2> QED
    BY <1>1, <2>1, TrimIs
<1>2. CASE name # <<>>
  <2>1. Len(name) \in Nat \ {0}
    BY <1>2
  <2>2. 1 \in Solid(name) /\ Len(name) \in Solid(name)
    BY <1>2, <2>1, SolidIs DEF Tight
  <2>3. Min(Solid(name)) = 1
    BY <2>1, <2>2, SolidIs, EndsAre
  <2>4. Max(Solid(name)) = Len(name)
    BY <2>1, <2>2, SolidIs, EndsAre
  <2>5. SubSeq(name, 1, Len(name)) = name
    BY <2>1
  <2> QED
    BY <2>2, <2>3, <2>4, <2>5, TrimIs
<1> QED
  BY <1>1, <1>2

LEMMA TrimIsTight ==
    ASSUME NEW T, NEW name \in Seq(T)
    PROVE  Trim(name) \in Seq(T) /\ Tight(Trim(name))
<1>1. CASE Solid(name) = {}
  <2>1. Trim(name) = <<>>
    BY <1>1, TrimIs
  <2>2. <<>> \in Seq(T)
    OBVIOUS
  <2> QED
    BY <2>1, <2>2 DEF Tight
<1>2. CASE Solid(name) # {}
  <2> DEFINE a == Min(Solid(name))
             b == Max(Solid(name))
  <2>1. a \in Solid(name) /\ b \in Solid(name) /\ a <= b
    BY <1>2, EndsAre
  <2>2. a \in 1 .. Len(name) /\ b \in 1 .. Len(name) /\ name[a] # Space /\ name[b] # Space
    BY <2>1, SolidIs
  <2>3. Trim(name) = SubSeq(name, a, b)
    BY <1>2, TrimIs
  <2> HIDE DEF a, b
  <2> DEFINE t == SubSeq(name, a, b)
  <2>4. t \in Seq(T) /\ Len(t) = b - a + 1 /\ \A i \in 1 .. b - a + 1 : t[i] = name[a + i - 1]
    BY <2>1, <2>2
  <2> HIDE DEF t
  <2>5. t[1] = name[a] /\ t[Len(t)] = name[b]
    BY <2>1, <2>2, <2>4
  <2> QED
    BY <2>2, <2>3, <2>4, <2>5 DEF Tight, t
<1> QED
  BY <1>1, <1>2

LEMMA TrimTwice ==
    ASSUME NEW T, NEW name \in Seq(T)
    PROVE  Trim(Trim(name)) = Trim(name)
BY TrimIsTight, TrimOfTight

-----------------------------------------------------------------------------
(* Patterns *)

Star == "*"

LEMMA TripleIs ==
    ASSUME NEW x, NEW y, NEW z
    PROVE  LET t == <<x, y, z>>
           IN  /\ t \in Seq({x, y, z}) /\ Len(t) = 3 /\ t # <<>> /\ t[1] = x /\ t[3] = z
               /\ Last(t) = z /\ Front(t) = SubSeq(t, 1, 2)
<1> DEFINE T == {x, y, z}
           t == <<x, y, z>>
<1>1. x \in T /\ y \in T /\ z \in T
  OBVIOUS
<1> HIDE DEF T
<1>2. t \in Seq(T) /\ Len(t) = 3 /\ t # <<>> /\ t[1] = x /\ t[3] = z
  BY <1>1
<1> QED
  BY <1>2 DEF Last, Front, T

\* A name that begins like a triple without its last token begins like it.
LEMMA BeginsWith ==
    ASSUME NEW T, NEW t \in Seq(T), NEW U, NEW v \in Seq(U), Len(t) >= 2,
           IsPrefix(SubSeq(t, 1, 2), v)
    PROVE  v # <<>> /\ v[1] = t[1]
<1> DEFINE f == SubSeq(t, 1, 2)
<1>1. f \in Seq(T) /\ Len(f) = 2 /\ f[1] = t[1]
  OBVIOUS
<1> HIDE DEF f
<1>2. Len(v) >= 2 /\ SubSeq(f, 1, 2) = SubSeq(v, 1, 2)
  BY <1>1 DEF IsPrefix, f
<1>3. SubSeq(f, 1, 2)[1] = f[1] /\ SubSeq(v, 1, 2)[1] = v[1]
  BY <1>1, <1>2
<1>4. v[1] = t[1]
  BY <1>1, <1>2, <1>3
<1> QED
  BY <1>2, <1>4

LEMMA NameMatches ==
    ASSUME NEW a, a # Space, NEW b, b # Space, b # Star, NEW v
    PROVE  MatchPattern(Name(a, b), v) <=> v = Name(a, b)
<1>1. PICK dot : Name(a, b) = <<a, dot, b>>
  BY DEF Name
<1>2. /\ Name(a, b) \in Seq({a, dot, b}) /\ Name(a, b) # <<>> /\ Len(Name(a, b)) = 3
      /\ Name(a, b)[1] = a /\ Name(a, b)[3] = b /\ Last(Name(a, b)) = b
  BY <1>1, TripleIs
<1>3. Tight(Name(a, b))
  BY <1>2 DEF Tight
<1>4. Trim(Name(a, b)) = Name(a, b)
  BY <1>2, <1>3, TrimOfTight
<1> QED
  BY <1>2, <1>4 DEF MatchPattern, Star

\* "a.*" matches only names that begin with a.
LEMMA AllMatches ==
    ASSUME NEW a, a # Space, NEW T, NEW v \in Seq(T), MatchPattern(All(a), v)
    PROVE  v # <<>> /\ v[1] = a
<1>1. PICK dot, star : All(a) = <<a, dot, star>> /\ star = Star
  BY DEF All, Star
<1>2. /\ All(a) \in Seq({a, dot, star}) /\ All(a) # <<>> /\ Len(All(a)) = 3
      /\ All(a)[1] = a /\ All(a)[3] = star /\ Front(All(a)) = SubSeq(All(a), 1, 2)
  BY <1>1, TripleIs
<1>3. Star # Space
  BY DEF Star, Space
<1>4. Tight(All(a))
  BY <1>1, <1>2, <1>3 DEF Tight
<1>5. Trim(All(a)) = All(a)
  BY <1>2, <1>4, TrimOfTight
<1>6. CASE v = All(a)
  BY <1>2, <1>6
<1>7. CASE IsPrefix(Front(All(a)), v)
  <2>1. IsPrefix(SubSeq(All(a), 1, 2), v) /\ Len(All(a)) >= 2
    BY <1>2, <1>7
  <2> QED
    BY <1>2, <2>1, BeginsWith
<1> QED
  BY <1>5, <1>6, <1>7 DEF MatchPattern

LEMMA NamesDiffer ==
    ASSUME NEW a, NEW b, NEW v, v[1] # a
    PROVE  v # Name(a, b)
BY DEF Name

-----------------------------------------------------------------------------
(* Rules *)

LEMMA DecidingIs ==
    ASSUME NEW rules, NEW r, DOMAIN rules \subseteq Nat \ {0}
    PROVE  LET i == Deciding(rules, r)
           IN  \/ i = 0 /\ \A k \in DOMAIN rules : ~Matches(rules[k].match, r)
               \/ /\ i \in DOMAIN rules /\ Matches(rules[i].match, r)
                  /\ \A k \in DOMAIN rules : Matches(rules[k].match, r) => i <= k
<1> DEFINE hits == {k \in DOMAIN rules : Matches(rules[k].match, r)}
<1>1. CASE hits = {}
  BY <1>1 DEF Deciding
<1>2. CASE hits # {}
  <2>1. hits \in SUBSET Nat
    OBVIOUS
  <2>2. Deciding(rules, r) = Min(hits)
    BY <1>2 DEF Deciding
  <2> HIDE DEF hits
  <2>3. Min(hits) \in hits /\ \A k \in hits : Min(hits) <= k
    BY <1>2, <2>1, MinIs
  <2> QED
    BY <2>2, <2>3 DEF hits
<1> QED
  BY <1>1, <1>2

LEMMA RuleIs ==
    ASSUME NEW id, NEW actions, NEW risks, NEW effect
    PROVE  LET rule == Rule(id, actions, risks, effect)
           IN  /\ rule.effect = effect /\ DOMAIN rule.match = Fields
               /\ rule.match["action"] = actions
               /\ rule.match["risk"] = {<<r>> : r \in risks}
               /\ \A f \in Fields \ {"action", "risk"} : rule.match[f] = {}
<1> DEFINE m == [None EXCEPT !["action"] = actions, !["risk"] = {<<r>> : r \in risks}]
<1>1. /\ DOMAIN m = Fields /\ m["action"] = actions /\ m["risk"] = {<<r>> : r \in risks}
      /\ \A f \in Fields \ {"action", "risk"} : m[f] = {}
  BY DEF None, Fields
<1>2. Rule(id, actions, risks, effect) = [id |-> <<id>>, effect |-> effect, match |-> m]
  BY DEF Rule
<1> HIDE DEF m
<1> QED
  BY <1>1, <1>2

LEMMA RiskRuleIs ==
    ASSUME NEW id, NEW actions, NEW resources, NEW risk
    PROVE  LET rule == RiskRule(id, actions, resources, risk)
           IN  "action" \in DOMAIN rule.match /\ rule.match["action"] = actions
BY DEF RiskRule, RiskFields

\* A rule that lists actions matches only requests for one of them.
LEMMA ActionMatched ==
    ASSUME NEW match, NEW r, Matches(match, r), "action" \in DOMAIN match,
           match["action"] # {}, Trim(r["action"]) = r["action"]
    PROVE  \E p \in match["action"] : MatchPattern(p, r["action"])
BY DEF Matches, MatchAny

-----------------------------------------------------------------------------
(* The rules of the starter policy *)

GitReads == {Name("git", c) : c \in {"status", "diff", "log", "show", "branch"}}

\* The actions that the policy allows.
Harmless == {Name("agent", "wrap"), Name("github", "create_pr")} \cup GitReads

LEMMA RulesAre ==
    /\ DOMAIN Rules = 1 .. 9
    /\ Rules[1] = Rule("allow-wrapper-launch", {Name("agent", "wrap")}, {}, "allow")
    /\ Rules[2] = Rule("external-email-needs-approval", {All("email")},
                       {"external_side_effect"}, "approval_required")
    /\ Rules[3] = Rule("money-needs-approval", {}, {"financial_side_effect"},
                       "approval_required")
    /\ Rules[4] = Rule("shell-is-dry-run", {}, {"code_execution"}, "dry_run")
    /\ Rules[5] = Rule("agent-delegation-needs-approval", {}, {"agent_delegation"},
                       "approval_required")
    /\ Rules[6] = Rule("deny-file-delete", {Name("file", "delete")}, {}, "deny")
    /\ Rules[7] = Rule("allow-readonly-git", GitReads, {}, "allow")
    /\ Rules[8] = Rule("git-publish-needs-approval", Publish, {}, "approval_required")
    /\ Rules[9] = Rule("allow-github-prs", {Name("github", "create_pr")}, {}, "allow")
BY DEF Rules, GitReads

LEMMA EffectsAre ==
    /\ \A i \in {1, 7, 9} : Rules[i].effect = "allow"
    /\ \A i \in {2, 3, 4, 5, 6, 8} : Rules[i].effect # "allow"
BY RulesAre, RuleIs

LEMMA PatternsAre ==
    /\ \A i \in 1 .. 9 : DOMAIN Rules[i].match = Fields
    /\ Rules[1].match["action"] = {Name("agent", "wrap")}
    /\ Rules[2].match["action"] = {All("email")}
    /\ Rules[3].match["risk"] = {<<"financial_side_effect">>}
    /\ Rules[4].match["risk"] = {<<"code_execution">>}
    /\ Rules[5].match["risk"] = {<<"agent_delegation">>}
    /\ Rules[6].match["action"] = {Name("file", "delete")}
    /\ Rules[7].match["action"] = GitReads
    /\ Rules[8].match["action"] = Publish
    /\ Rules[9].match["action"] = {Name("github", "create_pr")}
<1>1. \A i \in 1 .. 9 : DOMAIN Rules[i].match = Fields
  BY RulesAre, RuleIs
<1>2. /\ Rules[1].match["action"] = {Name("agent", "wrap")}
      /\ Rules[2].match["action"] = {All("email")}
      /\ Rules[6].match["action"] = {Name("file", "delete")}
      /\ Rules[7].match["action"] = GitReads
      /\ Rules[8].match["action"] = Publish
      /\ Rules[9].match["action"] = {Name("github", "create_pr")}
  BY RulesAre, RuleIs
<1>3. \A x : {<<r>> : r \in {x}} = {<<x>>}
  OBVIOUS
<1>4. /\ Rules[3].match["risk"] = {<<r>> : r \in {"financial_side_effect"}}
      /\ Rules[4].match["risk"] = {<<r>> : r \in {"code_execution"}}
      /\ Rules[5].match["risk"] = {<<r>> : r \in {"agent_delegation"}}
  BY RulesAre, RuleIs
<1> QED
  BY <1>1, <1>2, <1>3, <1>4

\* The tokens of the names below.
LEMMA TokensAre ==
    /\ \A t \in {"agent", "github", "git", "file", "email", "wrap", "create_pr",
                 "delete", "write", "status", "diff", "log", "show", "branch", "push",
                 "tag", "shell", "process", "payment", "money", "a2a", "http", "api"} :
          t # Space /\ t # Star
BY DEF Space, Star

LEMMA HarmlessMatches ==
    ASSUME NEW a \in Harmless, NEW v
    PROVE  MatchPattern(a, v) <=> v = a
<1>1. CASE a = Name("agent", "wrap")
  BY <1>1, TokensAre, NameMatches
<1>2. CASE a = Name("github", "create_pr")
  BY <1>2, TokensAre, NameMatches
<1>3. CASE a \in GitReads
  <2>1. PICK c \in {"status", "diff", "log", "show", "branch"} : a = Name("git", c)
    BY <1>3 DEF GitReads
  <2>2. c # Space /\ c # Star /\ "git" # Space
    BY TokensAre
  <2> QED
    BY <2>1, <2>2, NameMatches
<1> QED
  BY <1>1, <1>2, <1>3 DEF Harmless

LEMMA AllowsOnlyHarmless ==
    ASSUME NEW r, Trim(r["action"]) = r["action"], Decide(StarterPolicy, r) = "allow"
    PROVE  r["action"] \in Harmless
<1> DEFINE i == Deciding(Rules, r)
<1>1. StarterPolicy.rules = Rules /\ DefaultEffect(StarterPolicy) # "allow"
  BY DEF StarterPolicy, DefaultEffect
<1>2. i # 0 /\ Rules[i].effect = "allow"
  BY <1>1 DEF Decide
<1>3. DOMAIN Rules \subseteq Nat \ {0}
  BY RulesAre
<1>4. i \in 1 .. 9 /\ Matches(Rules[i].match, r)
  BY <1>2, <1>3, DecidingIs, RulesAre
<1> HIDE DEF i
<1>5. i \in {1, 7, 9}
  BY <1>2, <1>4, EffectsAre
<1>6. /\ Rules[i].match["action"] # {} /\ Rules[i].match["action"] \subseteq Harmless
      /\ "action" \in DOMAIN Rules[i].match
  BY <1>5, PatternsAre DEF Harmless, GitReads, Fields
<1>7. PICK p \in Rules[i].match["action"] : MatchPattern(p, r["action"])
  BY <1>4, <1>6, ActionMatched
<1> QED
  BY <1>6, <1>7, HarmlessMatches

LEMMA PrefixIs ==
    ASSUME NEW a, NEW b, NEW T, NEW v \in Seq(T), IsPrefix(<<a, b>>, v)
    PROVE  v[1] = a
<1> DEFINE t == <<a, b>>
<1>1. Len(t) = 2 /\ t[1] = a
  OBVIOUS
<1>2. t \in Seq({a, b})
  OBVIOUS
<1> HIDE DEF t
<1>3. Len(v) >= 2 /\ SubSeq(t, 1, 2) = SubSeq(v, 1, 2)
  BY <1>1 DEF IsPrefix, t
<1>4. SubSeq(t, 1, 2)[1] = t[1] /\ SubSeq(v, 1, 2)[1] = v[1]
  BY <1>1, <1>2, <1>3
<1> QED
  BY <1>1, <1>3, <1>4

LEMMA HarmlessBegins ==
    ASSUME NEW a \in Harmless
    PROVE  a[1] \in {"agent", "github", "git"}
<1>1. \A x, y : Name(x, y)[1] = x
  BY DEF Name
<1>2. a \in GitReads => a[1] = "git"
  BY <1>1 DEF GitReads
<1> QED
  BY <1>1, <1>2 DEF Harmless

\* A request as the evaluator sees it.
LEMMA DefaultsAre ==
    ASSUME NEW r \in [Fields -> Seq(STRING)]
    PROVE  LET q == WithDefaults(r)
           IN  /\ q \in [Fields -> Seq(STRING)]
               /\ \A f \in Fields : q[f] = Trim(r[f]) /\ Trim(q[f]) = q[f]
               /\ WithDefaults(q) = q
<1> DEFINE q == WithDefaults(r)
<1>1. \A f \in Fields : r[f] \in Seq(STRING)
  OBVIOUS
<1>2. \A f \in Fields : q[f] = Trim(r[f]) /\ q[f] \in Seq(STRING) /\ Trim(q[f]) = q[f]
  BY <1>1, TrimIsTight, TrimTwice DEF WithDefaults
<1>3. q = [f \in Fields |-> q[f]] /\ WithDefaults(q) = [f \in Fields |-> Trim(q[f])]
  BY DEF WithDefaults
<1>4. WithDefaults(q) = q
  BY <1>2, <1>3
<1>5. q \in [Fields -> Seq(STRING)]
  BY <1>2, <1>3
<1> QED
  BY <1>2, <1>4, <1>5

LEMMA ClassifiedIs ==
    ASSUME NEW q \in [Fields -> Seq(STRING)], NEW riskRules
    PROVE  /\ Classified(riskRules, q)["action"] = q["action"]
           /\ q["risk"] # <<>> => Classified(riskRules, q) = q
           /\ q["risk"] = <<>> =>
                 Classified(riskRules, q)["risk"] = Classify(riskRules, q)
BY DEF Classified, Fields

LEMMA OutcomeAllows ==
    ASSUME NEW r \in [Fields -> Seq(STRING)], NEW riskRules,
           Outcome(riskRules, r) = "allow"
    PROVE  Trim(r["action"]) \in Harmless
<1> DEFINE q == WithDefaults(r)
<1>1. /\ q \in [Fields -> Seq(STRING)] /\ q["action"] = Trim(r["action"])
      /\ Trim(q["action"]) = q["action"]
  BY DefaultsAre DEF Fields
<1> HIDE DEF q
<1>2. Classified(riskRules, q)["action"] = q["action"]
  BY <1>1, ClassifiedIs
<1>3. Decide(StarterPolicy, Classified(riskRules, q)) = "allow"
  BY DEF Outcome, Evaluate, q
<1>4. Classified(riskRules, q)["action"] \in Harmless
  BY <1>1, <1>2, <1>3, AllowsOnlyHarmless
<1> QED
  BY <1>1, <1>2, <1>4

LEMMA RequestIs == Spec => [](req \in [Fields -> Seq(STRING)])
<1>1. Init => req \in [Fields -> Seq(STRING)]
  BY RequestsAssumption DEF Init
<1>2. req \in [Fields -> Seq(STRING)] /\ [Next]_req => (req \in [Fields -> Seq(STRING)])'
  BY DEF Next
<1> QED
  BY <1>1, <1>2, PTL DEF Spec

\* No request for a payment or for money is allowed by the configuration that
\* init writes, whatever it says of itself: what is allowed is a short list
\* of names (internal/config/defaults.go; internal/policy, Decide).
THEOREM MoneyIsNotAllowed == Spec => []MoneyNeverAllowed
<1>1. req \in [Fields -> Seq(STRING)] => MoneyNeverAllowed
  <2> DEFINE v == Trim(req["action"])
  <2> SUFFICES ASSUME req \in [Fields -> Seq(STRING)],
                      NEW riskRules \in {ConfigRiskRules, BuiltinRiskRules},
                      IsPrefix(<<"payment", ".">>, v) \/ IsPrefix(<<"money", ".">>, v)
               PROVE  Outcome(riskRules, req) # "allow"
    BY DEF MoneyNeverAllowed
  <2>1. v \in Seq(STRING)
    BY TrimIsTight DEF Fields
  <2>2. v[1] = "payment" \/ v[1] = "money"
    BY <2>1, PrefixIs
  <2>3. v \notin Harmless
    BY <2>2, HarmlessBegins
  <2> QED
    BY <2>3, OutcomeAllows
<1> QED
  BY <1>1, RequestIs, PTL

\* Space around the names of a request changes no outcome, of no set of rules
\* (internal/action, WithDefaults).
THEOREM PaddingChangesNothing == Spec => []PaddingIrrelevant
<1>1. req \in [Fields -> Seq(STRING)] => PaddingIrrelevant
  <2> SUFFICES ASSUME req \in [Fields -> Seq(STRING)]
               PROVE  PaddingIrrelevant
    OBVIOUS
  <2>1. WithDefaults([f \in Fields |-> Trim(req[f])]) = WithDefaults(req)
    BY DefaultsAre DEF WithDefaults
  <2> QED
    BY <2>1 DEF PaddingIrrelevant, Outcome, Evaluate
<1> QED
  BY <1>1, RequestIs, PTL

-----------------------------------------------------------------------------
(* What a caller's own risk label can do *)

\* The allowed actions to which no risk rule applies.
Plain == {Name("github", "create_pr")} \cup GitReads

\* All that the risk rules look for in an action.
RiskNames ==
    {All(a) : a \in {"email", "shell", "process", "payment", "money", "agent", "a2a",
                     "http", "api"}}
      \cup Publish \cup {Name("file", "delete"), Name("file", "write")}

LEMMA RiskRulesAre ==
    ASSUME NEW riskRules \in {ConfigRiskRules, BuiltinRiskRules}, NEW k \in DOMAIN riskRules
    PROVE  /\ DOMAIN riskRules \subseteq Nat \ {0}
           /\ "action" \in DOMAIN riskRules[k].match
           /\ riskRules[k].match["action"] # {}
           /\ riskRules[k].match["action"] \subseteq RiskNames
<1>1. /\ ExternalEmail.match["action"] = {All("email")}
      /\ ShellExecution.match["action"] = {All("shell"), All("process")}
      /\ Payments.match["action"] = {All("payment"), All("money")}
      /\ Delegation.match["action"] = {All("agent"), All("a2a")}
      /\ \A rule \in {ExternalEmail, ShellExecution, Payments, Delegation} :
            "action" \in DOMAIN rule.match
  BY RiskRuleIs DEF ExternalEmail, ShellExecution, Payments, Delegation
<1> DEFINE Fine(rule) ==
             /\ "action" \in DOMAIN rule.match /\ rule.match["action"] # {}
             /\ rule.match["action"] \subseteq RiskNames
<1>2. Fine(ExternalEmail) /\ Fine(ShellExecution) /\ Fine(Payments) /\ Fine(Delegation)
  BY <1>1 DEF RiskNames
<1>3. CASE riskRules = ConfigRiskRules
  <2> DEFINE last == RiskRule("git-publish", Publish, {}, "external_side_effect")
  <2>1. ConfigRiskRules = <<ExternalEmail, ShellExecution, Payments, Delegation, last>>
    BY DEF ConfigRiskRules
  <2>2. Fine(last)
    <3>1. "action" \in DOMAIN last.match /\ last.match["action"] = Publish
      BY RiskRuleIs
    <3>2. Publish # {} /\ Publish \subseteq RiskNames
      BY DEF Publish, RiskNames
    <3> QED
      BY <3>1, <3>2
  <2> HIDE DEF last, Fine
  <2>3. DOMAIN ConfigRiskRules = 1 .. 5 /\ \A i \in 1 .. 5 : Fine(ConfigRiskRules[i])
    BY <1>2, <2>1, <2>2
  <2> QED
    BY <1>3, <2>3 DEF Fine
<1>4. CASE riskRules = BuiltinRiskRules
  <2> DEFINE files == RiskRule("destructive-files",
                        {Name("file", "delete"), Name("file", "write")}, {}, "local_mutation")
             calls == RiskRule("network-calls", {All("http"), All("api")}, {},
                        "external_network")
  <2>1. BuiltinRiskRules =
          <<Payments, ExternalEmail, files, ShellExecution, calls, Delegation>>
    BY DEF BuiltinRiskRules
  <2>2. Fine(files) /\ Fine(calls)
    <3>1. /\ "action" \in DOMAIN files.match /\ "action" \in DOMAIN calls.match
          /\ files.match["action"] = {Name("file", "delete"), Name("file", "write")}
          /\ calls.match["action"] = {All("http"), All("api")}
      BY RiskRuleIs
    <3> QED
      BY <3>1 DEF RiskNames
  <2> HIDE DEF files, calls, Fine
  <2>3. DOMAIN BuiltinRiskRules = 1 .. 6 /\ \A i \in 1 .. 6 : Fine(BuiltinRiskRules[i])
    BY <1>2, <2>1, <2>2
  <2> QED
    BY <1>4, <2>3 DEF Fine
<1> QED
  BY <1>3, <1>4

LEMMA PlainIs ==
    ASSUME NEW v \in Plain
    PROVE  /\ v[1] \in {"git", "github"}
           /\ v \notin Publish /\ v # Name("file", "delete") /\ v # Name("file", "write")
<1>1. \A x, y : Name(x, y)[1] = x /\ Name(x, y)[3] = y
  BY DEF Name
<1>2. CASE v = Name("github", "create_pr")
  BY <1>1, <1>2 DEF Publish
<1>3. CASE v \in GitReads
  <2>1. v[1] = "git" /\ v[3] \in {"status", "diff", "log", "show", "branch"}
    BY <1>1, <1>3 DEF GitReads
  <2> QED
    BY <1>1, <2>1 DEF Publish
<1> QED
  BY <1>2, <1>3 DEF Plain

LEMMA PlainHasNoRisk ==
    ASSUME NEW v \in Plain, NEW T, v \in Seq(T), NEW p \in RiskNames
    PROVE  ~MatchPattern(p, v)
<1>1. ASSUME NEW a \in {"email", "shell", "process", "payment", "money", "agent", "a2a",
                        "http", "api"}, p = All(a), MatchPattern(p, v)
      PROVE  FALSE
  <2>1. a # Space
    BY TokensAre
  <2>2. v[1] = a
    BY <1>1, <2>1, AllMatches
  <2> QED
    BY <2>2, PlainIs
<1>2. CASE p \in Publish
  <2>1. MatchPattern(p, v) <=> v = p
    BY <1>2, TokensAre, NameMatches DEF Publish
  <2> QED
    BY <1>2, <2>1, PlainIs
<1>3. CASE p = Name("file", "delete") \/ p = Name("file", "write")
  <2>1. MatchPattern(p, v) <=> v = p
    BY <1>3, TokensAre, NameMatches
  <2> QED
    BY <1>3, <2>1, PlainIs
<1> QED
  BY <1>1, <1>2, <1>3 DEF RiskNames

LEMMA TokenMatches ==
    ASSUME NEW t, t # Space, t # Star, NEW v
    PROVE  MatchPattern(<<t>>, v) <=> v = <<t>>
<1>1. t \in {t} /\ <<t>> # <<>> /\ Len(<<t>>) = 1 /\ <<t>>[1] = t /\ Last(<<t>>) = t
  BY DEF Last
<1>2. <<t>> \in Seq({t})
  OBVIOUS
<1>3. Tight(<<t>>)
  BY <1>1 DEF Tight
<1>4. Trim(<<t>>) = <<t>>
  BY <1>2, <1>3, TrimOfTight
<1> QED
  BY <1>1, <1>4 DEF MatchPattern, Star

\* A rule that lists actions only, one of them harmless, matches a request
\* for it.
LEMMA OwnRuleMatches ==
    ASSUME NEW i \in {1, 7, 9}, NEW q, Trim(q["action"]) = q["action"],
           q["action"] \in Rules[i].match["action"] \cap Harmless
    PROVE  Matches(Rules[i].match, q)
<1>1. /\ DOMAIN Rules[i].match = Fields
      /\ \A f \in Fields \ {"action", "risk"} : Rules[i].match[f] = {}
  BY RulesAre, RuleIs
<1>2. Rules[i].match["risk"] = {<<r>> : r \in {}}
  BY RulesAre, RuleIs
<1>3. Rules[i].match["risk"] = {}
  BY <1>2
<1>4. MatchPattern(q["action"], Trim(q["action"]))
  BY HarmlessMatches
<1>5. \A f \in Fields : MatchAny(Rules[i].match[f], q[f])
  BY <1>1, <1>3, <1>4 DEF MatchAny
<1> QED
  BY <1>1, <1>5 DEF Matches

\* The rules that do not allow do not match a plain action of unknown risk.
LEMMA OthersDoNotMatch ==
    ASSUME NEW k \in {2, 3, 4, 5, 6, 8}, NEW T, NEW q, q["action"] \in Plain,
           q["action"] \in Seq(T), Trim(q["action"]) = q["action"], q["risk"] = Unknown
    PROVE  ~Matches(Rules[k].match, q)
<1> SUFFICES ASSUME Matches(Rules[k].match, q) PROVE FALSE
  OBVIOUS
<1>1. DOMAIN Rules[k].match = Fields
  BY PatternsAre
<1>2. CASE k \in {2, 6, 8}
  <2>1. Rules[k].match["action"] # {} /\ Rules[k].match["action"] \subseteq RiskNames
    BY <1>2, PatternsAre DEF RiskNames, Publish
  <2>2. PICK p \in Rules[k].match["action"] : MatchPattern(p, q["action"])
    BY <1>1, <2>1, ActionMatched DEF Fields
  <2> QED
    BY <2>1, <2>2, PlainHasNoRisk
<1>3. CASE k \in {3, 4, 5}
  <2>1. PICK t \in {"financial_side_effect", "code_execution", "agent_delegation"} :
           Rules[k].match["risk"] = {<<t>>}
    BY <1>3, PatternsAre
  <2>2. PICK u : Unknown = <<u>> /\ u = "unknown"
    BY DEF Unknown
  <2>3. t # Space /\ t # Star /\ u # Space /\ u # t
    BY <2>1, <2>2 DEF Space, Star
  <2>4. Trim(Unknown) = Unknown
    <3>1. <<u>> \in Seq({u}) /\ Len(<<u>>) = 1 /\ <<u>>[1] = u
      <4>1. u \in {u}
        OBVIOUS
      <4> QED
        BY <4>1
    <3>2. Tight(<<u>>)
      BY <2>3, <3>1 DEF Tight
    <3> QED
      BY <2>2, <3>1, <3>2, TrimOfTight
  <2>5. MatchPattern(<<t>>, Trim(q["risk"]))
    BY <1>1, <2>1 DEF Matches, MatchAny, Fields
  <2>6. Unknown = <<t>>
    BY <2>3, <2>4, <2>5, TokenMatches
  <2> QED
    BY <2>2, <2>3, <2>6
<1> QED
  BY <1>2, <1>3

LEMMA HarmlessIsAllowed ==
    ASSUME NEW T, NEW q, q["action"] \in Harmless, q["action"] \in Seq(T),
           Trim(q["action"]) = q["action"],
           q["action"] \in Plain => q["risk"] = Unknown
    PROVE  Decide(StarterPolicy, q) = "allow"
<1> DEFINE i == Deciding(Rules, q)
<1>1. PICK k \in {1, 7, 9} : q["action"] \in Rules[k].match["action"]
                                /\ (q["action"] \in Plain \/ k = 1)
  BY PatternsAre DEF Harmless, Plain
<1>2. Matches(Rules[k].match, q)
  BY <1>1, OwnRuleMatches
<1>3. DOMAIN Rules = 1 .. 9
  BY RulesAre
<1>4. i \in 1 .. 9 /\ Matches(Rules[i].match, q) /\ i <= k
  BY <1>1, <1>2, <1>3, DecidingIs
<1> HIDE DEF i
<1>5. i \in {1, 7, 9}
  <2>1. CASE k = 1
    BY <1>4, <2>1
  <2>2. CASE q["action"] \in Plain
    <3>1. i \notin {2, 3, 4, 5, 6, 8}
      BY <1>4, <2>2, OthersDoNotMatch
    <3> QED
      BY <1>4, <3>1
  <2> QED
    BY <1>1, <2>1, <2>2
<1>6. Rules[i].effect = "allow" /\ i # 0
  BY <1>5, EffectsAre
<1> QED
  BY <1>6 DEF Decide, StarterPolicy, i

\* A harmless action that its caller has not labelled is allowed: no risk rule
\* looks for one whose own rule comes late.
LEMMA UnlabelledAllowed ==
    ASSUME NEW r \in [Fields -> Seq(STRING)],
           NEW riskRules \in {ConfigRiskRules, BuiltinRiskRules},
           Trim(r["action"]) \in Harmless, Trim(r["risk"]) = <<>>
    PROVE  Outcome(riskRules, r) = "allow"
<1> DEFINE q == WithDefaults(r)
           c == Classified(riskRules, q)
<1>1. /\ q \in [Fields -> Seq(STRING)] /\ q["action"] \in Harmless
      /\ Trim(q["action"]) = q["action"] /\ q["risk"] = <<>>
      /\ q["action"] \in Seq(STRING)
  BY DefaultsAre DEF Fields
<1> HIDE DEF q
<1>2. c["action"] = q["action"] /\ c["risk"] = Classify(riskRules, q)
  BY <1>1, ClassifiedIs
<1>3. ASSUME q["action"] \in Plain
      PROVE  Classify(riskRules, q) = Unknown
  <2>1. ASSUME NEW k \in DOMAIN riskRules
        PROVE  ~Matches(riskRules[k].match, q)
    <3>1. /\ "action" \in DOMAIN riskRules[k].match
          /\ riskRules[k].match["action"] # {}
          /\ riskRules[k].match["action"] \subseteq RiskNames
      BY RiskRulesAre
    <3> QED
      BY <1>1, <1>3, <3>1, ActionMatched, PlainHasNoRisk
  <2>2. {k \in DOMAIN riskRules : Matches(riskRules[k].match, q)} = {}
    BY <2>1
  <2> QED
    BY <2>2 DEF Classify, Deciding
<1> HIDE DEF c
<1>4. Decide(StarterPolicy, c) = "allow"
  BY <1>1, <1>2, <1>3, HarmlessIsAllowed
<1> QED
  BY <1>4 DEF Outcome, Evaluate, c, q

LEMMA TrimEmpty == Trim(<<>>) = <<>>
<1>1. Solid(<<>>) = {}
  BY DEF Solid
<1> QED
  BY <1>1, TrimIs

\* What is allowed with a label of the caller's is allowed without it: the
\* few allowed names have a rule of their own, and no risk rule looks for one
\* whose rule comes late (internal/risk, Classify; internal/policy, Decide).
THEOREM LabelUnlocksNothing == Spec => []LabelsAllowNothing
<1>1. req \in [Fields -> Seq(STRING)] => LabelsAllowNothing
  <2> SUFFICES ASSUME req \in [Fields -> Seq(STRING)],
                      NEW riskRules \in {ConfigRiskRules, BuiltinRiskRules},
                      Outcome(riskRules, req) = "allow"
               PROVE  Outcome(riskRules, Unlabelled(req)) = "allow"
    BY DEF LabelsAllowNothing
  <2> DEFINE u == Unlabelled(req)
  <2>1. /\ u \in [Fields -> Seq(STRING)] /\ u["action"] = req["action"]
        /\ u["risk"] = <<>>
    BY DEF Unlabelled, Fields
  <2> HIDE DEF u
  <2>2. Trim(u["action"]) \in Harmless
    BY <2>1, OutcomeAllows
  <2>3. Outcome(riskRules, u) = "allow"
    BY <2>1, <2>2, TrimEmpty, UnlabelledAllowed
  <2> QED
    BY <2>3 DEF u
<1> QED
  BY <1>1, RequestIs, PTL

-----------------------------------------------------------------------------
(* Induction, with the set of those for which a thing holds *)

LEMMA NumbersByInduction ==
    ASSUME NEW S \in SUBSET Nat, 0 \in S, \A n \in S : n + 1 \in S
    PROVE  S = Nat
<1> SUFFICES ASSUME Nat \ S # {} PROVE FALSE
  OBVIOUS
<1>1. PICK n \in Nat \ S : \A m \in Nat \ S : n <= m
  BY LeastIs
<1>2. n - 1 \in Nat /\ n - 1 \notin Nat \ S
  BY <1>1
<1> QED
  BY <1>1, <1>2

LEMMA PartsAre ==
    ASSUME NEW v \in Values, NEW w \in Parts(v)
    PROVE  w \in Values /\ Nesting[w] \in Nat /\ Nesting[v] \in Nat /\ Nesting[w] < Nesting[v]
<1>1. w \in Values
  <2>1. PICK k \in DOMAIN v.items : w = v.items[k] /\ v.type \in {"map", "list"}
    BY DEF Parts
  <2>2. CASE v.type = "map"
    BY <2>1, <2>2, ValuesAssumption
  <2>3. CASE v.type = "list"
    BY <2>1, <2>3, ValuesAssumption
  <2> QED
    BY <2>1, <2>2, <2>3
<1> QED
  BY <1>1, ValuesAssumption

\* What holds of a value when it holds of its parts holds of every value.
LEMMA ValuesByInduction ==
    ASSUME NEW S \in SUBSET Values, \A v \in Values : Parts(v) \subseteq S => v \in S
    PROVE  S = Values
<1> SUFFICES ASSUME NEW u \in Values \ S PROVE FALSE
  OBVIOUS
<1> DEFINE D == {Nesting[v] : v \in Values \ S}
<1>1. D \in SUBSET Nat /\ D # {}
  BY ValuesAssumption
<1> HIDE DEF D
<1>2. PICK n \in D : \A m \in D : n <= m
  BY <1>1, LeastIs
<1>3. PICK v \in Values \ S : n = Nesting[v]
  BY DEF D
<1>4. ASSUME NEW w \in Parts(v) PROVE w \in S
  <2>1. w \in Values /\ Nesting[w] \in Nat /\ Nesting[v] \in Nat /\ Nesting[w] < Nesting[v]
    BY PartsAre
  <2>2. Nesting[w] \notin D
    BY <1>2, <1>3, <2>1
  <2> QED
    BY <2>1, <2>2 DEF D
<1> QED
  BY <1>3, <1>4

-----------------------------------------------------------------------------
(* What a value is redacted to and what its leaves are: the recursive       *)
(* definitions have a solution.                                             *)

LeavesWith(v, leaves) ==
    IF Parts(v) = {} THEN {<<<<>>, v>>}
    ELSE UNION {{<<<< <<v.type, k>> >> \o l[1], l[2]>> : l \in leaves[v.items[k]]}
                  : k \in DOMAIN v.items}

\* Both at once, so that one argument does for both.
Both(v, f) ==
    <<Redacted(v, [w \in Values |-> f[w][1]]), LeavesWith(v, [w \in Values |-> f[w][2]])>>

Upto(n) == {v \in Values : Nesting[v] < n}

\* f is a solution for the values that nest less than n deep.
Solves(f, n) == f = [v \in Upto(n) |-> Both(v, f)]

\* x is the leaf l of the part of v at k, seen from v.
Behind(x, v, k, l) == x = <<<< <<v.type, k>> >> \o l[1], l[2]>>

LEMMA LeafIs ==
    ASSUME NEW v, Parts(v) # {}, NEW h, NEW x
    PROVE  x \in LeavesWith(v, h) <=>
               \E k \in DOMAIN v.items : \E l \in h[v.items[k]] : Behind(x, v, k, l)
<1> DEFINE From(k) == {<<<< <<v.type, k>> >> \o l[1], l[2]>> : l \in h[v.items[k]]}
<1>1. LeavesWith(v, h) = UNION {From(k) : k \in DOMAIN v.items}
  BY DEF LeavesWith
<1>2. \A k : x \in From(k) <=> \E l \in h[v.items[k]] : Behind(x, v, k, l)
  BY DEF Behind
<1> HIDE DEF From
<1>3. x \in UNION {From(k) : k \in DOMAIN v.items} <=> \E k \in DOMAIN v.items : x \in From(k)
  OBVIOUS
<1> QED
  BY <1>1, <1>2, <1>3

LEMMA NeedsParts ==
    ASSUME NEW v \in Values, NEW f, NEW g, \A w \in Parts(v) : f[w] = g[w]
    PROVE  Redacted(v, f) = Redacted(v, g) /\ LeavesWith(v, f) = LeavesWith(v, g)
<1>1. ASSUME v.type \in {"map", "list"}
      PROVE  \A k \in DOMAIN v.items : v.items[k] \in Parts(v)
  BY <1>1 DEF Parts
<1>2. ASSUME v.type \in {"map", "list"}
      PROVE  \A k \in DOMAIN v.items : f[v.items[k]] = g[v.items[k]]
  BY <1>1, <1>2
<1>3. v.type \notin {"map", "list"} => Parts(v) = {}
  BY DEF Parts
<1>4. Redacted(v, f) = Redacted(v, g)
  <2>1. CASE v.type = "map"
    BY <1>2, <2>1 DEF Redacted
  <2>2. CASE v.type = "list"
    BY <1>2, <2>2 DEF Redacted
  <2>3. CASE v.type \notin {"map", "list"}
    BY <2>3 DEF Redacted
  <2> QED
    BY <2>1, <2>2, <2>3
<1>5. LeavesWith(v, f) = LeavesWith(v, g)
  <2>1. CASE Parts(v) = {}
    BY <2>1 DEF LeavesWith
  <2>2. CASE Parts(v) # {}
    <3>1. \A k \in DOMAIN v.items : f[v.items[k]] = g[v.items[k]]
      BY <1>2, <1>3, <2>2
    <3>2. ASSUME NEW x PROVE x \in LeavesWith(v, f) <=> x \in LeavesWith(v, g)
      <4>1. x \in LeavesWith(v, f) <=>
              \E k \in DOMAIN v.items : \E l \in f[v.items[k]] : Behind(x, v, k, l)
        BY <2>2, LeafIs
      <4>2. x \in LeavesWith(v, g) <=>
              \E k \in DOMAIN v.items : \E l \in g[v.items[k]] : Behind(x, v, k, l)
        BY <2>2, LeafIs
      <4> QED
        BY <3>1, <4>1, <4>2
    <3> QED
      BY <3>2
  <2> QED
    BY <2>1, <2>2
<1> QED
  BY <1>4, <1>5

LEMMA BothNeedsParts ==
    ASSUME NEW v \in Values, NEW f, NEW g, \A w \in Parts(v) : f[w] = g[w]
    PROVE  Both(v, f) = Both(v, g)
<1> DEFINE f1 == [w \in Values |-> f[w][1]]
           f2 == [w \in Values |-> f[w][2]]
           g1 == [w \in Values |-> g[w][1]]
           g2 == [w \in Values |-> g[w][2]]
<1>1. \A w \in Parts(v) : f1[w] = g1[w] /\ f2[w] = g2[w]
  BY PartsAre
<1> HIDE DEF f1, f2, g1, g2
<1>2. Redacted(v, f1) = Redacted(v, g1) /\ LeavesWith(v, f2) = LeavesWith(v, g2)
  BY <1>1, NeedsParts
<1> QED
  BY <1>2 DEF Both, f1, f2, g1, g2

LEMMA UptoParts ==
    ASSUME NEW n \in Nat, NEW v \in Upto(n)
    PROVE  v \in Values /\ n > 0 /\ Parts(v) \subseteq Upto(n) /\ Parts(v) \subseteq Upto(n - 1)
<1>1. v \in Values /\ Nesting[v] \in Nat /\ Nesting[v] < n
  BY ValuesAssumption DEF Upto
<1> QED
  BY <1>1, PartsAre DEF Upto

LEMMA SolvedBelow ==
    ASSUME NEW n \in Nat
    PROVE  \E f : Solves(f, n)
<1> DEFINE S == {m \in Nat : \E f : Solves(f, m)}
<1>1. 0 \in S
  <2>1. Upto(0) = {}
    BY UptoParts
  <2>2. Solves([v \in Upto(0) |-> 0], 0)
    BY <2>1 DEF Solves
  <2> QED
    BY <2>2
<1>2. ASSUME NEW m \in S PROVE m + 1 \in S
  <2>1. PICK f : Solves(f, m)
    OBVIOUS
  <2> DEFINE g == [v \in Upto(m + 1) |-> Both(v, f)]
  <2>2. ASSUME NEW v \in Upto(m + 1) PROVE g[v] = Both(v, g)
    <3>1. v \in Values /\ Parts(v) \subseteq Upto(m) /\ Parts(v) \subseteq Upto(m + 1)
      BY UptoParts
    <3>2. \A w \in Parts(v) : f[w] = g[w]
      BY <2>1, <3>1 DEF Solves
    <3>3. g[v] = Both(v, f)
      OBVIOUS
    <3> HIDE DEF g
    <3>4. Both(v, f) = Both(v, g)
      BY <3>1, <3>2, BothNeedsParts
    <3> QED
      BY <3>3, <3>4
  <2>3. g = [v \in Upto(m + 1) |-> Both(v, g)]
    <3>1. g = [v \in Upto(m + 1) |-> g[v]]
      OBVIOUS
    <3> HIDE DEF g
    <3> QED
      BY <2>2, <3>1
  <2> HIDE DEF g
  <2>4. Solves(g, m + 1)
    BY <2>3 DEF Solves
  <2> QED
    BY <2>4
<1> HIDE DEF S
<1>3. S = Nat
  <2>1. S \in SUBSET Nat
    BY DEF S
  <2> QED
    BY <1>1, <1>2, <2>1, NumbersByInduction
<1> QED
  BY <1>3 DEF S

LEMMA SolutionsAgree ==
    ASSUME NEW n \in Nat, NEW m \in Nat, NEW f, NEW g, Solves(f, n), Solves(g, m)
    PROVE  \A v \in Upto(n) \cap Upto(m) : f[v] = g[v]
<1> DEFINE S == {v \in Values : v \in Upto(n) \cap Upto(m) => f[v] = g[v]}
<1>1. ASSUME NEW v \in Values, Parts(v) \subseteq S PROVE v \in S
  <2> SUFFICES ASSUME v \in Upto(n) \cap Upto(m) PROVE f[v] = g[v]
    OBVIOUS
  <2>1. \A w \in Parts(v) : f[w] = g[w]
    BY <1>1, UptoParts
  <2>2. Both(v, f) = Both(v, g)
    BY <2>1, BothNeedsParts
  <2> QED
    BY <2>2 DEF Solves
<1> HIDE DEF S
<1>2. S = Values
  <2>1. S \in SUBSET Values
    BY DEF S
  <2> QED
    BY <1>1, <2>1, ValuesByInduction
<1> QED
  BY <1>2 DEF S, Upto

LEMMA Solved == \E f : f = [v \in Values |-> Both(v, f)]
<1> DEFINE F(n) == CHOOSE f : Solves(f, n)
           h == [v \in Values |-> Both(v, F(Nesting[v]))]
<1>1. \A n \in Nat : Solves(F(n), n)
  BY SolvedBelow
<1> HIDE DEF F
<1>2. ASSUME NEW v \in Values PROVE h[v] = Both(v, h)
  <2>1. ASSUME NEW w \in Parts(v) PROVE F(Nesting[v])[w] = h[w]
    <3> DEFINE n == Nesting[v]
               m == Nesting[w]
    <3>1. w \in Values /\ n \in Nat /\ m \in Nat /\ w \in Upto(n)
      BY PartsAre DEF Upto
    <3>2. F(n)[w] = Both(w, F(n))
      BY <1>1, <3>1 DEF Solves
    <3>3. ASSUME NEW u \in Parts(w) PROVE F(n)[u] = F(m)[u]
      <4>1. u \in Upto(n) \cap Upto(m)
        BY <3>1, UptoParts, PartsAre DEF Upto
      <4> HIDE DEF n, m
      <4> QED
        BY <1>1, <3>1, <4>1, SolutionsAgree
    <3>4. Both(w, F(n)) = Both(w, F(m))
      BY <3>1, <3>3, BothNeedsParts
    <3> QED
      BY <3>1, <3>2, <3>4
  <2> HIDE DEF h
  <2>2. Both(v, F(Nesting[v])) = Both(v, h)
    BY <2>1, BothNeedsParts
  <2> QED
    BY <2>2 DEF h
<1>3. h = [v \in Values |-> Both(v, h)]
  <2>1. h = [v \in Values |-> h[v]]
    OBVIOUS
  <2> HIDE DEF h
  <2> QED
    BY <1>2, <2>1
<1> QED
  BY <1>3

LEMMA ValueIs == Value = [v \in Values |-> Redacted(v, Value)]
<1>1. PICK f : f = [v \in Values |-> Both(v, f)]
  BY Solved
<1> DEFINE g == [v \in Values |-> f[v][1]]
<1>2. ASSUME NEW v \in Values PROVE g[v] = Redacted(v, g)
  <2>1. f[v] = Both(v, f) /\ g[v] = f[v][1]
    BY <1>1
  <2>2. Both(v, f)[1] = Redacted(v, g)
    BY DEF Both
  <2> HIDE DEF g
  <2> QED
    BY <2>1, <2>2
<1>3. g = [v \in Values |-> g[v]]
  OBVIOUS
<1> HIDE DEF g
<1>4. g = [v \in Values |-> Redacted(v, g)]
  BY <1>2, <1>3
<1> QED
  BY <1>4 DEF Value

LEMMA LeavesAre == Leaves = [v \in Values |-> LeavesWith(v, Leaves)]
<1>1. PICK f : f = [v \in Values |-> Both(v, f)]
  BY Solved
<1> DEFINE g == [v \in Values |-> f[v][2]]
<1>2. ASSUME NEW v \in Values PROVE g[v] = LeavesWith(v, g)
  <2>1. f[v] = Both(v, f) /\ g[v] = f[v][2]
    BY <1>1
  <2>2. Both(v, f)[2] = LeavesWith(v, g)
    BY DEF Both
  <2> HIDE DEF g
  <2> QED
    BY <2>1, <2>2
<1>3. g = [v \in Values |-> g[v]]
  OBVIOUS
<1> HIDE DEF g
<1>4. g = [v \in Values |-> LeavesWith(v, g)]
  BY <1>2, <1>3
<1>5. Leaves = CHOOSE l : l = [v \in Values |-> LeavesWith(v, l)]
  BY DEF Leaves, LeavesWith
<1> QED
  BY <1>4, <1>5

-----------------------------------------------------------------------------
(* What a normalized key contains *)

\* What strings.TrimSpace does not trim.
Unspaced(key) == {i \in DOMAIN key : key[i] \notin {" ", "nbsp"}}

LEMMA KeptInIs ==
    ASSUME NEW key \in Seq(STRING)
    PROVE  /\ Len(key) \in Nat /\ DOMAIN key = 1 .. Len(key) /\ DOMAIN key \subseteq Nat \ {0}
           /\ KeptIn(key) \subseteq DOMAIN key
           /\ \A i \in DOMAIN key :
                 i \in KeptIn(key) <=> /\ key[i] \notin Separators
                                      /\ \E a \in Unspaced(key) : a <= i
                                      /\ \E b \in Unspaced(key) : i <= b
<1>1. Len(key) \in Nat /\ DOMAIN key = 1 .. Len(key) /\ DOMAIN key \subseteq Nat \ {0}
  OBVIOUS
<1>2. KeptIn(key) = {i \in DOMAIN key : /\ key[i] \notin Separators
                                        /\ \E a, b \in Unspaced(key) : a <= i /\ i <= b}
  BY DEF KeptIn, Unspaced
<1> QED
  BY <1>1, <1>2

\* Of the first i characters, the positions that are kept.
KeptUpto(key, i) == {j \in KeptIn(key) : j <= i}

Rank(key, i) == Cardinality(KeptUpto(key, i))

KeptWith(key, kept, i) ==
    IF i = 0 THEN <<>>
    ELSE IF i \in KeptIn(key) THEN Append(kept[i - 1], Lowered(key)[i])
    ELSE kept[i - 1]

LEMMA SameSeq ==
    ASSUME NEW T, NEW s \in Seq(T), NEW t \in Seq(T), Len(s) = Len(t),
           \A i \in 1 .. Len(s) : s[i] = t[i]
    PROVE  s = t
OBVIOUS

LEMMA KeptExists ==
    ASSUME NEW key, NEW n \in Nat
    PROVE  \E f : f = [i \in 0 .. n |-> KeptWith(key, f, i)]
<1> DEFINE S == {m \in Nat : \E f : f = [i \in 0 .. m |-> KeptWith(key, f, i)]}
<1>1. 0 \in S
  <2> DEFINE g == [i \in 0 .. 0 |-> <<>>]
  <2>1. \A i \in 0 .. 0 : KeptWith(key, g, i) = <<>>
    BY DEF KeptWith
  <2>2. g = [i \in 0 .. 0 |-> KeptWith(key, g, i)]
    BY <2>1
  <2> QED
    BY <2>2
<1>2. ASSUME NEW m \in S PROVE m + 1 \in S
  <2>1. PICK f : f = [i \in 0 .. m |-> KeptWith(key, f, i)]
    OBVIOUS
  <2> DEFINE g == [i \in 0 .. m + 1 |-> KeptWith(key, f, i)]
  <2>2. \A i \in 0 .. m : g[i] = f[i]
    <3>1. \A i \in 0 .. m : i \in 0 .. m + 1 /\ f[i] = KeptWith(key, f, i)
      BY <2>1
    <3> QED
      BY <3>1
  <2>3. ASSUME NEW i \in 0 .. m + 1 PROVE KeptWith(key, f, i) = KeptWith(key, g, i)
    <3>1. CASE i = 0
      BY <3>1 DEF KeptWith
    <3>2. CASE i # 0
      <4>1. i - 1 \in 0 .. m
        BY <3>2
      <4>2. g[i - 1] = f[i - 1]
        BY <2>2, <4>1
      <4> HIDE DEF g
      <4> QED
        BY <3>2, <4>2 DEF KeptWith
    <3> QED
      BY <3>1, <3>2
  <2>4. g = [i \in 0 .. m + 1 |-> KeptWith(key, g, i)]
    <3>1. \A i \in 0 .. m + 1 : g[i] = KeptWith(key, f, i)
      OBVIOUS
    <3>2. g = [i \in 0 .. m + 1 |-> g[i]]
      OBVIOUS
    <3> HIDE DEF g
    <3> QED
      BY <2>3, <3>1, <3>2
  <2> HIDE DEF g
  <2> QED
    BY <2>4
<1> HIDE DEF S
<1>3. S = Nat
  <2>1. S \in SUBSET Nat
    BY DEF S
  <2> QED
    BY <1>1, <1>2, <2>1, NumbersByInduction
<1> QED
  BY <1>3 DEF S

LEMMA KeptIs ==
    ASSUME NEW key \in Seq(STRING)
    PROVE  /\ Kept(key)[0] = <<>>
           /\ \A i \in 1 .. Len(key) :
                 Kept(key)[i] = IF i \in KeptIn(key)
                                THEN Append(Kept(key)[i - 1], Lowered(key)[i])
                                ELSE Kept(key)[i - 1]
<1>1. Len(key) \in Nat
  OBVIOUS
<1>2. \E f : f = [i \in 0 .. Len(key) |-> KeptWith(key, f, i)]
  BY <1>1, KeptExists
<1>3. Kept(key) = CHOOSE f : f = [i \in 0 .. Len(key) |-> KeptWith(key, f, i)]
  BY DEF Kept, KeptWith
<1> DEFINE k == Kept(key)
<1>4. k = [i \in 0 .. Len(key) |-> KeptWith(key, k, i)]
  BY <1>2, <1>3
<1> HIDE DEF k
<1>5. \A i \in 0 .. Len(key) : k[i] = KeptWith(key, k, i)
  BY <1>4
<1>6. 0 \in 0 .. Len(key) /\ \A i \in 1 .. Len(key) : i \in 0 .. Len(key) /\ i # 0
  BY <1>1
<1> QED
  BY <1>5, <1>6 DEF KeptWith, k

LEMMA RankIs ==
    ASSUME NEW key \in Seq(STRING)
    PROVE  /\ Rank(key, 0) = 0
           /\ \A i \in Nat : IsFiniteSet(KeptUpto(key, i)) /\ Rank(key, i) \in Nat
           /\ \A i \in Nat \ {0} :
                 Rank(key, i) = IF i \in KeptIn(key) THEN Rank(key, i - 1) + 1
                                ELSE Rank(key, i - 1)
<1>1. KeptIn(key) \subseteq 1 .. Len(key) /\ Len(key) \in Nat
  BY KeptInIs
<1>2. \A i \in Nat : KeptUpto(key, i) \subseteq 1 .. i /\ IsFiniteSet(1 .. i)
  BY <1>1, FS_Interval DEF KeptUpto
<1>3. \A i \in Nat : IsFiniteSet(KeptUpto(key, i)) /\ Rank(key, i) \in Nat
  BY <1>2, FS_Subset, FS_CardinalityType DEF Rank
<1>4. KeptUpto(key, 0) = {}
  BY <1>2
<1>5. ASSUME NEW i \in Nat \ {0}
      PROVE  Rank(key, i) = IF i \in KeptIn(key) THEN Rank(key, i - 1) + 1
                            ELSE Rank(key, i - 1)
  <2>1. i - 1 \in Nat /\ IsFiniteSet(KeptUpto(key, i - 1))
    BY <1>3
  <2>2. CASE i \in KeptIn(key)
    <3>1. KeptUpto(key, i) = KeptUpto(key, i - 1) \cup {i} /\ i \notin KeptUpto(key, i - 1)
      BY <1>1, <2>2 DEF KeptUpto
    <3> QED
      BY <2>1, <2>2, <3>1, FS_AddElement DEF Rank
  <2>3. CASE i \notin KeptIn(key)
    <3>1. KeptUpto(key, i) = KeptUpto(key, i - 1)
      BY <1>1, <2>3 DEF KeptUpto
    <3> QED
      BY <2>3, <3>1 DEF Rank
  <2> QED
    BY <2>2, <2>3
<1> QED
  BY <1>3, <1>4, <1>5, FS_EmptySet DEF Rank

LEMMA RankGrows ==
    ASSUME NEW key \in Seq(STRING), NEW i \in Nat, NEW j \in Nat, i <= j
    PROVE  /\ Rank(key, i) <= Rank(key, j)
           /\ i < j /\ j \in KeptIn(key) => Rank(key, i) < Rank(key, j)
<1>1. ASSUME NEW a \in Nat, NEW b \in Nat, a <= b PROVE Rank(key, a) <= Rank(key, b)
  <2>1. KeptUpto(key, a) \subseteq KeptUpto(key, b)
    <3>1. KeptIn(key) \subseteq Nat
      BY KeptInIs
    <3> QED
      BY <1>1, <3>1 DEF KeptUpto
  <2> QED
    BY <2>1, RankIs, FS_Subset DEF Rank
<1>2. ASSUME i < j, j \in KeptIn(key) PROVE Rank(key, i) < Rank(key, j)
  <2>1. j \in Nat \ {0} /\ j - 1 \in Nat /\ i <= j - 1
    BY <1>2
  <2>2. Rank(key, i) <= Rank(key, j - 1)
    BY <1>1, <2>1
  <2>3. Rank(key, j) = Rank(key, j - 1) + 1 /\ Rank(key, i) \in Nat /\ Rank(key, j - 1) \in Nat
    BY <1>2, <2>1, RankIs
  <2> QED
    BY <2>2, <2>3
<1> QED
  BY <1>1, <1>2

\* The kept characters, each at its rank.
KeptSoFar(key, i) ==
    LET kept == Kept(key)[i]
    IN  /\ kept \in Seq({Lowered(key)[j] : j \in DOMAIN key})
        /\ Len(kept) = Rank(key, i)
        /\ \A j \in KeptUpto(key, i) : kept[Rank(key, j)] = Lowered(key)[j]
        /\ \A r \in 1 .. Rank(key, i) : \E j \in KeptUpto(key, i) : Rank(key, j) = r

LEMMA KeptStep ==
    ASSUME NEW key \in Seq(STRING), NEW i \in 1 .. Len(key), KeptSoFar(key, i - 1)
    PROVE  KeptSoFar(key, i)
<1> DEFINE T == {Lowered(key)[j] : j \in DOMAIN key}
           old == Kept(key)[i - 1]
           new == Kept(key)[i]
           r == Rank(key, i - 1)
           c == Lowered(key)[i]
<1>1. /\ i \in Nat \ {0} /\ i - 1 \in Nat /\ i \in DOMAIN key /\ c \in T
      /\ KeptIn(key) \subseteq Nat \ {0}
  BY KeptInIs
<1>2. /\ old \in Seq(T) /\ Len(old) = r /\ r \in Nat
      /\ \A j \in KeptUpto(key, i - 1) : old[Rank(key, j)] = Lowered(key)[j]
      /\ \A q \in 1 .. r : \E j \in KeptUpto(key, i - 1) : Rank(key, j) = q
  BY <1>1, RankIs DEF KeptSoFar
<1>3. new = IF i \in KeptIn(key) THEN Append(old, c) ELSE old
  BY KeptIs
<1>4. Rank(key, i) = IF i \in KeptIn(key) THEN r + 1 ELSE r
  BY <1>1, RankIs
<1>5. ASSUME NEW j \in KeptUpto(key, i - 1) PROVE Rank(key, j) \in 1 .. r
  <2>1. j \in KeptIn(key) /\ j \in Nat \ {0} /\ j <= i - 1
    BY <1>1 DEF KeptUpto
  <2>2. Rank(key, 0) < Rank(key, j) /\ Rank(key, j) <= r
    BY <1>1, <2>1, RankGrows
  <2>3. Rank(key, 0) = 0 /\ Rank(key, j) \in Nat
    BY <2>1, RankIs
  <2> QED
    BY <1>2, <2>2, <2>3
<1> HIDE DEF T, old, new, r, c
<1>6. CASE i \in KeptIn(key)
  <2>1. KeptUpto(key, i) = KeptUpto(key, i - 1) \cup {i}
    BY <1>1, <1>6 DEF KeptUpto
  <2>2. /\ new \in Seq(T) /\ Len(new) = r + 1 /\ new[r + 1] = c
        /\ \A q \in 1 .. r : new[q] = old[q]
    BY <1>1, <1>2, <1>3, <1>6
  <2>3. ASSUME NEW j \in KeptUpto(key, i) PROVE new[Rank(key, j)] = Lowered(key)[j]
    <3>1. CASE j = i
      BY <1>4, <1>6, <2>2, <3>1 DEF c
    <3>2. CASE j # i
      BY <1>2, <1>5, <2>1, <2>2, <3>2
    <3> QED
      BY <3>1, <3>2
  <2>4. ASSUME NEW q \in 1 .. r + 1 PROVE \E j \in KeptUpto(key, i) : Rank(key, j) = q
    <3>1. CASE q = r + 1
      BY <1>4, <1>6, <2>1, <3>1
    <3>2. CASE q # r + 1
      <4>1. q \in 1 .. r
        BY <1>2, <3>2
      <4> QED
        BY <1>2, <2>1, <4>1
    <3> QED
      BY <3>1, <3>2
  <2> QED
    BY <1>4, <1>6, <2>2, <2>3, <2>4 DEF KeptSoFar, T, new
<1>7. CASE i \notin KeptIn(key)
  <2>1. KeptUpto(key, i) = KeptUpto(key, i - 1)
    BY <1>1, <1>7 DEF KeptUpto
  <2> QED
    BY <1>2, <1>3, <1>4, <1>7, <2>1 DEF KeptSoFar, T, new
<1> QED
  BY <1>6, <1>7

LEMMA NormalizedIs ==
    ASSUME NEW key \in Seq(STRING)
    PROVE  KeptSoFar(key, Len(key))
<1> DEFINE S == {m \in Nat : m <= Len(key) => KeptSoFar(key, m)}
<1>1. 0 \in S
  <2>1. Kept(key)[0] = <<>> /\ Rank(key, 0) = 0
    BY KeptIs, RankIs
  <2>2. KeptUpto(key, 0) = {}
    BY KeptInIs DEF KeptUpto
  <2>3. <<>> \in Seq({Lowered(key)[j] : j \in DOMAIN key}) /\ Len(<<>>) = 0 /\ 1 .. 0 = {}
    OBVIOUS
  <2>4. KeptSoFar(key, 0)
    BY <2>1, <2>2, <2>3 DEF KeptSoFar
  <2> QED
    BY <2>4
<1>2. ASSUME NEW m \in S PROVE m + 1 \in S
  <2> SUFFICES ASSUME m + 1 <= Len(key) PROVE KeptSoFar(key, m + 1)
    OBVIOUS
  <2>1. KeptSoFar(key, m)
    BY <1>2
  <2>2. m + 1 \in 1 .. Len(key) /\ (m + 1) - 1 = m
    OBVIOUS
  <2> QED
    BY <2>1, <2>2, KeptStep
<1> HIDE DEF S
<1>3. S = Nat
  <2>1. S \in SUBSET Nat
    BY DEF S
  <2> QED
    BY <1>1, <1>2, <2>1, NumbersByInduction
<1>4. Len(key) \in Nat
  OBVIOUS
<1> QED
  BY <1>3, <1>4 DEF S

\* The kept positions of a stretch of the key.
Stretch(key, a, b) == {i \in KeptIn(key) : a <= i /\ i <= b}

LEMMA StretchIs ==
    ASSUME NEW key \in Seq(STRING), NEW a \in Nat \ {0}, NEW b \in Nat, a - 1 <= b
    PROVE  Cardinality(Stretch(key, a, b)) = Rank(key, b) - Rank(key, a - 1)
<1> DEFINE A == KeptUpto(key, a - 1)
           B == KeptUpto(key, b)
           C == Stretch(key, a, b)
<1>1. a - 1 \in Nat /\ KeptIn(key) \subseteq Nat
  BY KeptInIs
<1>2. IsFiniteSet(A) /\ IsFiniteSet(B)
  BY <1>1, RankIs
<1>3. C \subseteq B /\ A \cap C = {} /\ A \cup C = B
  BY <1>1 DEF KeptUpto, Stretch
<1> HIDE DEF A, B, C
<1>4. IsFiniteSet(C)
  BY <1>2, <1>3, FS_Subset
<1>5. Cardinality(B) = Cardinality(A) + Cardinality(C) - Cardinality(A \cap C)
  BY <1>2, <1>3, <1>4, FS_Union
<1>6. /\ Cardinality(A \cap C) = 0 /\ Cardinality(A) \in Nat /\ Cardinality(B) \in Nat
      /\ Cardinality(C) \in Nat
  BY <1>2, <1>3, <1>4, FS_EmptySet, FS_CardinalityType
<1>7. Cardinality(C) = Cardinality(B) - Cardinality(A)
  BY <1>5, <1>6
<1> QED
  BY <1>7 DEF A, B, C, Rank

\* A word as SpelledAssumption has them.
IsWord(word) == word \in Seq(STRING) \ {<<>>} /\ "nbsp" \notin Range(word)

\* What is behind a match in the normalized key is a stretch of the key.
LEMMA WithinSpells ==
    ASSUME NEW key \in Seq(STRING), NEW word, IsWord(word), Within(word, NormalizeKey(key))
    PROVE  Spells(key, word)
<1> DEFINE n == NormalizeKey(key)
           L == Len(word)
           T == {Lowered(key)[j] : j \in DOMAIN key}
<1>1. /\ n \in Seq(T) /\ Len(n) = Rank(key, Len(key))
      /\ \A j \in KeptUpto(key, Len(key)) : n[Rank(key, j)] = Lowered(key)[j]
      /\ \A r \in 1 .. Len(n) : \E j \in KeptUpto(key, Len(key)) : Rank(key, j) = r
  BY NormalizedIs DEF KeptSoFar, NormalizeKey
<1>2. L \in Nat \ {0}
  BY DEF IsWord
<1>3. PICK s \in 0 .. Len(n) - L : SubSeq(n, s + 1, s + L) = word
  BY DEF Within
<1>4. Len(n) \in Nat /\ s \in Nat /\ s + L \in Nat /\ s + L <= Len(n)
  BY <1>1, <1>2
<1> HIDE DEF n, L
<1>5. \A c \in 1 .. L : word[c] = n[s + c]
  BY <1>1, <1>2, <1>3, <1>4
<1>6. PICK a \in KeptUpto(key, Len(key)) : Rank(key, a) = s + 1
  <2>1. s + 1 \in 1 .. Len(n)
    BY <1>2, <1>4
  <2> QED
    BY <1>1, <2>1
<1>7. PICK b \in KeptUpto(key, Len(key)) : Rank(key, b) = s + L
  <2>1. s + L \in 1 .. Len(n)
    BY <1>2, <1>4
  <2> QED
    BY <1>1, <2>1
<1>8. /\ a \in KeptIn(key) /\ b \in KeptIn(key) /\ a \in DOMAIN key /\ b \in DOMAIN key
      /\ a \in Nat \ {0} /\ b \in Nat \ {0} /\ a <= Len(key) /\ b <= Len(key)
  BY KeptInIs DEF KeptUpto
<1>9. a <= b
  <2> SUFFICES ASSUME b < a PROVE FALSE
    BY <1>8
  <2>1. Rank(key, b) < Rank(key, a)
    BY <1>8, RankGrows
  <2> QED
    BY <1>2, <1>4, <1>6, <1>7, <2>1
<1> DEFINE letters == {i \in a .. b : key[i] \notin Separators}
<1>10. letters = Stretch(key, a, b)
  <2>1. ASSUME NEW i \in letters PROVE i \in Stretch(key, a, b)
    <3>1. /\ i \in DOMAIN key /\ a <= i /\ i <= b /\ i \in Nat /\ key[i] \notin Separators
      BY <1>8, KeptInIs
    <3>2. PICK c \in Unspaced(key) : c <= a
      BY <1>8, KeptInIs
    <3>3. PICK d \in Unspaced(key) : b <= d
      BY <1>8, KeptInIs
    <3>4. c \in Nat /\ d \in Nat
      BY KeptInIs DEF Unspaced
    <3>5. c <= i /\ i <= d
      BY <1>8, <3>1, <3>2, <3>3, <3>4
    <3> QED
      BY <3>1, <3>5, KeptInIs DEF Stretch
  <2>2. Stretch(key, a, b) \subseteq letters
    BY <1>8, KeptInIs DEF Stretch
  <2> QED
    BY <2>1, <2>2
<1>11. ASSUME NEW i \in Nat, a <= i
       PROVE  Cardinality(Stretch(key, a, i)) = Rank(key, i) - s
  <2>1. a - 1 \in Nat /\ a - 1 <= i
    BY <1>8, <1>11
  <2>2. Rank(key, a) = Rank(key, a - 1) + 1 /\ Rank(key, a - 1) \in Nat
    BY <1>8, <2>1, RankIs
  <2>3. Rank(key, a - 1) = s
    BY <1>4, <1>6, <2>2
  <2> QED
    BY <1>8, <2>1, <2>3, StretchIs
<1>12. Cardinality(letters) = L
  <2>1. Cardinality(Stretch(key, a, b)) = (s + L) - s
    BY <1>7, <1>8, <1>9, <1>11
  <2> HIDE DEF letters
  <2> QED
    BY <1>2, <1>4, <1>10, <2>1
<1>13. ASSUME NEW i \in letters
       PROVE  Lowered(key)[i] = word[Cardinality({j \in letters : j <= i})]
  <2>1. i \in KeptIn(key) /\ a <= i /\ i <= b /\ i \in Nat /\ i <= Len(key)
    BY <1>8, <1>10 DEF Stretch
  <2>2. {j \in letters : j <= i} = Stretch(key, a, i)
    <3>1. KeptIn(key) \subseteq Nat
      BY KeptInIs
    <3> QED
      BY <1>8, <1>10, <2>1, <3>1 DEF Stretch
  <2>3. Rank(key, i) \in s + 1 .. s + L
    <3>1. Rank(key, a) <= Rank(key, i) /\ Rank(key, i) <= Rank(key, b) /\ Rank(key, i) \in Nat
      BY <1>8, <2>1, RankGrows, RankIs
    <3> QED
      BY <1>4, <1>6, <1>7, <3>1
  <2>4. n[Rank(key, i)] = Lowered(key)[i]
    BY <1>1, <2>1 DEF KeptUpto
  <2>5. Rank(key, i) - s \in 1 .. L /\ s + (Rank(key, i) - s) = Rank(key, i)
    BY <1>2, <1>4, <2>3
  <2>6. word[Rank(key, i) - s] = n[Rank(key, i)]
    BY <1>5, <2>5
  <2>7. Cardinality({j \in letters : j <= i}) = Rank(key, i) - s
    BY <1>11, <2>1, <2>2
  <2> QED
    BY <2>4, <2>6, <2>7
<1> QED
  BY <1>8, <1>12, <1>13 DEF Spells, L

\* A stretch that spells a word has no space that is trimmed or left inside, so
\* that the normalized key has it in one piece.
LEMMA SpellsWithin ==
    ASSUME NEW key \in Seq(STRING), NEW word, IsWord(word), Spells(key, word)
    PROVE  Within(word, NormalizeKey(key))
<1> DEFINE n == NormalizeKey(key)
           L == Len(word)
           T == {Lowered(key)[j] : j \in DOMAIN key}
<1>1. /\ n \in Seq(T) /\ Len(n) = Rank(key, Len(key))
      /\ \A j \in KeptUpto(key, Len(key)) : n[Rank(key, j)] = Lowered(key)[j]
      /\ \A r \in 1 .. Len(n) : \E j \in KeptUpto(key, Len(key)) : Rank(key, j) = r
  BY NormalizedIs DEF KeptSoFar, NormalizeKey
<1>2. L \in Nat \ {0} /\ Len(n) \in Nat /\ Len(key) \in Nat
  BY <1>1 DEF IsWord
<1> HIDE DEF n
<1>3. PICK a \in DOMAIN key, b \in DOMAIN key :
         LET letters == {i \in a .. b : key[i] \notin Separators}
         IN  /\ Cardinality(letters) = L
             /\ \A i \in letters :
                   Lowered(key)[i] = word[Cardinality({j \in letters : j <= i})]
  BY DEF Spells
<1> DEFINE letters == {i \in a .. b : key[i] \notin Separators}
<1>4. /\ Cardinality(letters) = L
      /\ \A i \in letters : Lowered(key)[i] = word[Cardinality({j \in letters : j <= i})]
  BY <1>3
<1>5. /\ a \in Nat \ {0} /\ b \in Nat \ {0} /\ a <= Len(key) /\ b <= Len(key)
      /\ letters \subseteq DOMAIN key
  OBVIOUS
<1>6. a <= b
  <2> SUFFICES ASSUME b < a PROVE FALSE
    BY <1>5
  <2>1. letters = {}
    BY <1>5
  <2> HIDE DEF letters
  <2> QED
    BY <1>2, <1>4, <2>1, FS_EmptySet
<1>7. ASSUME NEW i \in letters PROVE key[i] \notin {" ", "nbsp"}
  <2> DEFINE c == Cardinality({j \in letters : j <= i})
  <2>1. c \in 1 .. L
    <3>1. a .. b \subseteq Int /\ IsFiniteSet(a .. b)
      BY <1>5, FS_Interval
    <3>2. IsFiniteSet(letters)
      BY <3>1, FS_Subset
    <3>3. i <= i
      BY <1>5
    <3> DEFINE before == {j \in letters : j <= i}
    <3>4. before \subseteq letters /\ i \in before
      BY <3>3
    <3> HIDE DEF letters, before
    <3>5. IsFiniteSet(before) /\ Cardinality(before) <= Cardinality(letters)
      BY <3>2, <3>4, FS_Subset
    <3>6. Cardinality(before) \in Nat /\ Cardinality(before) # 0
      BY <3>4, <3>5, FS_CardinalityType, FS_EmptySet
    <3> QED
      BY <1>2, <1>4, <3>5, <3>6 DEF before
  <2>2. Lowered(key)[i] = word[c]
    BY <1>4
  <2>3. word[c] # "nbsp"
    BY <2>1 DEF IsWord, Range
  <2>4. key[i] = "nbsp" => Lowered(key)[i] = "nbsp"
    BY <1>5, SpelledAssumption DEF Lowered
  <2>5. key[i] # " "
    BY DEF Separators
  <2> QED
    BY <2>2, <2>3, <2>4, <2>5
<1>8. letters = Stretch(key, a, b)
  <2>1. ASSUME NEW i \in letters PROVE i \in Stretch(key, a, b)
    <3>1. /\ i \in DOMAIN key /\ a <= i /\ i <= b /\ i <= i /\ key[i] \notin Separators
      BY <1>5
    <3>2. i \in Unspaced(key)
      BY <1>7, <3>1 DEF Unspaced
    <3> QED
      BY <3>1, <3>2, KeptInIs DEF Stretch
  <2>2. Stretch(key, a, b) \subseteq letters
    BY <1>5, KeptInIs DEF Stretch
  <2> QED
    BY <2>1, <2>2
<1> HIDE DEF letters
<1> DEFINE s == Rank(key, a - 1)
<1>9. /\ s \in Nat /\ Rank(key, b) = s + L /\ Rank(key, b) <= Len(n)
      /\ \A i \in Nat : a - 1 <= i => Cardinality(Stretch(key, a, i)) = Rank(key, i) - s
  <2>1. a - 1 \in Nat /\ a - 1 <= b /\ b \in Nat
    BY <1>5, <1>6
  <2>2. s \in Nat /\ Rank(key, b) \in Nat
    BY <2>1, RankIs
  <2>3. \A i \in Nat : a - 1 <= i => Cardinality(Stretch(key, a, i)) = Rank(key, i) - s
    BY <1>5, StretchIs
  <2>4. L = Rank(key, b) - s
    BY <1>4, <1>8, <2>1, <2>3
  <2>5. Rank(key, b) <= Len(n)
    BY <1>1, <1>2, <1>5, <2>1, RankGrows
  <2> HIDE DEF s
  <2> QED
    BY <1>2, <2>2, <2>3, <2>4, <2>5
<1> HIDE DEF L
<1>10. ASSUME NEW r \in 1 .. L PROVE word[r] = n[s + r]
  <2>1. s + r \in 1 .. Len(n)
    <3> HIDE DEF s
    <3> QED
      BY <1>2, <1>9
  <2>2. PICK i \in KeptUpto(key, Len(key)) : Rank(key, i) = s + r
    BY <1>1, <2>1
  <2>3. i \in KeptIn(key) /\ i \in Nat \ {0} /\ i <= Len(key)
    BY KeptInIs DEF KeptUpto
  <2>4. a <= i
    <3> SUFFICES ASSUME i < a PROVE FALSE
      BY <1>5, <2>3
    <3>1. a - 1 \in Nat /\ i <= a - 1
      BY <1>5, <2>3
    <3>2. Rank(key, i) <= s
      BY <2>3, <3>1, RankGrows
    <3> HIDE DEF s
    <3> QED
      BY <1>2, <1>9, <2>2, <3>2
  <2>5. i <= b
    <3> SUFFICES ASSUME b < i PROVE FALSE
      BY <1>5, <2>3
    <3>1. Rank(key, b) < Rank(key, i)
      BY <1>5, <2>3, RankGrows
    <3> HIDE DEF s
    <3> QED
      BY <1>2, <1>9, <2>2, <3>1
  <2>6. i \in letters
    BY <1>8, <2>3, <2>4, <2>5 DEF Stretch
  <2>7. {j \in letters : j <= i} = Stretch(key, a, i)
    <3>1. KeptIn(key) \subseteq Nat
      BY KeptInIs
    <3> QED
      BY <1>5, <1>8, <2>3, <2>5, <3>1 DEF Stretch
  <2>8. Cardinality(Stretch(key, a, i)) = r
    <3>1. a - 1 <= i
      BY <1>5, <2>3, <2>4
    <3>2. Cardinality(Stretch(key, a, i)) = Rank(key, i) - s
      BY <1>9, <2>3, <3>1
    <3> HIDE DEF s
    <3> QED
      BY <1>9, <2>2, <3>2
  <2>9. Lowered(key)[i] = word[r]
    BY <1>4, <2>6, <2>7, <2>8
  <2>10. n[Rank(key, i)] = Lowered(key)[i]
    BY <1>1
  <2> QED
    BY <2>2, <2>9, <2>10
<1> HIDE DEF s
<1>11. s \in 0 .. Len(n) - L /\ s + 1 \in 1 .. Len(n) /\ s + L \in 1 .. Len(n)
  BY <1>2, <1>9
<1>12. SubSeq(n, s + 1, s + L) = word
  <2> DEFINE w == SubSeq(n, s + 1, s + L)
  <2>1. w \in Seq(T) /\ Len(w) = L /\ \A r \in 1 .. L : w[r] = n[s + r]
    BY <1>1, <1>2, <1>9, <1>11
  <2>2. word \in Seq(STRING) /\ Len(word) = L
    BY DEF IsWord, L
  <2>3. w \in Seq(T \cup STRING) /\ word \in Seq(T \cup STRING)
    BY <2>1, <2>2
  <2> HIDE DEF w
  <2>4. w = word
    BY <1>10, <2>1, <2>2, <2>3, SameSeq
  <2> QED
    BY <2>4 DEF w
<1> QED
  BY <1>11, <1>12 DEF Within, n, L

\* The code's test of a key, by normalizing, and the one that is meant agree.
LEMMA KeysAgree ==
    ASSUME NEW key \in Seq(STRING)
    PROVE  SensitiveKey(key) <=> NamesSecret(key)
<1>1. \A w \in Secrets : IsWord(Spelled[w])
  BY SpelledAssumption DEF IsWord
<1>2. \A w \in Secrets : Within(Spelled[w], NormalizeKey(key)) <=> Spells(key, Spelled[w])
  BY <1>1, WithinSpells, SpellsWithin
<1>3. SensitiveKey(key) <=> \E w \in Secrets : Within(Spelled[w], NormalizeKey(key))
  BY SpelledAssumption DEF SensitiveKey
<1> QED
  BY <1>2, <1>3 DEF NamesSecret

-----------------------------------------------------------------------------
(* What redaction does to a value *)

\* A container becomes one with the same keys or positions; what a key that
\* names a secret leads to is hidden, the other parts are redacted.
LEMMA ContainerIs ==
    ASSUME NEW v \in Values, Parts(v) # {}
    PROVE  /\ Value[v] \in Values /\ Value[v].type = v.type
           /\ DOMAIN Value[v].items = DOMAIN v.items
           /\ Parts(Value[v]) # {}
           /\ \A k \in DOMAIN v.items :
                 /\ v.items[k] \in Parts(v)
                 /\ Value[v].items[k] =
                       IF Names(<<v.type, k>>) THEN Hidden ELSE Value[v.items[k]]
<1>1. v.type \in {"map", "list"} /\ DOMAIN v.items # {}
  BY DEF Parts
<1>2. \A k \in DOMAIN v.items : v.items[k] \in Parts(v)
  BY <1>1 DEF Parts
<1>3. Value[v] = Redacted(v, Value) /\ Value[v] \in Values
  BY ValueIs, RedactedAssumption
<1>4. CASE v.type = "map"
  <2> DEFINE m == [k \in DOMAIN v.items |->
                     IF SensitiveKey(k) THEN Hidden ELSE Value[v.items[k]]]
  <2>1. Value[v] = MapOf(m)
    BY <1>3, <1>4 DEF Redacted
  <2>2. \A k \in DOMAIN v.items : Names(<<v.type, k>>) <=> SensitiveKey(k)
    <3>1. DOMAIN v.items \subseteq Seq(STRING)
      BY <1>4, ValuesAssumption
    <3> QED
      BY <1>4, <3>1, KeysAgree DEF Names
  <2>3. DOMAIN m = DOMAIN v.items
        /\ \A k \in DOMAIN v.items :
              m[k] = IF Names(<<v.type, k>>) THEN Hidden ELSE Value[v.items[k]]
    BY <2>2
  <2> HIDE DEF m
  <2>4. MapOf(m).type = "map" /\ MapOf(m).items = m
    BY DEF MapOf
  <2>5. Parts(MapOf(m)) # {}
    BY <1>1, <2>3, <2>4 DEF Parts
  <2> QED
    BY <1>2, <1>3, <1>4, <2>1, <2>3, <2>4, <2>5
<1>5. CASE v.type = "list"
  <2> DEFINE s == [i \in DOMAIN v.items |-> Value[v.items[i]]]
  <2>1. Value[v] = ListOf(s)
    BY <1>3, <1>5 DEF Redacted
  <2>2. \A k \in DOMAIN v.items : ~Names(<<v.type, k>>)
    BY <1>5 DEF Names
  <2>3. DOMAIN s = DOMAIN v.items
        /\ \A k \in DOMAIN v.items :
              s[k] = IF Names(<<v.type, k>>) THEN Hidden ELSE Value[v.items[k]]
    BY <2>2
  <2> HIDE DEF s
  <2>4. ListOf(s).type = "list" /\ ListOf(s).items = s
    BY DEF ListOf
  <2>5. Parts(ListOf(s)) # {}
    BY <1>1, <2>3, <2>4 DEF Parts
  <2> QED
    BY <1>2, <1>3, <1>5, <2>1, <2>3, <2>4, <2>5
<1> QED
  BY <1>1, <1>4, <1>5

LEMMA AtomIs ==
    ASSUME NEW v \in Values, Parts(v) = {}
    PROVE  Value[v] = v /\ Leaves[v] = {<<<<>>, v>>}
<1>1. Value[v] = Redacted(v, Value) /\ Leaves[v] = LeavesWith(v, Leaves)
  BY ValueIs, LeavesAre
<1>2. CASE v.type = "map"
  <2>1. v = MapOf(v.items) /\ v.items \in [DOMAIN v.items -> Values]
    BY <1>2, ValuesAssumption
  <2>2. DOMAIN v.items = {}
    BY <1>2 DEF Parts
  <2>3. [k \in DOMAIN v.items |-> IF SensitiveKey(k) THEN Hidden ELSE Value[v.items[k]]]
          = v.items
    BY <2>1, <2>2
  <2>4. Redacted(v, Value) =
          MapOf([k \in DOMAIN v.items |->
                   IF SensitiveKey(k) THEN Hidden ELSE Value[v.items[k]]])
    BY <1>2 DEF Redacted
  <2> QED
    BY <1>1, <2>1, <2>3, <2>4 DEF LeavesWith
<1>3. CASE v.type = "list"
  <2>1. v = ListOf(v.items) /\ v.items \in Seq(Values)
    BY <1>3, ValuesAssumption
  <2>2. DOMAIN v.items = {}
    BY <1>3 DEF Parts
  <2>3. [i \in DOMAIN v.items |-> Value[v.items[i]]] = v.items
    BY <2>1, <2>2
  <2>4. Redacted(v, Value) = ListOf([i \in DOMAIN v.items |-> Value[v.items[i]]])
    BY <1>3 DEF Redacted
  <2> QED
    BY <1>1, <2>1, <2>3, <2>4 DEF LeavesWith
<1>4. CASE v.type \notin {"map", "list"}
  BY <1>1, <1>4 DEF Redacted, LeavesWith
<1> QED
  BY <1>2, <1>3, <1>4

LEMMA HiddenIs == Hidden \in Values /\ Parts(Hidden) = {}
BY ValuesAssumption DEF Hidden, Text, Parts

-----------------------------------------------------------------------------
(* The leaves of a redacted value *)

\* The steps from a container to its parts.
Ways == UNION {{<<w.type, k>> : k \in DOMAIN w.items} : w \in Values}

LEMMA LeavesWithin ==
    ASSUME NEW v \in Values, Parts(v) # {}, NEW x
    PROVE  x \in Leaves[v] <=>
               \E k \in DOMAIN v.items : \E l \in Leaves[v.items[k]] : Behind(x, v, k, l)
<1>1. Leaves[v] = LeavesWith(v, Leaves)
  BY LeavesAre
<1> QED
  BY <1>1, LeafIs

LEMMA PartAt ==
    ASSUME NEW v \in Values, Parts(v) # {}
    PROVE  /\ DOMAIN v.items # {}
           /\ \A k \in DOMAIN v.items :
                 v.items[k] \in Parts(v) /\ v.items[k] \in Values /\ <<v.type, k>> \in Ways
<1>1. v.type \in {"map", "list"}
  BY DEF Parts
<1>2. DOMAIN v.items # {} /\ \A k \in DOMAIN v.items : v.items[k] \in Parts(v)
  BY <1>1 DEF Parts
<1> QED
  BY <1>2, PartsAre DEF Ways

LEMMA LeavesExist == \A v \in Values : Leaves[v] # {}
<1> DEFINE S == {v \in Values : Leaves[v] # {}}
<1>1. ASSUME NEW v \in Values, Parts(v) \subseteq S PROVE v \in S
  <2>1. CASE Parts(v) = {}
    BY <2>1, AtomIs
  <2>2. CASE Parts(v) # {}
    <3>1. PICK k \in DOMAIN v.items : v.items[k] \in Parts(v)
      BY <2>2, PartAt
    <3>2. PICK l : l \in Leaves[v.items[k]]
      BY <1>1, <3>1
    <3>3. PICK x : Behind(x, v, k, l)
      BY DEF Behind
    <3>4. x \in Leaves[v]
      BY <2>2, <3>2, <3>3, LeavesWithin
    <3> QED
      BY <3>4
  <2> QED
    BY <2>1, <2>2
<1> HIDE DEF S
<1>2. S = Values
  <2>1. S \in SUBSET Values
    BY DEF S
  <2> QED
    BY <1>1, <2>1, ValuesByInduction
<1> QED
  BY <1>2 DEF S

IsLeaf(l) == l = <<l[1], l[2]>> /\ l[1] \in Seq(Ways)

LEMMA LeavesType == \A v \in Values : \A l \in Leaves[v] : IsLeaf(l)
<1> DEFINE S == {v \in Values : \A l \in Leaves[v] : IsLeaf(l)}
<1>1. ASSUME NEW v \in Values, Parts(v) \subseteq S PROVE v \in S
  <2>1. CASE Parts(v) = {}
    <3>1. Leaves[v] = {<<<<>>, v>>}
      BY <2>1, AtomIs
    <3>2. IsLeaf(<<<<>>, v>>)
      BY DEF IsLeaf
    <3> QED
      BY <3>1, <3>2
  <2>2. CASE Parts(v) # {}
    <3> SUFFICES ASSUME NEW x \in Leaves[v] PROVE IsLeaf(x)
      OBVIOUS
    <3>1. PICK k \in DOMAIN v.items : \E l \in Leaves[v.items[k]] : Behind(x, v, k, l)
      BY <2>2, LeavesWithin
    <3>2. PICK l \in Leaves[v.items[k]] : Behind(x, v, k, l)
      BY <3>1
    <3>3. IsLeaf(l) /\ <<v.type, k>> \in Ways
      BY <1>1, <2>2, PartAt
    <3> QED
      BY <3>2, <3>3 DEF Behind, IsLeaf
  <2> QED
    BY <2>1, <2>2
<1> HIDE DEF S
<1>2. S = Values
  <2>1. S \in SUBSET Values
    BY DEF S
  <2> QED
    BY <1>1, <2>1, ValuesByInduction
<1> QED
  BY <1>2 DEF S

\* The first step of a way that names a secret, 0 for none.
At(way) == SelectInSeq(way, Names)

LEMMA AtIs ==
    ASSUME NEW T, NEW way \in Seq(T)
    PROVE  /\ At(way) \in 0 .. Len(way)
           /\ At(way) = 0 => \A i \in 1 .. Len(way) : ~Names(way[i])
           /\ At(way) # 0 => /\ Names(way[At(way)])
                             /\ \A i \in 1 .. At(way) - 1 : ~Names(way[i])
<1> DEFINE I == {i \in 1 .. Len(way) : Names(way[i])}
<1>1. At(way) = IF I # {} THEN Min(I) ELSE 0
  BY DEF At, SelectInSeq
<1>2. Len(way) \in Nat /\ I \in SUBSET Nat
  OBVIOUS
<1>3. CASE I = {}
  BY <1>1, <1>2, <1>3
<1>4. CASE I # {}
  <2>1. At(way) \in I /\ \A i \in I : At(way) <= i
    <3> HIDE DEF I
    <3> QED
      BY <1>1, <1>2, <1>4, MinIs
  <2> QED
    BY <1>2, <2>1
<1> QED
  BY <1>3, <1>4

LEMMA AtUnique ==
    ASSUME NEW T, NEW way \in Seq(T), NEW a \in 0 .. Len(way),
           a = 0 => \A i \in 1 .. Len(way) : ~Names(way[i]),
           a # 0 => Names(way[a]) /\ \A i \in 1 .. a - 1 : ~Names(way[i])
    PROVE  At(way) = a
<1> DEFINE b == At(way)
<1>1. /\ b \in 0 .. Len(way)
      /\ b = 0 => \A i \in 1 .. Len(way) : ~Names(way[i])
      /\ b # 0 => Names(way[b]) /\ \A i \in 1 .. b - 1 : ~Names(way[i])
  BY AtIs
<1> HIDE DEF b
<1>2. Len(way) \in Nat
  OBVIOUS
<1>3. ~(a < b) /\ ~(b < a)
  <2>1. ASSUME a < b PROVE FALSE
    <3>1. CASE a = 0
      BY <1>1, <1>2, <2>1, <3>1
    <3>2. CASE a # 0
      BY <1>1, <1>2, <2>1, <3>2
    <3> QED
      BY <3>1, <3>2
  <2>2. ASSUME b < a PROVE FALSE
    <3>1. CASE b = 0
      BY <1>1, <1>2, <2>2, <3>1
    <3>2. CASE b # 0
      BY <1>1, <1>2, <2>2, <3>2
    <3> QED
      BY <3>1, <3>2
  <2> QED
    BY <2>1, <2>2
<1> QED
  BY <1>1, <1>2, <1>3 DEF b

LEMMA AtBehind ==
    ASSUME NEW T, NEW e \in T, NEW way \in Seq(T)
    PROVE  LET q == <<e>> \o way
           IN  /\ Names(e) => At(q) = 1
               /\ ~Names(e) /\ At(way) = 0 => At(q) = 0
               /\ ~Names(e) /\ At(way) # 0 => At(q) = At(way) + 1
<1> DEFINE q == <<e>> \o way
<1>1. /\ q \in Seq(T) /\ Len(q) = Len(way) + 1 /\ q[1] = e /\ Len(way) \in Nat
      /\ \A i \in 2 .. Len(way) + 1 : q[i] = way[i - 1]
  OBVIOUS
<1> HIDE DEF q
<1>2. ASSUME Names(e) PROVE At(q) = 1
  <2>1. 1 \in 0 .. Len(q) /\ Names(q[1]) /\ \A i \in 1 .. 1 - 1 : ~Names(q[i])
    BY <1>1, <1>2
  <2> QED
    BY <1>1, <2>1, AtUnique
<1>3. ASSUME ~Names(e), At(way) = 0 PROVE At(q) = 0
  <2>1. \A i \in 1 .. Len(way) : ~Names(way[i])
    BY <1>3, AtIs
  <2>2. ASSUME NEW i \in 1 .. Len(q) PROVE ~Names(q[i])
    <3>1. CASE i = 1
      BY <1>1, <1>3, <3>1
    <3>2. CASE i # 1
      <4>1. q[i] = way[i - 1] /\ i - 1 \in 1 .. Len(way)
        BY <1>1, <3>2
      <4> QED
        BY <2>1, <4>1
    <3> QED
      BY <3>1, <3>2
  <2>3. 0 \in 0 .. Len(q)
    BY <1>1
  <2> QED
    BY <1>1, <2>2, <2>3, AtUnique
<1>4. ASSUME ~Names(e), At(way) # 0 PROVE At(q) = At(way) + 1
  <2> DEFINE a == At(way)
  <2>1. a \in 1 .. Len(way) /\ Names(way[a]) /\ \A i \in 1 .. a - 1 : ~Names(way[i])
    BY <1>1, <1>4, AtIs
  <2> HIDE DEF a
  <2>2. a + 1 \in 0 .. Len(q) /\ a + 1 # 0 /\ q[a + 1] = way[a]
    BY <1>1, <2>1
  <2>3. ASSUME NEW i \in 1 .. (a + 1) - 1 PROVE ~Names(q[i])
    <3>1. CASE i = 1
      BY <1>1, <1>4, <3>1
    <3>2. CASE i # 1
      <4>1. q[i] = way[i - 1] /\ i - 1 \in 1 .. a - 1
        BY <1>1, <2>1, <3>2
      <4> QED
        BY <2>1, <4>1
    <3> QED
      BY <3>1, <3>2
  <2>4. At(q) = a + 1
    BY <1>1, <2>1, <2>2, <2>3, AtUnique
  <2> QED
    BY <2>4 DEF a
<1> QED
  BY <1>2, <1>3, <1>4 DEF q

LEMMA CutBehind ==
    ASSUME NEW T, NEW e \in T, NEW way \in Seq(T), NEW a \in 0 .. Len(way)
    PROVE  SubSeq(<<e>> \o way, 1, a + 1) = <<e>> \o SubSeq(way, 1, a)
<1> DEFINE q == <<e>> \o way
           c == SubSeq(way, 1, a)
           s == SubSeq(q, 1, a + 1)
           t == <<e>> \o c
<1>1. /\ q \in Seq(T) /\ Len(q) = Len(way) + 1 /\ q[1] = e /\ Len(way) \in Nat
      /\ \A i \in 2 .. Len(way) + 1 : q[i] = way[i - 1]
  OBVIOUS
<1>2. c \in Seq(T) /\ Len(c) = a /\ \A i \in 1 .. a : c[i] = way[i]
  OBVIOUS
<1>3. s \in Seq(T) /\ Len(s) = a + 1 /\ \A i \in 1 .. a + 1 : s[i] = q[i]
  <2> HIDE DEF q
  <2> QED
    BY <1>1
<1>4. /\ t \in Seq(T) /\ Len(t) = a + 1 /\ t[1] = e
      /\ \A i \in 2 .. a + 1 : t[i] = c[i - 1]
  <2> HIDE DEF c
  <2> QED
    BY <1>2
<1> HIDE DEF q, c, s, t
<1>5. ASSUME NEW i \in 1 .. a + 1 PROVE s[i] = t[i]
  <2>1. CASE i = 1
    BY <1>1, <1>3, <1>4, <2>1
  <2>2. CASE i # 1
    <3>1. i \in 2 .. a + 1 /\ i - 1 \in 1 .. a /\ i \in 2 .. Len(way) + 1
      BY <1>1, <2>2
    <3> QED
      BY <1>1, <1>2, <1>3, <1>4, <3>1
  <2> QED
    BY <2>1, <2>2
<1>6. s = t
  BY <1>3, <1>4, <1>5, SameSeq
<1> QED
  BY <1>6 DEF s, t, q, c

\* What is expected of a leaf, seen from the container it is in.
LEMMA ExpectedBehind ==
    ASSUME NEW v \in Values, Parts(v) # {}, NEW k \in DOMAIN v.items,
           NEW l, IsLeaf(l), NEW x, Behind(x, v, k, l)
    PROVE  /\ Names(<<v.type, k>>) => Expected(x) = <<<< <<v.type, k>> >>, Hidden>>
           /\ ~Names(<<v.type, k>>) => Behind(Expected(x), v, k, Expected(l))
<1> DEFINE e == <<v.type, k>>
           way == l[1]
           q == <<e>> \o way
<1>1. e \in Ways /\ way \in Seq(Ways) /\ l = <<way, l[2]>> /\ x = <<q, l[2]>>
  BY PartAt DEF IsLeaf, Behind
<1>2. Expected(x) = IF At(q) = 0 THEN x ELSE <<SubSeq(q, 1, At(q)), Hidden>>
  BY <1>1 DEF Expected, At
<1>3. Expected(l) = IF At(way) = 0 THEN l ELSE <<SubSeq(way, 1, At(way)), Hidden>>
  BY DEF Expected, At
<1> HIDE DEF e, way
<1>4. /\ Names(e) => At(q) = 1
      /\ ~Names(e) /\ At(way) = 0 => At(q) = 0
      /\ ~Names(e) /\ At(way) # 0 => At(q) = At(way) + 1
  BY <1>1, AtBehind
<1>5. At(way) \in 0 .. Len(way)
  BY <1>1, AtIs
<1>6. ASSUME Names(e) PROVE Expected(x) = <<<<e>>, Hidden>>
  <2>1. SubSeq(q, 1, 0 + 1) = <<e>> \o SubSeq(way, 1, 0)
    <3>1. 0 \in 0 .. Len(way)
      BY <1>5
    <3> QED
      BY <1>1, <3>1, CutBehind
  <2>2. SubSeq(way, 1, 0) = <<>> /\ <<e>> \o <<>> = <<e>>
    BY <1>1
  <2> HIDE DEF q
  <2> QED
    BY <1>2, <1>4, <1>6, <2>1, <2>2
<1>7. ASSUME ~Names(e) PROVE Expected(x) = <<<<e>> \o Expected(l)[1], Expected(l)[2]>>
  <2>1. CASE At(way) = 0
    <3> HIDE DEF q
    <3>1. Expected(x) = <<q, l[2]>> /\ Expected(l) = <<way, l[2]>>
      BY <1>1, <1>2, <1>3, <1>4, <1>7, <2>1
    <3> QED
      BY <3>1 DEF q
  <2>2. CASE At(way) # 0
    <3>1. SubSeq(q, 1, At(way) + 1) = <<e>> \o SubSeq(way, 1, At(way))
      BY <1>1, <1>5, CutBehind
    <3>2. At(q) = At(way) + 1 /\ At(q) # 0
      BY <1>4, <1>5, <1>7, <2>2
    <3> DEFINE c == SubSeq(way, 1, At(way))
    <3> HIDE DEF q
    <3>3. Expected(x) = <<SubSeq(q, 1, At(way) + 1), Hidden>>
      BY <1>2, <3>2
    <3>4. Expected(l) = <<c, Hidden>>
      BY <1>3, <2>2
    <3> HIDE DEF c
    <3>5. Expected(l)[1] = c /\ Expected(l)[2] = Hidden
      BY <3>4
    <3> QED
      BY <3>1, <3>3, <3>5 DEF c
  <2> QED
    BY <2>1, <2>2
<1> QED
  BY <1>6, <1>7 DEF e, Behind

\* What a redacted value holds is what is expected of the leaves it had.
LEMMA LeavesRedacted ==
    \A v \in Values : Leaves[Value[v]] = {Expected(l) : l \in Leaves[v]}
<1> DEFINE S == {v \in Values : Leaves[Value[v]] = {Expected(l) : l \in Leaves[v]}}
<1>1. ASSUME NEW v \in Values, Parts(v) \subseteq S PROVE v \in S
  <2>1. CASE Parts(v) = {}
    <3>1. Value[v] = v /\ Leaves[v] = {<<<<>>, v>>}
      BY <2>1, AtomIs
    <3>2. At(<<>>) = 0
      <4> DEFINE way == <<>>
      <4>1. way \in Seq(Ways) /\ Len(way) = 0
        OBVIOUS
      <4> HIDE DEF way
      <4>2. At(way) \in 0 .. Len(way)
        BY <4>1, AtIs
      <4> QED
        BY <4>1, <4>2 DEF way
    <3>3. Expected(<<<<>>, v>>) = <<<<>>, v>>
      BY <3>2 DEF Expected, At
    <3> QED
      BY <3>1, <3>3
  <2>2. CASE Parts(v) # {}
    <3> DEFINE w == Value[v]
    <3>1. /\ w \in Values /\ w.type = v.type /\ DOMAIN w.items = DOMAIN v.items
          /\ Parts(w) # {}
          /\ \A k \in DOMAIN v.items :
                /\ v.items[k] \in Parts(v)
                /\ w.items[k] =
                      IF Names(<<v.type, k>>) THEN Hidden ELSE Value[v.items[k]]
      BY <2>2, ContainerIs
    <3> HIDE DEF w
    <3>2. \A x, l : \A k \in DOMAIN v.items : Behind(x, w, k, l) <=> Behind(x, v, k, l)
      BY <3>1 DEF Behind
    <3>3. ASSUME NEW x \in Leaves[w] PROVE \E y \in Leaves[v] : x = Expected(y)
      <4>1. PICK k \in DOMAIN v.items :
               \E l \in Leaves[w.items[k]] : Behind(x, w, k, l)
        BY <3>1, LeavesWithin
      <4>2. PICK l \in Leaves[w.items[k]] : Behind(x, v, k, l)
        BY <3>2, <4>1
      <4>3. v.items[k] \in Values
        BY <2>2, PartAt
      <4>4. CASE Names(<<v.type, k>>)
        <5>1. l = <<<<>>, Hidden>>
          BY <3>1, <4>2, <4>4, HiddenIs, AtomIs
        <5>2. x = <<<< <<v.type, k>> >>, Hidden>>
          BY <4>2, <5>1 DEF Behind
        <5>3. PICK m \in Leaves[v.items[k]] : TRUE
          BY <4>3, LeavesExist
        <5>4. PICK y : Behind(y, v, k, m)
          BY DEF Behind
        <5>5. y \in Leaves[v]
          BY <2>2, <5>4, LeavesWithin
        <5>6. IsLeaf(m)
          BY <4>3, LeavesType
        <5>7. Expected(y) = x
          BY <2>2, <4>4, <5>2, <5>4, <5>6, ExpectedBehind
        <5> QED
          BY <5>5, <5>7
      <4>5. CASE ~Names(<<v.type, k>>)
        <5>1. w.items[k] = Value[v.items[k]]
          BY <3>1, <4>5
        <5>2. Leaves[Value[v.items[k]]] = {Expected(m) : m \in Leaves[v.items[k]]}
          BY <1>1, <3>1
        <5>3. PICK m \in Leaves[v.items[k]] : l = Expected(m)
          BY <4>2, <5>1, <5>2
        <5>4. PICK y : Behind(y, v, k, m)
          BY DEF Behind
        <5>5. y \in Leaves[v]
          BY <2>2, <5>4, LeavesWithin
        <5>6. IsLeaf(m)
          BY <4>3, LeavesType
        <5>7. Behind(Expected(y), v, k, Expected(m))
          BY <2>2, <4>5, <5>4, <5>6, ExpectedBehind
        <5>8. Expected(y) = x
          BY <4>2, <5>3, <5>7 DEF Behind
        <5> QED
          BY <5>5, <5>8
      <4> QED
        BY <4>4, <4>5
    <3>4. ASSUME NEW y \in Leaves[v] PROVE Expected(y) \in Leaves[w]
      <4>1. PICK k \in DOMAIN v.items : \E m \in Leaves[v.items[k]] : Behind(y, v, k, m)
        BY <2>2, LeavesWithin
      <4>2. PICK m \in Leaves[v.items[k]] : Behind(y, v, k, m)
        BY <4>1
      <4>3. v.items[k] \in Values
        BY <2>2, PartAt
      <4>4. IsLeaf(m)
        BY <4>3, LeavesType
      <4>5. CASE Names(<<v.type, k>>)
        <5>1. Expected(y) = <<<< <<v.type, k>> >>, Hidden>>
          BY <2>2, <4>2, <4>4, <4>5, ExpectedBehind
        <5>2. <<<<>>, Hidden>> \in Leaves[w.items[k]]
          BY <3>1, <4>5, HiddenIs, AtomIs
        <5>3. Behind(Expected(y), v, k, <<<<>>, Hidden>>)
          BY <5>1 DEF Behind
        <5> QED
          BY <3>1, <3>2, <5>2, <5>3, LeavesWithin
      <4>6. CASE ~Names(<<v.type, k>>)
        <5>1. Behind(Expected(y), v, k, Expected(m))
          BY <2>2, <4>2, <4>4, <4>6, ExpectedBehind
        <5>2. Leaves[Value[v.items[k]]] = {Expected(l) : l \in Leaves[v.items[k]]}
          BY <1>1, <3>1
        <5>3. Expected(m) \in Leaves[w.items[k]]
          BY <3>1, <4>6, <5>2
        <5> QED
          BY <3>1, <3>2, <5>1, <5>3, LeavesWithin
      <4> QED
        BY <4>5, <4>6
    <3>5. Leaves[w] = {Expected(l) : l \in Leaves[v]}
      BY <3>3, <3>4
    <3> QED
      BY <3>5 DEF w
  <2> QED
    BY <2>1, <2>2
<1> HIDE DEF S
<1>2. S = Values
  <2>1. S \in SUBSET Values
    BY DEF S
  <2> QED
    BY <1>1, <2>1, ValuesByInduction
<1> QED
  BY <1>2 DEF S

-----------------------------------------------------------------------------
(* The arguments of a command *)

RoundsWith(args, rounds, i) ==
    IF i = 0 THEN [out |-> <<>>, next |-> FALSE] ELSE Step(rounds[i - 1], args[i])

LEMMA RoundsExist ==
    ASSUME NEW args, NEW n \in Nat
    PROVE  \E f : f = [i \in 0 .. n |-> RoundsWith(args, f, i)]
<1> DEFINE S == {m \in Nat : \E f : f = [i \in 0 .. m |-> RoundsWith(args, f, i)]}
<1>1. 0 \in S
  <2> DEFINE g == [i \in 0 .. 0 |-> [out |-> <<>>, next |-> FALSE]]
  <2>1. \A i \in 0 .. 0 : RoundsWith(args, g, i) = [out |-> <<>>, next |-> FALSE]
    BY DEF RoundsWith
  <2>2. g = [i \in 0 .. 0 |-> RoundsWith(args, g, i)]
    BY <2>1
  <2> QED
    BY <2>2
<1>2. ASSUME NEW m \in S PROVE m + 1 \in S
  <2>1. PICK f : f = [i \in 0 .. m |-> RoundsWith(args, f, i)]
    OBVIOUS
  <2> DEFINE g == [i \in 0 .. m + 1 |-> RoundsWith(args, f, i)]
  <2>2. \A i \in 0 .. m : g[i] = f[i]
    <3>1. \A i \in 0 .. m : i \in 0 .. m + 1 /\ f[i] = RoundsWith(args, f, i)
      BY <2>1
    <3> QED
      BY <3>1
  <2>3. ASSUME NEW i \in 0 .. m + 1 PROVE RoundsWith(args, f, i) = RoundsWith(args, g, i)
    <3>1. CASE i = 0
      BY <3>1 DEF RoundsWith
    <3>2. CASE i # 0
      <4>1. i - 1 \in 0 .. m
        BY <3>2
      <4>2. g[i - 1] = f[i - 1]
        BY <2>2, <4>1
      <4> HIDE DEF g
      <4> QED
        BY <3>2, <4>2 DEF RoundsWith
    <3> QED
      BY <3>1, <3>2
  <2>4. g = [i \in 0 .. m + 1 |-> RoundsWith(args, g, i)]
    <3>1. \A i \in 0 .. m + 1 : g[i] = RoundsWith(args, f, i)
      OBVIOUS
    <3>2. g = [i \in 0 .. m + 1 |-> g[i]]
      OBVIOUS
    <3> HIDE DEF g
    <3> QED
      BY <2>3, <3>1, <3>2
  <2> HIDE DEF g
  <2> QED
    BY <2>4
<1> HIDE DEF S
<1>3. S = Nat
  <2>1. S \in SUBSET Nat
    BY DEF S
  <2> QED
    BY <1>1, <1>2, <2>1, NumbersByInduction
<1> QED
  BY <1>3 DEF S

LEMMA RoundsAre ==
    ASSUME NEW T, NEW args \in Seq(T)
    PROVE  /\ Rounds(args)[0] = [out |-> <<>>, next |-> FALSE]
           /\ \A i \in 1 .. Len(args) :
                 Rounds(args)[i] = Step(Rounds(args)[i - 1], args[i])
<1>1. Len(args) \in Nat
  OBVIOUS
<1>2. \E f : f = [i \in 0 .. Len(args) |-> RoundsWith(args, f, i)]
  BY <1>1, RoundsExist
<1>3. Rounds(args) = CHOOSE f : f = [i \in 0 .. Len(args) |-> RoundsWith(args, f, i)]
  BY DEF Rounds, RoundsWith
<1> DEFINE r == Rounds(args)
<1>4. r = [i \in 0 .. Len(args) |-> RoundsWith(args, r, i)]
  BY <1>2, <1>3
<1> HIDE DEF r
<1>5. \A i \in 0 .. Len(args) : r[i] = RoundsWith(args, r, i)
  BY <1>4
<1>6. 0 \in 0 .. Len(args) /\ \A i \in 1 .. Len(args) : i \in 0 .. Len(args) /\ i # 0
  BY <1>1
<1> QED
  BY <1>5, <1>6 DEF RoundsWith, r

\* An argument that names a secret and does not bring its value itself.
Flag(j) == ~Assigns(argv[j]) /\ SensitiveArgKey(argv[j])

\* How many of them stand side by side right before i.
Run(i) == Cardinality({j \in 1 .. i - 1 : \A k \in j .. i - 1 : Flag(k)})

LEMMA RunIs ==
    /\ Run(1) = 0
    /\ \A i \in Nat \ {0} :
          Run(i) \in Nat /\ Run(i + 1) = IF Flag(i) THEN Run(i) + 1 ELSE 0
<1> DEFINE R(i) == {j \in 1 .. i - 1 : \A k \in j .. i - 1 : Flag(k)}
<1>1. \A i : Run(i) = Cardinality(R(i))
  BY DEF Run
<1>2. R(1) = {}
  OBVIOUS
<1>3. ASSUME NEW i \in Nat \ {0}
      PROVE  /\ IsFiniteSet(R(i)) /\ i \notin R(i)
             /\ R(i + 1) = IF Flag(i) THEN R(i) \cup {i} ELSE {}
  <2>1. R(i) \subseteq 1 .. i - 1 /\ IsFiniteSet(1 .. i - 1) /\ i \notin 1 .. i - 1
    BY FS_Interval
  <2>2. CASE Flag(i)
    <3>1. ASSUME NEW j \in R(i) PROVE j \in R(i + 1)
      <4>1. j \in 1 .. i - 1 /\ \A k \in j .. i - 1 : Flag(k)
        OBVIOUS
      <4>2. ASSUME NEW k \in j .. i PROVE Flag(k)
        <5>1. CASE k = i
          BY <2>2, <5>1
        <5>2. CASE k # i
          <6>1. k \in j .. i - 1
            BY <4>1, <5>2
          <6> QED
            BY <4>1, <6>1
        <5> QED
          BY <5>1, <5>2
      <4>3. j \in 1 .. (i + 1) - 1 /\ (i + 1) - 1 = i
        BY <4>1
      <4> QED
        BY <4>2, <4>3
    <3>2. i \in R(i + 1)
      <4>1. i \in 1 .. (i + 1) - 1 /\ \A k \in i .. (i + 1) - 1 : k = i
        OBVIOUS
      <4> QED
        BY <2>2, <4>1
    <3>3. ASSUME NEW j \in R(i + 1), j # i PROVE j \in R(i)
      <4>1. j \in 1 .. i - 1 /\ \A k \in j .. i - 1 : k \in j .. (i + 1) - 1
        BY <3>3
      <4> QED
        BY <4>1
    <3> HIDE DEF R
    <3> QED
      BY <2>1, <2>2, <3>1, <3>2, <3>3, FS_Subset
  <2>3. CASE ~Flag(i)
    <3>1. ASSUME NEW j \in R(i + 1) PROVE FALSE
      <4>1. i \in j .. (i + 1) - 1
        OBVIOUS
      <4> QED
        BY <2>3, <4>1
    <3> HIDE DEF R
    <3> QED
      BY <2>1, <2>3, <3>1, FS_Subset
  <2> QED
    BY <2>2, <2>3
<1> HIDE DEF R
<1>4. Run(1) = 0
  BY <1>1, <1>2, FS_EmptySet
<1>5. ASSUME NEW i \in Nat \ {0}
      PROVE  Run(i) \in Nat /\ Run(i + 1) = IF Flag(i) THEN Run(i) + 1 ELSE 0
  <2>1. Cardinality(R(i)) \in Nat
    BY <1>3, FS_CardinalityType
  <2>2. CASE Flag(i)
    BY <1>1, <1>3, <2>1, <2>2, FS_AddElement
  <2>3. CASE ~Flag(i)
    BY <1>1, <1>3, <2>1, <2>3, FS_EmptySet
  <2> QED
    BY <2>2, <2>3
<1> QED
  BY <1>4, <1>5

\* What the loop makes of the i-th argument: of a run of flags every second
\* one is taken for the value of the flag before it.
RecordedAs(i) == IF Run(i) % 2 = 1 THEN HiddenArg ELSE Shown(argv[i])

\* The loop after i rounds.
LoopAt(i) ==
    LET acc == Rounds(argv)[i]
    IN  /\ acc.out \in Seq({RecordedAs(j) : j \in 1 .. Len(argv)}) /\ Len(acc.out) = i
        /\ \A j \in 1 .. i : acc.out[j] = RecordedAs(j)
        /\ acc.next <=> Run(i + 1) % 2 = 1

LEMMA RoundKeeps ==
    ASSUME NEW T, argv \in Seq(T), NEW i \in 1 .. Len(argv), LoopAt(i - 1)
    PROVE  LoopAt(i)
<1> DEFINE K == {RecordedAs(j) : j \in 1 .. Len(argv)}
           old == Rounds(argv)[i - 1]
           new == Rounds(argv)[i]
<1>1. new = Step(old, argv[i])
  BY RoundsAre
<1>2. /\ old.out \in Seq(K) /\ Len(old.out) = i - 1
      /\ \A j \in 1 .. i - 1 : old.out[j] = RecordedAs(j)
      /\ old.next <=> Run(i) % 2 = 1
  BY DEF LoopAt
<1>3. RecordedAs(i) \in K
  OBVIOUS
<1>4. Run(i) \in Nat /\ Run(i + 1) = IF Flag(i) THEN Run(i) + 1 ELSE 0
  BY RunIs
<1> HIDE DEF old, new
<1>5. new.out = Append(old.out, RecordedAs(i)) /\ (new.next <=> Run(i + 1) % 2 = 1)
  <2>1. CASE old.next
    <3>1. new = [out |-> Append(old.out, HiddenArg), next |-> FALSE]
      BY <1>1, <2>1 DEF Step
    <3>2. Run(i) % 2 = 1 /\ RecordedAs(i) = HiddenArg
      BY <1>2, <2>1 DEF RecordedAs
    <3>3. Run(i + 1) % 2 # 1
      BY <1>4, <3>2
    <3> QED
      BY <3>1, <3>2, <3>3
  <2>2. CASE ~old.next /\ Assigns(argv[i])
    <3>1. new = [out |-> Append(old.out, KeyOf(argv[i]) \o <<"=">> \o HiddenArg),
                 next |-> FALSE]
      BY <1>1, <2>2 DEF Step
    <3>2. Run(i) % 2 # 1 /\ RecordedAs(i) = KeyOf(argv[i]) \o <<"=">> \o HiddenArg
      BY <1>2, <2>2 DEF RecordedAs, Shown
    <3>3. Run(i + 1) % 2 # 1
      BY <1>4, <2>2 DEF Flag
    <3> QED
      BY <3>1, <3>2, <3>3
  <2>3. CASE ~old.next /\ ~Assigns(argv[i])
    <3>1. new = [out |-> Append(old.out, argv[i]), next |-> SensitiveArgKey(argv[i])]
      BY <1>1, <2>3 DEF Step
    <3>2. Run(i) % 2 # 1 /\ RecordedAs(i) = argv[i]
      BY <1>2, <2>3 DEF RecordedAs, Shown
    <3>3. Run(i + 1) % 2 = 1 <=> SensitiveArgKey(argv[i])
      <4>1. Flag(i) <=> SensitiveArgKey(argv[i])
        BY <2>3 DEF Flag
      <4>2. CASE Flag(i)
        BY <1>4, <3>2, <4>1, <4>2
      <4>3. CASE ~Flag(i)
        BY <1>4, <4>1, <4>3
      <4> QED
        BY <4>2, <4>3
    <3>4. new.out = Append(old.out, argv[i]) /\ new.next = SensitiveArgKey(argv[i])
      BY <3>1
    <3> QED
      BY <3>2, <3>3, <3>4
  <2> QED
    BY <2>1, <2>2, <2>3
<1> HIDE DEF K
<1>6. /\ new.out \in Seq(K) /\ Len(new.out) = i
      /\ \A j \in 1 .. i : new.out[j] = IF j = i THEN RecordedAs(i) ELSE old.out[j]
  BY <1>2, <1>3, <1>5
<1>7. \A j \in 1 .. i : new.out[j] = RecordedAs(j)
  BY <1>2, <1>6
<1> QED
  BY <1>5, <1>6, <1>7 DEF LoopAt, K, new

LEMMA LoopKeeps ==
    ASSUME NEW T, argv \in Seq(T)
    PROVE  ArgvRedacted
<1> DEFINE S == {m \in Nat : m <= Len(argv) => LoopAt(m)}
<1>1. 0 \in S
  <2>1. Rounds(argv)[0].out = <<>> /\ Rounds(argv)[0].next = FALSE
    BY RoundsAre
  <2>2. <<>> \in Seq({RecordedAs(j) : j \in 1 .. Len(argv)}) /\ Len(<<>>) = 0 /\ 1 .. 0 = {}
    OBVIOUS
  <2>3. ~(Run(0 + 1) % 2 = 1)
    BY RunIs
  <2>4. LoopAt(0)
    BY <2>1, <2>2, <2>3 DEF LoopAt
  <2> QED
    BY <2>4
<1>2. ASSUME NEW m \in S PROVE m + 1 \in S
  <2> SUFFICES ASSUME m + 1 <= Len(argv) PROVE LoopAt(m + 1)
    OBVIOUS
  <2>1. LoopAt(m)
    BY <1>2
  <2>2. m + 1 \in 1 .. Len(argv) /\ (m + 1) - 1 = m
    OBVIOUS
  <2> QED
    BY <2>1, <2>2, RoundKeeps
<1> HIDE DEF S
<1>3. S = Nat
  <2>1. S \in SUBSET Nat
    BY DEF S
  <2> QED
    BY <1>1, <1>2, <2>1, NumbersByInduction
<1>4. Len(argv) \in Nat /\ DOMAIN argv = 1 .. Len(argv)
  OBVIOUS
<1>5. LoopAt(Len(argv))
  BY <1>3, <1>4 DEF S
<1>6. /\ Len(RedactArgv(argv)) = Len(argv)
      /\ \A i \in 1 .. Len(argv) : RedactArgv(argv)[i] = RecordedAs(i)
  BY <1>5 DEF LoopAt, RedactArgv
<1>7. ASSUME NEW i \in DOMAIN argv
      PROVE  /\ Run(i) = IF After(i) THEN Run(i - 1) + 1 ELSE 0
             /\ After(i) => i - 1 \in DOMAIN argv
  <2>1. i \in Nat \ {0} /\ i <= Len(argv)
    BY <1>4
  <2>2. CASE i = 1
    <3>1. i - 1 \notin DOMAIN argv
      BY <1>4, <2>2
    <3> QED
      BY <2>2, <3>1, RunIs DEF After
  <2>3. CASE i # 1
    <3>1. i - 1 \in Nat \ {0} /\ i - 1 \in DOMAIN argv /\ (i - 1) + 1 = i
      BY <1>4, <2>1, <2>3
    <3>2. Run((i - 1) + 1) = IF Flag(i - 1) THEN Run(i - 1) + 1 ELSE 0
      BY <3>1, RunIs
    <3>3. After(i) <=> Flag(i - 1)
      BY <3>1 DEF After, Flag
    <3> QED
      BY <3>1, <3>2, <3>3
  <2> QED
    BY <2>2, <2>3
<1>8. ASSUME NEW i \in DOMAIN argv
      PROVE  /\ RedactArgv(argv)[i] \in {HiddenArg, Shown(argv[i])}
             /\ After(i) /\ ~After(i - 1) => RedactArgv(argv)[i] = HiddenArg
             /\ ~After(i) => RedactArgv(argv)[i] = Shown(argv[i])
  <2>1. RedactArgv(argv)[i] = RecordedAs(i)
    BY <1>4, <1>6
  <2>2. ASSUME ~After(i) PROVE RecordedAs(i) = Shown(argv[i])
    <3>1. Run(i) % 2 # 1
      BY <1>7, <2>2
    <3> QED
      BY <3>1 DEF RecordedAs
  <2>3. ASSUME After(i), ~After(i - 1) PROVE RecordedAs(i) = HiddenArg
    <3>1. Run(i) = 1
      BY <1>7, <2>3
    <3> QED
      BY <3>1 DEF RecordedAs
  <2> QED
    BY <2>1, <2>2, <2>3 DEF RecordedAs
<1> QED
  BY <1>6, <1>8 DEF ArgvRedacted

-----------------------------------------------------------------------------
\* What ReplaySpec leaves as it was.
LEMMA ReplayState ==
    ReplaySpec => [](/\ req \in [Fields -> Seq(STRING)]
                     /\ input \in Values
                     /\ argv \in Seq(Seq(STRING)))
<1> DEFINE I == /\ req \in [Fields -> Seq(STRING)]
                /\ input \in Values
                /\ argv \in Seq(Seq(STRING))
<1>1. ReplayInit => I
  <2> SUFFICES ASSUME ReplayInit PROVE I
    OBVIOUS
  <2>1. req \in [Fields -> Seq(STRING)]
    BY RequestsAssumption DEF ReplayInit
  <2>2. input \in Values /\ argv \in Seq(Seq(STRING))
    <3>1. <<>> \in Seq(Seq(STRING))
      OBVIOUS
    <3> QED
      BY <3>1, InputsAssumption, ArgvsAssumption DEF ReplayInit
  <2> QED
    BY <2>1, <2>2
<1>2. I /\ [UNCHANGED <<req, input, argv>>]_<<req, input, argv>> => I'
  OBVIOUS
<1> QED
  BY <1>1, <1>2, PTL DEF ReplaySpec

\* Redaction hides every text behind a key that spells a secret word, at any
\* depth and however the key is separated, and nothing else (internal/redact,
\* Value, Map and normalizeKey).
THEOREM RedactionIsExact == ReplaySpec => []RedactsExactly
<1>1. input \in Values => RedactsExactly
  BY LeavesRedacted DEF RedactsExactly
<1> QED
  BY <1>1, ReplayState, PTL

\* Of the arguments of a supervised command none is lost, the one after the
\* first of a run of flags that name a secret is hidden, and so is the value of
\* an assignment; what has no such flag before it is shown
\* (command_redact.go, redactArgv).
THEOREM ArgumentsAreRedacted == ReplaySpec => []ArgvRedacted
<1>1. argv \in Seq(Seq(STRING)) => ArgvRedacted
  BY LoopKeeps
<1> QED
  BY <1>1, ReplayState, PTL

-----------------------------------------------------------------------------
(* Replay *)

Labels ==
    {"external_side_effect", "code_execution", "financial_side_effect",
     "agent_delegation", "local_mutation", "external_network", "unknown"}

LEMMA SingleIs ==
    ASSUME NEW T, NEW t \in T
    PROVE  <<t>> \in Seq(T) /\ <<t>> # <<>> /\ Len(<<t>>) = 1 /\ <<t>>[1] = t
OBVIOUS

LEMMA LabelIs ==
    ASSUME NEW t \in Labels
    PROVE  <<t>> # <<>> /\ Trim(<<t>>) = <<t>>
<1>1. t # Space
  BY DEF Labels, Space
<1>2. <<t>> \in Seq(Labels) /\ <<t>> # <<>> /\ Len(<<t>>) = 1 /\ <<t>>[1] = t
  BY SingleIs
<1>3. Tight(<<t>>)
  BY <1>1, <1>2 DEF Tight
<1> QED
  BY <1>2, <1>3, TrimOfTight

LEMMA RuleLabelsAre ==
    ASSUME NEW riskRules \in {ConfigRiskRules, BuiltinRiskRules}, NEW k \in DOMAIN riskRules
    PROVE  \E t \in Labels : riskRules[k].risk = <<t>>
<1> DEFINE Fine(rule) == \E t \in Labels : rule.risk = <<t>>
<1>1. ASSUME NEW id, NEW actions, NEW resources, NEW t \in Labels
      PROVE  Fine(RiskRule(id, actions, resources, t))
  BY DEF RiskRule
<1>2. Fine(ExternalEmail) /\ Fine(ShellExecution) /\ Fine(Payments) /\ Fine(Delegation)
  <2>1. {"external_side_effect", "code_execution", "financial_side_effect",
         "agent_delegation"} \subseteq Labels
    BY DEF Labels
  <2> HIDE DEF Fine
  <2> QED
    BY <1>1, <2>1 DEF ExternalEmail, ShellExecution, Payments, Delegation
<1>3. CASE riskRules = ConfigRiskRules
  <2> DEFINE last == RiskRule("git-publish", Publish, {}, "external_side_effect")
  <2>1. ConfigRiskRules = <<ExternalEmail, ShellExecution, Payments, Delegation, last>>
    BY DEF ConfigRiskRules
  <2>2. "external_side_effect" \in Labels
    BY DEF Labels
  <2> HIDE DEF Fine
  <2>3. Fine(last)
    BY <1>1, <2>2
  <2> HIDE DEF last
  <2>4. DOMAIN ConfigRiskRules = 1 .. 5 /\ \A i \in 1 .. 5 : Fine(ConfigRiskRules[i])
    BY <1>2, <2>1, <2>3
  <2> QED
    BY <1>3, <2>4 DEF Fine
<1>4. CASE riskRules = BuiltinRiskRules
  <2> DEFINE files == RiskRule("destructive-files",
                        {Name("file", "delete"), Name("file", "write")}, {}, "local_mutation")
             calls == RiskRule("network-calls", {All("http"), All("api")}, {},
                        "external_network")
  <2>1. BuiltinRiskRules =
          <<Payments, ExternalEmail, files, ShellExecution, calls, Delegation>>
    BY DEF BuiltinRiskRules
  <2>2. "local_mutation" \in Labels /\ "external_network" \in Labels
    BY DEF Labels
  <2> HIDE DEF Fine
  <2>3. Fine(files) /\ Fine(calls)
    BY <1>1, <2>2
  <2> HIDE DEF files, calls
  <2>4. DOMAIN BuiltinRiskRules = 1 .. 6 /\ \A i \in 1 .. 6 : Fine(BuiltinRiskRules[i])
    BY <1>2, <2>1, <2>3
  <2> QED
    BY <1>4, <2>4 DEF Fine
<1> QED
  BY <1>3, <1>4

LEMMA ClassifyIs ==
    ASSUME NEW riskRules \in {ConfigRiskRules, BuiltinRiskRules}, NEW q
    PROVE  \E t \in Labels : Classify(riskRules, q) = <<t>>
<1> DEFINE i == Deciding(riskRules, q)
<1>1. \A k \in DOMAIN riskRules : DOMAIN riskRules \subseteq Nat \ {0}
  BY RiskRulesAre
<1>2. DOMAIN riskRules \subseteq Nat \ {0}
  BY <1>1
<1>3. i = 0 \/ i \in DOMAIN riskRules
  BY <1>2, DecidingIs
<1> HIDE DEF i
<1>4. Classify(riskRules, q) = IF i = 0 THEN Unknown ELSE riskRules[i].risk
  BY DEF Classify, i
<1>5. "unknown" \in Labels /\ Unknown = <<"unknown">>
  BY DEF Labels, Unknown
<1> QED
  BY <1>3, <1>4, <1>5, RuleLabelsAre

\* Completing and labelling again changes nothing, whichever rules do it.
LEMMA LabelStands ==
    ASSUME NEW r \in [Fields -> Seq(STRING)],
           NEW recorded \in RiskRuleSets, NEW current \in RiskRuleSets
    PROVE  LET f == Classified(recorded, WithDefaults(r))
           IN  Classified(current, WithDefaults(f)) = f
<1> DEFINE q == WithDefaults(r)
           f == Classified(recorded, q)
<1>1. q \in [Fields -> Seq(STRING)] /\ \A g \in Fields : Trim(q[g]) = q[g]
  BY DefaultsAre
<1> HIDE DEF q
<1>2. /\ f = [g \in Fields |-> f[g]] /\ f["risk"] # <<>>
      /\ \A g \in Fields : Trim(f[g]) = f[g]
  <2>1. CASE q["risk"] # <<>>
    BY <1>1, <2>1 DEF Classified
  <2>2. CASE q["risk"] = <<>>
    <3>1. PICK t \in Labels : Classify(recorded, q) = <<t>>
      BY ClassifyIs DEF RiskRuleSets
    <3>2. f = [q EXCEPT !["risk"] = <<t>>]
      BY <2>2, <3>1 DEF Classified
    <3>3. <<t>> # <<>> /\ Trim(<<t>>) = <<t>>
      BY LabelIs
    <3> HIDE DEF f
    <3>4. \A g \in Fields : f[g] = IF g = "risk" THEN <<t>> ELSE q[g]
      BY <1>1, <3>2
    <3>5. f = [g \in Fields |-> f[g]] /\ "risk" \in Fields
      BY <1>1, <3>2 DEF Fields
    <3> QED
      BY <1>1, <3>3, <3>4, <3>5
  <2> QED
    BY <2>1, <2>2
<1> HIDE DEF f
<1>3. WithDefaults(f) = f
  BY <1>2 DEF WithDefaults
<1>4. Classified(current, f) = f
  BY <1>2 DEF Classified
<1> QED
  BY <1>3, <1>4 DEF f, q

\* Replaying a stored receipt shows the stored request; it denies what is
\* revoked by then and otherwise gives what the rules of the recorded decision
\* give the submitted request, whichever of the two sets of risk rules is in use
\* by then, and what it allows is allowed to the submitted request
\* (internal/gateway, Service.Replay; internal/action, WithDefaults).
THEOREM ReplayShowsTheReceipt == ReplaySpec => []ReplayAgrees
<1>1. req \in [Fields -> Seq(STRING)] => ReplayAgrees
  <2> SUFFICES ASSUME req \in [Fields -> Seq(STRING)],
                      NEW recorded \in RiskRuleSets, NEW current \in RiskRuleSets,
                      NEW then \in BOOLEAN, NEW now \in BOOLEAN
               PROVE  LET receipt == Receipt(recorded, then)
                          replay == ReplayOf(current, now, receipt)
                      IN  /\ replay.request = receipt.request
                          /\ replay.effect = IF now THEN "deny" ELSE Outcome(recorded, req)
                          /\ ~then /\ ~now => replay.effect = receipt.effect
                          /\ replay.effect = "allow" => Outcome(current, req) = "allow"
    BY DEF ReplayAgrees
  <2> DEFINE q == WithDefaults(req)
             f == Classified(recorded, q)
             receipt == Receipt(recorded, then)
             replay == ReplayOf(current, now, receipt)
             effect(revoked) == IF revoked THEN "deny" ELSE Decide(StarterPolicy, f)
  <2>1. receipt = [request |-> [fields |-> f, input |-> Value[input]],
                   effect |-> effect(then)]
    <3>1. Labelled(recorded, Submitted) = [fields |-> f, input |-> input]
      BY DEF Labelled, Submitted
    <3> HIDE DEF f
    <3>2. Sanitized([fields |-> f, input |-> input]) = [fields |-> f, input |-> Value[input]]
      BY DEF Sanitized
    <3> QED
      BY <3>1, <3>2 DEF Receipt, EffectOf
  <2>2. Classified(current, WithDefaults(f)) = f
    BY LabelStands
  <2>3. q \in [Fields -> Seq(STRING)] /\ q["action"] = Trim(req["action"])
        /\ q["risk"] = Trim(req["risk"])
    BY DefaultsAre DEF Fields
  <2>4. Outcome(recorded, req) = Decide(StarterPolicy, f)
    BY DEF Outcome, Evaluate
  <2> HIDE DEF f, q, receipt
  <2>5. Labelled(current, receipt.request) = receipt.request
    BY <2>1, <2>2 DEF Labelled
  <2>6. replay.request = receipt.request /\ replay.effect = effect(now)
    BY <2>1, <2>5 DEF ReplayOf, EffectOf
  <2>7. receipt.effect = effect(then)
    BY <2>1
  <2> HIDE DEF replay
  <2>8. ASSUME replay.effect = "allow" PROVE Outcome(current, req) = "allow"
    <3>1. Decide(StarterPolicy, f) = "allow"
      BY <2>6, <2>8
    <3>2. CASE q["risk"] # <<>>
      <4>1. f = q /\ Classified(current, q) = q
        BY <2>3, <3>2, ClassifiedIs DEF f
      <4> QED
        BY <3>1, <4>1 DEF Outcome, Evaluate, q
    <3>3. CASE q["risk"] = <<>>
      <4>1. Trim(req["action"]) \in Harmless
        BY <2>4, <3>1, OutcomeAllows
      <4> QED
        BY <2>3, <3>3, <4>1, UnlabelledAllowed DEF RiskRuleSets
    <3> QED
      BY <3>2, <3>3
  <2> QED
    BY <2>4, <2>6, <2>7, <2>8 DEF receipt, replay
<1> QED
  BY <1>1, ReplayState, PTL

-----------------------------------------------------------------------------
(* Which rule decides *)

LEMMA FirstDecides ==
    ASSUME NEW rules, NEW r, DOMAIN rules \subseteq Nat \ {0}, NEW i \in DOMAIN rules,
           Matches(rules[i].match, r),
           \A k \in DOMAIN rules : k < i => ~Matches(rules[k].match, r)
    PROVE  Deciding(rules, r) = i
<1> DEFINE d == Deciding(rules, r)
<1>1. d \in DOMAIN rules /\ Matches(rules[d].match, r) /\ d <= i
  BY DecidingIs
<1> HIDE DEF d
<1>2. d \in Nat /\ i \in Nat /\ ~(d < i)
  BY <1>1
<1> QED
  BY <1>1, <1>2 DEF d

\* The patterns for some risks.
Singles(risks) == {<<r>> : r \in risks}

LEMMA RuleMatches ==
    ASSUME NEW id, NEW actions, NEW risks, NEW effect, NEW q
    PROVE  Matches(Rule(id, actions, risks, effect).match, q) <=>
              MatchAny(actions, q["action"]) /\ MatchAny(Singles(risks), q["risk"])
<1> DEFINE m == Rule(id, actions, risks, effect).match
<1>1. /\ DOMAIN m = Fields /\ m["action"] = actions /\ m["risk"] = {<<r>> : r \in risks}
      /\ \A f \in Fields \ {"action", "risk"} : m[f] = {}
  BY RuleIs
<1> HIDE DEF m
<1>2. \A f \in Fields \ {"action", "risk"} : MatchAny(m[f], q[f])
  BY <1>1 DEF MatchAny
<1>3. "action" \in Fields /\ "risk" \in Fields
  BY DEF Fields
<1> QED
  BY <1>1, <1>2, <1>3 DEF Matches, Singles, m

LEMMA RiskRuleMatches ==
    ASSUME NEW id, NEW actions, NEW resources, NEW risk, NEW q
    PROVE  /\ RiskRule(id, actions, resources, risk).risk = <<risk>>
           /\ Matches(RiskRule(id, actions, resources, risk).match, q) <=>
                 MatchAny(actions, q["action"]) /\ MatchAny(resources, q["resource"])
<1> DEFINE m == RiskRule(id, actions, resources, risk).match
<1>1. /\ DOMAIN m = {"action", "resource", "origin"}
      /\ m["action"] = actions /\ m["resource"] = resources /\ m["origin"] = {}
  BY DEF RiskRule, RiskFields
<1>2. RiskRule(id, actions, resources, risk).risk = <<risk>>
  BY DEF RiskRule
<1> HIDE DEF m
<1>3. MatchAny(m["origin"], q["origin"])
  BY <1>1 DEF MatchAny
<1> QED
  BY <1>1, <1>2, <1>3 DEF Matches, m

\* Heads h that a name can begin with, in a pattern "h.*".
Heads == {"email", "shell", "process", "payment", "money", "agent", "a2a"}

LEMMA HeadIs ==
    ASSUME NEW T, NEW a \in Seq(T), NEW h \in Heads, MatchPattern(All(h), a)
    PROVE  a[1] = h
BY TokensAre, AllMatches DEF Heads

LEMMA NameHeads ==
    /\ \A x, y : Name(x, y)[1] = x /\ Name(x, y)[3] = y
    /\ \A a \in GitReads \cup Publish : a[1] = "git"
    /\ GitReads \cap Publish = {}
<1>1. \A x, y : Name(x, y)[1] = x /\ Name(x, y)[3] = y
  BY DEF Name
<1>2. \A a \in GitReads :
         a[1] = "git" /\ a[3] \in {"status", "diff", "log", "show", "branch"}
  BY <1>1 DEF GitReads
<1>3. \A a \in Publish : a[1] = "git" /\ a[3] \in {"push", "tag"}
  BY <1>1 DEF Publish
<1> QED
  BY <1>1, <1>2, <1>3

LEMMA PublishMatches ==
    ASSUME NEW p \in Publish, NEW v
    PROVE  MatchPattern(p, v) <=> v = p
BY TokensAre, NameMatches DEF Publish

\* What the risk rules of the configuration look for.
LEMMA RiskRulesMatch ==
    ASSUME NEW q, Trim(q["action"]) = q["action"]
    PROVE  LET a == q["action"]
               hits(k) == Matches(ConfigRiskRules[k].match, q)
           IN  /\ DOMAIN ConfigRiskRules = 1 .. 5
               /\ hits(1) <=> MatchPattern(All("email"), a)
                                /\ MatchPattern(Starting("external"), Trim(q["resource"]))
               /\ hits(2) <=> \E h \in {"shell", "process"} : MatchPattern(All(h), a)
               /\ hits(3) <=> \E h \in {"payment", "money"} : MatchPattern(All(h), a)
               /\ hits(4) <=> \E h \in {"agent", "a2a"} : MatchPattern(All(h), a)
               /\ hits(5) <=> a \in Publish
               /\ ConfigRiskRules[1].risk = <<"external_side_effect">>
               /\ ConfigRiskRules[2].risk = <<"code_execution">>
               /\ ConfigRiskRules[3].risk = <<"financial_side_effect">>
               /\ ConfigRiskRules[4].risk = <<"agent_delegation">>
               /\ ConfigRiskRules[5].risk = <<"external_side_effect">>
<1> DEFINE a == q["action"]
           last == RiskRule("git-publish", Publish, {}, "external_side_effect")
<1>1. ConfigRiskRules = <<ExternalEmail, ShellExecution, Payments, Delegation, last>>
  BY DEF ConfigRiskRules
<1>2. MatchAny({}, q["resource"])
  BY DEF MatchAny
<1>3. /\ ExternalEmail.risk = <<"external_side_effect">>
      /\ Matches(ExternalEmail.match, q) <=>
            MatchPattern(All("email"), a)
              /\ MatchPattern(Starting("external"), Trim(q["resource"]))
  BY RiskRuleMatches DEF ExternalEmail, MatchAny
<1>4. /\ ShellExecution.risk = <<"code_execution">>
      /\ Matches(ShellExecution.match, q) <=>
            \E h \in {"shell", "process"} : MatchPattern(All(h), a)
  <2>1. MatchAny({All("shell"), All("process")}, a) <=>
           \E h \in {"shell", "process"} : MatchPattern(All(h), a)
    BY DEF MatchAny
  <2> QED
    BY <1>2, <2>1, RiskRuleMatches DEF ShellExecution
<1>5. /\ Payments.risk = <<"financial_side_effect">>
      /\ Matches(Payments.match, q) <=>
            \E h \in {"payment", "money"} : MatchPattern(All(h), a)
  <2>1. MatchAny({All("payment"), All("money")}, a) <=>
           \E h \in {"payment", "money"} : MatchPattern(All(h), a)
    BY DEF MatchAny
  <2> QED
    BY <1>2, <2>1, RiskRuleMatches DEF Payments
<1>6. /\ Delegation.risk = <<"agent_delegation">>
      /\ Matches(Delegation.match, q) <=>
            \E h \in {"agent", "a2a"} : MatchPattern(All(h), a)
  <2>1. MatchAny({All("agent"), All("a2a")}, a) <=>
           \E h \in {"agent", "a2a"} : MatchPattern(All(h), a)
    BY DEF MatchAny
  <2> QED
    BY <1>2, <2>1, RiskRuleMatches DEF Delegation
<1>7. last.risk = <<"external_side_effect">> /\ (Matches(last.match, q) <=> a \in Publish)
  <2>1. MatchAny(Publish, a) <=> a \in Publish
    <3>1. Publish # {}
      BY DEF Publish
    <3> QED
      BY <3>1, PublishMatches DEF MatchAny
  <2> QED
    BY <1>2, <2>1, RiskRuleMatches
<1> HIDE DEF a, last
<1>8. /\ DOMAIN ConfigRiskRules = 1 .. 5
      /\ ConfigRiskRules[1] = ExternalEmail /\ ConfigRiskRules[2] = ShellExecution
      /\ ConfigRiskRules[3] = Payments /\ ConfigRiskRules[4] = Delegation
      /\ ConfigRiskRules[5] = last
  BY <1>1
<1> QED
  BY <1>3, <1>4, <1>5, <1>6, <1>7, <1>8 DEF a

\* The label that the configuration gives a name.
LEMMA LabelsGiven ==
    ASSUME NEW T, NEW q, q["action"] \in Seq(T), Trim(q["action"]) = q["action"]
    PROVE  LET a == q["action"]
               label == Classify(ConfigRiskRules, q)
           IN  /\ MatchPattern(All("email"), a)
                    /\ MatchPattern(Starting("external"), Trim(q["resource"]))
                  => label = <<"external_side_effect">>
               /\ (\E h \in {"shell", "process"} : MatchPattern(All(h), a))
                  => label = <<"code_execution">>
               /\ (\E h \in {"payment", "money"} : MatchPattern(All(h), a))
                  => label = <<"financial_side_effect">>
               /\ (\E h \in {"agent", "a2a"} : MatchPattern(All(h), a))
                  => label = <<"agent_delegation">>
               /\ a \in Publish => label = <<"external_side_effect">>
               /\ a[1] \in {"file", "git", "github"} /\ a \notin Publish
                  => label = <<"unknown">>
<1> DEFINE a == q["action"]
           hits == {k \in 1 .. 5 : Matches(ConfigRiskRules[k].match, q)}
           label == Classify(ConfigRiskRules, q)
<1>1. /\ DOMAIN ConfigRiskRules = 1 .. 5
      /\ 1 \in hits <=> MatchPattern(All("email"), a)
                       /\ MatchPattern(Starting("external"), Trim(q["resource"]))
      /\ 2 \in hits <=> \E h \in {"shell", "process"} : MatchPattern(All(h), a)
      /\ 3 \in hits <=> \E h \in {"payment", "money"} : MatchPattern(All(h), a)
      /\ 4 \in hits <=> \E h \in {"agent", "a2a"} : MatchPattern(All(h), a)
      /\ 5 \in hits <=> a \in Publish
      /\ ConfigRiskRules[1].risk = <<"external_side_effect">>
      /\ ConfigRiskRules[2].risk = <<"code_execution">>
      /\ ConfigRiskRules[3].risk = <<"financial_side_effect">>
      /\ ConfigRiskRules[4].risk = <<"agent_delegation">>
      /\ ConfigRiskRules[5].risk = <<"external_side_effect">>
  BY RiskRulesMatch
<1>2. /\ 1 \in hits => a[1] = "email"
      /\ 2 \in hits => a[1] \in {"shell", "process"}
      /\ 3 \in hits => a[1] \in {"payment", "money"}
      /\ 4 \in hits => a[1] \in {"agent", "a2a"}
      /\ 5 \in hits => a[1] = "git"
  BY <1>1, HeadIs, NameHeads DEF Heads
<1>3. ASSUME NEW k \in hits, \A j \in hits : ~(j < k)
      PROVE  label = ConfigRiskRules[k].risk
  <2>1. Deciding(ConfigRiskRules, q) = k
    BY <1>1, <1>3, FirstDecides
  <2> QED
    BY <2>1 DEF Classify
<1>4. hits = {} => label = <<"unknown">>
  <2>1. ASSUME hits = {} PROVE Deciding(ConfigRiskRules, q) = 0
    BY <1>1, <2>1, DecidingIs
  <2> QED
    BY <2>1 DEF Classify, Unknown
<1>0. hits \subseteq 1 .. 5
  OBVIOUS
<1> HIDE DEF a, hits, label
<1>5. 1 \in hits => label = <<"external_side_effect">>
  <2>1. \A j \in hits : ~(j < 1)
    BY <1>0
  <2> QED
    BY <1>1, <1>3, <2>1
<1>6. 2 \in hits => label = <<"code_execution">>
  <2>1. 2 \in hits => 1 \notin hits
    BY <1>2
  <2>2. \A j \in hits : j < 2 => j = 1
    BY <1>0
  <2> QED
    BY <1>1, <1>3, <2>1, <2>2
<1>7. 3 \in hits => label = <<"financial_side_effect">>
  <2>1. 3 \in hits => 1 \notin hits /\ 2 \notin hits
    BY <1>2
  <2>2. \A j \in hits : j < 3 => j \in {1, 2}
    BY <1>0
  <2> QED
    BY <1>1, <1>3, <2>1, <2>2
<1>8. 4 \in hits => label = <<"agent_delegation">>
  <2>1. 4 \in hits => 1 \notin hits /\ 2 \notin hits /\ 3 \notin hits
    BY <1>2
  <2>2. \A j \in hits : j < 4 => j \in {1, 2, 3}
    BY <1>0
  <2> QED
    BY <1>1, <1>3, <2>1, <2>2
<1>9. 5 \in hits => label = <<"external_side_effect">>
  <2>1. 5 \in hits => 1 \notin hits /\ 2 \notin hits /\ 3 \notin hits /\ 4 \notin hits
    BY <1>2
  <2>2. \A j \in hits : j < 5 => j \in {1, 2, 3, 4}
    BY <1>0
  <2> QED
    BY <1>1, <1>3, <2>1, <2>2
<1>10. a[1] \in {"file", "git", "github"} /\ a \notin Publish => label = <<"unknown">>
  <2>1. a[1] \in {"file", "git", "github"} /\ a \notin Publish
          => 1 \notin hits /\ 2 \notin hits /\ 3 \notin hits /\ 4 \notin hits /\ 5 \notin hits
    BY <1>1, <1>2
  <2>2. \A j \in hits : j \in {1, 2, 3, 4, 5}
    BY <1>0
  <2> QED
    BY <1>4, <2>1, <2>2
<1> QED
  BY <1>1, <1>5, <1>6, <1>7, <1>8, <1>9, <1>10 DEF a, label

\* What the rules of the starter policy look for.
LEMMA RulesMatch ==
    ASSUME NEW c, Trim(c["action"]) = c["action"], NEW t \in Labels, c["risk"] = <<t>>
    PROVE  LET a == c["action"]
               hits(k) == Matches(Rules[k].match, c)
           IN  /\ hits(1) <=> a = Name("agent", "wrap")
               /\ hits(2) <=> MatchPattern(All("email"), a) /\ t = "external_side_effect"
               /\ hits(3) <=> t = "financial_side_effect"
               /\ hits(4) <=> t = "code_execution"
               /\ hits(5) <=> t = "agent_delegation"
               /\ hits(6) <=> a = Name("file", "delete")
               /\ hits(7) <=> a \in GitReads
               /\ hits(8) <=> a \in Publish
               /\ hits(9) <=> a = Name("github", "create_pr")
<1> DEFINE a == c["action"]
<1>1. MatchAny(Singles({}), c["risk"])
  <2>1. Singles({}) = {}
    BY DEF Singles
  <2> QED
    BY <2>1 DEF MatchAny
<1>2. ASSUME NEW x \in Labels PROVE MatchAny(Singles({x}), c["risk"]) <=> t = x
  <2>1. Singles({x}) = {<<x>>}
    BY DEF Singles
  <2>2. Trim(<<t>>) = <<t>>
    BY LabelIs
  <2>3. x # Space /\ x # Star
    BY DEF Labels, Space, Star
  <2>4. MatchPattern(<<x>>, <<t>>) <=> <<t>> = <<x>>
    BY <2>3, TokenMatches
  <2>5. <<t>> = <<x>> <=> t = x
    OBVIOUS
  <2>6. MatchAny({<<x>>}, c["risk"]) <=> MatchPattern(<<x>>, <<t>>)
    BY <2>2 DEF MatchAny
  <2> QED
    BY <2>1, <2>4, <2>5, <2>6
<1>3. /\ "external_side_effect" \in Labels /\ "financial_side_effect" \in Labels
      /\ "code_execution" \in Labels /\ "agent_delegation" \in Labels
  BY DEF Labels
<1>4. \A id, actions, effect :
         Matches(Rule(id, actions, {}, effect).match, c) <=> MatchAny(actions, a)
  BY <1>1, RuleMatches
<1>5. \A id, actions, effect : \A x \in Labels :
         Matches(Rule(id, actions, {x}, effect).match, c) <=> MatchAny(actions, a) /\ t = x
  BY <1>2, RuleMatches
<1>6. MatchAny({}, a)
  BY DEF MatchAny
<1>7. \A p : (\A v : MatchPattern(p, v) <=> v = p) => (MatchAny({p}, a) <=> a = p)
  BY DEF MatchAny
<1>8. /\ MatchAny({Name("agent", "wrap")}, a) <=> a = Name("agent", "wrap")
      /\ MatchAny({Name("github", "create_pr")}, a) <=> a = Name("github", "create_pr")
  BY <1>7, HarmlessMatches DEF Harmless
<1>9. MatchAny({Name("file", "delete")}, a) <=> a = Name("file", "delete")
  BY <1>7, TokensAre, NameMatches
<1>10. MatchAny(GitReads, a) <=> a \in GitReads
  <2>1. GitReads # {}
    BY DEF GitReads
  <2> QED
    BY <2>1, HarmlessMatches DEF MatchAny, Harmless
<1>11. MatchAny(Publish, a) <=> a \in Publish
  <2>1. Publish # {}
    BY DEF Publish
  <2> QED
    BY <2>1, PublishMatches DEF MatchAny
<1>12. MatchAny({All("email")}, a) <=> MatchPattern(All("email"), a)
  BY DEF MatchAny
<1> HIDE DEF a
<1>13. /\ Matches(Rules[1].match, c) <=> a = Name("agent", "wrap")
       /\ Matches(Rules[6].match, c) <=> a = Name("file", "delete")
       /\ Matches(Rules[7].match, c) <=> a \in GitReads
       /\ Matches(Rules[8].match, c) <=> a \in Publish
       /\ Matches(Rules[9].match, c) <=> a = Name("github", "create_pr")
  BY <1>4, <1>8, <1>9, <1>10, <1>11, RulesAre
<1>14. Matches(Rules[2].match, c) <=>
          MatchPattern(All("email"), a) /\ t = "external_side_effect"
  BY <1>3, <1>5, <1>12, RulesAre
<1>15. /\ Matches(Rules[3].match, c) <=> t = "financial_side_effect"
       /\ Matches(Rules[4].match, c) <=> t = "code_execution"
       /\ Matches(Rules[5].match, c) <=> t = "agent_delegation"
  BY <1>3, <1>5, <1>6, RulesAre
<1> QED
  BY <1>13, <1>14, <1>15 DEF a

\* The requests that rule i of the starter policy is there for.
IsFor(i, r) ==
    LET a == Trim(r["action"])
        under(heads) == \E h \in heads : MatchPattern(All(h), a)
    IN  CASE i = 1 -> a = Name("agent", "wrap")
          [] i = 2 -> under({"email"})
                        /\ MatchPattern(Starting("external"), Trim(r["resource"]))
          [] i = 3 -> under({"payment", "money"})
          [] i = 4 -> under({"shell", "process"})
          [] i = 5 -> under({"agent", "a2a"}) /\ a # Name("agent", "wrap")
          [] i = 6 -> a = Name("file", "delete")
          [] i = 7 -> a \in GitReads
          [] i = 8 -> a \in Publish
          [] i = 9 -> a = Name("github", "create_pr")

LEMMA OwnRuleDecides ==
    ASSUME NEW T, NEW c, c["action"] \in Seq(T), Trim(c["action"]) = c["action"],
           NEW t \in Labels, c["risk"] = <<t>>, NEW i \in 1 .. 9,
           Matches(Rules[i].match, c),
           \A k \in 1 .. 9 : k < i => ~Matches(Rules[k].match, c)
    PROVE  Deciding(Rules, c) = i
<1>1. DOMAIN Rules = 1 .. 9
  BY RulesAre
<1>2. DOMAIN Rules \subseteq Nat \ {0}
  BY <1>1
<1>3. i \in DOMAIN Rules
  BY <1>1
<1>4. \A k \in DOMAIN Rules : k < i => ~Matches(Rules[k].match, c)
  BY <1>1
<1> QED
  BY <1>2, <1>3, <1>4, FirstDecides, Zenon

\* A request that a rule of the starter policy is there for, and that its
\* caller did not label, is decided by that rule and by no other: the labels
\* that the risk rules give and the order of the policy's rules fit together
\* (internal/config/defaults.go; internal/risk, Classify).
THEOREM EachRuleDecidesItsOwn ==
    ASSUME NEW r \in [Fields -> Seq(STRING)], NEW i \in 1 .. 9, IsFor(i, r)
    PROVE  Deciding(Rules, Classified(ConfigRiskRules, WithDefaults(Unlabelled(r)))) = i
<1> DEFINE u == Unlabelled(r)
           q == WithDefaults(u)
           c == Classified(ConfigRiskRules, q)
           a == c["action"]
<1>1. /\ u \in [Fields -> Seq(STRING)] /\ u["action"] = r["action"]
      /\ u["resource"] = r["resource"] /\ u["risk"] = <<>>
  BY DEF Unlabelled, Fields
<1> HIDE DEF u
<1>2. /\ q \in [Fields -> Seq(STRING)] /\ q["action"] = Trim(r["action"])
      /\ Trim(q["action"]) = q["action"] /\ q["risk"] = <<>>
      /\ q["resource"] = Trim(r["resource"]) /\ Trim(q["resource"]) = q["resource"]
      /\ q["action"] \in Seq(STRING)
  BY <1>1, DefaultsAre, TrimEmpty DEF Fields
<1> HIDE DEF q
<1>3. c["action"] = q["action"] /\ c["risk"] = Classify(ConfigRiskRules, q)
  BY <1>2, ClassifiedIs
<1>4. PICK t \in Labels : c["risk"] = <<t>>
  BY <1>3, ClassifyIs
<1>5. \A x : <<t>> = <<x>> => t = x
  OBVIOUS
<1>6. /\ MatchPattern(All("email"), a)
            /\ MatchPattern(Starting("external"), Trim(r["resource"]))
         => t = "external_side_effect"
      /\ (\E h \in {"shell", "process"} : MatchPattern(All(h), a)) => t = "code_execution"
      /\ (\E h \in {"payment", "money"} : MatchPattern(All(h), a))
         => t = "financial_side_effect"
      /\ (\E h \in {"agent", "a2a"} : MatchPattern(All(h), a)) => t = "agent_delegation"
      /\ a \in Publish => t = "external_side_effect"
      /\ a[1] \in {"file", "git", "github"} /\ a \notin Publish => t = "unknown"
  BY <1>2, <1>3, <1>4, <1>5, LabelsGiven
<1> SUFFICES Deciding(Rules, c) = i
  BY DEF c, q, u
<1> HIDE DEF c
<1> DEFINE hits == {k \in 1 .. 9 : Matches(Rules[k].match, c)}
<1>7. /\ 1 \in hits <=> a = Name("agent", "wrap")
      /\ 2 \in hits <=> MatchPattern(All("email"), a) /\ t = "external_side_effect"
      /\ 3 \in hits <=> t = "financial_side_effect"
      /\ 4 \in hits <=> t = "code_execution"
      /\ 5 \in hits <=> t = "agent_delegation"
      /\ 6 \in hits <=> a = Name("file", "delete")
      /\ 7 \in hits <=> a \in GitReads
      /\ 8 \in hits <=> a \in Publish
      /\ 9 \in hits <=> a = Name("github", "create_pr")
  BY <1>2, <1>3, <1>4, RulesMatch
<1>8. ASSUME i \in hits, \A k \in hits : ~(k < i) PROVE Deciding(Rules, c) = i
  <2>1. c["action"] \in Seq(STRING) /\ Trim(c["action"]) = c["action"]
    BY <1>2, <1>3
  <2>2. Matches(Rules[i].match, c)
    BY <1>8
  <2>3. \A k \in 1 .. 9 : k < i => ~Matches(Rules[k].match, c)
    BY <1>8
  <2> QED
    BY <1>4, <2>1, <2>2, <2>3, OwnRuleDecides
<1>9. hits \subseteq 1 .. 9
  OBVIOUS
<1> HIDE DEF hits
<1>10. a = Trim(r["action"])
  BY <1>2, <1>3
<1>11. a \in Seq(STRING)
  BY <1>2, <1>3
<1>12. \A h \in Heads : MatchPattern(All(h), a) => a[1] = h
  BY <1>11, HeadIs
<1>13. /\ Name("agent", "wrap")[1] = "agent" /\ Name("file", "delete")[1] = "file"
       /\ Name("github", "create_pr")[1] = "github"
       /\ a \in GitReads \cup Publish => a[1] = "git"
       /\ ~(a \in GitReads /\ a \in Publish)
  BY NameHeads
<1> HIDE DEF a
<1>14. CASE i = 1
  <2>1. a = Name("agent", "wrap")
    BY <1>10, <1>14 DEF IsFor
  <2>2. 1 \in hits /\ \A k \in hits : ~(k < i)
    BY <1>7, <1>9, <1>14, <2>1
  <2> QED
    BY <1>8, <1>14, <2>2
<1>15. CASE i = 2
  <2>1. MatchPattern(All("email"), a) /\ MatchPattern(Starting("external"), Trim(r["resource"]))
    BY <1>10, <1>15 DEF IsFor
  <2>2. a[1] = "email" /\ 2 \in hits
    BY <1>6, <1>7, <1>12, <2>1 DEF Heads
  <2>3. 1 \notin hits
    BY <1>7, <1>13, <2>2
  <2>4. \A k \in hits : ~(k < i)
    BY <1>9, <1>15, <2>3
  <2> QED
    BY <1>8, <1>15, <2>2, <2>4
<1>16. CASE i = 3
  <2>1. \E h \in {"payment", "money"} : MatchPattern(All(h), a)
    BY <1>10, <1>16 DEF IsFor
  <2>2. a[1] \in {"payment", "money"} /\ 3 \in hits
    BY <1>6, <1>7, <1>12, <2>1 DEF Heads
  <2>3. 1 \notin hits /\ 2 \notin hits
    BY <1>6, <1>7, <1>13, <2>1, <2>2
  <2>4. \A k \in hits : ~(k < i)
    BY <1>9, <1>16, <2>3
  <2> QED
    BY <1>8, <1>16, <2>2, <2>4
<1>17. CASE i = 4
  <2>1. \E h \in {"shell", "process"} : MatchPattern(All(h), a)
    BY <1>10, <1>17 DEF IsFor
  <2>2. a[1] \in {"shell", "process"} /\ 4 \in hits
    BY <1>6, <1>7, <1>12, <2>1 DEF Heads
  <2>3. 1 \notin hits /\ 2 \notin hits /\ 3 \notin hits
    BY <1>6, <1>7, <1>13, <2>1, <2>2
  <2>4. \A k \in hits : ~(k < i)
    BY <1>9, <1>17, <2>3
  <2> QED
    BY <1>8, <1>17, <2>2, <2>4
<1>18. CASE i = 5
  <2>1. (\E h \in {"agent", "a2a"} : MatchPattern(All(h), a)) /\ a # Name("agent", "wrap")
    BY <1>10, <1>18 DEF IsFor
  <2>2. 5 \in hits
    BY <1>6, <1>7, <2>1
  <2>3. 1 \notin hits /\ 2 \notin hits /\ 3 \notin hits /\ 4 \notin hits
    BY <1>6, <1>7, <2>1
  <2>4. \A k \in hits : ~(k < i)
    BY <1>9, <1>18, <2>3
  <2> QED
    BY <1>8, <1>18, <2>2, <2>4
<1>19. CASE i \in {6, 7, 8, 9}
  <2>1. CASE i = 6
    <3>1. a = Name("file", "delete")
      BY <1>10, <2>1 DEF IsFor
    <3>2. a[1] = "file" /\ a \notin Publish /\ t = "unknown" /\ 6 \in hits
      BY <1>6, <1>7, <1>13, <3>1
    <3>3. 1 \notin hits /\ 2 \notin hits /\ 3 \notin hits /\ 4 \notin hits /\ 5 \notin hits
      BY <1>7, <1>13, <3>2
    <3>4. \A k \in hits : ~(k < i)
      BY <1>9, <2>1, <3>3
    <3> QED
      BY <1>8, <2>1, <3>2, <3>4
  <2>2. CASE i = 7
    <3>1. a \in GitReads
      BY <1>10, <2>2 DEF IsFor
    <3>2. a[1] = "git" /\ a \notin Publish /\ t = "unknown" /\ 7 \in hits
      BY <1>6, <1>7, <1>13, <3>1
    <3>3. /\ 1 \notin hits /\ 2 \notin hits /\ 3 \notin hits /\ 4 \notin hits
          /\ 5 \notin hits /\ 6 \notin hits
      BY <1>7, <1>13, <3>2
    <3>4. \A k \in hits : ~(k < i)
      BY <1>9, <2>2, <3>3
    <3> QED
      BY <1>8, <2>2, <3>2, <3>4
  <2>3. CASE i = 8
    <3>1. a \in Publish
      BY <1>10, <2>3 DEF IsFor
    <3>2. /\ a[1] = "git" /\ a \notin GitReads /\ t = "external_side_effect" /\ 8 \in hits
          /\ ~MatchPattern(All("email"), a)
      BY <1>6, <1>7, <1>12, <1>13, <3>1 DEF Heads
    <3>3. /\ 1 \notin hits /\ 2 \notin hits /\ 3 \notin hits /\ 4 \notin hits
          /\ 5 \notin hits /\ 6 \notin hits /\ 7 \notin hits
      BY <1>7, <1>13, <3>2
    <3>4. \A k \in hits : ~(k < i)
      BY <1>9, <2>3, <3>3
    <3> QED
      BY <1>8, <2>3, <3>2, <3>4
  <2>4. CASE i = 9
    <3>1. a = Name("github", "create_pr")
      BY <1>10, <2>4 DEF IsFor
    <3>2. a[1] = "github" /\ a \notin Publish /\ t = "unknown" /\ 9 \in hits
      BY <1>6, <1>7, <1>13, <3>1
    <3>3. /\ 1 \notin hits /\ 2 \notin hits /\ 3 \notin hits /\ 4 \notin hits
          /\ 5 \notin hits /\ 6 \notin hits /\ 7 \notin hits /\ 8 \notin hits
      BY <1>7, <1>13, <3>2
    <3>4. \A k \in hits : ~(k < i)
      BY <1>9, <2>4, <3>3
    <3> QED
      BY <1>8, <2>4, <3>2, <3>4
  <2> QED
    BY <1>19, <2>1, <2>2, <2>3, <2>4
<1>20. i \in {1, 2, 3, 4, 5} \/ i \in {6, 7, 8, 9}
  OBVIOUS
<1> QED
  BY <1>14, <1>15, <1>16, <1>17, <1>18, <1>19, <1>20

\* The requests have one for each rule, however its caller labels it.
Reaching ==
    \A i \in 1 .. 9 : \A q \in Requests :
        \E r \in Requests : r["risk"] = q["risk"] /\ IsFor(i, r)

\* No rule of the starter policy is shadowed, in any universe of requests that
\* has one for each (internal/config/defaults.go).
THEOREM NoRuleIsShadowed ==
    ASSUME Reaching
    PROVE  Spec => []EveryRuleDecides
<1>1. req \in Requests => EveryRuleDecides
  <2> SUFFICES ASSUME req \in Requests, NEW i \in DOMAIN Rules
               PROVE  \E r \in {q \in Requests : q["risk"] = req["risk"]} :
                         i = Deciding(Rules, Classified(ConfigRiskRules,
                                                        WithDefaults(Unlabelled(r))))
    BY DEF EveryRuleDecides
  <2>1. i \in 1 .. 9
    BY RulesAre
  <2>2. PICK r \in Requests : r["risk"] = req["risk"] /\ IsFor(i, r)
    BY <2>1 DEF Reaching
  <2>3. r \in [Fields -> Seq(STRING)]
    BY RequestsAssumption
  <2> QED
    BY <2>1, <2>2, <2>3, EachRuleDecidesItsOwn
<1>2. Init => req \in Requests
  BY DEF Init
<1>3. req \in Requests /\ [Next]_req => (req \in Requests)'
  BY DEF Next
<1> QED
  BY <1>1, <1>2, <1>3, PTL DEF Spec
=============================================================================
