------------------------------- MODULE Policy -------------------------------
(***************************************************************************)
(* How a request becomes an effect: action.Request, internal/risk and      *)
(* internal/policy, as operators.  A name (of an action, a resource, ...)  *)
(* is a sequence of tokens cut where the patterns can tell names apart:    *)
(* "email.send" is <<"email", ".", "send">>; the token " " is any space.   *)
(***************************************************************************)
EXTENDS SequencesExt

Fields == {"agent", "action", "resource", "origin", "risk"}

Effects == {"allow", "deny", "approval_required", "dry_run"}

Unknown == <<"unknown">>

\* strings.TrimSpace
Trim(name) ==
    LET solid == {i \in DOMAIN name : name[i] # " "}
    IN  IF solid = {} THEN <<>> ELSE SubSeq(name, Min(solid), Max(solid))

\* "*" and "email.*" match by prefix, any other pattern by equality.
MatchPattern(pattern, value) ==
    LET p == Trim(pattern)
    IN  \/ p = value
        \/ p # <<>> /\ Last(p) = "*" /\ IsPrefix(Front(p), value)

\* A rule that lists no pattern for a field does not look at the field.
MatchAny(patterns, value) ==
    patterns = {} \/ \E p \in patterns : MatchPattern(p, Trim(value))

\* Fault: one field that matches is enough.
MatchesOne(match, req) == \E f \in DOMAIN match : MatchAny(match[f], req[f])

\* A match gives each field its patterns.
Matches(match, req) == \A f \in DOMAIN match : MatchAny(match[f], req[f])

Empty(match) == \A f \in DOMAIN match : match[f] = {}

\* Fault: the last rule that matches wins.
DecidingLast(rules, req) ==
    LET hits == {i \in DOMAIN rules : Matches(rules[i].match, req)}
    IN  IF hits = {} THEN 0 ELSE Max(hits)

\* The first rule that matches, 0 for none.
Deciding(rules, req) ==
    LET hits == {i \in DOMAIN rules : Matches(rules[i].match, req)}
    IN  IF hits = {} THEN 0 ELSE Min(hits)

-----------------------------------------------------------------------------
\* Fault: the fields are taken as they were sent.
WithDefaultsKeeping(req) == [f \in Fields |-> req[f]]

\* Request.WithDefaults, for the fields that decide.
WithDefaults(req) == [f \in Fields |-> Trim(req[f])]

\* Request.Validate
Valid(req) == Trim(req["agent"]) # <<>> /\ Trim(req["action"]) # <<>>

\* Classifier.Classify
Classify(riskRules, req) ==
    LET i == Deciding(riskRules, req)
    IN  IF i = 0 THEN Unknown ELSE riskRules[i].risk

\* A request that carries no risk label is given the classifier's.
Classified(riskRules, req) ==
    IF req["risk"] = <<>> THEN [req EXCEPT !["risk"] = Classify(riskRules, req)]
    ELSE req

\* NewEvaluator and NewClassifier refuse the other configurations.
PolicyAccepted(policy) ==
    /\ policy.default \in Effects \cup {""}
    /\ \A i \in DOMAIN policy.rules :
          /\ Trim(policy.rules[i].id) # <<>>
          /\ policy.rules[i].effect \in Effects
          /\ ~Empty(policy.rules[i].match)

RiskRulesAccepted(riskRules) ==
    \A i \in DOMAIN riskRules :
        /\ Trim(riskRules[i].id) # <<>>
        /\ Trim(riskRules[i].risk) # <<>>
        /\ ~Empty(riskRules[i].match)

DefaultEffect(policy) == IF policy.default = "" THEN "deny" ELSE policy.default

\* Evaluator.Decide
Decide(policy, req) ==
    LET i == Deciding(policy.rules, req)
    IN  IF i = 0 THEN DefaultEffect(policy) ELSE policy.rules[i].effect

\* What Service.evaluate answers for a request no revocation covers.
Evaluate(policy, riskRules, req) ==
    Decide(policy, Classified(riskRules, WithDefaults(req)))
=============================================================================
