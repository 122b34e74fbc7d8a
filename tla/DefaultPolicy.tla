---------------------------- MODULE DefaultPolicy ---------------------------
(***************************************************************************)
(* The configuration that init writes (internal/config/defaults.go) and    *)
(* the risk rules of a configuration that has none (internal/risk), under  *)
(* every request of a finite universe.  A behaviour is one request.        *)
(***************************************************************************)
EXTENDS Policy

CONSTANT Requests       \* [Fields -> names], as callers send them

ASSUME RequestsAssumption == Requests \subseteq [Fields -> Seq(STRING)]

VARIABLE req

\* The names "a.b", and the patterns "a.*" and "a*".
Name(a, b) == <<a, ".", b>>
All(a) == <<a, ".", "*">>
Starting(a) == <<a, "*">>

None == [f \in Fields |-> {}]
RiskFields == {"action", "resource", "origin"}

RiskRule(id, actions, resources, risk) ==
    [id |-> <<id>>, risk |-> <<risk>>,
     match |-> [f \in RiskFields |-> CASE f = "action" -> actions
                                       [] f = "resource" -> resources
                                       [] OTHER -> {}]]

Rule(id, actions, risks, effect) ==
    [id |-> <<id>>, effect |-> effect,
     match |-> [None EXCEPT !["action"] = actions,
                            !["risk"] = {<<r>> : r \in risks}]]

ExternalEmail ==
    RiskRule("external-email", {All("email")}, {Starting("external")},
             "external_side_effect")
ShellExecution ==
    RiskRule("shell-execution", {All("shell"), All("process")}, {}, "code_execution")
Payments ==
    RiskRule("payment-actions", {All("payment"), All("money")}, {},
             "financial_side_effect")
Delegation ==
    RiskRule("agent-delegation", {All("agent"), All("a2a")}, {}, "agent_delegation")
Publish == {Name("git", "push"), Name("git", "tag")}

\* Default
ConfigRiskRules ==
    <<ExternalEmail, ShellExecution, Payments, Delegation,
      RiskRule("git-publish", Publish, {}, "external_side_effect")>>

\* risk.DefaultRules
BuiltinRiskRules ==
    <<Payments, ExternalEmail,
      RiskRule("destructive-files", {Name("file", "delete"), Name("file", "write")},
               {}, "local_mutation"),
      ShellExecution,
      RiskRule("network-calls", {All("http"), All("api")}, {}, "external_network"),
      Delegation>>

\* The policy of Default.
Rules ==
    <<Rule("allow-wrapper-launch", {Name("agent", "wrap")}, {}, "allow"),
      Rule("external-email-needs-approval", {All("email")}, {"external_side_effect"},
           "approval_required"),
      Rule("money-needs-approval", {}, {"financial_side_effect"}, "approval_required"),
      Rule("shell-is-dry-run", {}, {"code_execution"}, "dry_run"),
      Rule("agent-delegation-needs-approval", {}, {"agent_delegation"},
           "approval_required"),
      Rule("deny-file-delete", {Name("file", "delete")}, {}, "deny"),
      Rule("allow-readonly-git",
           {Name("git", c) : c \in {"status", "diff", "log", "show", "branch"}}, {},
           "allow"),
      Rule("git-publish-needs-approval", Publish, {}, "approval_required"),
      Rule("allow-github-prs", {Name("github", "create_pr")}, {}, "allow")>>

\* Fault: what no rule matches is allowed.
StarterPolicyOpen == [default |-> "allow", rules |-> Rules]

StarterPolicy == [default |-> "deny", rules |-> Rules]

\* The server and the commands start with this configuration.
Accepted ==
    /\ PolicyAccepted(StarterPolicy)
    /\ RiskRulesAccepted(ConfigRiskRules)
    /\ RiskRulesAccepted(BuiltinRiskRules)

Outcome(riskRules, r) == Evaluate(StarterPolicy, riskRules, r)

Unlabelled(r) == [r EXCEPT !["risk"] = <<>>]

Init == Accepted /\ req \in {r \in Requests : Valid(r)}

Next == UNCHANGED req

Spec == Init /\ [][Next]_req

-----------------------------------------------------------------------------
\* "Financial actions must never run without explicit approval": no request
\* for a payment is allowed, whatever risk label its caller gives it and
\* whichever of the two sets of risk rules is in use.
MoneyNeverAllowed ==
    \A riskRules \in {ConfigRiskRules, BuiltinRiskRules} :
        IsPrefix(<<"payment", ".">>, Trim(req["action"]))
            \/ IsPrefix(<<"money", ".">>, Trim(req["action"]))
        => Outcome(riskRules, req) # "allow"

\* A caller's own risk label replaces the classifier's, and cannot make an
\* allow of anything: what is allowed with a label is allowed without it.
LabelsAllowNothing ==
    \A riskRules \in {ConfigRiskRules, BuiltinRiskRules} :
        Outcome(riskRules, req) = "allow" =>
            Outcome(riskRules, Unlabelled(req)) = "allow"

\* Space around a name changes no outcome.
PaddingIrrelevant ==
    \A riskRules \in {ConfigRiskRules, BuiltinRiskRules} :
        Outcome(riskRules, req) =
            Outcome(riskRules, [f \in Fields |-> Trim(req[f])])

\* No rule of the starter policy is shadowed: each decides some request that
\* its caller did not label.
EveryRuleDecides ==
    DOMAIN Rules \subseteq
        {Deciding(Rules, Classified(ConfigRiskRules, WithDefaults(Unlabelled(r))))
           : r \in {q \in Requests : q["risk"] = req["risk"]}}
=============================================================================
