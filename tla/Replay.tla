------------------------------- MODULE Replay -------------------------------
(***************************************************************************)
(* A request on its way into the audit log and, with Service.Replay, out   *)
(* again, under the configuration that init writes: it is completed,       *)
(* labelled and decided (internal/gateway), redacted (internal/redact) and *)
(* stored; later the stored request is decided once more, perhaps by a     *)
(* process whose configuration has other risk rules.                       *)
(***************************************************************************)
EXTENDS DefaultPolicy, Redact

CONSTANTS
    Inputs,         \* maps, as decoded from JSON
    Argvs           \* argument lists of supervised commands

ASSUME InputsAssumption == Inputs \subseteq Values /\ MapOf(<<>>) \in Values
ASSUME ArgvsAssumption ==
    /\ Argvs \subseteq Seq(Seq(STRING))
    /\ \A args \in Argvs : CommandInput(args) \in Values

RiskRuleSets == {ConfigRiskRules, BuiltinRiskRules}

Submitted == [fields |-> req, input |-> input]

\* Service.evaluate: the request as it is decided.
Labelled(riskRules, request) ==
    [request EXCEPT !.fields = Classified(riskRules, WithDefaults(@))]

\* The end of Service.evaluate: a revocation of something the request names
\* comes before the policy.
EffectOf(request, revoked) ==
    IF revoked THEN "deny" ELSE Decide(StarterPolicy, request.fields)

\* sanitizeRequest; the metadata goes the way of the input.
Sanitized(request) == [request EXCEPT !.input = Value[@]]

\* Fault: what is stored is the request as it came.
ReceiptOfSubmitted(riskRules, revoked) ==
    [request |-> Sanitized(Submitted),
     effect |-> IF revoked THEN "deny" ELSE Outcome(riskRules, req)]

\* Service.Decide and Recorder.Record
Receipt(riskRules, revoked) ==
    LET request == Labelled(riskRules, Submitted)
    IN  [request |-> Sanitized(request), effect |-> EffectOf(request, revoked)]

\* Service.Replay of a receipt that the log has.
ReplayOf(riskRules, revoked, receipt) ==
    LET request == Labelled(riskRules, receipt.request)
    IN  [request |-> request, effect |-> EffectOf(request, revoked)]

Ordinary == CHOOSE r \in Requests : Valid(r)

\* Any fields with no input, or some fields with any input or command.
ReplayInit ==
    /\ Accepted
    /\ req \in {r \in Requests : Valid(r)}
    /\ \/ input = MapOf(<<>>) /\ argv = <<>>
       \/ req = Ordinary /\ input \in Inputs /\ argv = <<>>
       \/ req = Ordinary /\ argv \in Argvs /\ input = CommandInput(argv)

ReplaySpec == ReplayInit /\ [][UNCHANGED <<req, input, argv>>]_<<req, input, argv>>

-----------------------------------------------------------------------------
\* "Audit receipt lookup and replay against current policy/revocation state"
\* (README.md:101), with a policy that stays as init writes it while risk rules
\* and revocations change: Replay denies what is revoked now, and otherwise
\* finds what the rules of the recorded decision give the submitted request,
\* although the receipt has the completed, labelled and redacted one: the
\* stored label stands.  Without a revocation that is the recorded effect.  What
\* Replay says would be allowed is allowed to the submitted request under the
\* present rules too.  The request it shows is the stored one, so that it
\* reveals nothing the receipt hides.
ReplayAgrees ==
    \A recorded, current \in RiskRuleSets : \A then, now \in BOOLEAN :
        LET receipt == Receipt(recorded, then)
            replay == ReplayOf(current, now, receipt)
        IN  /\ replay.request = receipt.request
            /\ replay.effect = IF now THEN "deny" ELSE Outcome(recorded, req)
            /\ ~then /\ ~now => replay.effect = receipt.effect
            /\ replay.effect = "allow" => Outcome(current, req) = "allow"
=============================================================================
