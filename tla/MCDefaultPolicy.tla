--------------------------- MODULE MCDefaultPolicy --------------------------
(***************************************************************************)
(* A universe of requests for DefaultPolicy, Replay and Redact: an action  *)
(* under every pattern of the two rule sets and beside each of them,       *)
(* resources inside and outside "external*", every risk label the rules    *)
(* mention, one they do not, and names with space around them; inputs      *)
(* three levels deep, with lists between, whose keys name a secret in      *)
(* several spellings, across separators, or only nearly do; argument lists *)
(* with flags, values, key=value and runs of flags.                        *)
(***************************************************************************)
EXTENDS Replay

Under == {"email", "shell", "process", "payment", "money", "agent", "a2a", "http", "file"}

Actions ==
    {Name(a, "x") : a \in Under} \cup {<<a>> : a \in {"email", "payment"}}
      \cup {Name("agent", "wrap"), Name("git", "push"), Name("git", "tag"),
            Name("git", "status"), Name("git", "log"), Name("git", "gc"),
            Name("github", "create_pr"), Name("file", "delete"), Name("file", "write"),
            <<>>, <<" ">>, <<" ">> \o Name("payment", "x") \o <<" ">>,
            <<" ">> \o Name("git", "log"), Name("agent", "wrap") \o <<" ">>}

Resources == {<<>>, <<"external", ":", "bob">>, <<" ", "external">>, <<"internal">>}

Risks ==
    {<<>>, <<" ">>, <<"low">>, <<" ", "financial_side_effect">>, Unknown}
      \cup {<<r>> : r \in {"external_side_effect", "code_execution",
                           "financial_side_effect", "agent_delegation"}}

MCRequests ==
    {[f \in Fields |-> CASE f = "action" -> a [] f = "resource" -> r
                         [] f = "risk" -> k [] f = "agent" -> <<"bot">>
                         [] OTHER -> <<>>]
       : a \in Actions, r \in Resources, k \in Risks}

-----------------------------------------------------------------------------
Str == Text("a")

Chars(word) == [i \in 1 .. Len(word) |-> SubSeq(word, i, i)]

MCSpelled == [w \in KeyParts \cup ArgParts \cup Secrets \cup {"argv", "cwd"} |-> Chars(w)]

MCLower == [c \in {"A", "I", "K", "P", "T"} |->
              CASE c = "A" -> "a" [] c = "I" -> "i" [] c = "K" -> "k"
                [] c = "P" -> "p" [] c = "T" -> "t"]

\* "alto_ken" names a token to the code.  The last one has a space inside that
\* it does not look past.
Keys == {Chars(w) : w \in {"path", "key", "X-API_Key", "session.Tokens", "- private key",
                           "pass-word", "alto_ken"}}
          \cup {Chars("api") \o <<"nbsp">> \o Chars("key")}

Inner == {Chars(w) : w \in {"key", "X-API_Key", "pass-word"}}

Flat == {Str, Hidden, MapOf(<<>>), ListOf(<<>>), ListOf(<<Str, Text("b")>>)}
          \cup {MapOf(k :> v) : k \in Inner, v \in {Str, Hidden}}

Nested == Flat \cup {ListOf(<<v>>) : v \in Flat} \cup {MapOf(k :> v) : k \in Inner, v \in Flat}

MCInputs == {MapOf(<<>>)} \cup
    {MapOf(k :> v @@ Chars("path") :> w)
       : v \in Nested, k \in Keys, w \in {Str, MapOf(Chars("key") :> Str)}}

Args == {Chars(w) : w \in {"me", "--Token", "--api-key", "--api.key", "--secret=x",
                           "--color=token"}}

Flags == {Chars(w) : w \in {"me", "--Token", "--secret=x"}}

MCArgvs == UNION {[1 .. n -> Args] : n \in 1 .. 3} \cup UNION {[1 .. n -> Flags] : n \in 4 .. 5}

Decoded == MCInputs \cup Nested \cup {Text("b"), Text("/")}

Commands ==
    {CommandInput(args) : args \in MCArgvs} \cup {ArgvOf(RedactArgv(args)) : args \in MCArgvs}

MCValues == Decoded \cup Commands

RECURSIVE Depth(_)
Depth(v) == IF Parts(v) = {} THEN 0 ELSE 1 + Max({Depth(w) : w \in Parts(v)})

MCNesting == [v \in MCValues |-> Depth(v)]
=============================================================================
