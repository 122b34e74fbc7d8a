------------------------------- MODULE Redact -------------------------------
(***************************************************************************)
(* What is hidden before a request is answered, reviewed or recorded:      *)
(* internal/redact for the nested input and metadata of a request, and     *)
(* command_redact.go for the arguments of a supervised command.  Secrets   *)
(* are looked for inside of keys and arguments, so both are sequences of   *)
(* characters here: " " is a space, tab or end of line, "nbsp" any other   *)
(* space that strings.TrimSpace removes.  Replay composes this module.     *)
(***************************************************************************)
EXTENDS SequencesExt

CONSTANTS
    Spelled,            \* the words of the code, as their characters
    Lower,              \* the capitals, in lower case
    Values, Nesting     \* values decoded from JSON; how deep each one nests

VARIABLES
    input,              \* of a request
    argv                \* the arguments it was made from, if it has any

Lowered(chars) ==
    [i \in DOMAIN chars |->
        IF chars[i] \in DOMAIN Lower THEN Lower[chars[i]] ELSE chars[i]]

\* strings.Contains
Within(part, chars) ==
    \E i \in 0 .. Len(chars) - Len(part) : SubSeq(chars, i + 1, i + Len(part)) = part

-----------------------------------------------------------------------------
(* Values: a text (any scalar), a map from keys to values, a list, or the  *)
(* arguments of a command, which JSON does not decode to.                  *)

Text(t) == [type |-> "text", text |-> t]
MapOf(m) == [type |-> "map", items |-> m]
ListOf(s) == [type |-> "list", items |-> s]
ArgvOf(args) == [type |-> "argv", args |-> args]

Hidden == Text("[REDACTED]")

Parts(v) ==
    IF v.type \in {"map", "list"} THEN {v.items[k] : k \in DOMAIN v.items} ELSE {}

\* A value is a finite tree of values.
ASSUME ValuesAssumption ==
    /\ Hidden \in Values
    /\ Nesting \in [Values -> Nat]
    /\ \A v \in Values :
          /\ v.type = "map" => /\ v = MapOf(v.items) /\ v.items \in [DOMAIN v.items -> Values]
                               /\ DOMAIN v.items \subseteq Seq(STRING)
          /\ v.type = "list" => v = ListOf(v.items) /\ v.items \in Seq(Values)
          /\ \A w \in Parts(v) : Nesting[w] < Nesting[v]

KeyParts ==
    {"authorization", "api_key", "apikey", "access_token", "refresh_token", "password",
     "passwd", "secret", "token", "cookie", "private_key"}

Separators == {"-", "_", ".", " "}

\* The positions that strings.TrimSpace and the mapping of normalizeKey keep.
KeptIn(key) ==
    LET solid == {i \in DOMAIN key : key[i] \notin {" ", "nbsp"}}
    IN  {i \in DOMAIN key : /\ key[i] \notin Separators
                            /\ \E a, b \in solid : a <= i /\ i <= b}

\* What is kept of the first i characters.
Kept(key) ==
    LET keep == KeptIn(key)
        low == Lowered(key)
        kept[i \in 0 .. Len(key)] ==
          IF i = 0 THEN <<>>
          ELSE IF i \in keep THEN Append(kept[i - 1], low[i])
          ELSE kept[i - 1]
    IN  kept

NormalizeKey(key) == Kept(key)[Len(key)]

NormalizedParts == {NormalizeKey(Spelled[part]) : part \in KeyParts}

SensitiveKey(key) == \E part \in NormalizedParts : Within(part, NormalizeKey(key))

\* Fault: lists are not looked into.
RedactedMapsOnly(v, value) ==
    IF v.type = "map"
    THEN MapOf([k \in DOMAIN v.items |->
                  IF SensitiveKey(k) THEN Hidden ELSE value[v.items[k]]])
    ELSE v

\* redact.Value, and redact.Map for its case of a map; value is what they make
\* of the parts.
Redacted(v, value) ==
    CASE v.type = "map" ->
            MapOf([k \in DOMAIN v.items |->
                     IF SensitiveKey(k) THEN Hidden ELSE value[v.items[k]]])
      [] v.type = "list" -> ListOf([i \in DOMAIN v.items |-> value[v.items[i]]])
      [] OTHER -> v

Value[v \in Values] == Redacted(v, Value)

\* What is made of a value is one too.
ASSUME RedactedAssumption == \A v \in Values : Value[v] \in Values

-----------------------------------------------------------------------------
(* Arguments *)

\* As one character, for it is never looked into.
HiddenArg == <<"[REDACTED]">>

ArgParts ==
    {"authorization", "api-key", "api_key", "apikey", "access-token", "access_token",
     "password", "passwd", "secret", "token", "cookie", "private-key", "private_key"}

\* Separators count here.  What is trimmed off the ends first, spaces and "-",
\* is where no part begins or ends.
SensitiveArgKey(arg) == \E part \in ArgParts : Within(Spelled[part], Lowered(arg))

\* strings.Cut(arg, "="): the key, or the whole argument.
CutAt(arg) == SelectInSeq(arg, LAMBDA c : c = "=")
KeyOf(arg) == SubSeq(arg, 1, CutAt(arg) - 1)

Assigns(arg) == CutAt(arg) # 0 /\ SensitiveArgKey(KeyOf(arg))

\* Fault: redactNext is not set back.
StepSticky(acc, arg) ==
    IF acc.next THEN [out |-> Append(acc.out, HiddenArg), next |-> TRUE]
    ELSE IF Assigns(arg)
    THEN [out |-> Append(acc.out, KeyOf(arg) \o <<"=">> \o HiddenArg), next |-> FALSE]
    ELSE [out |-> Append(acc.out, arg), next |-> SensitiveArgKey(arg)]

\* One round of the loop; next is redactNext.
Step(acc, arg) ==
    IF acc.next THEN [out |-> Append(acc.out, HiddenArg), next |-> FALSE]
    ELSE IF Assigns(arg)
    THEN [out |-> Append(acc.out, KeyOf(arg) \o <<"=">> \o HiddenArg), next |-> FALSE]
    ELSE [out |-> Append(acc.out, arg), next |-> SensitiveArgKey(arg)]

\* The loop, after i rounds.
Rounds(args) ==
    LET round[i \in 0 .. Len(args)] ==
          IF i = 0 THEN [out |-> <<>>, next |-> FALSE] ELSE Step(round[i - 1], args[i])
    IN  round

RedactArgv(args) == Rounds(args)[Len(args)].out

\* commandInput: the arguments are hidden here; redact.Map leaves a []string
\* as it is.
CommandInput(args) ==
    MapOf(Spelled["argv"] :> ArgvOf(RedactArgv(args)) @@ Spelled["cwd"] :> Text("/"))

-----------------------------------------------------------------------------
(* What is meant, without normalizing, recursion and the loop. *)

Secrets ==
    {"authorization", "apikey", "accesstoken", "refreshtoken", "password", "passwd",
     "secret", "token", "cookie", "privatekey"}

\* The code's list spells these words, with or without a separator.
ASSUME SpelledAssumption ==
    /\ NormalizedParts = {Spelled[w] : w \in Secrets}
    /\ \A w \in Secrets : /\ Spelled[w] \in Seq(STRING) \ {<<>>}
                          /\ "nbsp" \notin Range(Spelled[w])
    /\ "nbsp" \notin DOMAIN Lower

\* Apart from its separators, a stretch of the key is the word.
Spells(key, word) ==
    \E a, b \in DOMAIN key :
        LET letters == {i \in a .. b : key[i] \notin Separators}
        IN  /\ Cardinality(letters) = Len(word)
            /\ \A i \in letters :
                  Lowered(key)[i] = word[Cardinality({j \in letters : j <= i})]

NamesSecret(key) == \E w \in Secrets : Spells(key, Spelled[w])

\* The keys and positions on the way to a text or an empty container.
Leaves[v \in Values] ==
    IF Parts(v) = {} THEN {<<<<>>, v>>}
    ELSE UNION {{<<<< <<v.type, k>> >> \o l[1], l[2]>> : l \in Leaves[v.items[k]]}
                  : k \in DOMAIN v.items}

Names(step) == step[1] = "map" /\ NamesSecret(step[2])

\* A leaf behind a key that names a secret is hidden together with whatever
\* else is there; the others are as they were.
Expected(leaf) ==
    LET at == SelectInSeq(leaf[1], Names)
    IN  IF at = 0 THEN leaf ELSE <<SubSeq(leaf[1], 1, at), Hidden>>

\* "Secret redaction before approval or audit persistence" (README.md): no
\* text behind a key that spells a secret word, at any depth, in maps and
\* lists, in any case and with any separators inside, is in what
\* sanitizeRequest leaves of a request, and nothing else is lost.
RedactsExactly == Leaves[Value[input]] = {Expected(l) : l \in Leaves[input]}

\* The argument before i names a secret and does not bring its value itself.
After(i) ==
    i - 1 \in DOMAIN argv /\ ~Assigns(argv[i - 1]) /\ SensitiveArgKey(argv[i - 1])

Shown(arg) == IF Assigns(arg) THEN KeyOf(arg) \o <<"=">> \o HiddenArg ELSE arg

\* Every argument has its place in the recorded ones.  It is hidden right after
\* the first, or only, of a run of flags that name a secret, and shown where
\* none is before it; where it is shown, the value of key=value is not.
ArgvRedacted ==
    LET out == RedactArgv(argv)
    IN  /\ Len(out) = Len(argv)
        /\ \A i \in DOMAIN argv :
              /\ out[i] \in {HiddenArg, Shown(argv[i])}
              /\ After(i) /\ ~After(i - 1) => out[i] = HiddenArg
              /\ ~After(i) => out[i] = Shown(argv[i])

\* "Redact secrets before persistence." (SECURITY.md:81): an argument that
\* follows one that names a secret is not recorded as it is.
SecretArgsHidden == \A i \in DOMAIN argv : After(i) => RedactArgv(argv)[i] = HiddenArg
=============================================================================
