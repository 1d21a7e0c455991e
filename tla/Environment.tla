------------------------------ MODULE Environment ------------------------------
(***************************************************************************)
(* The environment, paths and ports of a configured service (env.rs,       *)
(* Service::new): dotenv files are parsed into one map, its values are     *)
(* expanded one after another over the supervisor's own environment, then  *)
(* those of the configuration over both.                                   *)
(*                                                                         *)
(* A text is a sequence of symbols, one for each character that the code   *)
(* tells apart: quotes "sq" and "dq", backslash "bs", letters x and y, a   *)
(* digit, and "/" for all others.  A name is a text of letters and digits. *)
(***************************************************************************)
EXTENDS Naturals, Sequences, SequencesExt, FiniteSetsExt, TLC

CONSTANTS
  Base,    \* std::env::vars(): a function from names to texts
  Keys,    \* names that files and configuration define
  Inputs   \* kinds of input: a function to [paths, raws: values of lines,
           \*  lines: a bound, configs: sequences of [key, value], ports]

\* Assumed by the modules that instantiate this one.
EnvironmentAssumption ==
  \A kind \in DOMAIN Inputs :
    /\ Inputs[kind].lines \in Nat
    /\ \A c \in Inputs[kind].configs : \A i, j \in DOMAIN c : c[i].key = c[j].key => i = j

VARIABLES
  input,    \* the kind of input of this behaviour
  stage,    \* how far Service::new is
  path,     \* [raw, dir]: a configured path and what it resolved to
  files,    \* EnvMap of the dotenv files, unexpanded
  todo,     \* the entries still to expand
  current,  \* the environment that the next value is expanded over
  out,      \* ServiceSpec.environment so far
  defs      \* history: every definition, in the order written

vars == <<input, stage, path, files, todo, current, out, defs>>

-----------------------------------------------------------------------------
(* EnvMap, an IndexMap: a key that is there keeps its place. *)
Put(map, key, value) ==
  IF \E i \in DOMAIN map : map[i].key = key
    THEN [i \in DOMAIN map |-> IF map[i].key = key THEN [map[i] EXCEPT !.value = value] ELSE map[i]]
    ELSE Append(map, [key |-> key, value |-> value])

Letters == {"x", "y"}
IsVarStart(c) == c \in Letters
IsVarContinue(c) == c \in Letters \cup {"1"}

\* interpolate_tracking: the text, and the names that are not set.  An empty
\* name is neither.
Start == [text |-> <<>>, missing |-> {}, mode |-> "plain", key |-> <<>>]
Resolve(s, env) ==
  [s EXCEPT !.mode = "plain", !.key = <<>>,
            !.text = @ \o (IF s.key \in DOMAIN env THEN env[s.key] ELSE <<>>),
            !.missing = @ \cup ({s.key} \ (DOMAIN env \cup {<<>>}))]
Plain(s, c) ==
  IF c = "$" THEN [s EXCEPT !.mode = "dollar"] ELSE [s EXCEPT !.mode = "plain", !.text = Append(@, c)]
Scan(s, c, env) ==
  CASE s.mode = "plain" -> Plain(s, c)
    [] s.mode = "dollar" /\ c = "$" -> [s EXCEPT !.mode = "plain", !.text = Append(@, "$")]
    [] s.mode = "dollar" /\ c = "{" -> [s EXCEPT !.mode = "braced"]
    [] s.mode = "dollar" /\ IsVarStart(c) -> [s EXCEPT !.mode = "named", !.key = <<c>>]
    [] s.mode = "dollar" -> Plain([s EXCEPT !.text = Append(@, "$")], c)
    [] s.mode = "braced" /\ c = "}" -> Resolve(s, env)
    [] s.mode = "named" /\ ~IsVarContinue(c) -> Plain(Resolve(s, env), c)
    [] OTHER -> [s EXCEPT !.key = Append(@, c)]
Interpolate(text, env) ==
  LET s == FoldLeft(LAMBDA state, c : Scan(state, c, env), Start, text)
  IN  CASE s.mode = "plain" -> s
        [] s.mode = "dollar" -> [s EXCEPT !.text = Append(@, "$")]
        [] OTHER -> Resolve(s, env)

-----------------------------------------------------------------------------
(* Lines of dotenv files. *)
Trimmed(text) ==
  LET kept == {i \in DOMAIN text : text[i] # " "}
  IN  IF kept = {} THEN <<>> ELSE SubSeq(text, Min(kept), Max(kept))
Quotes == {"sq", "dq"}

\* The closing quote of a text that begins with one, 0 without.
Closing(text) ==
  LET scan == FoldLeftDomain(LAMBDA s, i :
        CASE i = 1 \/ s.at # 0 -> s
          [] s.escaped -> [s EXCEPT !.escaped = FALSE]
          [] text[1] = "dq" /\ text[i] = "bs" -> [s EXCEPT !.escaped = TRUE]
          [] text[i] = text[1] -> [s EXCEPT !.at = i]
          [] OTHER -> s,
        [at |-> 0, escaped |-> FALSE], text)
  IN  scan.at

\* strip_value_inline_comment.
StripComment(value) ==
  LET text == Trimmed(value)
      marks == {i \in 2 .. Len(text) : text[i] = "#" /\ text[i - 1] = " "}
  IN  CASE text # <<>> /\ text[1] \in Quotes /\ Closing(text) # 0 -> SubSeq(text, 1, Closing(text))
        [] text # <<>> /\ text[1] \notin Quotes /\ marks # {} -> Trimmed(SubSeq(text, 1, Min(marks) - 1))
        [] OTHER -> text

\* unescape_double_quoted_value.
Unescape(inner) ==
  FoldLeft(LAMBDA s, c :
    CASE s.escaped /\ c \in {"dq", "bs"} -> [text |-> Append(s.text, c), escaped |-> FALSE]
      [] s.escaped -> [text |-> s.text \o <<"bs", c>>, escaped |-> FALSE]
      [] c = "bs" -> [s EXCEPT !.escaped = TRUE]
      [] OTHER -> [s EXCEPT !.text = Append(@, c)],
    [text |-> <<>>, escaped |-> FALSE], inner)
Unescaped(inner) ==
  LET s == Unescape(inner) IN IF s.escaped THEN Append(s.text, "bs") ELSE s.text

Dollars(text) == FoldLeft(LAMBDA t, c : t \o (IF c = "$" THEN <<"$", "$">> ELSE <<c>>), <<>>, text)

Inside(value, quote) == Len(value) >= 2 /\ Head(value) = quote /\ Last(value) = quote
Inner(value) == SubSeq(value, 2, Len(value) - 1)

\* Mutant: a single-quoted value is interpolated like any other.
ParseValueUnescaped(value) ==
  CASE Inside(value, "dq") -> Unescaped(Inner(value))
    [] Inside(value, "sq") -> Inner(value)
    [] OTHER -> value

\* parse_value: a single-quoted text is protected from its later expansion.
ParseValue(value) ==
  CASE Inside(value, "dq") -> Unescaped(Inner(value))
    [] Inside(value, "sq") -> Dollars(Inner(value))
    [] OTHER -> value

-----------------------------------------------------------------------------
(* Service::new. *)

\* resolve_path: over the supervisor's own environment only.
ResolvePath(raw) ==
  LET s == Interpolate(raw, Base)
  IN  IF s.missing = {} THEN [dir |-> s.text, found |-> TRUE] ELSE [dir |-> <<>>, found |-> FALSE]

Paths ==
  /\ stage = "paths"
  /\ \E raw \in Inputs[input].paths :
       LET resolved == ResolvePath(raw)
       IN  /\ path' = [raw |-> raw, dir |-> resolved.dir]
           /\ stage' = IF resolved.found THEN "files" ELSE "refused"
  /\ UNCHANGED <<input, files, todo, current, out, defs>>

\* parse_dotenv, a line at a time: a file's own map is inserted into that of
\* the files before it in the same places as its lines would be.
ReadLine ==
  /\ stage = "files" /\ Len(defs) < Inputs[input].lines
  /\ \E key \in Keys, raw \in Inputs[input].raws :
       /\ files' = Put(files, key, ParseValue(StripComment(raw)))
       /\ defs' = Append(defs, [key |-> key, raw |-> raw, file |-> TRUE])
  /\ UNCHANGED <<input, stage, path, todo, current, out>>

\* A file that is not there, too large, or has a line without a key.
FilesFail ==
  /\ stage = "files"
  /\ stage' = "failed"
  /\ UNCHANGED <<input, path, files, todo, current, out, defs>>

FilesRead ==
  /\ stage = "files"
  /\ stage' = "expand files" /\ todo' = files
  /\ UNCHANGED <<input, path, files, current, out, defs>>

\* expand_env_values_tracking: names that are not set are only warned of.
Expand ==
  /\ stage \in {"expand files", "expand config"} /\ todo # <<>>
  /\ LET entry == Head(todo)
         value == Interpolate(entry.value, current).text
     IN  /\ out' = Put(out, entry.key, value)
         /\ current' = (entry.key :> value) @@ current
  /\ todo' = Tail(todo)
  /\ UNCHANGED <<input, stage, path, files, defs>>

Config ==
  /\ stage = "expand files" /\ todo = <<>>
  /\ \E config \in Inputs[input].configs :
       /\ todo' = config
       /\ defs' = defs \o [i \in DOMAIN config |->
                             [key |-> config[i].key, raw |-> config[i].value, file |-> FALSE]]
  /\ stage' = "expand config"
  /\ UNCHANGED <<input, path, files, current, out>>

Ports ==
  /\ stage = "expand config" /\ todo = <<>>
  /\ \E port \in Inputs[input].ports :
       LET text == Interpolate(port, current).text
       IN  stage' = IF text # <<>> /\ ToSet(text) \subseteq {"1"} THEN "over" ELSE "failed"
  /\ UNCHANGED <<input, path, files, todo, current, out, defs>>

Init ==
  /\ input \in DOMAIN Inputs
  /\ stage = "paths" /\ path = [raw |-> <<>>, dir |-> <<>>]
  /\ files = <<>> /\ todo = <<>> /\ out = <<>> /\ defs = <<>>
  /\ current = Base

Next == Paths \/ ReadLine \/ FilesFail \/ FilesRead \/ Expand \/ Config \/ Ports

Spec == Init /\ [][Next]_vars

-----------------------------------------------------------------------------
(* The reference: what texts and values mean. *)

\* A reference at the start of a text: [name, length], or its length is 0.
Reference(text) ==
  LET ends == {i \in DOMAIN text : text[i] = "}"}
      stops == {i \in 2 .. Len(text) : ~IsVarContinue(text[i])}
      named == IF stops = {} THEN Len(text) ELSE Min(stops) - 1
  IN  CASE Len(text) < 2 \/ text[1] # "$" -> [name |-> <<>>, length |-> 0]
        [] text[2] = "{" /\ ends # {} -> [name |-> SubSeq(text, 3, Min(ends) - 1), length |-> Min(ends)]
        [] text[2] = "{" -> [name |-> SubSeq(text, 3, Len(text)), length |-> Len(text)]
        [] IsVarStart(text[2]) -> [name |-> SubSeq(text, 2, named), length |-> named]
        [] OTHER -> [name |-> <<>>, length |-> 0]

After(text, n) == SubSeq(text, n + 1, Len(text))

RECURSIVE Meaning(_, _)
Meaning(text, env) ==
  LET r == Reference(text)
  IN  CASE text = <<>> -> <<>>
        [] r.length # 0 -> (IF r.name \in DOMAIN env THEN env[r.name] ELSE <<>>)
                             \o Meaning(After(text, r.length), env)
        [] OTHER -> <<Head(text)>> \o
             Meaning(After(text, IF Len(text) > 1 /\ text[1] = "$" /\ text[2] = "$" THEN 2 ELSE 1), env)

RECURSIVE Mentioned(_)
Mentioned(text) ==
  LET r == Reference(text)
  IN  CASE text = <<>> -> {}
        [] r.length # 0 -> {r.name} \cup Mentioned(After(text, r.length))
        [] OTHER -> Mentioned(After(text, IF Len(text) > 1 /\ text[1] = "$" /\ text[2] = "$" THEN 2 ELSE 1))

\* Position i is escaped: an odd number of backslashes precede it.
Escaped(text, i) ==
  LET others == {j \in 1 .. i - 1 : text[j] # "bs"}
  IN  (i - 1 - (IF others = {} THEN 0 ELSE Max(others))) % 2 = 1

Comment(rest) ==
  \/ rest = <<>>
  \/ /\ Len(rest) > 1 /\ rest[1] = " "
     /\ Trimmed(rest)[1] = "#"

\* The quote that closes a value that begins with one, and only a comment
\* follows it.
Ends(text) ==
  LET ends == {i \in 2 .. Len(text) : text[i] = text[1]
                  /\ (text[1] = "dq" => ~Escaped(text, i))}
  IN  IF ends # {} /\ Comment(After(text, Min(ends))) THEN Min(ends) ELSE 0

\* Without the backslashes that escape a quote or another backslash.
WithoutEscapes(text) ==
  LET escaping(i) == text[i] = "bs" /\ ~Escaped(text, i) /\ i < Len(text)
                       /\ text[i + 1] \in {"bs", "dq"}
      left == SetToSortSeq({i \in DOMAIN text : ~escaping(i)}, <)
  IN  [i \in DOMAIN left |-> text[left[i]]]

\* A value means something: it is not half quoted.
WellFormed(raw) ==
  LET text == Trimmed(raw)
  IN  text # <<>> /\ text[1] \in Quotes => Ends(text) # 0

\* The value begins with its comment.
OnlyComment(raw) == Trimmed(raw) # <<>> /\ raw[1] = " " /\ Trimmed(raw)[1] = "#"

\* "the comment starts at the first `#` preceded by whitespace".
Uncommented(raw) ==
  LET marks == {i \in 2 .. Len(raw) : raw[i] = "#" /\ raw[i - 1] = " "}
  IN  Trimmed(IF marks = {} THEN raw ELSE SubSeq(raw, 1, Min(marks) - 1))

MeaningOf(d, env) ==
  LET text == Trimmed(d.raw)
      inner == SubSeq(text, 2, Ends(text) - 1)
  IN  CASE ~d.file -> Meaning(d.raw, env)
        [] text # <<>> /\ text[1] = "sq" -> inner
        [] text # <<>> /\ text[1] = "dq" -> Meaning(WithoutEscapes(inner), env)
        [] OTHER -> Meaning(Uncommented(d.raw), env)

\* Every definition in turn, over those before it.
Meant == FoldLeft(LAMBDA env, d : (d.key :> MeaningOf(d, env)) @@ env, Base, defs)

Given(key) ==
  LET entries == {i \in DOMAIN out : out[i].key = key}
  IN  IF entries = {} THEN "nothing" ELSE out[CHOOSE i \in entries : TRUE].value

FileDefs == {i \in DOMAIN defs : defs[i].file}
InOrderGiven == \A i \in DOMAIN defs : Given(defs[i].key) = Meant[defs[i].key]
AllWellFormed == \A i \in FileDefs : WellFormed(defs[i].raw)
NoneOnlyComment == \A i \in FileDefs : ~OnlyComment(defs[i].raw)
NoneTwice == \A i, j \in FileDefs : defs[i].key = defs[j].key => i = j

-----------------------------------------------------------------------------
(* Properties. *)

\* A process is given what the files and the configuration say: a text in
\* single quotes as it is written, although every value is expanded once more
\* (parse_value); a reference's value as it is, however many maps it went
\* through (interpolate_tracking); and the later definition, over those before
\* it.  Not so of a value that begins with its comment, and where a name is
\* defined twice in files.
ValuesAsWritten ==
  (stage = "over" /\ AllWellFormed /\ NoneOnlyComment /\ NoneTwice) => InOrderGiven

\* "unset variables must not widen a configured path" (env.rs:512): a path that
\* mentions one is refused, and no other is.
PathsExact ==
  LET unset == Mentioned(path.raw) \ (DOMAIN Base \cup {<<>>})
  IN  /\ stage = "refused" => unset # {}
      /\ stage \notin {"paths", "refused"} => unset = {} /\ path.dir = Meaning(path.raw, Base)

\* What a service is given is what its configuration means, or nothing.
AsWritten == ValuesAsWritten /\ PathsExact
=============================================================================
