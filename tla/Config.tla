-------------------------------- MODULE Config --------------------------------
(***************************************************************************)
(* loadConfig (cmd/app/config.go), for one setting of any type: the flags, *)
(* the file, the environment and the defaults are merged, and what is left *)
(* is decoded.  A number that a parser reads as a float64 is kept in       *)
(* halves, so that it can be fractional and out of range.                  *)
(***************************************************************************)
EXTENDS Integers

CONSTANTS
  Half,     \* how many negative values an int64 has: 2^63
  Exact,    \* the numbers up to it are exact in a float64: 2^53
  Ulps,     \* the steps between the float64s above it: the powers of two
  Absent,   \* a source without the key
  Error     \* what a failed load returns

MinInt == -Half
MaxInt == Half - 1

Types == {"int64", "duration", "bool", "level", "string"}

\* The text of a string, by what it reads as: an integer, a duration with its
\* unit, a Boolean's name, a level's name, or nothing but text.
Texts ==
  [t : {"string"}, reads : {"int64", "duration"}, v : MinInt .. MaxInt]
    \cup [t : {"string"}, reads : {"bool"}, v : {0, 1}]
    \cup [t : {"string"}, reads : {"level", "string"}, v : {0}]
Halves == 2 * MinInt - 3 .. 2 * MaxInt + 5
\* What a file can say, by the type its parser gives it.  Every number of a JSON
\* file is a "float", and one with a point in the others; "null" is a key without
\* a value.
Literals ==
  Texts \cup [t : {"int"}, v : MinInt .. MaxInt] \cup [t : {"uint"}, v : 0 .. 2 * Half - 1]
        \cup [t : {"float"}, v : Halves]
        \cup [t : {"bool"}, v : {0, 1}] \cup [t : {"null"}, v : {0}]

\* The step between the float64s about h.
abs(h) == IF h >= 0 THEN h ELSE -h
isUlp(u, h) == abs(h) <= Exact * u /\ \A w \in Ulps : abs(h) <= Exact * w => u <= w

ASSUME ValuesAssumption ==
  /\ Half \in Nat \ {0} /\ Exact \in Nat \ {0} /\ Ulps \subseteq Nat \ {0}
  /\ \A h \in Halves : \E u \in Ulps : isUlp(u, h)
  /\ Absent \notin Literals \cup [t : {"float"}, v : Int]
  /\ Error \notin Int

VARIABLES
  pc,
  type,     \* the setting's type
  file,     \* the key's value, as written in the file
  env,      \* the variable's text
  arg,      \* the flag's text in the arguments
  unknown,  \* the file or the environment has a key that names no setting
  k,        \* the merged value
  result    \* the value decoded, or Error

sources == <<type, file, env, arg, unknown>>
vars    == <<pc, sources, k, result>>

default == [t |-> "default", v |-> 2]

Init ==
  /\ pc = "parse" /\ k = Absent /\ result = Absent
  /\ type \in Types /\ unknown \in BOOLEAN
  /\ file \in Literals \cup {Absent}
  /\ env \in Texts \cup {Absent} /\ arg \in Texts \cup {Absent}

-----------------------------------------------------------------------------
(* Decoding.                                                               *)

\* The float64 nearest to h halves, the even one of two.
nearest(h) ==
  LET u == CHOOSE u \in Ulps : isUlp(u, h)
      below == h % u
      up == 2 * below > u \/ (2 * below = u /\ (h \div u) % 2 = 1)
  IN  IF up THEN h - below + u ELSE h - below

\* What the file's parser makes of what is written there.
parserFor(d) == IF d.t = "float" THEN [d EXCEPT !.v = nearest(d.v)] ELSE d

\* time.ParseDuration takes "0", and strconv.ParseBool "0" and "1"; any text is a
\* string.
parses(text, to) ==
  \/ to = "string"
  \/ text.reads = to
  \/ to = "duration" /\ text.reads = "int64" /\ text.v = 0
  \/ to = "bool" /\ text.reads = "int64" /\ text.v \in {0, 1}

isInt64_Closed(f) == f % 2 = 0 /\ f >= 2 * MinInt /\ f <= 2 * (MaxInt + 1)
\* isInt64, of f halves.
isInt64(f) == f % 2 = 0 /\ f >= 2 * MinInt /\ f < 2 * (MaxInt + 1)

isNumber(d) == d.t \in {"int", "uint", "float"}

\* The values strictNumbers lets through.
strictNumbers(d, to) ==
  /\ ~(to = "duration" /\ isNumber(d) /\ d.v # 0)
  /\ ~(to = "int64" /\ d.t = "float" /\ ~isInt64(d.v))
  /\ ~(to = "int64" /\ d.t = "uint" /\ d.v > MaxInt)

levelByName(d, to) == to = "level" => d.t \in {"string", "default"}

\* int64(x) of a number that does not fit, or is not whole.
wrap(n) == ((n - MinInt) % (2 * Half)) + MinInt
truncate(h) == IF h >= 0 THEN h \div 2 ELSE -((-h) \div 2)

\* mapstructure, without weak typing: numbers of any kind are converted to the
\* integer types, and nothing else changes its type.
convert(d, to) ==
  CASE d.t = "default" -> d.v
    [] d.t = "string" /\ parses(d, to) -> d.v
    [] isNumber(d) /\ to \in {"int64", "duration", "level"} ->
         wrap(IF d.t = "float" THEN truncate(d.v) ELSE d.v)
    [] d.t = "bool" /\ to = "bool" -> d.v
    [] OTHER -> Error

decode(d, to) == IF strictNumbers(d, to) /\ levelByName(d, to) THEN convert(d, to) ELSE Error

-----------------------------------------------------------------------------
(* loadConfig.                                                             *)

fails == pc' = "done" /\ result' = Error /\ UNCHANGED <<sources, k>>

\* fs.Parse, with the flag's own type.
parse ==
  /\ pc = "parse"
  /\ IF arg # Absent /\ ~parses(arg, type) THEN fails
     ELSE pc' = "file" /\ UNCHANGED <<sources, k, result>>

\* No parser for the file's extension, or the file is missing or malformed.
fileFails == pc = "file" /\ file # Absent /\ fails

loadFile ==
  /\ pc = "file"
  /\ k' = (IF file = Absent THEN Absent ELSE parserFor(file)) /\ pc' = "env"
  /\ UNCHANGED <<sources, result>>

loadEnv ==
  /\ pc = "env"
  /\ k' = IF env # Absent THEN env ELSE k
  /\ pc' = "flags"
  /\ UNCHANGED <<sources, result>>

\* A flag that is not set only fills a key that no other source has.
merged == IF arg # Absent THEN arg ELSE IF k = Absent THEN default ELSE k

loadFlags ==
  /\ pc = "flags"
  /\ k' = merged /\ pc' = "decode"
  /\ UNCHANGED <<sources, result>>

\* A key without a value, a key that names no setting, and the decoding itself.
unmarshal ==
  /\ pc = "decode"
  /\ IF k.t = "null" \/ unknown THEN fails
     ELSE pc' = "done" /\ result' = decode(k, type) /\ UNCHANGED <<sources, k>>

Next == parse \/ fileFails \/ loadFile \/ loadEnv \/ loadFlags \/ unmarshal

Spec == Init /\ [][Next]_vars

-----------------------------------------------------------------------------
(* Properties.                                                             *)

\* What a value means where a setting of a type is expected: a number means
\* itself, without truncating or wrapping, or the float64 nearest to it where its
\* parser reads it as one, and no duration but zero.
meanings(d, to) ==
  CASE d.t = "string" -> IF parses(d, to) THEN {d.v} ELSE {}
    [] d.t = "null" -> {}
    [] d.t = "bool" -> IF to = "bool" THEN {d.v} ELSE {}
    [] OTHER -> {n \in MinInt .. MaxInt :
                   /\ IF d.t = "float" THEN 2 * n = nearest(d.v) ELSE n = d.v
                   /\ to = "int64" \/ (to = "duration" /\ n = 0)}

written == IF arg # Absent THEN arg ELSE IF env # Absent THEN env ELSE file

\* Every setting is what its highest source says or an error: it is never coerced,
\* truncated or wrapped to a value nobody wrote ("a value that does not parse as its
\* setting's type is an error rather than being ignored or coerced"), only a float64
\* is as near as it can be, and no other load fails but for an unknown key or an
\* unreadable file.
LoadsAsWritten ==
  pc = "done" =>
    IF result = Error
    THEN \/ unknown
         \/ k = Absent /\ file # Absent
         \/ written # Absent /\ meanings(written, type) = {}
    ELSE IF written = Absent THEN result = default.v ELSE result \in meanings(written, type)

\* A whole number is loaded to the number, whatever its parser.
LoadsToTheNumber ==
  pc = "done" /\ type = "int64" /\ result # Error /\ written # Absent =>
    (IF written.t = "float" THEN 2 * result ELSE result) = written.v

\* The comment on loadConfig, of every source: "a value that does not parse as its
\* setting's type, is an error rather than being ignored".
NoneIgnored ==
  pc = "done" /\ result # Error =>
    \A s \in {file, env, arg} \ {Absent} : meanings(s, type) # {}
=============================================================================
