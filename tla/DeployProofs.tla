---------------------------- MODULE DeployProofs ----------------------------
(***************************************************************************)
(* What a deployment can count on: what loadConfig loads, for any size of  *)
(* an int64, and what pod-up.sh and pod-down.sh promise, over any number   *)
(* of pods.                                                                *)
(***************************************************************************)
EXTENDS Config, Pod, TLAPS

-----------------------------------------------------------------------------
(* Configuration.                                                          *)

\* An int64 converted to an int64 is unchanged.
LEMMA WrapFits ==
  ASSUME NEW n \in MinInt .. MaxInt
  PROVE  wrap(n) = n
<1> DEFINE m == n + Half
<1>1. Half \in Nat /\ m \in 0 .. 2 * Half - 1 /\ n - MinInt = m
  BY ValuesAssumption DEF MinInt, MaxInt
<1>2. m % (2 * Half) = m
  <2> HIDE DEF m
  <2> QED
    BY <1>1
<1> QED
  BY <1>1, <1>2 DEF wrap, MinInt

\* A float that passes isInt64 is truncated to itself.
LEMMA TruncateWhole ==
  ASSUME NEW h \in Int, isInt64(h)
  PROVE  truncate(h) \in MinInt .. MaxInt /\ 2 * truncate(h) = h
BY ValuesAssumption DEF isInt64, truncate, MinInt, MaxInt

\* A float64 is a whole number of halves.
LEMMA NearestWhole ==
  ASSUME NEW h \in Halves
  PROVE  nearest(h) \in Int
<1> DEFINE u == CHOOSE u \in Ulps : isUlp(u, h)
<1>1. u \in Nat \ {0}
  BY ValuesAssumption
<1>2. h \in Int
  BY ValuesAssumption DEF Halves, MinInt, MaxInt
<1>3. nearest(h) \in {h - (h % u) + u, h - (h % u)}
  BY Zenon DEF nearest
<1> HIDE DEF u
<1>4. h % u \in Int
  BY <1>1, <1>2
<1> QED
  BY <1>1, <1>2, <1>3, <1>4

\* What a parsed number means: itself, and no duration but zero.
numbers(d, to) ==
  {n \in MinInt .. MaxInt :
     (IF d.t = "float" THEN 2 * n ELSE n) = d.v /\ (to = "int64" \/ (to = "duration" /\ n = 0))}

\* A number that a setting takes is decoded to what it means, and one it does not
\* take is an error (strictNumbers, levelByName and mapstructure's conversions).
LEMMA DecodeNumber ==
  ASSUME NEW d, d.t \in {"int", "uint", "float"}, d.v \in Int, NEW to \in Types,
         d.t = "int" => d.v \in MinInt .. MaxInt,
         d.t = "uint" => d.v \in Nat
  PROVE  IF decode(d, to) = Error THEN numbers(d, to) = {} ELSE decode(d, to) \in numbers(d, to)
<1> DEFINE scaled(n) == IF d.t = "float" THEN 2 * n ELSE n
           N == {n \in MinInt .. MaxInt : scaled(n) = d.v /\ (to = "int64" \/ (to = "duration" /\ n = 0))}
           value == IF d.t = "float" THEN truncate(d.v) ELSE d.v
<1>1. numbers(d, to) = N
  BY DEF numbers
<1>2. CASE to \notin {"int64", "duration"}
  <2>1. N = {}
    BY <1>2
  <2>2. decode(d, to) = Error
    <3>1. CASE to = "level"
      BY <3>1 DEF decode, levelByName
    <3>2. CASE to # "level"
      BY <1>2, <3>2 DEF decode, convert, isNumber
    <3> QED
      BY <3>1, <3>2
  <2> QED
    BY <1>1, <2>1, <2>2
<1>3. CASE to \in {"int64", "duration"} /\ ~strictNumbers(d, to)
  <2>1. decode(d, to) = Error
    BY <1>3, Zenon DEF decode
  <2>2. N = {}
    <3> SUFFICES ASSUME NEW n \in N PROVE FALSE
      BY Zenon
    <3>1. n \in MinInt .. MaxInt /\ scaled(n) = d.v /\ (to = "int64" \/ (to = "duration" /\ n = 0))
      OBVIOUS
    <3>2. Half \in Nat
      BY ValuesAssumption
    <3> QED
      BY <1>3, <3>1, <3>2 DEF strictNumbers, isInt64, isNumber, MinInt, MaxInt
  <2> QED
    BY <1>1, <2>1, <2>2
<1>4. CASE to \in {"int64", "duration"} /\ strictNumbers(d, to)
  <2>1. decode(d, to) = wrap(value)
    <3>1. levelByName(d, to)
      BY <1>4 DEF levelByName
    <3>2. convert(d, to) = wrap(value)
      BY <1>4 DEF convert, isNumber
    <3> QED
      BY <1>4, <3>1, <3>2 DEF decode
  <2>2. value \in MinInt .. MaxInt /\ scaled(value) = d.v
    <3>1. Half \in Nat \ {0}
      BY ValuesAssumption
    <3>2. CASE to = "duration"
      <4>1. d.v = 0
        BY <1>4, <3>2 DEF strictNumbers, isNumber
      <4>2. truncate(0) = 0
        BY DEF truncate
      <4> QED
        BY <3>1, <4>1, <4>2 DEF MinInt, MaxInt
    <3>3. CASE to = "int64" /\ d.t = "float"
      <4>1. isInt64(d.v)
        BY <1>4, <3>3 DEF strictNumbers
      <4> QED
        BY <3>3, <4>1, TruncateWhole
    <3>4. CASE to = "int64" /\ d.t # "float"
      BY <1>4, <3>1, <3>4 DEF strictNumbers, MinInt, MaxInt
    <3> QED
      BY <1>4, <3>2, <3>3, <3>4
  <2>3. to = "duration" => value = 0
    <3>1. ASSUME to = "duration" PROVE d.v = 0
      BY <1>4, <3>1 DEF strictNumbers, isNumber
    <3>2. truncate(0) = 0
      BY DEF truncate
    <3> QED
      BY <3>1, <3>2
  <2>4. decode(d, to) = value
    <3> HIDE DEF value
    <3> QED
      BY <2>1, <2>2, WrapFits
  <2>5. value # Error
    <3>1. value \in Int
      BY <2>2 DEF MinInt, MaxInt
    <3> QED
      BY <3>1, ValuesAssumption
  <2>6. value \in N
    <3> HIDE DEF value
    <3> QED
      BY <1>4, <2>2, <2>3
  <2> QED
    BY <1>1, <2>4, <2>5, <2>6
<1> QED
  BY <1>2, <1>3, <1>4

\* The same of whatever a file may say, but for a key without a value, once its
\* parser has read it.
LEMMA DecodeMeans ==
  ASSUME NEW d \in Literals, d.t # "null", NEW to \in Types
  PROVE  LET x == decode(parserFor(d), to)
         IN  IF x = Error THEN meanings(d, to) = {} ELSE x \in meanings(d, to)
<1> DEFINE x == decode(parserFor(d), to)
<1>0. Half \in Nat \ {0} /\ Error \notin Int
  BY ValuesAssumption
<1>1. CASE d \in Texts
  <2>1. d.t = "string" /\ d.v \in Int
    BY <1>0, <1>1 DEF Texts, MinInt, MaxInt
  <2>2. x = IF parses(d, to) THEN d.v ELSE Error
    <3>1. strictNumbers(d, to) /\ levelByName(d, to)
      BY <2>1 DEF strictNumbers, levelByName, isNumber
    <3>2. convert(d, to) = IF parses(d, to) THEN d.v ELSE Error
      BY <2>1 DEF convert, isNumber
    <3>3. parserFor(d) = d
      BY <2>1 DEF parserFor
    <3> QED
      BY <3>1, <3>2, <3>3, Zenon DEF decode
  <2>3. meanings(d, to) = IF parses(d, to) THEN {d.v} ELSE {}
    BY <2>1 DEF meanings
  <2> QED
    BY <1>0, <2>1, <2>2, <2>3
<1>2. CASE d \in [t : {"bool"}, v : {0, 1}]
  <2>1. d.t = "bool" /\ d.v \in {0, 1}
    BY <1>2
  <2>2. parserFor(d) = d
    BY <2>1 DEF parserFor
  <2>3. decode(d, to) = IF to = "bool" THEN d.v ELSE Error
    BY <2>1 DEF decode, strictNumbers, levelByName, isNumber, convert
  <2>4. meanings(d, to) = IF to = "bool" THEN {d.v} ELSE {}
    BY <2>1 DEF meanings
  <2> QED
    BY <1>0, <2>1, <2>2, <2>3, <2>4
<1>3. CASE d \in [t : {"float"}, v : Halves]
  <2> DEFINE f == [d EXCEPT !.v = nearest(d.v)]
  <2>1. d.t = "float" /\ d.v \in Halves
    BY <1>3
  <2>2. nearest(d.v) \in Int
    BY <2>1, NearestWhole
  <2>3. f.t = "float" /\ f.v = nearest(d.v)
    BY <1>3
  <2>4. parserFor(d) = f
    BY <2>1 DEF parserFor
  <2>5. numbers(f, to) = meanings(d, to)
    BY <2>1, <2>3 DEF numbers, meanings
  <2> HIDE DEF f
  <2>6. IF decode(f, to) = Error THEN numbers(f, to) = {} ELSE decode(f, to) \in numbers(f, to)
    BY <2>2, <2>3, DecodeNumber
  <2> QED
    BY <2>4, <2>5, <2>6
<1>4. CASE d \in [t : {"int"}, v : MinInt .. MaxInt] \/ d \in [t : {"uint"}, v : 0 .. 2 * Half - 1]
  <2>1. /\ d.t \in {"int", "uint"} /\ d.v \in Int
        /\ d.t = "int" => d.v \in MinInt .. MaxInt
        /\ d.t = "uint" => d.v \in Nat
    BY <1>0, <1>4 DEF MinInt, MaxInt
  <2>2. parserFor(d) = d
    BY <2>1 DEF parserFor
  <2>3. numbers(d, to) = meanings(d, to)
    BY <2>1 DEF numbers, meanings
  <2>4. IF decode(d, to) = Error THEN numbers(d, to) = {} ELSE decode(d, to) \in numbers(d, to)
    BY <2>1, DecodeNumber
  <2> QED
    BY <2>2, <2>3, <2>4
<1> QED
  BY <1>1, <1>2, <1>3, <1>4 DEF Literals

\* What is left of a source once it is loaded; a text is left as it is.
parsed(d) == IF d = Absent THEN Absent ELSE parserFor(d)

\* A text is what its source says: no parser changes it.
LEMMA TextParsed ==
  ASSUME NEW d \in Texts \cup {Absent}
  PROVE  parsed(d) = d
BY DEF parsed, parserFor, Texts

\* A parser makes a value of whatever is written, and keeps its type.
LEMMA ParserReads ==
  ASSUME NEW d \in Literals
  PROVE  parserFor(d) # Absent /\ parserFor(d).t = d.t
<1>1. CASE d \in [t : {"float"}, v : Halves]
  <2>1. nearest(d.v) \in Int
    BY <1>1, NearestWhole
  <2>2. parserFor(d) = [d EXCEPT !.v = nearest(d.v)]
    BY <1>1 DEF parserFor
  <2>3. [d EXCEPT !.v = nearest(d.v)] \in [t : {"float"}, v : Int]
    BY <1>1, <2>1
  <2> QED
    BY <1>1, <2>2, <2>3, ValuesAssumption
<1>2. CASE d \notin [t : {"float"}, v : Halves]
  <2>1. d.t # "float"
    BY <1>2 DEF Literals, Texts
  <2>2. parserFor(d) = d
    BY <2>1 DEF parserFor
  <2> QED
    BY <2>2, ValuesAssumption
<1> QED
  BY <1>1, <1>2

\* Where the load has come to: what has been merged so far is what the sources that
\* were loaded say, and the flag has parsed.
ConfigInv ==
  /\ pc \in {"parse", "file", "env", "flags", "decode", "done"}
  /\ type \in Types
  /\ file \in Literals \cup {Absent} /\ env \in Texts \cup {Absent} /\ arg \in Texts \cup {Absent}
  /\ pc \in {"parse", "file"} => k = Absent
  /\ pc = "env" => k = parsed(file)
  /\ pc = "flags" => k = IF env # Absent THEN env ELSE parsed(file)
  /\ pc = "decode" => k = IF written # Absent THEN parserFor(written) ELSE default
  /\ LoadsAsWritten

\* A setting is loaded as its highest source says or the load fails, and a load
\* fails for no other reason than a value without a meaning, an unknown key or an
\* unreadable file, whatever an int64 can hold (loadConfig).
THEOREM LoadedAsWritten == Spec => []LoadsAsWritten
<1>1. Init => ConfigInv
  BY DEF Init, ConfigInv, LoadsAsWritten
<1>2. ConfigInv /\ [Next]_vars => ConfigInv'
  <2> SUFFICES ASSUME ConfigInv, [Next]_vars PROVE ConfigInv'
    OBVIOUS
  <2>0. Error \notin Int
    BY ValuesAssumption
  <2>1. CASE parse
    <3>1. CASE arg # Absent /\ ~parses(arg, type)
      <4>1. arg.t = "string"
        BY <3>1 DEF ConfigInv, Texts
      <4>2. meanings(arg, type) = {}
        BY <3>1, <4>1 DEF meanings
      <4>3. written = arg
        BY <3>1 DEF written
      <4> QED
        BY <2>1, <3>1, <4>2, <4>3 DEF parse, fails, sources, ConfigInv, LoadsAsWritten, written
    <3>2. CASE ~(arg # Absent /\ ~parses(arg, type))
      BY <2>1, <3>2 DEF parse, sources, ConfigInv, LoadsAsWritten
    <3> QED
      BY <3>1, <3>2
  <2>2. CASE fileFails
    BY <2>2 DEF fileFails, fails, sources, ConfigInv, LoadsAsWritten
  <2>3. CASE loadFile
    BY <2>3, Zenon DEF loadFile, sources, parsed, ConfigInv, LoadsAsWritten
  <2>4. CASE loadEnv
    BY <2>4 DEF loadEnv, sources, parsed, ConfigInv, LoadsAsWritten
  <2>5. CASE loadFlags
    <3>1. /\ UNCHANGED <<type, file, env, arg, unknown>> /\ pc = "flags" /\ pc' = "decode"
          /\ k' = IF arg # Absent THEN arg ELSE IF k = Absent THEN default ELSE k
      BY <2>5, Zenon DEF loadFlags, merged, sources
    <3>2. k = IF env # Absent THEN env ELSE parsed(file)
      BY <3>1, Zenon DEF ConfigInv
    <3>3. env = parsed(env) /\ arg = parsed(arg)
      BY TextParsed DEF ConfigInv
    <3>4. file # Absent => parserFor(file) # Absent
      BY ParserReads DEF ConfigInv
    <3>5. k' = IF written # Absent THEN parserFor(written) ELSE default
      BY <3>1, <3>2, <3>3, <3>4 DEF parsed, written
    <3>6. written' = written
      BY <3>1, Zenon DEF written
    <3> QED
      BY <3>1, <3>5, <3>6, Zenon DEF ConfigInv, LoadsAsWritten
  <2>6. CASE unmarshal
    <3>1. UNCHANGED <<type, file, env, arg, unknown, k>> /\ pc = "decode" /\ pc' = "done"
      BY <2>6, Zenon DEF unmarshal, fails, sources
    <3>2. k = IF written # Absent THEN parserFor(written) ELSE default
      BY <3>1 DEF ConfigInv
    <3>3. written \in Literals \cup {Absent}
      BY DEF ConfigInv, written, Literals
    <3>4. written' = written
      BY <3>1, Zenon DEF written
    <3>5. type \in Types
      BY DEF ConfigInv
    <3>6. CASE k.t = "null" \/ unknown
      <4>1. result' = Error
        BY <2>6, <3>6, Zenon DEF unmarshal, fails
      <4>2. unknown \/ (written # Absent /\ meanings(written, type) = {})
        <5>1. default.t # "null"
          BY DEF default
        <5>2. k.t = "null" => written # Absent /\ written.t = "null"
          BY <3>2, <3>3, <5>1, ParserReads
        <5>3. written.t = "null" => meanings(written, type) = {}
          BY DEF meanings
        <5> QED
          BY <3>6, <5>2, <5>3
      <4>3. LoadsAsWritten'
        BY <3>1, <3>4, <4>1, <4>2, Zenon DEF LoadsAsWritten, meanings, parses
      <4> QED
        BY <3>1, <4>3, Zenon DEF ConfigInv
    <3>7. CASE ~(k.t = "null" \/ unknown)
      <4>1. result' = decode(k, type)
        BY <2>6, <3>7, Zenon DEF unmarshal
      <4>2. CASE written = Absent
        <5>1. decode(default, type) = 2
          BY DEF decode, strictNumbers, levelByName, isNumber, convert, default
        <5>2. result' = default.v /\ result' # Error
          BY <2>0, <3>2, <4>1, <4>2, <5>1 DEF default
        <5>3. LoadsAsWritten'
          BY <3>1, <3>4, <4>2, <5>2 DEF LoadsAsWritten
        <5> QED
          BY <3>1, <5>3, Zenon DEF ConfigInv
      <4>3. CASE written # Absent
        <5>1. k = parserFor(written) /\ written \in Literals /\ written.t # "null"
          BY <3>2, <3>3, <3>7, <4>3, ParserReads
        <5>2. IF result' = Error THEN meanings(written, type) = {} ELSE result' \in meanings(written, type)
          BY <3>5, <4>1, <5>1, DecodeMeans
        <5>3. meanings(written, type)' = meanings(written, type)
          BY <3>1, <3>4, Zenon DEF meanings, parses
        <5>4. LoadsAsWritten'
          BY <3>1, <3>4, <4>3, <5>2, <5>3, Zenon DEF LoadsAsWritten
        <5> QED
          BY <3>1, <5>4, Zenon DEF ConfigInv
      <4> QED
        BY <4>2, <4>3
    <3> QED
      BY <3>6, <3>7
  <2>7. CASE UNCHANGED vars
    BY <2>7 DEF vars, sources, ConfigInv, LoadsAsWritten, written
  <2> QED
    BY <2>1, <2>2, <2>3, <2>4, <2>5, <2>6, <2>7 DEF Next
<1>3. ConfigInv => LoadsAsWritten
  BY DEF ConfigInv
<1> QED
  BY <1>1, <1>2, <1>3, PTL DEF Spec

-----------------------------------------------------------------------------
(* Pods.                                                                   *)

\* A retained pod's capture is in the volume, and what pod-down.sh said it keeps is
\* a retained pod's: without a pod no sidecar is left to delete it.
PodInv ==
  /\ pod \in {"none", "0", "1"}
  /\ pod = "none" => script = "idle" /\ sidecar = "none"
  /\ outcome = "kept" => pod # "0"
  /\ pod = "1" /\ captured => run \in volume
  /\ RetainedIsKept

\* What the end of a sidecar leaves in the log volume.
LEMMA StoppedKeeps ==
  ASSUME NEW v, NEW s, stopped(v, s), pod = "1" \/ sidecar = "none"
  PROVE  v = volume
BY DEF stopped, killed, closed

\* Every step keeps PodInv.
LEMMA PodInvariant == PodSpec => []PodInv
<1>1. PodInit => PodInv
  BY DEF PodInit, PodInv, RetainedIsKept
<1>2. PodInv /\ [PodNext]_podVars => PodInv'
  <2> SUFFICES ASSUME PodInv, [PodNext]_podVars PROVE PodInv'
    OBVIOUS
  <2>1. CASE createPod
    BY <2>1 DEF createPod, PodInv, RetainedIsKept
  <2>2. CASE runSidecar \/ poll \/ pollTimesOut \/ removeStale
    BY <2>2 DEF runSidecar, poll, pollTimesOut, removeStale, containers, history, PodInv, RetainedIsKept
  <2>3. CASE openCapture
    BY <2>3 DEF openCapture, PodInv, RetainedIsKept
  <2>4. CASE listen
    BY <2>4 DEF listen, PodInv, RetainedIsKept
  <2>5. CASE sidecarEnds
    <3>1. /\ sidecar # "none" /\ stopped(volume', sock')
          /\ UNCHANGED <<script, pod, run, captured, outcome>>
      BY <2>5 DEF sidecarEnds, alive, history
    <3>2. pod = "1" => volume' = volume
      BY <3>1, StoppedKeeps
    <3> QED
      BY <3>1, <3>2, Zenon DEF PodInv, RetainedIsKept
  <2>6. ASSUME NEW request \in {"", "0", "1"}, NEW done \in SUBSET {"pod", "keylog", "log"},
               podDown(request, done)
        PROVE  PodInv'
    <3>1. /\ script = "idle" /\ UNCHANGED <<script, run>>
          /\ pod' = IF "pod" \in done THEN "none" ELSE pod
          /\ sidecar' = IF done # {} THEN "none" ELSE sidecar
          /\ captured' = (captured /\ decision(request) = "1")
      BY <2>6, Zenon DEF podDown
    <3>2. "pod" \in done => sidecar' = "none"
      BY <3>1
    <3>3. CASE decision(request) # "1"
      <4>1. outcome' = "wiped" /\ ~captured'
        BY <2>6, <3>1, <3>3, Zenon DEF podDown
      <4> QED
        BY <3>1, <3>2, <4>1 DEF PodInv, RetainedIsKept
    <3>4. CASE decision(request) = "1"
      <4>1. pod = "1" \/ pod = "none"
        BY <2>6, <3>4, Zenon DEF podDown, decision, refuses, PodInv
      <4>2. "log" \notin done
        BY <2>6, <3>4 DEF podDown, removals
      <4>3. volume' = volume
        BY <2>6, <4>1, <4>2, StoppedKeeps, Zenon DEF podDown, PodInv
      <4>4. outcome' = (IF pod = "none" THEN outcome ELSE "kept") /\ (captured' => captured)
        BY <2>6, <3>1, <3>4, Zenon DEF podDown
      <4> QED
        BY <3>1, <3>2, <4>1, <4>3, <4>4 DEF PodInv, RetainedIsKept
    <3> QED
      BY <3>3, <3>4, Zenon
  <2>7. CASE UNCHANGED podVars
    BY <2>7 DEF podVars, containers, history, PodInv, RetainedIsKept
  <2> QED
    BY <2>1, <2>2, <2>3, <2>4, <2>5, <2>6, <2>7, Zenon DEF PodNext, podDownRefused
<1> QED
  BY <1>1, <1>2, PTL DEF PodSpec

\* A pod-down.sh that says it retains has kept the run's capture, whichever request
\* and label meet, however the sidecar ended and whatever podman failed to remove.
THEOREM KeepsWhatItRetains == PodSpec => []RetainedIsKept
<1>1. PodInv => RetainedIsKept
  BY DEF PodInv
<1> QED
  BY <1>1, PodInvariant, PTL

\* Where the last pod and its socket are gone, pod-up.sh starts the app only after
\* this run's sidecar has listened: the socket file the poll finds is this run's.
THEOREM ListenerFirst ==
  ASSUME DownFirst
  PROVE  PodSpec => []AppAfterListener
<1> DEFINE Inv == AppAfterListener /\ (sock # "absent" => bound)
<1>1. PodInit => Inv
  BY DEF PodInit, AppAfterListener
<1>2. Inv /\ [PodNext]_podVars => Inv'
  <2> SUFFICES ASSUME Inv, [PodNext]_podVars PROVE Inv'
    OBVIOUS
  <2>1. CASE createPod
    BY <2>1 DEF createPod, stopped, killed, closed, AppAfterListener
  <2>2. CASE runSidecar \/ poll \/ pollTimesOut \/ openCapture \/ removeStale \/ listen
    BY <2>2 DEF runSidecar, poll, pollTimesOut, openCapture, removeStale, listen, containers,
                history, AppAfterListener
  <2>3. CASE sidecarEnds
    BY <2>3 DEF sidecarEnds, stopped, killed, closed, history, AppAfterListener
  <2>4. ASSUME NEW request \in {"", "0", "1"}, NEW done \in SUBSET {"pod", "keylog", "log"},
               podDown(request, done)
        PROVE  Inv'
    <3>1. bound' = bound /\ (app' => app)
      BY <2>4, Zenon DEF podDown
    <3>2. sock' # "absent" => sock # "absent"
      BY <2>4 DEF podDown, stopped, killed, closed
    <3> QED
      BY <3>1, <3>2, Zenon DEF AppAfterListener
  <2>5. CASE UNCHANGED podVars
    BY <2>5 DEF podVars, containers, history, AppAfterListener
  <2> QED
    BY <2>1, <2>2, <2>3, <2>4, <2>5, Zenon DEF PodNext, podDownRefused
<1>3. Inv => AppAfterListener
  OBVIOUS
<1> QED
  BY <1>1, <1>2, <1>3, PTL DEF PodSpec
=============================================================================
