----------------------------- MODULE KeylogProofs -----------------------------
(***************************************************************************)
(* The keylog file and the capture hold the same lines, once and in one    *)
(* order, for any number of processes, connections, lines and retries.     *)
(***************************************************************************)
EXTENDS Keylog, TLAPS

Past == {"appending", "sinking"}
Busy == {"reading", "locking", "appending", "sinking"}

\* None is no line, no connection and nothing a connection carries.
LEMMA NoneApart == None \notin Lines /\ None \notin Conns /\ None \notin Texts
BY KeylogAssumption DEF Texts

\* What the write of a line leaves on a connection is a line with part of its
\* secret.
LEMMA WrittenType ==
  ASSUME NEW l \in Lines
  PROVE  Whole(l) \in Texts /\ \A n \in Cuts(l) : Written(l, n) \in Texts
BY KeylogAssumption DEF Whole, Written, Texts, Cuts

\* A process's close of its connection changes only ends that were closed.
LEMMA CloseFdType ==
  ASSUME TypeOK, NEW p \in Procs, fd[p] # None, closeFd(p)
  PROVE  /\ fd' \in [Procs -> Conns \cup {None}]
         /\ server' \in [Conns -> {"none", "backlog", "reading", "locking", "appending",
                                   "sinking", "closed"}]
         /\ \A c \in Conns : server[c] # "closed" => server'[c] = server[c]
         /\ \A c \in Conns : server[c] = "closed" => server'[c] \in {"none", "closed"}
         /\ \A c \in Conns : server'[c] \in {server[c], "none"}
<1>1. fd \in [Procs -> Conns \cup {None}] /\ fd[p] \in Conns
  BY DEF TypeOK
<1>2. server \in [Conns -> {"none", "backlog", "reading", "locking", "appending", "sinking", "closed"}]
  BY DEF TypeOK
<1> QED
  BY <1>1, <1>2 DEF closeFd

\* Closing a connection keeps what TypeOK says of the handlers' states.
LEMMA CloseFdKeeps ==
  ASSUME TypeOK, NEW p \in Procs, fd[p] # None, closeFd(p), UNCHANGED <<text, mu>>
  PROVE  /\ \A c \in Conns : server'[c] \in {"locking", "appending", "sinking"} => text'[c] # None
         /\ \A c \in Conns : server'[c] \in {"appending", "sinking"} <=> mu' = c
<1>1. \A c \in Conns : server[c] # "closed" => server'[c] = server[c]
  BY CloseFdType
<1>2. \A c \in Conns : server[c] = "closed" => server'[c] \in {"none", "closed"}
  BY CloseFdType
<1> QED
  BY <1>1, <1>2, Zenon DEF TypeOK

\* A further attempt within the bound keeps the counter's type.
LEMMA RetryType ==
  ASSUME TypeOK, NEW p \in Procs, tries[p] < MaxAttempts, retry(p)
  PROVE  tries' \in [Procs -> 0 .. MaxAttempts]
<1>1. tries \in [Procs -> 0 .. MaxAttempts] /\ MaxAttempts \in Nat
  BY KeylogAssumption DEF TypeOK
<1>2. tries[p] + 1 \in 0 .. MaxAttempts
  BY <1>1
<1> QED
  BY <1>1, <1>2 DEF retry

\* A call that returns leaves no line and no attempts.
LEMMA ReturnsType ==
  ASSUME TypeOK, NEW p \in Procs, returns(p)
  PROVE  line' \in [Procs -> Lines \cup {None}] /\ tries' \in [Procs -> 0 .. MaxAttempts]
<1>1. 0 \in 0 .. MaxAttempts
  BY KeylogAssumption
<1> QED
  BY <1>1 DEF returns, TypeOK

\* The count of rejected lines keeps its type.
LEMMA RejectType ==
  ASSUME TypeOK, reject
  PROVE  rejected' \in Nat
BY DEF reject, TypeOK

\* A step that leaves the Writer, the sidecar and the capture alone keeps their types.
LEMMA InterposerFrame ==
  ASSUME TypeOK, UNCHANGED <<text, writer, rejected, process, capture>>,
         line' \in [Procs -> Lines \cup {None}], tries' \in [Procs -> 0 .. MaxAttempts],
         fd' \in [Procs -> Conns \cup {None}], emitted' \subseteq Lines, crashed' \in BOOLEAN,
         stream' \in [Conns -> Seq(Texts)],
         server' \in [Conns -> {"none", "backlog", "reading", "locking", "appending", "sinking", "closed"}],
         \A c \in Conns : server'[c] \in {"locking", "appending", "sinking"} => text'[c] # None,
         \A c \in Conns : server'[c] \in {"appending", "sinking"} <=> mu' = c
  PROVE  TypeOK'
BY DEF TypeOK, writer, process, capture

\* The interposer's steps keep the types.
LEMMA InterposerType ==
  ASSUME TypeOK, NEW p \in Procs,
         \/ \E l \in Lines : keylog_cb(p, l)
         \/ connect_locked(p) \/ send_line_locked(p) \/ giveUp(p) \/ AppExits(p)
  PROVE  TypeOK'
<1> USE NoneApart
<1>1. ASSUME NEW l \in Lines, keylog_cb(p, l) PROVE TypeOK'
  BY <1>1 DEF keylog_cb, conns, writer, process, capture, TypeOK
<1>2. CASE connect_locked(p)
  <2>1. CASE \E c \in unused : fd' = [fd EXCEPT ![p] = c] /\ server' = [server EXCEPT ![c] = "backlog"] /\ UNCHANGED tries
    <3>1. PICK c \in Conns : /\ server[c] = "none"
                             /\ fd' = [fd EXCEPT ![p] = c] /\ server' = [server EXCEPT ![c] = "backlog"]
                             /\ UNCHANGED tries
      BY <2>1, Zenon DEF unused
    <3>2. UNCHANGED <<line, emitted, crashed, stream, text, writer, rejected, process, capture, mu>>
      BY <1>2 DEF connect_locked, writer
    <3>3. fd' \in [Procs -> Conns \cup {None}]
      BY <3>1 DEF TypeOK
    <3>4. server' \in [Conns -> {"none", "backlog", "reading", "locking", "appending", "sinking", "closed"}]
      BY <3>1 DEF TypeOK
    <3>5. \A d \in Conns : server'[d] = server[d] \/ (server[d] = "none" /\ server'[d] = "backlog")
      BY <3>1 DEF TypeOK
    <3>6. /\ \A d \in Conns : server'[d] \in {"locking", "appending", "sinking"} => text'[d] # None
          /\ \A d \in Conns : server'[d] \in {"appending", "sinking"} <=> mu' = d
      BY <3>2, <3>5, Zenon DEF TypeOK
    <3>7. /\ line' \in [Procs -> Lines \cup {None}] /\ tries' \in [Procs -> 0 .. MaxAttempts]
          /\ emitted' \subseteq Lines /\ crashed' \in BOOLEAN /\ stream' \in [Conns -> Seq(Texts)]
      BY <3>1, <3>2, Zenon DEF TypeOK
    <3> QED
      BY <3>2, <3>3, <3>4, <3>6, <3>7, InterposerFrame
  <2>2. CASE retry(p) /\ UNCHANGED <<fd, server>>
    <3>1. UNCHANGED <<line, emitted, crashed, stream, text, writer, rejected, process, capture>>
      BY <1>2 DEF connect_locked
    <3>2. tries[p] \in 0 .. MaxAttempts /\ tries[p] < MaxAttempts
      BY <1>2 DEF connect_locked, sending, TypeOK
    <3>3. tries' \in [Procs -> 0 .. MaxAttempts]
      BY <2>2, <3>2, RetryType
    <3> QED
      BY <2>2, <3>1, <3>3 DEF writer, process, capture, TypeOK
  <2> QED
    BY <1>2, <2>1, <2>2 DEF connect_locked
<1>3. CASE send_line_locked(p)
  <2> DEFINE c == fd[p]
  <2>1. /\ c \in Conns /\ c # None /\ line[p] \in Lines /\ (write(p, c) \/ cutWrite(p, c))
        /\ tries[p] \in 0 .. MaxAttempts /\ tries[p] < MaxAttempts
    BY <1>3 DEF send_line_locked, attempt, sending, TypeOK
  <2>2. UNCHANGED <<emitted, text, writer, rejected, process, capture>>
    BY <1>3 DEF send_line_locked, attempt
  <2>3. CASE /\ stream' = [stream EXCEPT ![c] = Append(@, Whole(line[p]))]
             /\ returns(p)
             /\ UNCHANGED <<fd, crashed, server>>
    <3>1. stream' \in [Conns -> Seq(Texts)]
      BY <2>1, <2>3, WrittenType DEF TypeOK
    <3>2. line' \in [Procs -> Lines \cup {None}] /\ tries' \in [Procs -> 0 .. MaxAttempts]
      BY <2>3, ReturnsType
    <3> QED
      BY <2>2, <2>3, <3>1, <3>2, Zenon DEF writer, process, capture, TypeOK
  <2>4. CASE /\ \/ \E n \in Cuts(line[p]) : stream' = [stream EXCEPT ![c] = Append(@, Written(line[p], n))]
                \/ UNCHANGED stream
             /\ closeFd(p) /\ retry(p)
             /\ UNCHANGED <<line, crashed>>
    <3>1. stream' \in [Conns -> Seq(Texts)]
      <4>1. CASE \E n \in Cuts(line[p]) : stream' = [stream EXCEPT ![c] = Append(@, Written(line[p], n))]
        BY <2>1, <4>1, WrittenType DEF TypeOK
      <4>2. CASE UNCHANGED stream
        BY <4>2 DEF TypeOK
      <4> QED
        BY <2>4, <4>1, <4>2, Zenon
    <3>2. tries' \in [Procs -> 0 .. MaxAttempts]
      BY <2>1, <2>4, RetryType
    <3>3. /\ fd' \in [Procs -> Conns \cup {None}]
          /\ server' \in [Conns -> {"none", "backlog", "reading", "locking", "appending", "sinking", "closed"}]
      BY <2>1, <2>4, CloseFdType
    <3>4. /\ \A d \in Conns : server'[d] \in {"locking", "appending", "sinking"} => text'[d] # None
          /\ \A d \in Conns : server'[d] \in {"appending", "sinking"} <=> mu' = d
      BY <2>1, <2>2, <2>4, CloseFdKeeps DEF writer
    <3>5. line' \in [Procs -> Lines \cup {None}] /\ emitted' \subseteq Lines /\ crashed' \in BOOLEAN
      BY <2>2, <2>4 DEF TypeOK
    <3> QED
      BY <2>2, <3>1, <3>2, <3>3, <3>4, <3>5, InterposerFrame
  <2>5. CASE /\ closeFd(p)
             /\ \/ retry(p) /\ UNCHANGED <<line, crashed>>
                \/ crashed' = TRUE /\ returns(p)
             /\ UNCHANGED stream
    <3>1. line' \in [Procs -> Lines \cup {None}] /\ tries' \in [Procs -> 0 .. MaxAttempts]
      <4>1. CASE retry(p) /\ UNCHANGED line
        <5>1. tries' \in [Procs -> 0 .. MaxAttempts]
          BY <2>1, <4>1, RetryType
        <5> QED
          BY <4>1, <5>1 DEF TypeOK
      <4>2. CASE returns(p)
        BY <4>2, ReturnsType
      <4> QED
        BY <2>5, <4>1, <4>2, Zenon
    <3>3. crashed' \in BOOLEAN
      BY <2>5, Zenon DEF TypeOK
    <3>4. /\ fd' \in [Procs -> Conns \cup {None}]
          /\ server' \in [Conns -> {"none", "backlog", "reading", "locking", "appending", "sinking", "closed"}]
      BY <2>1, <2>5, CloseFdType
    <3>5. /\ \A d \in Conns : server'[d] \in {"locking", "appending", "sinking"} => text'[d] # None
          /\ \A d \in Conns : server'[d] \in {"appending", "sinking"} <=> mu' = d
      BY <2>1, <2>2, <2>5, CloseFdKeeps DEF writer
    <3>6. emitted' \subseteq Lines /\ stream' \in [Conns -> Seq(Texts)]
      BY <2>2, <2>5 DEF TypeOK
    <3> QED
      BY <2>2, <3>1, <3>3, <3>4, <3>5, <3>6, InterposerFrame
  <2>6. CASE write(p, c)
    BY <2>3, <2>5, <2>6, Zenon DEF write
  <2>7. CASE cutWrite(p, c)
    BY <2>4, <2>7, Zenon DEF cutWrite
  <2> QED
    BY <2>1, <2>6, <2>7
<1>4. CASE giveUp(p)
  <2>1. returns(p) /\ UNCHANGED <<fd, emitted, crashed, conns, writer, rejected, process, capture>>
    BY <1>4 DEF giveUp
  <2>2. line' \in [Procs -> Lines \cup {None}] /\ tries' \in [Procs -> 0 .. MaxAttempts]
    BY <2>1, ReturnsType
  <2> QED
    BY <2>1, <2>2, Zenon DEF conns, writer, process, capture, TypeOK
<1>5. CASE AppExits(p)
  <2>1. /\ fd[p] # None /\ closeFd(p) /\ returns(p)
        /\ UNCHANGED <<emitted, crashed, stream, text, writer, rejected, process, capture, mu>>
    BY <1>5 DEF AppExits, writer
  <2>2. /\ fd' \in [Procs -> Conns \cup {None}]
        /\ server' \in [Conns -> {"none", "backlog", "reading", "locking", "appending", "sinking", "closed"}]
    BY <2>1, CloseFdType
  <2>3. /\ \A d \in Conns : server'[d] \in {"locking", "appending", "sinking"} => text'[d] # None
        /\ \A d \in Conns : server'[d] \in {"appending", "sinking"} <=> mu' = d
    BY <2>1, CloseFdKeeps
  <2>4. line' \in [Procs -> Lines \cup {None}] /\ tries' \in [Procs -> 0 .. MaxAttempts]
    BY <2>1, ReturnsType
  <2>5. /\ emitted' \subseteq Lines
        /\ crashed' \in BOOLEAN /\ stream' \in [Conns -> Seq(Texts)]
    BY <2>1 DEF TypeOK
  <2> QED
    BY <2>1, <2>2, <2>3, <2>4, <2>5, InterposerFrame
<1> QED
  BY <1>1, <1>2, <1>3, <1>4, <1>5

\* A handler that gives up Writer.mu keeps the types.
LEMMA UnlockedType ==
  ASSUME TypeOK, NEW c \in Conns, server[c] = "appending", unlocked(c),
         UNCHANGED <<app, stream, keylog, seen, handed, process, capture>>,
         spoilt' \subseteq Texts, torn' \in BOOLEAN, rejected' \in Nat
  PROVE  TypeOK'
<1> USE NoneApart
<1>1. mu = c
  BY DEF TypeOK
<1>2. /\ server' \in [Conns -> {"none", "backlog", "reading", "locking", "appending",
                                "sinking", "closed"}]
      /\ text' \in [Conns -> Texts \cup {None}]
  BY DEF unlocked, TypeOK
<1>3. \A d \in Conns : server'[d] \in {"locking", "appending", "sinking"} => text'[d] # None
  BY DEF unlocked, TypeOK
<1>4. \A d \in Conns : server'[d] \in {"appending", "sinking"} <=> mu' = d
  BY <1>1 DEF unlocked, TypeOK
<1>5. mu' \in Conns \cup {None}
  BY DEF unlocked
<1> QED
  BY <1>2, <1>3, <1>4, <1>5, Zenon DEF app, process, capture, TypeOK

\* The server's steps keep the types, and the lock at most one holder.
LEMMA ServerType ==
  ASSUME TypeOK, NEW c \in Conns, serverStep(c)
  PROVE  TypeOK'
<1> USE NoneApart
<1>1. CASE Run(c)
  BY <1>1 DEF Run, app, writer, process, capture, TypeOK
<1>2. CASE handleConn(c)
  <2>1. stream[c] \in Seq(Texts) /\ stream[c] # <<>>
    BY <1>2 DEF handleConn, TypeOK
  <2>2. Head(stream[c]) \in Texts /\ Tail(stream[c]) \in Seq(Texts)
    BY <2>1
  <2>3. stream' \in [Conns -> Seq(Texts)]
    BY <1>2, <2>2 DEF handleConn, TypeOK
  <2>4. UNCHANGED <<app, writer, process, capture>>
    BY <1>2 DEF handleConn
  <2>5. CASE /\ text' = [text EXCEPT ![c] = Head(stream[c])]
             /\ server' = [server EXCEPT ![c] = "locking"]
             /\ UNCHANGED rejected
    <3>1. text' \in [Conns -> Texts \cup {None}] /\ text'[c] \in Texts
      BY <2>2, <2>5 DEF TypeOK
    <3>2. server[c] = "reading" /\ mu # c
      BY <1>2, Zenon DEF handleConn, TypeOK
    <3>3. text'[c] # None
      BY <3>1 DEF Texts
    <3>4. /\ \A d \in Conns : server'[d] \in {"locking", "appending", "sinking"} => text'[d] # None
          /\ server' \in [Conns -> {"none", "backlog", "reading", "locking", "appending",
                                    "sinking", "closed"}]
      BY <2>5, <3>3 DEF TypeOK
    <3>5. \A d \in Conns : server'[d] \in {"appending", "sinking"} <=> mu' = d
      BY <2>4, <2>5, <3>2 DEF writer, TypeOK
    <3> QED
      BY <2>3, <2>4, <2>5, <3>1, <3>4, <3>5, Zenon DEF app, writer, process, capture, TypeOK
  <2>6. CASE reject /\ UNCHANGED <<text, server>>
    <3>1. rejected' \in Nat
      BY <2>6, RejectType
    <3> QED
      BY <2>3, <2>4, <2>6, <3>1, Zenon DEF app, writer, process, capture, TypeOK
  <2> QED
    BY <1>2, <2>5, <2>6 DEF handleConn
<1>3. CASE handlerEnds(c)
  BY <1>3 DEF handlerEnds, app, writer, process, capture, TypeOK
<1>4. CASE lockAndGate(c)
  <2>1. CASE mu' = c /\ server' = [server EXCEPT ![c] = "appending"] /\ UNCHANGED text
    BY <1>4, <2>1 DEF lockAndGate, gate, app, process, capture, TypeOK
  <2>2. CASE unlocked(c)
    BY <1>4, <2>2 DEF lockAndGate, gate, unlocked, app, process, capture, TypeOK
  <2> QED
    BY <1>4, <2>1, <2>2 DEF lockAndGate, gate
<1>5. CASE appendLine(c)
  <2>1. text[c] \in Texts
    BY <1>5 DEF appendLine, TypeOK
  <2>2. spoilt' \subseteq Texts
    <3>1. spoilt' = spoilt \/ spoilt' = spoilt \cup {text[c]}
      BY <1>5, Zenon DEF appendLine
    <3> QED
      BY <2>1, <3>1 DEF TypeOK
  <2>3. torn' \in BOOLEAN
    BY <1>5, Zenon DEF appendLine, fileOpen, TypeOK
  <2>4. server[c] = "appending" /\ UNCHANGED <<app, stream, handed, process, capture>>
    BY <1>5 DEF appendLine
  <2>5. CASE /\ keylog' = Append(keylog, text[c]) /\ seen' = seen \cup {text[c]}
             /\ server' = [server EXCEPT ![c] = "sinking"] /\ UNCHANGED <<text, mu, rejected>>
    <3>1. keylog' \in Seq(Texts) /\ seen' \subseteq Texts
      BY <2>1, <2>5 DEF TypeOK
    <3>2. /\ server' \in [Conns -> {"none", "backlog", "reading", "locking", "appending",
                                    "sinking", "closed"}]
          /\ \A d \in Conns : server'[d] \in {"locking", "appending", "sinking"} => text'[d] # None
          /\ \A d \in Conns : server'[d] \in {"appending", "sinking"} <=> mu' = d
      BY <2>4, <2>5 DEF TypeOK
    <3> QED
      BY <2>2, <2>3, <2>4, <2>5, <3>1, <3>2 DEF app, process, capture, TypeOK
  <2>6. CASE reject /\ unlocked(c) /\ UNCHANGED <<keylog, seen>>
    <3>1. rejected' \in Nat
      BY <2>6, RejectType
    <3> QED
      BY <2>2, <2>3, <2>4, <2>6, <3>1, UnlockedType
  <2> QED
    BY <1>5, <2>5, <2>6 DEF appendLine
<1>6. CASE sinkLine(c)
  <2>1. handed' \in Seq(Texts)
    <3>1. text[c] \in Texts
      BY <1>6 DEF sinkLine, TypeOK
    <3>2. handed' = Append(handed, text[c]) \/ handed' = handed
      BY <1>6, Zenon DEF sinkLine
    <3>3. handed \in Seq(Texts)
      BY DEF TypeOK
    <3> QED
      BY <3>1, <3>2, <3>3
  <2>2. stopped' \in BOOLEAN /\ closed' \in BOOLEAN
    BY <1>6, Zenon DEF sinkLine, capture, TypeOK, Cap!TakeSecret, Cap!Refuse
  <2>3. unlocked(c) /\ server[c] = "sinking"
    BY <1>6 DEF sinkLine
  <2> QED
    BY <1>6, <2>1, <2>2, <2>3 DEF sinkLine, unlocked, app, process, TypeOK
<1> QED
  BY <1>1, <1>2, <1>3, <1>4, <1>5, <1>6 DEF serverStep

\* The end of the process keeps the types.
LEMMA GoneType ==
  ASSUME TypeOK, processGone, sidecar' = "down", UNCHANGED <<app, runs, capture>>,
         ~accepting', accepting' \in BOOLEAN, torn' \in BOOLEAN, keylog' \in Seq(Texts)
  PROVE  TypeOK'
<1> USE NoneApart
<1>1. /\ server' \in [Conns -> {"none", "backlog", "reading", "locking", "appending",
                                "sinking", "closed"}]
      /\ \A c \in Conns : server'[c] \in {"none", "closed"}
  BY DEF processGone
<1>2. stream' \in [Conns -> Seq(Texts)] /\ text' \in [Conns -> Texts \cup {None}]
  BY DEF processGone
<1>3. /\ seen' \subseteq Texts /\ spoilt' \subseteq Texts /\ handed' \in Seq(Texts)
      /\ mu' = None /\ rejected' \in Nat
  BY DEF processGone
<1>4. /\ \A c \in Conns : server'[c] \in {"locking", "appending", "sinking"} => text'[c] # None
      /\ \A c \in Conns : server'[c] \in {"appending", "sinking"} <=> mu' = c
  BY <1>1, <1>3
<1> QED
  BY <1>1, <1>2, <1>3, <1>4, Zenon DEF app, capture, TypeOK

\* The steps of the sidecar's own goroutine, and its capture's, keep the types.
LEMMA SidecarType ==
  ASSUME TypeOK,
         AcceptFails \/ Start \/ captureStep \/ closeCapture \/ closeServer \/ Exit \/ Kill
  PROVE  TypeOK'
<1> USE NoneApart
<1>1. CASE Start
  <2>1. stopped' \in BOOLEAN /\ closed' \in BOOLEAN
    BY <1>1, Zenon DEF Start
  <2>2. /\ keylog' = <<>> /\ handed' = <<>> /\ seen' = {} /\ rejected' = 0
        /\ torn' = FALSE /\ spoilt' = {}
        /\ sidecar' = "up" /\ accepting' = TRUE /\ runs' = runs + 1 /\ runs < MaxRuns
        /\ UNCHANGED <<app, conns, mu>>
    BY <1>1, Zenon DEF Start, newWriter
  <2>3. runs' \in 0 .. MaxRuns
    BY <2>2, KeylogAssumption DEF TypeOK
  <2>4. /\ keylog' \in Seq(Texts) /\ handed' \in Seq(Texts) /\ seen' \subseteq Texts /\ rejected' \in Nat
        /\ spoilt' \subseteq Texts
    BY <2>2
  <2>5. torn' \in BOOLEAN /\ accepting' \in BOOLEAN
    BY <2>2, Zenon
  <2> QED
    BY <2>1, <2>2, <2>3, <2>4, <2>5 DEF app, conns, TypeOK
<1>2. CASE captureStep
  <2>1. stopped' \in BOOLEAN /\ closed' \in BOOLEAN
    BY <1>2, Zenon DEF captureStep, TypeOK, Cap!Refuse, Cap!WriteSecrets, Cap!Written, Cap!Sync
  <2> QED
    BY <1>2, <2>1 DEF captureStep, app, conns, writer, process, TypeOK
<1>3. CASE closeCapture
  <2>1. stopped' \in BOOLEAN /\ closed' \in BOOLEAN
    BY <1>3, Zenon DEF closeCapture, capture, TypeOK, Cap!Sync
  <2> QED
    BY <1>3, <2>1 DEF closeCapture, app, conns, writer, TypeOK
<1>4. CASE closeServer
  <2>1. /\ server' \in [Conns -> {"none", "backlog", "reading", "locking", "appending",
                                  "sinking", "closed"}]
        /\ \A c \in Conns : server[c] # "backlog" => server'[c] = server[c]
        /\ \A c \in Conns : server[c] = "backlog" => server'[c] \in {"none", "closed"}
    BY <1>4 DEF closeServer, TypeOK
  <2>2. stream' \in [Conns -> Seq(Texts)]
    BY <1>4 DEF closeServer, TypeOK
  <2> QED
    BY <1>4, <2>1, <2>2, Zenon DEF closeServer, app, writer, capture, TypeOK
<1>5. CASE Exit
  <2>1. processGone /\ sidecar' = "down" /\ UNCHANGED <<app, runs, capture>>
    BY <1>5 DEF Exit
  <2>2. ~accepting' /\ accepting' \in BOOLEAN /\ torn' \in BOOLEAN
    <3>1. ~accepting
      BY <1>5 DEF Exit, TypeOK
    <3> QED
      BY <1>5, <3>1, Zenon DEF Exit, TypeOK
  <2>3. keylog' \in Seq(Texts)
    BY <1>5 DEF Exit
  <2> QED
    BY <2>1, <2>2, <2>3, GoneType
<1>6. CASE Kill
  <2>1. processGone /\ sidecar' = "down" /\ UNCHANGED <<app, runs, capture>>
    BY <1>6 DEF Kill
  <2>2. ~accepting' /\ accepting' \in BOOLEAN /\ torn' \in BOOLEAN
    BY <1>6, Zenon DEF Kill, TypeOK
  <2>3. keylog' \in Seq(Texts)
    BY <1>6 DEF Kill, TypeOK
  <2> QED
    BY <2>1, <2>2, <2>3, GoneType
<1>7. CASE AcceptFails
  BY <1>7, Zenon DEF AcceptFails, app, conns, writer, capture, TypeOK
<1> QED
  BY <1>1, <1>2, <1>3, <1>4, <1>5, <1>6, <1>7

\* Every variable keeps its type, and at most one handler is past its gate.
THEOREM TypeCorrect == Spec => []TypeOK
<1>1. Init => TypeOK
  <2> SUFFICES ASSUME Init PROVE TypeOK
    OBVIOUS
  <2>1. /\ crashed \in BOOLEAN /\ stopped \in BOOLEAN /\ closed \in BOOLEAN
        /\ torn \in BOOLEAN /\ accepting \in BOOLEAN
    BY Zenon DEF Init, Cap!Init
  <2>2. tries \in [Procs -> 0 .. MaxAttempts] /\ runs \in 0 .. MaxRuns /\ rejected \in Nat
    BY KeylogAssumption DEF Init
  <2>3. /\ stream \in [Conns -> Seq(Texts)] /\ keylog \in Seq(Texts) /\ handed \in Seq(Texts)
        /\ seen \subseteq Texts
    BY DEF Init
  <2>4. \A c \in Conns : server[c] = "none" /\ c # None
    BY KeylogAssumption DEF Init
  <2> QED
    BY <2>1, <2>2, <2>3, <2>4 DEF Init, TypeOK
<1>2. TypeOK /\ [Next]_vars => TypeOK'
  <2> SUFFICES ASSUME TypeOK, [Next]_vars PROVE TypeOK'
    OBVIOUS
  <2>1. CASE UNCHANGED vars
    BY <2>1 DEF vars, app, conns, writer, process, capture, TypeOK
  <2> QED
    BY <2>1, InterposerType, ServerType, SidecarType DEF Next, serverStep
<1> QED
  BY <1>1, <1>2, PTL DEF Spec

-----------------------------------------------------------------------------

\* The strengthening of KeptOnce and SinkFollowsKeylog.  What is in the keylog is
\* in seen; a handler past its gate has a line that is not; and only a handler
\* between the file and the sink, or a capture that has stopped, is a reason for
\* the capture to be a line behind.
Behind == keylog # <<>> /\ handed = ButLast(keylog)
LineInv ==
  /\ sidecar = "down" => \A c \in Conns : server[c] \notin Busy
  /\ sidecar # "down" =>
       /\ \A i \in DOMAIN keylog : keylog[i] \in seen
       /\ \A i, j \in DOMAIN keylog : keylog[i] = keylog[j] => i = j
       /\ mu = None => handed = keylog \/ (stopped /\ Behind)
  /\ \A c \in Conns : server[c] = "appending" => text[c] \notin seen /\ handed = keylog
  /\ \A c \in Conns :
       server[c] = "sinking" => Behind /\ text[c] = keylog[Len(keylog)]

\* Taking back the line appended last, and appending the one taken back.
LEMMA ButLastAppend ==
  /\ \A s \in Seq(Texts), x \in Texts :
       Append(s, x) # <<>> /\ ButLast(Append(s, x)) = s /\ Append(s, x)[Len(Append(s, x))] = x
  /\ \A s \in Seq(Texts) : s # <<>> => Append(ButLast(s), s[Len(s)]) = s
<1>1. ASSUME NEW s \in Seq(Texts), NEW x \in Texts
      PROVE  Append(s, x) # <<>> /\ ButLast(Append(s, x)) = s /\ Append(s, x)[Len(Append(s, x))] = x
  BY <1>1 DEF ButLast
<1>2. ASSUME NEW s \in Seq(Texts), s # <<>>
      PROVE  Append(ButLast(s), s[Len(s)]) = s
  BY <1>2 DEF ButLast
<1> QED
  BY <1>1, <1>2

\* LineInv depends on the connections only through who is past its gate.
LEMMA LineInvFrame ==
  ASSUME TypeOK, LineInv, UNCHANGED <<keylog, seen, handed>>, stopped => stopped',
         mu' = mu, sidecar' = "down" <=> sidecar = "down",
         \A c \in Conns : server'[c] \in Past => server'[c] = server[c] /\ text'[c] = text[c],
         \A c \in Conns : sidecar' = "down" /\ server'[c] \in Busy => server[c] \in Busy
  PROVE  LineInv'
<1>1. \A c \in Conns : server'[c] = "appending" => server[c] = "appending" /\ text'[c] = text[c]
  BY DEF Past
<1>2. \A c \in Conns : server'[c] = "sinking" => server[c] = "sinking" /\ text'[c] = text[c]
  BY DEF Past
<1> QED
  BY <1>1, <1>2 DEF LineInv, Behind, ButLast

\* The interposer never touches the keylog or a handler's line.
LEMMA InterposerLines ==
  ASSUME TypeOK, LineInv, NEW p \in Procs,
         \/ \E l \in Lines : keylog_cb(p, l)
         \/ connect_locked(p) \/ send_line_locked(p) \/ giveUp(p) \/ AppExits(p)
  PROVE  LineInv'
<1>1. UNCHANGED <<keylog, seen, handed, mu, stopped, sidecar, text>>
  BY DEF keylog_cb, connect_locked, send_line_locked, attempt, giveUp, AppExits, conns, writer, process, capture
<1>2. \A c \in Conns : server'[c] \in Busy => server'[c] = server[c]
  <2>1. CASE UNCHANGED server
    BY <2>1
  <2>2. CASE closeFd(p) /\ fd[p] # None
    BY <2>2, CloseFdType DEF Busy
  <2>3. CASE \E c \in unused : server' = [server EXCEPT ![c] = "backlog"]
    BY <2>3 DEF Busy, unused, TypeOK
  <2> QED
    BY <2>1, <2>2, <2>3
    DEF keylog_cb, connect_locked, send_line_locked, attempt, write, cutWrite, giveUp, AppExits, conns
<1> QED
  BY <1>1, <1>2, LineInvFrame DEF Past, Busy

\* A handler's steps: a line passes the gate only when the capture is active and
\* has every line so far, and reaches the sink before the lock is free again.
LEMMA ServerLines ==
  ASSUME TypeOK, LineInv, NEW c \in Conns, serverStep(c)
  PROVE  LineInv'
<1> USE NoneApart
<1>1. CASE Run(c) \/ handleConn(c) \/ handlerEnds(c)
  <2>1. UNCHANGED <<keylog, seen, handed, mu, stopped, sidecar>>
    BY <1>1 DEF Run, handleConn, handlerEnds, writer, process, capture
  <2>2. \A d \in Conns : server'[d] \in Past => server'[d] = server[d] /\ text'[d] = text[d]
    BY <1>1 DEF Run, handleConn, handlerEnds, Past, TypeOK
  <2>3. sidecar # "down"
    BY <1>1 DEF Run, handleConn, handlerEnds, LineInv, TypeOK, Busy
  <2> QED
    BY <2>1, <2>2, <2>3, LineInvFrame
<1>2. CASE lockAndGate(c)
  <2>1. /\ mu = None /\ server[c] = "locking"
        /\ UNCHANGED <<keylog, seen, handed, stopped, sidecar>>
    BY <1>2 DEF lockAndGate, gate, process, capture
  <2>2. \A d \in Conns : server[d] \notin Past
    BY <2>1 DEF TypeOK, Past
  <2>3. CASE wanted(c) /\ mu' = c /\ server' = [server EXCEPT ![c] = "appending"] /\ UNCHANGED text
    <3>1. ~stopped /\ text[c] \notin seen
      BY <2>3 DEF wanted, captureActive
    <3>2. \A d \in Conns : server'[d] \in Past => d = c
      BY <2>2, <2>3 DEF TypeOK
    <3>3. server'[c] = "appending" /\ mu' # None
      BY <2>3 DEF TypeOK
    <3>4. sidecar # "down" => handed = keylog
      BY <2>1, <3>1 DEF LineInv
    <3>5. sidecar # "down"
      BY <2>1 DEF LineInv, Busy
    <3> QED
      BY <2>1, <2>3, <3>1, <3>2, <3>3, <3>4, <3>5 DEF LineInv, Past
  <2>4. CASE unlocked(c)
    <3>1. mu' = mu /\ \A d \in Conns : server'[d] \notin Past
      BY <2>1, <2>2, <2>4 DEF unlocked, TypeOK, Past
    <3> QED
      BY <2>1, <3>1, LineInvFrame DEF LineInv, Busy
  <2> QED
    BY <1>2, <2>3, <2>4 DEF lockAndGate, gate
<1>3. CASE appendLine(c)
  <2>1. /\ server[c] = "appending" /\ mu = c /\ mu # None /\ text[c] \in Texts
        /\ text[c] \notin seen /\ handed = keylog /\ sidecar # "down"
    <3>1. server[c] = "appending"
      BY <1>3 DEF appendLine
    <3>2. mu = c /\ mu # None /\ text[c] \in Texts
      BY <3>1 DEF TypeOK
    <3>3. text[c] \notin seen /\ handed = keylog /\ sidecar # "down"
      BY <3>1 DEF LineInv, Busy
    <3> QED
      BY <3>1, <3>2, <3>3
  <2>2. UNCHANGED <<handed, stopped, sidecar>>
    BY <1>3 DEF appendLine, process, capture
  <2>3. \A d \in Conns : d # c => server[d] \notin Past
    BY <2>1 DEF TypeOK, Past
  <2>4. CASE /\ keylog' = Append(keylog, text[c]) /\ seen' = seen \cup {text[c]}
             /\ server' = [server EXCEPT ![c] = "sinking"] /\ UNCHANGED <<text, mu, rejected>>
    <3>1. keylog \in Seq(Texts)
      BY DEF TypeOK
    <3>2. keylog' # <<>> /\ ButLast(keylog') = keylog /\ keylog'[Len(keylog')] = text[c]
      BY <2>1, <2>4, <3>1, ButLastAppend
    <3>3. \A i \in DOMAIN keylog' :
            \/ i \in DOMAIN keylog /\ keylog'[i] = keylog[i]
            \/ i = Len(keylog) + 1 /\ keylog'[i] = text[c]
      BY <2>1, <2>4, <3>1
    <3>4. /\ \A i \in DOMAIN keylog' : keylog'[i] \in seen'
          /\ \A i, j \in DOMAIN keylog' : keylog'[i] = keylog'[j] => i = j
      BY <2>1, <2>4, <3>3 DEF LineInv
    <3>5. \A d \in Conns : server'[d] \in Past => d = c /\ server'[d] = "sinking" /\ text'[d] = text[c]
      BY <2>3, <2>4 DEF TypeOK, Past
    <3> QED
      BY <2>1, <2>2, <2>4, <3>2, <3>4, <3>5 DEF LineInv, Behind, Past, Busy
  <2>5. CASE unlocked(c) /\ UNCHANGED <<keylog, seen>>
    <3>1. \A d \in Conns : server'[d] \notin Past
      BY <2>3, <2>5 DEF unlocked, TypeOK, Past
    <3> QED
      BY <2>1, <2>2, <2>5, <3>1 DEF LineInv, Behind, Past
  <2> QED
    BY <1>3, <2>4, <2>5 DEF appendLine
<1>4. CASE sinkLine(c)
  <2>1. /\ server[c] = "sinking" /\ mu = c /\ text[c] \in Texts
        /\ Behind /\ text[c] = keylog[Len(keylog)] /\ sidecar # "down"
    BY <1>4 DEF sinkLine, TypeOK, LineInv, Busy
  <2>2. UNCHANGED <<keylog, seen, sidecar>> /\ unlocked(c)
    BY <1>4 DEF sinkLine, process
  <2>3. \A d \in Conns : server'[d] \notin Past
    BY <2>1, <2>2 DEF unlocked, TypeOK, Past
  <2>4. handed' = keylog' \/ (stopped' /\ Behind')
    <3>1. CASE handed' = Append(handed, text[c])
      <4>1. keylog \in Seq(Texts)
        BY DEF TypeOK
      <4> QED
        BY <2>1, <2>2, <3>1, <4>1, ButLastAppend DEF Behind
    <3>2. CASE stopped' /\ UNCHANGED handed
      BY <2>1, <2>2, <3>2 DEF Behind, ButLast
    <3> QED
      BY <1>4, <3>1, <3>2 DEF sinkLine, capture, Cap!Refuse
  <2> QED
    BY <2>1, <2>2, <2>3, <2>4 DEF LineInv, Past
<1> QED
  BY <1>1, <1>2, <1>3, <1>4 DEF serverStep

\* The sidecar's steps: a new run begins with a new keylog and a new capture, and
\* a stop of the capture is for good.
LEMMA SidecarLines ==
  ASSUME TypeOK, LineInv,
         AcceptFails \/ Start \/ captureStep \/ closeCapture \/ closeServer \/ Exit \/ Kill
  PROVE  LineInv'
<1>1. CASE Start
  <2>1. /\ sidecar = "down" /\ keylog' = <<>> /\ handed' = <<>> /\ UNCHANGED conns
    BY <1>1 DEF Start, newWriter
  <2>2. \A c \in Conns : server'[c] \notin Past
    BY <2>1 DEF LineInv, conns, Past, Busy
  <2>3. sidecar' = "up"
    BY <1>1 DEF Start
  <2> QED
    BY <2>1, <2>2, <2>3 DEF LineInv, Past
<1>2. CASE captureStep \/ closeCapture
  <2>1. UNCHANGED <<keylog, seen, handed, mu, server, text>> /\ sidecar # "down" /\ sidecar' # "down"
    BY <1>2, Zenon DEF captureStep, closeCapture, conns, writer, process
  <2>2. stopped => stopped'
    BY <1>2, Zenon
    DEF captureStep, closeCapture, capture, Cap!Refuse, Cap!WriteSecrets, Cap!Written, Cap!Sync
  <2> QED
    BY <2>1, <2>2, LineInvFrame
<1>3. CASE closeServer
  <2>1. /\ UNCHANGED <<keylog, seen, handed, mu, text, stopped>>
        /\ sidecar # "down" /\ sidecar' # "down"
    BY <1>3 DEF closeServer, writer, capture
  <2>2. \A c \in Conns : server'[c] \in Past => server'[c] = server[c]
    BY <1>3 DEF closeServer, Past
  <2> QED
    BY <2>1, <2>2, LineInvFrame
<1>4. CASE Exit \/ Kill
  <2>1. sidecar' = "down" /\ \A c \in Conns : server'[c] \in {"none", "closed"}
    BY <1>4 DEF Exit, Kill, processGone
  <2> QED
    BY <2>1 DEF LineInv, Busy
<1>5. CASE AcceptFails
  BY <1>5, LineInvFrame DEF AcceptFails, conns, writer, capture
<1> QED
  BY <1>1, <1>2, <1>3, <1>4, <1>5

\* LineInv is an invariant.
LEMMA LinesInvariant == Spec => []LineInv
<1>1. Init => LineInv
  BY DEF Init, LineInv, Past, Busy
<1>2. TypeOK /\ LineInv /\ [Next]_vars => LineInv'
  <2> SUFFICES ASSUME TypeOK, LineInv, [Next]_vars PROVE LineInv'
    OBVIOUS
  <2>1. CASE UNCHANGED vars
    BY <2>1, LineInvFrame, Zenon DEF vars, app, conns, writer, process, capture
  <2> QED
    BY <2>1, InterposerLines, ServerLines, SidecarLines DEF Next, serverStep
<1> QED
  BY <1>1, <1>2, TypeCorrect, PTL DEF Spec

\* No line is in the keylog twice, however often the interposers send it and on
\* however many connections.
THEOREM Once == Spec => []KeptOnce
<1>1. LineInv => KeptOnce
  BY Zenon DEF LineInv, KeptOnce
<1> QED
  BY <1>1, LinesInvariant, PTL

\* The capture takes the lines of the keylog in its order, all but at most the
\* last, at whatever moment it stops or is closed.
THEOREM SinkFollows == Spec => []SinkFollowsKeylog
<1>1. TypeOK /\ LineInv => SinkFollowsKeylog
  <2> SUFFICES ASSUME TypeOK, LineInv, sidecar # "down" PROVE handed = keylog \/ Behind
    BY DEF SinkFollowsKeylog, Behind
  <2>1. CASE mu = None
    BY <2>1 DEF LineInv
  <2>2. CASE mu \in Conns
    BY <2>2 DEF LineInv, TypeOK
  <2> QED
    BY <2>1, <2>2 DEF TypeOK
<1> QED
  BY <1>1, TypeCorrect, LinesInvariant, PTL
=============================================================================
