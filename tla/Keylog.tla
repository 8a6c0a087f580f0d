------------------------------- MODULE Keylog -------------------------------
(***************************************************************************)
(* How a TLS key reaches the keylog file and the capture: the interposer   *)
(* in each app process (preload/keylog_preload.c), the Unix-socket server  *)
(* (internal/keylog/socket_server.go), the keylog Writer (writer.go,       *)
(* nss.go), and the sidecar's start and shutdown around them (app.go),     *)
(* composed with the capture of CaptureLog.                                *)
(*                                                                         *)
(* A line is its label and the length of its secret.  What reaches the     *)
(* server is a line with the bytes of its secret that were written: a      *)
(* partial write cuts a line short, and only at the end of a connection,   *)
(* which the interposer then closes.  A process is modelled from the point *)
(* where keylog_cb has taken g_sock_mu, so it sends one line at a time.    *)
(***************************************************************************)
EXTENDS Integers, Sequences, FiniteSets

CONSTANTS
  Procs,        \* app processes with the interposer loaded
  Lines,        \* the lines OpenSSL gives them: [id, label, len] records
  Conns,        \* descriptors for connections, reused once both ends closed
  None,         \* no line, no connection
  MaxAttempts,  \* KEYLOG_MAX_SEND_ATTEMPTS
  SockBuf,      \* lines a connection buffers before write blocks
  Backlog,      \* connections that wait to be accepted before connect blocks
  MaxSecrets,   \* bound: lines in a run's capture
  MaxRuns,      \* bound: runs of the sidecar
  MaxRejected,  \* bound: rejected lines counted
  FileMayFail,  \* whether a write to the keylog may fail
  DiskMayFail,  \* whether a write to the capture may fail
  IgnoreSigpipe \* whether the app ignores SIGPIPE

ASSUME KeylogAssumption ==
  /\ None \notin Lines \cup Conns \cup [line : Lines, secret : {16, 32, 48}]
  /\ \A l \in Lines : l.len \in {32, 48}
  /\ MaxAttempts \in Nat /\ SockBuf \in Nat \ {0} /\ Backlog \in Nat \ {0}
  /\ MaxSecrets \in Nat /\ MaxRuns \in Nat /\ MaxRejected \in Nat
  /\ FileMayFail \in BOOLEAN /\ IgnoreSigpipe \in BOOLEAN

VARIABLES
  line,       \* the line a process is sending, under g_sock_mu
  tries,      \* its attempts so far
  fd,         \* g_sock_fd
  emitted,    \* history: lines given to keylog_cb
  crashed,    \* history: an app process died of SIGPIPE
  stream,     \* what is written to a connection and not yet read
  server,     \* the server's end of a connection
  text,       \* the line its handler has in hand
  sidecar,    \* "down", "up", "stopping" (capture closed), "closed" (server too)
  accepting,  \* the accept loop of Run goes on
  runs,       \* runs started
  keylog,     \* the lines Append wrote to the keylog file
  torn,       \* the file ends in part of a line, left by a write that failed
  spoilt,     \* history: lines whose write failed, or that follow such a part
  seen,       \* Writer.seen
  mu,         \* the handler that holds Writer.mu
  rejected,   \* SocketServer.rejected
  handed,     \* history: lines the capture took from the sink in this run
  secrets, secretsOut, stopped, closed, synced, lost

\* Packets make no difference to the keylog beyond stopping the capture.
Cap == INSTANCE CaptureLog WITH packets <- 0, packetsOut <- 0, MaxPackets <- 0

app     == <<line, tries, fd, emitted, crashed>>
conns   == <<stream, server, text>>
writer  == <<keylog, torn, spoilt, seen, mu, handed>>
process == <<sidecar, accepting, runs>>
capture == <<secrets, secretsOut, stopped, closed, synced, lost>>
vars    == <<app, conns, writer, rejected, process, capture>>

-----------------------------------------------------------------------------
(* Lines (nss.go).                                                         *)

labelName == {"CLIENT_RANDOM", "CLIENT_HANDSHAKE_TRAFFIC_SECRET",
  "SERVER_HANDSHAKE_TRAFFIC_SECRET", "CLIENT_TRAFFIC_SECRET_0",
  "SERVER_TRAFFIC_SECRET_0", "EXPORTER_SECRET"}

validSecretLen(label, n) ==
  IF label = "CLIENT_RANDOM" THEN n = 48 ELSE n \in {32, 48}

\* A line of which n bytes of the secret were written.
Written(l, n) == [line |-> l, secret |-> n]
Whole(l) == Written(l, l.len)

\* What a partial write may leave: 16 stands for every cut that ends elsewhere
\* than at the end of a secret of 32 bytes or of the line itself.
Cuts(l) == {n \in {16, 32, 48} : n <= l.len}

ValidateLine(t) ==
  /\ t.line.label \in labelName
  /\ validSecretLen(t.line.label, t.secret)

-----------------------------------------------------------------------------
Init ==
  /\ line = [p \in Procs |-> None] /\ tries = [p \in Procs |-> 0]
  /\ fd = [p \in Procs |-> None] /\ emitted = {} /\ crashed = FALSE
  /\ stream = [c \in Conns |-> <<>>] /\ server = [c \in Conns |-> "none"]
  /\ text = [c \in Conns |-> None]
  /\ sidecar = "down" /\ accepting = FALSE /\ runs = 0
  /\ keylog = <<>> /\ torn = FALSE /\ spoilt = {}
  /\ seen = {} /\ mu = None /\ handed = <<>>
  /\ rejected = 0
  /\ Cap!Init

(* The interposer.                                                         *)

keylog_cb(p, l) ==
  /\ line[p] = None
  /\ l \notin emitted
  /\ emitted' = emitted \cup {l}
  /\ line' = [line EXCEPT ![p] = l]
  /\ UNCHANGED <<tries, fd, crashed, conns, writer, rejected, process, capture>>

sending(p) == line[p] # None /\ tries[p] < MaxAttempts
listening == sidecar \in {"up", "stopping"}
unused == {c \in Conns : server[c] = "none" /\ \A p \in Procs : fd[p] # c}
backlogFull == Cardinality({c \in Conns : server[c] = "backlog"}) >= Backlog

retry_Forever(p) == UNCHANGED tries
\* The attempt has failed: the loop of send_line_locked goes round.
retry(p) == tries' = [tries EXCEPT ![p] = @ + 1]

\* keylog_cb returns, or its process ends.
returns(p) ==
  /\ line' = [line EXCEPT ![p] = None]
  /\ tries' = [tries EXCEPT ![p] = 0]

\* connect_locked; the connection waits to be accepted.  A full backlog blocks.
connect_locked(p) ==
  /\ sending(p) /\ fd[p] = None
  /\ \/ /\ listening /\ ~backlogFull
        /\ \E c \in unused :
             /\ fd' = [fd EXCEPT ![p] = c]
             /\ server' = [server EXCEPT ![c] = "backlog"]
        /\ UNCHANGED tries
     \/ /\ ~listening \/ unused = {}
        /\ retry(p)
        /\ UNCHANGED <<fd, server>>
  /\ UNCHANGED <<line, emitted, crashed, stream, text, writer, rejected, process, capture>>

\* close(g_sock_fd): an end the server had closed is free again.
closeFd(p) ==
  /\ fd' = [fd EXCEPT ![p] = None]
  /\ server' = [server EXCEPT ![fd[p]] = IF @ = "closed" THEN "none" ELSE @]

\* write(g_sock_fd): all of the line, or an error (and SIGPIPE) when the server's
\* end is closed.  A full buffer blocks.
write(p, c) ==
  \/ /\ server[c] # "closed" /\ Len(stream[c]) < SockBuf
     /\ stream' = [stream EXCEPT ![c] = Append(@, Whole(line[p]))]
     /\ returns(p)
     /\ UNCHANGED <<fd, crashed, server>>
  \/ /\ server[c] = "closed"
     /\ closeFd(p)
     /\ \/ retry(p) /\ UNCHANGED <<line, crashed>>
        \/ ~IgnoreSigpipe /\ crashed' = TRUE /\ returns(p)
     /\ UNCHANGED stream

\* A write that a signal interrupts, blocked or not: part of the line, or nothing.
cutWrite(p, c) ==
  /\ server[c] # "closed"
  /\ \/ \E n \in Cuts(line[p]) :
          stream' = [stream EXCEPT ![c] = Append(@, Written(line[p], n))]
     \/ UNCHANGED stream
  /\ closeFd(p) /\ retry(p)
  /\ UNCHANGED <<line, crashed>>

\* An attempt of the loop that has a connection.
attempt(p) ==
  /\ sending(p) /\ fd[p] # None
  /\ UNCHANGED <<emitted, text, writer, rejected, process, capture>>
send_line_locked(p) == attempt(p) /\ (write(p, fd[p]) \/ cutWrite(p, fd[p]))

\* Bounded retries exhausted: the line is dropped and keylog_cb returns.
giveUp(p) ==
  /\ line[p] # None /\ tries[p] = MaxAttempts
  /\ returns(p)
  /\ UNCHANGED <<fd, emitted, crashed, conns, writer, rejected, process, capture>>

\* The app process exits, and may be started again.
AppExits(p) ==
  /\ fd[p] # None
  /\ closeFd(p)
  /\ returns(p)
  /\ UNCHANGED <<emitted, crashed, stream, text, writer, rejected, process, capture>>

-----------------------------------------------------------------------------
(* The socket server and the keylog Writer.                                *)

\* Run accepts a connection and starts its handler.
Run(c) ==
  /\ accepting /\ server[c] = "backlog"
  /\ server' = [server EXCEPT ![c] = "reading"]
  /\ UNCHANGED <<app, stream, text, writer, rejected, process, capture>>

\* Accept fails, for want of descriptors say, and Run returns.  startKeylog's
\* goroutine drops the error, and the listener stays open.
AcceptFails ==
  /\ accepting
  /\ accepting' = FALSE
  /\ UNCHANGED <<app, conns, writer, rejected, sidecar, runs, capture>>

reject == rejected' = IF rejected < MaxRejected THEN rejected + 1 ELSE rejected

\* handleConn scans the next line; Append validates it before it locks.
handleConn(c) ==
  /\ server[c] = "reading" /\ stream[c] # <<>>
  /\ stream' = [stream EXCEPT ![c] = Tail(@)]
  /\ \/ /\ ValidateLine(Head(stream[c]))
        /\ text' = [text EXCEPT ![c] = Head(stream[c])]
        /\ server' = [server EXCEPT ![c] = "locking"]
        /\ UNCHANGED rejected
     \/ /\ ~ValidateLine(Head(stream[c]))
        /\ reject
        /\ UNCHANGED <<text, server>>
  /\ UNCHANGED <<app, writer, process, capture>>

handlerEnds_OnReject(c) ==
  /\ server[c] = "reading" /\ rejected > 0
  /\ server' = [server EXCEPT ![c] = IF \E p \in Procs : fd[p] = c THEN "closed" ELSE "none"]
  /\ stream' = [stream EXCEPT ![c] = <<>>]
  /\ UNCHANGED <<app, text, writer, rejected, process, capture>>
\* The client has closed and everything is read: the handler returns.
handlerEnds(c) ==
  /\ server[c] = "reading" /\ stream[c] = <<>>
  /\ \A p \in Procs : fd[p] # c
  /\ server' = [server EXCEPT ![c] = "none"]
  /\ UNCHANGED <<app, stream, text, writer, rejected, process, capture>>

\* The keylog's gate: a capture that stopped, or was not started, is inactive;
\* one that is closed is not.
captureActive == ~stopped

\* Back to scanning, w.mu free.
unlocked(c) ==
  /\ mu' = None
  /\ server' = [server EXCEPT ![c] = "reading"]
  /\ text' = [text EXCEPT ![c] = None]

wanted_Ungated(c) == text[c] \notin seen
wanted_Repeats(c) == captureActive
\* Append's answer, under w.mu, to whether the line is to be written.
wanted(c) == captureActive /\ text[c] \notin seen

\* Append's first steps under w.mu: it returns at once for a line it does not
\* want.
gate(c) ==
  /\ server[c] = "locking"
  /\ \/ /\ wanted(c)
        /\ mu' = c
        /\ server' = [server EXCEPT ![c] = "appending"]
        /\ UNCHANGED text
     \/ ~wanted(c) /\ unlocked(c)
  /\ UNCHANGED <<app, stream, keylog, torn, spoilt, seen, handed, rejected, process, capture>>

lockAndGate_NoLock(c) == gate(c)
lockAndGate(c) == mu = None /\ gate(c)

fileOpen == sidecar \in {"up", "stopping"}

\* Append writes the line; any error counts as a rejected line.  A write that
\* fails may leave part of the line, which the next line is then joined to.
appendLine(c) ==
  /\ server[c] = "appending"
  /\ \/ /\ fileOpen
        /\ keylog' = Append(keylog, text[c])
        /\ torn' = FALSE
        /\ spoilt' = IF torn THEN spoilt \cup {text[c]} ELSE spoilt
        /\ seen' = seen \cup {text[c]}
        /\ server' = [server EXCEPT ![c] = "sinking"]
        /\ UNCHANGED <<text, mu, rejected>>
     \/ /\ ~fileOpen \/ FileMayFail
        /\ torn' \in {torn, torn \/ fileOpen}
        /\ spoilt' = spoilt \cup {text[c]}
        /\ reject
        /\ unlocked(c)
        /\ UNCHANGED <<keylog, seen>>
  /\ UNCHANGED <<app, stream, handed, process, capture>>

\* The sink: capture.Writer.AddSecret takes the line, or refuses it and stops.
sinkLine(c) ==
  /\ server[c] = "sinking"
  /\ \/ Cap!TakeSecret /\ handed' = Append(handed, text[c])
     \/ Cap!Refuse /\ UNCHANGED handed
     \/ stopped /\ UNCHANGED <<handed, capture>>
  /\ unlocked(c)
  /\ UNCHANGED <<app, stream, keylog, torn, spoilt, seen, rejected, process>>

-----------------------------------------------------------------------------
(* The sidecar.                                                            *)

\* The server's end of every connection and the server's memory go with the
\* process.
processGone ==
  /\ server' = [c \in Conns |-> IF \E p \in Procs : fd[p] = c THEN "closed" ELSE "none"]
  /\ stream' = [c \in Conns |-> <<>>]
  /\ text' = [c \in Conns |-> None]
  /\ seen' = {} /\ mu' = None /\ rejected' = 0
  /\ spoilt' = {} /\ handed' = <<>>

\* NewWriter, on the path Start's deleteKeylog has cleared.
newWriter ==
  /\ keylog' = <<>> /\ torn' = FALSE /\ spoilt' = {}
  /\ seen' = {} /\ handed' = <<>>

\* Start: deleteKeylog, openCapture (capture may not start: no room, which the
\* gate cannot tell from stopped), startKeylog.
Start ==
  /\ sidecar = "down" /\ runs < MaxRuns
  /\ sidecar' = "up" /\ accepting' = TRUE /\ runs' = runs + 1
  /\ newWriter /\ rejected' = 0
  /\ secrets' = 0 /\ secretsOut' = 0
  /\ stopped' \in BOOLEAN /\ closed' = FALSE /\ synced' = TRUE /\ lost' = FALSE
  /\ UNCHANGED <<app, conns, mu>>

\* The capture writes, flushes, stops at --max-bytes, and closes its file once
\* stopped.
captureStep ==
  /\ sidecar = "up"
  /\ Cap!Refuse \/ Cap!WriteSecrets \/ Cap!Sync(FALSE) \/ (stopped /\ Cap!Sync(TRUE))
  /\ UNCHANGED <<app, conns, writer, rejected, process>>

\* App.Close closes the capture, while the keylog server still runs.
closeCapture ==
  /\ sidecar = "up"
  /\ Cap!Sync(TRUE) \/ (closed /\ UNCHANGED capture)
  /\ sidecar' = "stopping"
  /\ UNCHANGED <<app, conns, writer, rejected, accepting, runs>>

\* SocketServer.Close: the listener, with the connections it never accepted, and
\* the keylog file.  The accept loop ends; the handlers run on.
closeServer ==
  /\ sidecar = "stopping"
  /\ sidecar' = "closed" /\ accepting' = FALSE
  /\ server' = [c \in Conns |-> IF server[c] # "backlog" THEN server[c]
                                ELSE IF \E p \in Procs : fd[p] = c THEN "closed" ELSE "none"]
  /\ stream' = [c \in Conns |-> IF server[c] = "backlog" THEN <<>> ELSE stream[c]]
  /\ UNCHANGED <<app, text, writer, rejected, runs, capture>>

\* Close deletes the keylog and the process exits.
Exit ==
  /\ sidecar = "closed"
  /\ sidecar' = "down"
  /\ keylog' = <<>> /\ torn' = FALSE
  /\ processGone
  /\ UNCHANGED <<app, accepting, runs, capture>>

\* The sidecar is killed: the keylog stays.
Kill ==
  /\ sidecar # "down"
  /\ sidecar' = "down" /\ accepting' = FALSE
  /\ processGone
  /\ UNCHANGED <<app, keylog, torn, runs, capture>>

-----------------------------------------------------------------------------
interposerStep(p) ==
  connect_locked(p) \/ (attempt(p) /\ write(p, fd[p])) \/ giveUp(p)
serverStep(c) ==
  \/ Run(c) \/ handleConn(c) \/ handlerEnds(c)
  \/ lockAndGate(c) \/ appendLine(c) \/ sinkLine(c)

Next ==
  \/ \E p \in Procs, l \in Lines : keylog_cb(p, l)
  \/ \E p \in Procs : connect_locked(p)
  \/ \E p \in Procs : send_line_locked(p)
  \/ \E p \in Procs : giveUp(p)
  \/ \E p \in Procs : AppExits(p)
  \/ \E c \in Conns : Run(c)
  \/ AcceptFails
  \/ \E c \in Conns : handleConn(c)
  \/ \E c \in Conns : handlerEnds(c)
  \/ \E c \in Conns : lockAndGate(c)
  \/ \E c \in Conns : appendLine(c)
  \/ \E c \in Conns : sinkLine(c)
  \/ Start
  \/ captureStep
  \/ closeCapture
  \/ closeServer
  \/ Exit
  \/ Kill

\* A thread inside keylog_cb, the accept loop while it lasts and the handlers get
\* to run.  Calls, signals, failures, captures, shutdowns and kills may never
\* come; a shutdown that has begun ends.
Fairness ==
  /\ \A p \in Procs : WF_vars(interposerStep(p))
  /\ \A c \in Conns : WF_vars(serverStep(c))
  /\ WF_vars(closeServer)
  /\ WF_vars(Exit)

Spec == Init /\ [][Next]_vars

FairSpec == Spec /\ Fairness

-----------------------------------------------------------------------------
(* Properties.                                                             *)

Texts == [line : Lines, secret : {16, 32, 48}]

\* Every variable has its type, a handler that is not scanning has a line, and
\* whoever holds Writer.mu is the one handler that is past its gate.
TypeOK ==
  /\ line \in [Procs -> Lines \cup {None}]
  /\ tries \in [Procs -> 0 .. MaxAttempts]
  /\ fd \in [Procs -> Conns \cup {None}]
  /\ emitted \subseteq Lines /\ crashed \in BOOLEAN
  /\ stream \in [Conns -> Seq(Texts)]
  /\ server \in [Conns -> {"none", "backlog", "reading", "locking", "appending",
                           "sinking", "closed"}]
  /\ text \in [Conns -> Texts \cup {None}]
  /\ \A c \in Conns : server[c] \in {"locking", "appending", "sinking"} => text[c] # None
  /\ sidecar \in {"down", "up", "stopping", "closed"} /\ runs \in 0 .. MaxRuns
  /\ accepting \in BOOLEAN /\ (accepting => sidecar \in {"up", "stopping"})
  /\ torn \in BOOLEAN /\ spoilt \subseteq Texts
  /\ keylog \in Seq(Texts) /\ seen \subseteq Texts /\ handed \in Seq(Texts)
  /\ mu \in Conns \cup {None}
  /\ \A c \in Conns : server[c] \in {"appending", "sinking"} <=> mu = c
  /\ rejected \in Nat
  /\ stopped \in BOOLEAN /\ closed \in BOOLEAN

\* No line is in the keylog twice, though the interposer sends a line again on a
\* new connection when it cannot tell how much of it arrived, and two handlers
\* may have it at once (Append: "unless the same triple was already written").
KeptOnce ==
  sidecar # "down" => \A i, j \in DOMAIN keylog : keylog[i] = keylog[j] => i = j

ButLast(s) == SubSeq(s, 1, Len(s) - 1)

\* The capture takes the lines of the keylog in the keylog's order, and all but
\* at most the last: the one on its way to the sink, or the one at which the
\* capture stopped.  So the gate closing while handlers are at work, or the
\* capture stopping between the gate and the sink, keeps at most one key for
\* which there is no place in the capture (WithSink: "in append order").
SinkFollowsKeylog ==
  sidecar # "down" => handed = keylog \/ (keylog # <<>> /\ handed = ButLast(keylog))

\* A call that can only wait for an accept that is not coming.
Stranded(p) ==
  /\ listening /\ ~accepting
  /\ IF fd[p] = None THEN backlogFull ELSE server[fd[p]] = "backlog"

\* Every call of keylog_cb returns, whatever becomes of the sidecar, unless the
\* accept loop has ended and the call waits, with its connection or for one, at
\* the listener that is still open.  A connection that is accepted is always read
\* or closed, a full buffer empties, and retries are bounded.
CallbackReturns ==
  \A p \in Procs : (line[p] # None) ~> (line[p] = None \/ Stranded(p))

\* keylog_preload.c: "Never blocks ... the app".
NeverBlocks == \A p \in Procs : (line[p] # None) ~> (line[p] = None)

\* The connections that hold the whole line, unread.
Holding(l) == {c \in Conns : \E i \in DOMAIN stream[c] : stream[c][i] = Whole(l)}
InFlight(l) == \E c \in Holding(l) : server[c] # "closed"

\* A whole, well-formed line that the interposer wrote to a connection is in the
\* keylog in the end, unless capture is inactive, the sidecar ends, the write of
\* that very line failed or found the file torn, or the accept loop ended before
\* it came to the connection.  No other line on its connection, malformed, cut or
\* refused by the file, keeps it from being read.
SentIsKept ==
  \A l \in Lines : l.label \in labelName =>
    InFlight(l) ~> \/ \E i \in DOMAIN keylog : keylog[i] = Whole(l)
                   \/ stopped
                   \/ sidecar # "up"
                   \/ Whole(l) \in spoilt
                   \/ ~accepting /\ \E c \in Holding(l) : server[c] = "backlog"

\* SocketServer.Run "accepts connections until the listener is closed".
AcceptsUntilClosed == listening => accepting

\* ValidateLine's comment: "a line truncated mid-write, is rejected".
TruncatedIsRejected == \A i \in DOMAIN keylog : keylog[i].secret = keylog[i].line.len

\* The comment on App.Close: when it deletes the keylog, "every key in it is in
\* the capture already".
KeylogIsInCapture ==
  sidecar = "closed" /\ ~lost =>
    \A i \in DOMAIN keylog : \E j \in 1 .. secretsOut : handed[j] = keylog[i]

\* RejectedCount "reports how many malformed lines have been rejected".
RejectedIsMalformed ==
  [][rejected' > rejected =>
       \E c \in Conns : /\ server[c] = "reading" /\ stream[c] # <<>>
                        /\ ~ValidateLine(Head(stream[c]))]_vars

\* The interposer never "crashes the app".
NeverCrashes == ~crashed
=============================================================================
