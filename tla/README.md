# Verification of go-ebpf-proxy

TLA+ models of the go-ebpf-proxy sidecar, checked with TLC on small instances, with theorems
proved by TLAPS for every value of the constants. Paths are relative to the repository.

## The system

One sidecar process runs beside an app in a pod. It redirects the app's IPv4 TCP connections
through a local relay, records the pod's traffic in a pcapng file, and receives the app's TLS
session keys so that the capture decrypts by itself.

| Part | State | Operations | What makes it hard |
|---|---|---|---|
| Redirect programs (`bpf/proxy.bpf.c`) | two LRU maps: destination by socket cookie, destination by source | `cgroup_connect4`, `sockops_prog` | run per socket, concurrently; maps evict; entries are pinned and outlive connections and runs |
| Resolver, relay (`internal/proxy`) | a handler per connection, `misses` | `Serve`, `handle`, `Resolve`, `splice` | the lookup comes after the accept, by a port that may have changed hands |
| Loader (`internal/ebpf`) | links, pins | `Load`, `Attach`, `Close` | killed between any two steps |
| Capture (`internal/capture/pcapng.go`, `live.go`) | hold queue, pending secrets, room, file | `WritePacket`, `AddSecret`, `SetRoom`, `drain`, `Close`, `Live.run`, `Live.Stop` | five threads on one lock; secrets must precede packets captured before them; two parties close the file; the disk fails |
| Retention (`internal/capture/retention.go`) | capture files across runs | `CreateRunCapture`, `Room`, `Enforce`, `Cleanup` | sizes read while files grow; leftovers of killed runs |
| Keylog (`internal/keylog`) | duplicate set, keylog file, gate, `rejected` | `handleConn`, `Append`, `Close` | its gate reads the capture's state without a lock |
| Interposer (`preload/keylog_preload.c`) | one socket per process | `keylog_cb`, `send_line_locked` | partial writes, retries, a server that restarts |
| Sidecar (`cmd/app`) | all of the above | `Start`, `Close`, the age pass, the stats line | partial starts, shutdown order, kills |
| Log limiter (`internal/shared/logger/limit.go`) | window, counts | `admit` | the clock is read before the lock |
| Pod scripts (`deploy/podman`) | containers, volumes | `pod-up.sh`, `pod-down.sh` | readiness polls over leftovers |

Interactions: Live feeds `Writer.WritePacket`; the keylog writer's sink is `Writer.AddSecret` and
its gate is `Writer.State`; the age pass calls `Writer.SetRoom`; `App.Close` stops Live, then
closes the capture, the keylog server, the listener and the loader, in that order, and deletes what
retention no longer allows and the keylog file; the relay reads the map that `sockops_prog` writes,
and its own dials pass through `cgroup_connect4`.

## Modules

| Module | Models |
|---|---|
| `CaptureLog` | abstract specification of a run's capture |
| `CaptureWriter` | `capture.Writer` and `capture.Live` |
| `Redirect` | the two programs, their maps, the resolver, the relay's handler, the loader and listener part of `Start` and `Close` |
| `Codec` | the bytes of addresses and ports in the two programs and in `codec.go` |
| `Splice` | the two copies of a relayed connection |
| `Keylog` | interposer, socket server, keylog writer, composed with `CaptureLog` |
| `Sidecar` | `Start` and `Close`, the age pass, the captures and the keylog of successive runs |
| `Limiter` | the log limiter |
| `Pod` | `pod-up.sh`, `pod-down.sh` |
| `Config` | `loadConfig` |
| `CaptureWriterProofs`, `CaptureWriterBytes` | theorems about `CaptureWriter`: order and control, byte counts |
| `RedirectProofs`, `KeylogProofs`, `SidecarProofs` | theorems about the module of the same name (`RedirectProofs`: and `Codec`) |
| `RelayProofs`, `DeployProofs` | theorems about `Limiter` and `Splice`, and about `Config` and `Pod` |
| `Sums` | lemmas about sums over finite sets and along sequences |
| `MC_CaptureWriter`, `MC_Redirect`, `MC_Keylog`, `MC_Limiter` | small instances |

Operators whose name is that of another with a suffix (`countExpired_Young`, `redirects_AnyUid`) are
faulty variants of it: each is a plausible mistake in the code that the property it is paired with
in `PROJECT.json` detects.

### CaptureWriter

The variables are the fields of `Writer` (`held`, `heldBytes`, `pending`, `limited`, `room`,
`admitted`, `stopped`, `closed`), the file as the sequence of blocks given to the block writer, and
one variable per thread: Live's goroutine, the thread inside `AddSecret`, the drain goroutine and
the caller of `Close`. A critical section of `w.mu` that writes to the file takes one step per
block, with `mu` naming the holder; one that does not is a single step; `OnStop` is called outside
the lock, in a step of its own.

A packet is its number in order of admission, its length and its age in the hold queue, counted up
to `HoldWindow`. A keylog line carries, besides its length, the number of the newest packet that
had already left the queue when it arrived (`after`): the specification of "ahead of every packet
still held" is then a relation between blocks of the file.

External: `pcapgo.NgWriter` over `bufio.Writer`. A block that was written is certainly on disk only
after a flush; a write or a flush may fail, which leaves an unknown prefix on disk and makes the
buffer refuse everything later (`bufio`'s sticky error). A block is on disk or not: a torn last
block is not distinguished from a missing one.

`CaptureLog` is what `Writer` promises, with none of its mechanism: a log that takes packets and
lines, writes every line taken so far before any further packet, stops for good at the first block
it refuses, and is complete once closed. `CaptureWriter` maps to it by counting what was admitted
and what has left the queues (`ImplementsLog`); `Keylog` uses it as its capture.

### Redirect

A connection is an app's socket, named by its cookie. `cgroup_connect4` is `connect(2)` up to the
choice of a source port, `tcp_connect` the rest: the port, `sockops_prog`, the SYN and its answer.
The kernel may reuse a source port towards another peer at any time, and towards the relay once the
client's end is gone. `ClientCloses` on a connection to the relay is a reset: a graceful close
keeps the port until the relay closes as well. The relay's handler takes one step per lookup
attempt. `Load`, `Attach`, `Listen`, `CloseListener`, `closeLoader` and `Exit` are the sidecar's
life; `Exit` is both the end of `main` and a kill between any two steps, and leaves pins alone, so
that the next `Load` finds the entries of connections that are gone.

`Serve` returns on the first error of `Accept` and nobody reads its error (`AcceptFails`): the
listener stays open, and what connects later waits unaccepted; `serving` tells the two apart. A
`Load` that fails may leave either map pinned, and `Start` then has no loader to close. `links` is
what `Loader.Close` has on record and still to remove, in its order (`rank`); each removal may fail
and the rest goes on (`removes`), with `failed` keeping what did.

External: the kernel's LRU maps (a new key in a full map evicts any other, because the kernel's
order is approximate; an update always succeeds; a value that was looked up stays stable for the
rest of the program), port selection, the accept queue, and the closing of a dead process's links
and sockets.

`SocketReuse` says whether apps call `connect` again on a socket whose `connect` failed. POSIX
leaves such a socket's state unspecified and most programs open a new one, so the run assumes they
do not.

### Codec

Pure operators: numbers are what C and Go compute with, sequences of bytes what is in memory and on
the wire, on a machine of either byte order. `fromMemory` and `toMemory` are loads and stores
(`binary.NativeEndian` in Go), `htonl` and `htons` are `bpf_htonl`, `bpf_htons` and their inverses. A
byte has `Base` values, of which `LoopbackNet` stands for 127. `ByteOrderContract` ties them to
`Redirect`, where an address is a model value inside or outside 127.0.0.0/8. The non-IPv4 error of
the codec does not occur: the relay listens on an IPv4 address.

### Splice

A peer is open, has shut its half, or is gone; a connection may be reset. A copy reads a byte,
writes it, and ends by shutting the half it wrote to (`CloseWrite`); `spliceReturns` is the end of
`wg.Wait` and the deferred closes. A peer reads what it was sent when it likes, or never
(`PeerReads`); once `Buffer` bytes wait for it, a write to it blocks, and for good if it never reads,
because no connection has a deadline. External: TCP, as reliable ordered bytes with flow control; a
write to a peer that has closed still succeeds and provokes a reset.

### Keylog

A line is a label and the length of its secret, and what arrives is a line with the bytes of its
secret that were written, so that a cut line may or may not be well formed. A process is modelled
from the point where `keylog_cb` holds `g_sock_mu`; `send_line_locked` takes one step per attempt.
Its `write` delivers the whole line, fails because the server's end is closed, or blocks on a full
buffer; a signal may interrupt it with part of the line written, or none (`cutWrite`). `connect`
blocks while `Backlog` connections wait to be accepted. A handler scans (`handleConn`), locks and
asks the gate (`lockAndGate`), writes (`appendLine`) and calls the sink (`sinkLine`); `mu` is
`Writer.mu`. `closeCapture`, `closeServer` and `Exit` are `App.Close`, whose order leaves the server
running on a closed capture; a handler keeps running after `closeServer`, on a closed file. `Run`
ends at the first `Accept` that fails (`AcceptFails`), and `startKeylog` drops its error, so that
connections may wait at an open listener for good. A write to the keylog that fails may leave part
of its line (`torn`), which the next line is then joined to; `spoilt` is the history of the lines
lost that way. External: the Unix socket, which delivers in order, cuts a line only where the
interposer then closes, and buffers `SockBuf` lines.

### Sidecar

`pc` is the step of `Start` or `Close`; `up` the subsystems `App` holds; a capture is a name (start
second and suffix), the run that made it, its size and its time of last write. Every failing step
of `Start` goes to `Close`, except a failed `Load`. `Enforce` lists and then deletes one file at a
time, at `Start` and in the age pass, which runs beside a growing capture: listing, deleting,
measuring the room and handing it over are separate steps, and `Close` does not wait for the pass.
With `--retention-interval 0` there is no ticker (`startTicks` chooses).
A kill at any step leaves the keylog and a capture of any length up to what was admitted. The
capture's content is `CaptureWriter`'s; here it only grows and stops at its room, block by block,
from the moment it can be written to.

### Limiter, Pod, Config

`Limiter`: `log` reads the time, `admit` runs under the lock later, so callers may be overtaken.
`Pod`: the steps of the two scripts, with a sidecar that starts beside the poll and may stop or die
at any moment; `stopped` is what `podman` does to a running sidecar. Every removal of `pod-down.sh`
ends in `|| true`: `podDown` removes any subset of what it asks for and says what it says
regardless. `Config`: the sources of one setting of any type, merged and decoded in `loadConfig`'s
order; text is classed by what it reads as, and an int64 is in `-Half .. Half - 1`. Numbers that a
parser reads as a float64 (every number of a JSON file) are counted in halves and rounded to the
nearest float64, ties to even (`nearest`): up to `Exact` (2^53) by the smallest step of `Ulps`,
above it by wider ones. A half stands for any fraction.

## Runs

| Run | Expected | Shows |
|---|---|---|
| `capture_safe` | pass | order, completeness, size and stop of the capture, under all interleavings and disk failures; it implements `CaptureLog` |
| `capture_live` | pass | what was admitted reaches the disk; `Close` returns; a stopped capture closes itself |
| `redirect` | pass | connections go to their own destination or nowhere, and every accepted one is decided; no loop; a finished `Close` leaves only what it failed to remove; C and Go agree on the bytes |
| `splice` | pass | an end follows everything before it; a peer that reads gets everything, whatever the other direction does; both directions end together |
| `keylog` | pass | no line twice; the capture follows the keylog; callbacks return unless the accept loop has ended; lines sent whole are kept |
| `keylog_truncated` | violation | a 48-byte TLS 1.3 secret cut at 32 bytes is taken for a key |
| `sidecar` | pass | captures within `--max-bytes`, deleted when due and only then, changed by their own run only; one run's keys; nothing left after an orderly end |
| `sidecar_leak` | violation | a capture whose header cannot be written is left behind |
| `limiter` | pass | at most a burst per interval; every record accounted for |
| `pod_safe` | pass | the app starts after the listener; what `pod-down.sh` says it retains is kept |
| `pod_stale` | violation | over a killed sidecar's pod, the readiness poll sees the dead sidecar's socket |
| `config` | pass | a setting is what its highest source says, to the precision of a float64, or an error |

The violations are disagreements between the code and a comment (in `pod_stale`, between the script
and what it is there to ensure); `findings` in `PROJECT.json` quotes each.

`capture_safe` checks, besides types:

- `SecretsPrecedeHeldPackets`: a keylog line's block precedes every packet that was held when the
  line arrived. It holds of every prefix of the file, hence of what a kill leaves.
- `PacketsInOrderOnce`, `SecretsKeptOnce`: nothing is reordered, repeated or lost between the
  queues and the file.
- `AdmittedCoversFile`: the file never grows past what was counted against the room, although what
  is counted is computed per packet and per line while lines are merged into one block.
- `HoldQueueBounded`: `heldBytes` totals the queue and is within the cap.
- `HoldWindowKept`: a packet leaves the queue early only for `Close` or for the cap.
- `ImplementsLog`, `NotifiedOnce`, `ClosedIsComplete`: a stop is final and announced once, nothing
  is written after a close; the file is closed once, by whichever of the drain and `Close` is
  first, and then has every admitted packet unless the disk failed. `ClosedIsComplete` says nothing
  of keylog lines on purpose: `Close` does not stop `AddSecret`, so a line that arrives after
  `Close` has closed the file of a capture that has not stopped is admitted and stays pending for
  good. `SecretsReachDisk` is therefore about lines pending while the file is open.

`redirect` checks

- `RelayedToOriginal`: a redirected connection that sockops joined is relayed to the destination it
  asked for or to none, while its client is there. It says nothing of a connection its client has
  reset, whose handler may read its successor's entry (`LoggedDestination` below), and the run
  excludes `SocketReuse`.
- `NeverADefault`: what is dialed was asked for from the same source port. `NoLoop`.
- `OnlyFailedLeft`: a `Close` that ran to its end leaves attached or pinned only what it failed to
  remove, from whatever step of `Start` it was called. A failed `Load` is not followed by a `Close`.
- `HandlersDecide`: whatever reaches the relay is dialed or reset, or goes down with the sidecar,
  except a connection still to be accepted when `Accept` has failed.
- `ByteOrderContract`: the byte-level test for loopback is the one `Redirect` makes, the relay's key
  is the one `sockops_prog` stored, and what it decodes is what was asked for.

`splice` checks `EndMeansAll`; `AllDelivered`, for a receiver that goes on reading; and
`EndPropagates`, which assumes of the peers what the code needs and the comment on `splice` does not
say: that both go on reading, and that each ends after it is told of an end.

`keylog` checks `KeptOnce` and `SinkFollowsKeylog`: the capture has the keylog's lines in order, all
but at most the last. The gate, the file and the sink are under one lock, and it is the capture,
which is not, that may stop between them. `CallbackReturns` excepts a call that waits at a listener
whose accept loop has ended (`Stranded`). `SentIsKept` excepts lines that capture no longer wants, the
end of the sidecar, a line whose own write failed or was joined to such a part, and one on a
connection that was not accepted before the accept loop ended; no other line's fate matters.

`sidecar` checks `WithinMaxBytes` (at every moment, with a room measured before files that grow and
deletions that fail), `OnlyDueDeleted`, `FinishedUnchanged` (only the run that made a capture changes
it), `KeylogOfOneRun`, `EndedClean`, and under fairness, for runs that have a ticker, `ExpiredDeleted`
and `FreedRoomUsed`: what one pass fails to do, a later one does, unless it fails every time.

`limiter` checks `RateBounded`, which counts from the start (`n` intervals keep at most `n` bursts, not
any window of one interval a burst), and `AllAccounted`. `pod_safe` checks `AppAfterListener`, where
every pod is brought up with no pod and no socket left, and `RetainedIsKept`: when `pod-down.sh` says
it retains, the run's capture, if it made one that no earlier `pod-down.sh` was asked to wipe, is in
the volume. `config` checks `LoadsAsWritten`, which compares the decoding with the set of numbers a
value can mean.

### Further disagreements with comments

No run checks these, because the code does not satisfy them: with the definition as the property of
the named configuration, TLC finds a counterexample.

| Definition | Configuration | The comment | What happens |
|---|---|---|---|
| `KillLosesOnlyHeld` | `CaptureWriter_safe.cfg`, `DiskMayFail = FALSE` | `pcapng.go:147`: a kill leaves a capture "missing only the packets still held" | packets that an overflow wrote early are in the buffer until the next drain |
| `UnjoinedIsReset` | `Redirect.cfg` | `app.go:368`: a connection without a record is a definitive miss | entries outlive their connection and resolve a later one from the same port |
| `LoggedDestination` | `Redirect.cfg` | `relay.go:36`: the hook logs "the correct original destination per connection" | the handler of a connection its client has reset may read its successor's entry |
| `RelayedToOriginal` | `Redirect.cfg`, `SocketReuse = TRUE` | `proxy.bpf.c:31`: a record is "consumed+dropped by sockops" | the record of a failed connect is picked up by the socket's next one |
| `ServesUntilClosed` | `Redirect.cfg` | `relay.go:52`: `Serve` "accepts connections until the listener is closed" | it returns on any error of `Accept`, and the listener stays open |
| `AcceptsUntilClosed` | `Keylog.cfg` | `socket_server.go:130`: `Run` "accepts connections until the listener is closed" | the same |
| `NeverBlocks` | `Keylog.cfg` | `keylog_preload.c:12`: "Never blocks or crashes the app" | once the accept loop has ended, a write to a full connection, or a connect to a full backlog, waits for good |
| `KeylogIsInCapture` | `Keylog.cfg` | `app.go:303`: "every key in it is in the capture already" | a line that arrives between the close of the capture and that of the server is in no capture |
| `RejectedIsMalformed` | `Keylog.cfg` | `socket_server.go:171`: counts "malformed lines" | a well-formed line whose write fails is counted |
| `NeverCrashes` | `Keylog.cfg`, `IgnoreSigpipe = FALSE` | `keylog_preload.c:12`: "Never blocks or crashes the app" | a write to a sidecar that went away raises SIGPIPE |
| `EitherClosesReturns` | `Splice.cfg` | `relay.go:106`: copies "until either side closes" | a silent peer keeps the splice after the other has closed |
| `WipedIsGone` | `Pod_safe.cfg` | `pod-down.sh:62`: the log volume is "wiped" | the message follows whether or not podman removed it |
| `LoadsToTheNumber` | `Config.cfg` | `config.go:38`: a value is never "ignored or coerced" | a whole number above 2^53 in a JSON file is loaded as the float64 nearest to it |
| `NoneIgnored` | `Config.cfg` | `config.go:38`: a value of the wrong type "is an error rather than being ignored" | it goes unnoticed where a higher source has the key |

A `Load` that fails after pinning a map leaves the pin, although `app.go:80` says that `Start`
"tears down whatever was already started"; `OnlyFailedLeft` is about a finished `Close`, which this
path never calls.

### Bounds

- Capture: up to 4 packets of 1 or 5 bytes and 2 lines of 2 or 6 (an empty line is ignored); a cap
  of 6 held bytes, so that a short and a long packet fill it exactly and two long ones pass it; no
  limit, or a limit of 80 bytes (room for 1 or 2 packets) or 160 (for 3 or 4), which an age pass may
  change to the other or to 0; a hold window of 1 tick, so that a held packet is young or due. Four
  packets let a drain, an overflow and a close each leave packets behind for another. The liveness
  run uses one length, 2 packets and 2 lines.
- Redirect: 2 sockets on 2 ports, so that a port changes hands while the relay still handles the
  connection it belonged to; maps of 1 entry, so that each connect may evict the other's; 1 retry;
  2 starts of the sidecar, so that a run finds what a killed one left; 1 failed removal per `Close`
  (`MaxFailures`), at any place of its order. Bytes have 3 values, so that
  there is one below and one above the loopback's; every address and port. Its safety properties
  are proved for every instance.
- Splice: 2 bytes each way and a buffer of 1, so that one may be in hand or blocked and one unread
  when a peer ends.
- Keylog: a process with a line the sidecar knows (a TLS 1.3 secret of 48 bytes) and one whose label
  it does not, 2 connections, 2 attempts, a buffer of 1 line, a backlog of 1 connection, 2 runs: a
  line can be cut, resent, and be with two handlers at once, and a call can block on the buffer and
  on the backlog. `rejected` is counted up to 1. The safety properties are proved for any processes.
- Sidecar: `--max-bytes` of 4 blocks, `--max-age` of 1 second, names with suffixes 0 and 1, 3 runs in
  3 seconds: a run finds an expired and a young leftover, and its name taken.
- Limiter: 3 callers, an interval of 2 ticks, a burst of 2, 12 records in 7 ticks.
- Pod: 3 pods. Config: integers of 3 bits (`Half = 4`), all numbers within and just outside them;
  float64s that are exact to 1 (`Exact = 2` halves) and then 1, 2 and 4 apart, so that a literal
  may be rounded into the range of an int64, out of it, and to another whole number.
- `CHECK_DEADLOCK FALSE` in the Redirect, Keylog, Sidecar and Limiter runs: once the sockets, lines,
  runs, seconds or records of the bound are used up there is nothing left to do. In Splice and
  Config the thing modelled is over when it is done. The capture and pod runs check deadlock.

### Fairness

- Capture: the holder of `w.mu` goes on; the drain's ticker fires again and again and Go's mutex
  does not starve it, and its `select` does not ignore a closed channel for ever, hence strong
  fairness for `drain` and `drainExit`; the clock moves. No fairness for packets, lines, age passes
  or the call of `Close`.
- Redirect: the relay accepts while `Serve` lasts, a handler's lookup goes on, a dial ends within
  its timeout, a started `Close` goes on. None for the app, for the end of a splice or for a
  restart.
- Splice: each copy goes on whenever it can read or write, and `wg.Wait` returns. None for
  peers: what `AllDelivered` and `EndPropagates` need of them is a premise of the property.
- Keylog: a thread inside `keylog_cb`, the accept loop while it lasts and the handlers are scheduled,
  and a shutdown that has begun ends. None for calls, captures, kills or the start of a shutdown, nor
  for signals: a write that blocks is not assumed to be interrupted. Weak fairness is
  enough: a process emits finitely many lines, so no handler is overtaken at `Writer.mu` for ever.
- Sidecar: the ticker, where there is one, fires for ever and its goroutine is scheduled. None for
  starts, packets, signals, kills or the clock.

## Proofs

`CaptureWriterProofs`, for all lengths, rooms, windows, caps and numbers of packets and lines, with
or without disk failures:

- `Typing`. `TypeOK` is not inductive: a line's `after` is a natural number only if no more packets
  are held than were admitted, and the packets that drain has still to write stay in the queue only
  if nobody else writes meanwhile. `TypeInv` adds both.
- `SecretsFirst` and `PacketOrder`, from `OrderInv`: the held packets are numbered consecutively
  after those released; every pending line has arrived after exactly the released ones, because a
  packet is only released once no line is pending; the file is ordered, and complete up to the
  released packets unless a write failed. Each kind of write (lines, packet, failure) is a lemma.
- `StopFinal` needs no invariant; `NotifiedOnceAlways` is inductive given the types.
- `ClosedComplete`, `ClosedFinal`, from `ControlInv`: who may hold the lock in which phase of
  `Close`, that nobody holds it once the file is closed, and that the hold queue is then empty
  unless the disk failed.
- `SecretsOnce`, from `OnceInv`: the pending lines continue those in the file, which are all those up
  to the last one written, unless the disk failed.
- `Implementation`: every step is a step of `CaptureLog` or leaves its variables alone. It needs
  `TypeInv` and `ControlInv`: that nothing is written, and no packet admitted, once the file is
  closed, and that it is closed only with both queues empty.

`CaptureWriterBytes`, for the same constants and queues of any length:

- `QueueBounded` and `WindowKept`, from `HoldInv`: `heldBytes` is the sum of the queue, and what
  drain has still to write has been held for the window. The lemmas before it say what appending a
  packet and taking the oldest do to a sum.
- `AdmittedCovers`, from `CoverInv`: `admitted` covers not only the file but also what is queued for
  it, each packet as a block and the pending lines as the one block they would make. It is needed
  because a write must be paid by what was admitted earlier. `admit` charges every line a block of
  its own, and one more line makes the shared block grow by no more, because padding a total
  is at most padding its parts; that is the step that could fail.

`Sums` proves what these, and the room below, rest on: that a sum over a finite set is the recursion
it is defined by, whatever element is taken first, and how it changes with the set or the sequence.
No induction rule can be applied, so each lemma takes a least counterexample: the least set, or
number, for which it fails exists because the subsets of a finite set are well-founded.

`RedirectProofs`, for all sockets, ports, addresses, map sizes and retries:

- `Typing`, with lemmas on what an update, a deletion and a reload do to a map.
- `Routing`: without `SocketReuse`, `RelayedToOriginal`. `RouteInv` says that a record belongs to
  the connect its socket is in, that a joined connection goes to the relay, and that the entry for
  the source of a live joined connection, if there is one, is its own. The step that matters is
  `tcp_connect`: a new entry cannot replace that of a live connection, because both go to the relay
  and the kernel does not give them the same port.
- `LoopFree`: what the relay dials is a recorded, hence remote, address.
- `NoDefault`: without `SocketReuse`, `NeverADefault`. `AskedInv`: every entry, and every destination
  a handler holds, was asked for by a connection from that source port, and what such a connection
  asked for does not change afterwards.
- `LeavesOnlyFailed`: `OnlyFailedLeft`, from `LoaderInv`: what is attached is on record in `links` from
  the moment it is, and while `Close` runs everything still there is on record or has failed.
- `ByteOrder`: `ByteOrderContract`, for every `Base` greater than 1, hence for 256 and 127. Division by
  `Base` takes the last byte off a number, so bytes survive being made a number and back;
  reversing twice is the identity, so a load and a store, and two conversions, cancel.

`KeylogProofs`, for any processes, lines, connections, attempts and runs:

- `TypeCorrect`: types, and that `mu` is held by exactly the handler past its gate.
- `Once` and `SinkFollows`, from `LineInv`: what is in the keylog is in `seen`; a handler about to
  write has a line that is not; and the capture is a line behind only while a handler is between the
  file and the sink, or once it has stopped.

`RelayProofs`:

- `Splice`, for any amount of data: `ConnTypeCorrect`, and `EndsAfterAll` from `EndInv`: the sender
  of a direction that was ended sends no more, so what was everything stays everything.
- `Limiter`, for any callers, interval and burst: `TypeCorrect`; `Accounted`; `Bounded`, from
  `WindowInv`: before the interval in which the current window starts at most a burst was kept per
  interval, and the window has kept at most a burst. The arithmetic of `\div` is in four lemmas.

`SidecarProofs`, for any limits, names and number of runs:

- `DueDeleted` and `FinishedStay` (`FinishedUnchanged`), from `FilesInv`: the capture a run writes
  to is one it created; what `Enforce` has listed and not yet deleted is not this run's, and was
  past its age, hence still is, because finished captures are not written.
- `OneRun`, from `KeylogInv`: the keylog is empty until this run opens it.
- `LeavesNothing`, from `EndInv`, for `HeaderMayFail = FALSE`: while a run is not over, its only
  capture is the one `Close` would delete.
- `WithinLimit`: `WithinMaxBytes`, from `RoomInv`: the room a capture was given, and the room a pass
  has measured and not yet set, each fit beside the other captures. Only this run's capture grows,
  and within its room; the others only disappear, so a stale room is too small, never too large.

`DeployProofs`:

- `Config`, for any `Half`, `Exact` and `Ulps`: `LoadedAsWritten`, from `ConfigInv`, which says at
  each step of `loadConfig` what has been merged so far. `DecodeMeans` compares the decoding with
  `meanings` for every literal: what `strictNumbers` lets through fits, so that the wrapping
  conversion leaves it alone.
- `Pod`, for any number of pods: `KeepsWhatItRetains` (`RetainedIsKept`), from `PodInv`: the capture
  that a pod labelled for retention has made is in the volume, whether its sidecar stops or is
  killed, and a request to retain is never granted to a pod with the other label. `ListenerFirst`,
  for `DownFirst`: a socket file, if there is one, is of a sidecar of this run.

The assumptions are the `ASSUME`s of the modules: sizes and bounds are natural numbers (an interval,
the buffers and the backlog at least 1), rooms are integers, the relay's address is a loopback
address, remote addresses are not, a byte has at least 2 values, and the value that stands for
"none" (or for an absent key, or an error) is none of what it stands beside. Four theorems have a
hypothesis besides: `Routing` and `NoDefault` assume `~SocketReuse`, without which
`RelayedToOriginal` fails as said above, `SidecarProofs`' `LeavesNothing` that headers can be
written (`sidecar_leak` shows why), `ListenerFirst` that pods are brought down first (`pod_stale`
shows why). Like the models, the theorems rest on what is said above of the external parts.

Only model-checked: liveness (`capture_live`'s properties, `HandlersDecide`, `AllDelivered`,
`EndPropagates`, `CallbackReturns`, `SentIsKept`, `ExpiredDeleted`, `FreedRoomUsed`), which is out of
the prover's reach. Every invariant and action property that a passing run checks is a theorem.

## Not modelled

- The bytes of pcapng blocks, log lines, redaction, the stats line: formatting without state.
- File modes and directory checks, except as refusals of `Start`; the check that the keylog directory
  is a tmpfs is one of these.
- A socket shared by a process and its fork, both of which would write to it.
- That the app sees an orderly end when the upstream connection was reset; `EndMeansAll` excludes
  resets.
- `Validate` and the pin directory of the loader; an operator who deletes captures by
  hand.
- The generated bindings, test helpers, CI and `smoke.sh`, a test.
- IPv6 and UDP are not redirected by the code; UDP is in `Redirect` as a connect that passes through.
