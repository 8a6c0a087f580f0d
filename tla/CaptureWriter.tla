---------------------------- MODULE CaptureWriter ----------------------------
(***************************************************************************)
(* The run's capture: capture.Writer (internal/capture/pcapng.go), which   *)
(* holds packets back so that TLS secrets can be written ahead of them,    *)
(* and capture.Live (internal/capture/live.go), which feeds it packets.    *)
(*                                                                         *)
(* Threads.  Live's goroutine calls WritePacket; the keylog Writer calls   *)
(* AddSecret as its sink, one line at a time (it holds its own lock); the  *)
(* age pass calls SetRoom; the drain goroutine ticks; the shutdown calls   *)
(* Close once Live.Stop has returned.  A critical section of w.mu that     *)
(* writes to the file takes one step per block, with mu naming its holder; *)
(* one that does not is a single step.  OnStop runs outside the lock.      *)
(*                                                                         *)
(* Data.  A packet is its number in order of admission and its length, a   *)
(* keylog line likewise.  heldPacket.at becomes the packet's age (how long *)
(* it has been held, up to HoldWindow, past which the code tells no        *)
(* difference).                                                            *)
(***************************************************************************)
EXTENDS Integers, Sequences, Functions

CONSTANTS
  HeaderSize,     \* bytes of the section header and interface blocks
  HoldWindow,     \* holdWindow, in clock ticks
  MaxHeldBytes,   \* maxHeldBytes
  Rooms,          \* the values of Options.Room (0 sets no limit) and of SetRoom
  PacketLens,     \* lengths of captured packets
  LineLens,       \* lengths of keylog lines; 0 is the empty line
  MaxPackets,     \* bound: packets admitted in a behaviour
  MaxSecrets,     \* bound: keylog lines admitted in a behaviour
  DiskMayFail     \* whether a write to the file may fail

ASSUME SizesAssumption ==
  /\ HeaderSize \in Nat
  /\ HoldWindow \in Nat
  /\ MaxHeldBytes \in Nat
  /\ PacketLens \subseteq Nat
  /\ LineLens \subseteq Nat
  /\ Rooms \subseteq Int

ASSUME BoundsAssumption ==
  /\ MaxPackets \in Nat
  /\ MaxSecrets \in Nat
  /\ DiskMayFail \in BOOLEAN

VARIABLES
  held,      \* the hold queue, oldest first
  heldBytes, \* what Writer.heldBytes says it totals
  pending,   \* the secrets not yet written
  limited,   \* Options.Room set a limit
  room,      \* the current room
  admitted,  \* bytes counted against it, header included
  stopped,   \* capture has stopped at its room
  closed,    \* the file is closed
  file,      \* the blocks accepted for the file after its header
  flushed,   \* how many of them are certainly on disk
  ngErr,     \* the block writer has met an I/O error
  mu,        \* who is writing under w.mu: "live", "drain", "close" or "free"
  todo,      \* the packets drain has still to write
  live,      \* Live.run: reading, inside OnStop, or returned
  sink,      \* the thread in AddSecret: outside, or inside OnStop
  drainer,   \* drainPeriodically: ticking or returned
  closer,    \* Close: not called, waiting for the drain, or returned
  packets,   \* history: how many packets were admitted
  secrets,   \* history: how many lines were admitted
  notices    \* history: how often OnStop was called

queue   == <<held, heldBytes, pending>>
limit   == <<limited, room, admitted, stopped>>
storage == <<closed, file, flushed, ngErr>>
lock    == <<mu, todo>>
threads == <<live, sink, drainer, closer>>
history == <<packets, secrets, notices>>
vars    == <<queue, limit, storage, lock, threads, history>>

-----------------------------------------------------------------------------
(* Sizes and blocks.                                                       *)

\* pad4 rounds up to the 4-byte boundary block bodies are padded to.
pad4(n) == ((n + 3) \div 4) * 4

epbSize_NoPad(n) == 32 + n
epbSize(n) == 32 + pad4(n)

dsbSize(n) == 20 + pad4(n)

EPB(p) == [kind |-> "EPB", id |-> p.id, len |-> p.len]

DSB(lines) == [kind |-> "DSB", lines |-> lines]

-----------------------------------------------------------------------------
(* External: pcapgo.NgWriter over a bufio.Writer.  Blocks pass through a   *)
(* buffer that is certainly empty only after a Flush.  Once a write has    *)
(* failed, an unknown part of what was buffered is on disk, and the buffer *)
(* refuses everything after it.                                            *)

DiskFails ==
  /\ DiskMayFail
  /\ \E k \in flushed .. Len(file) :
       /\ file' = SubSeq(file, 1, k)
       /\ flushed' = k
  /\ ngErr' = TRUE

NgWrite(b) ==
  \/ ngErr /\ UNCHANGED <<file, flushed, ngErr>>
  \/ ~ngErr /\ file' = Append(file, b) /\ UNCHANGED <<flushed, ngErr>>
  \/ ~ngErr /\ DiskFails

NgFlush_Skipped == UNCHANGED <<file, flushed, ngErr>>
NgFlush ==
  \/ ngErr /\ UNCHANGED <<file, flushed, ngErr>>
  \/ ~ngErr /\ flushed' = Len(file) /\ UNCHANGED <<file, ngErr>>
  \/ ~ngErr /\ flushed < Len(file) /\ DiskFails

-----------------------------------------------------------------------------
\* NewWriter, for a run's capture: the sidecar starts none whose room is below
\* the header.
Init ==
  /\ held = <<>> /\ heldBytes = 0 /\ pending = <<>>
  /\ room \in {r \in Rooms : r = 0 \/ r >= HeaderSize}
  /\ limited = (room > 0) /\ admitted = HeaderSize /\ stopped = FALSE
  /\ closed = FALSE /\ file = <<>> /\ flushed = 0 /\ ngErr = FALSE
  /\ mu = "free" /\ todo = 0
  /\ live = "reading" /\ sink = "idle"
  /\ drainer = "ticking" /\ closer = "idle"
  /\ packets = 0 /\ secrets = 0 /\ notices = 0

\* admit's answer for a block of n bytes.
admits(n) == ~stopped /\ (limited => admitted + n <= room)

\* admit refuses, which stops capture.
refuse ==
  /\ stopped' = TRUE
  /\ UNCHANGED <<limited, room, admitted>>

afterRefusal_Always(returned) == "notifying"
\* Where the refused caller goes: only for the first refusal does admit return a
\* Stop to notify.
afterRefusal(returned) == IF stopped THEN returned ELSE "notifying"

\* Live.run hands one packet of length len to WritePacket, which goes on to
\* write the oldest packets when the queue passes its cap; Live.run returns when
\* WritePacket says ErrStopped.
WritePacket(len) ==
  /\ live = "reading"
  /\ mu = "free"
  /\ \/ /\ packets < MaxPackets
        /\ admits(epbSize(len))
        /\ admitted' = admitted + epbSize(len)
        /\ packets' = packets + 1
        /\ held' = Append(held, [id |-> packets + 1, len |-> len, age |-> 0])
        /\ heldBytes' = heldBytes + len
        /\ mu' = IF heldBytes' > MaxHeldBytes THEN "live" ELSE "free"
        /\ UNCHANGED <<limited, room, stopped, live>>
     \/ /\ ~admits(epbSize(len))
        /\ refuse
        /\ live' = afterRefusal("done")
        /\ UNCHANGED <<held, heldBytes, mu, packets>>
  /\ UNCHANGED <<pending, storage, todo, sink, drainer, closer, secrets, notices>>

\* A read fails, or Live.Stop closed the handle: Live.run returns.
LiveEnds ==
  /\ live = "reading"
  /\ mu # "live"
  /\ live' = "done"
  /\ UNCHANGED <<queue, limit, storage, lock, sink, drainer, closer, history>>

\* after: the newest packet already taken off the hold queue, so that the
\* packets after it are those held now or captured later.
AddSecret(len) ==
  /\ sink = "idle"
  /\ mu = "free"
  /\ len > 0
  /\ \/ /\ secrets < MaxSecrets
        /\ admits(dsbSize(len + 1))
        /\ admitted' = admitted + dsbSize(len + 1)
        /\ secrets' = secrets + 1
        /\ pending' = Append(pending, [id |-> secrets + 1, len |-> len,
                                       after |-> packets - Len(held)])
        /\ UNCHANGED <<limited, room, stopped, sink>>
     \/ /\ ~admits(dsbSize(len + 1))
        /\ refuse
        /\ sink' = afterRefusal("idle")
        /\ UNCHANGED <<pending, secrets>>
  /\ UNCHANGED <<held, heldBytes, storage, lock, live, drainer, closer, packets, notices>>

\* notifyStop, by the thread whose block did not fit, outside w.mu.
notifyStop ==
  /\ \/ live = "notifying" /\ live' = "done" /\ UNCHANGED sink
     \/ sink = "notifying" /\ sink' = "idle" /\ UNCHANGED live
  /\ notices' = notices + 1
  /\ UNCHANGED <<queue, limit, storage, lock, drainer, closer, packets, secrets>>

SetRoom(r) ==
  /\ limited
  /\ mu = "free"
  /\ room' = r
  /\ UNCHANGED <<queue, limited, admitted, stopped, storage, lock, threads, history>>

-----------------------------------------------------------------------------
(* writeHeld, by whoever holds mu: the pending secrets as one block, then  *)
(* the oldest packets, one per step.                                       *)

\* Whether writeHeld has another packet to write.  WritePacket's own loop counts
\* them beforehand, by the lengths that writeHeld then subtracts from heldBytes.
more ==
  /\ held # <<>>
  /\ \/ mu = "live" /\ heldBytes > MaxHeldBytes
     \/ mu = "drain" /\ todo > 0
     \/ mu = "close"

writeSecrets_Keeps ==
  /\ mu # "free"
  /\ pending # <<>>
  /\ NgWrite(DSB(pending))
  /\ UNCHANGED <<queue, limit, closed, lock, threads, history>>
writeSecrets ==
  /\ mu # "free"
  /\ pending # <<>>
  /\ NgWrite(DSB(pending))
  /\ pending' = <<>>
  /\ UNCHANGED <<held, heldBytes, limit, closed, lock, threads, history>>

\* Writes the block of the oldest packet and takes it off the queue.
popOldest(after, bytes) ==
  /\ more
  /\ NgWrite(EPB(Head(held)))
  /\ held' = after
  /\ heldBytes' = bytes
  /\ todo' = IF mu = "drain" THEN todo - 1 ELSE todo
  /\ UNCHANGED <<pending, limit, closed, mu, threads, history>>

writeOldest_SecretsLast == popOldest(Tail(held), heldBytes - Head(held).len)
writeOldest_Keeps == pending = <<>> /\ popOldest(held, heldBytes)
writeOldest_NotCounted == pending = <<>> /\ popOldest(Tail(held), heldBytes)
writeOldest == pending = <<>> /\ popOldest(Tail(held), heldBytes - Head(held).len)
writeHeldDone_NoPackets == mu # "free" /\ ~more
writeHeldDone == mu # "free" /\ pending = <<>> /\ ~more

\* WritePacket returns once the queue is back within its cap.
overflowDone ==
  /\ mu = "live"
  /\ writeHeldDone
  /\ mu' = "free"
  /\ UNCHANGED <<queue, limit, storage, todo, threads, history>>

-----------------------------------------------------------------------------
(* The periodic drain and Close.                                           *)

\* drain's loop stops at n: the n oldest packets, and not the next, were held for
\* at least window.
stopsAt(n, window) ==
  /\ \A i \in 1 .. n : held[i].age >= window
  /\ n < Len(held) => held[n + 1].age < window

countExpired_OneMore == \E n \in 0 .. Len(held) : stopsAt(n, HoldWindow) /\ todo' = n + 1
countExpired_Young == \E n \in 0 .. Len(held) : stopsAt(n, HoldWindow - 1) /\ todo' = n
\* The packets drain hands to writeHeld.
countExpired == \E n \in 0 .. Len(held) : stopsAt(n, HoldWindow) /\ todo' = n

\* A tick of drainPeriodically takes the lock and drain picks its packets.
drain ==
  /\ drainer = "ticking"
  /\ mu = "free"
  /\ mu' = "drain"
  /\ countExpired
  /\ UNCHANGED <<queue, limit, storage, threads, history>>

settled_Early == stopped
settled_Never == FALSE
\* The tick's test for closing the file.
settled == stopped /\ held = <<>> /\ pending = <<>>

\* drain flushes, and the tick ends: it closes the file when capture has stopped
\* and everything admitted is out of the queues.
drainDone ==
  /\ mu = "drain"
  /\ writeHeldDone
  /\ NgFlush
  /\ closed' = (closed \/ settled)
  /\ drainer' = IF closed' THEN "exited" ELSE "ticking"
  /\ mu' = "free"
  /\ UNCHANGED <<queue, limit, todo, live, sink, closer, history>>

drainExit_OnlyClosed ==
  /\ drainer = "ticking" /\ closed
  /\ drainer' = "exited"
  /\ UNCHANGED <<queue, limit, storage, lock, live, sink, closer, history>>
\* drainPeriodically sees w.stop closed.
drainExit ==
  /\ drainer = "ticking"
  /\ mu # "drain"
  /\ closer = "waiting"
  /\ drainer' = "exited"
  /\ UNCHANGED <<queue, limit, storage, lock, live, sink, closer, history>>

\* Close up to its wait on w.drained.  App.Close calls it once Live.Stop has
\* seen Live.run return.
Close ==
  /\ closer = "idle"
  /\ live = "done"
  /\ closer' = "waiting"
  /\ UNCHANGED <<queue, limit, storage, lock, live, sink, drainer, history>>

\* The rest of Close takes the lock: it returns at once when the drain has
\* already closed the file, and writes all that is held otherwise.
takeLockToClose ==
  /\ closer = "waiting"
  /\ mu = "free"
  /\ \/ closed /\ closer' = "done" /\ UNCHANGED mu
     \/ ~closed /\ mu' = "close" /\ UNCHANGED closer
  /\ UNCHANGED <<queue, limit, storage, todo, live, sink, drainer, history>>

closeLocked == drainer = "exited" /\ takeLockToClose

closeDone ==
  /\ mu = "close"
  /\ writeHeldDone
  /\ NgFlush
  /\ closed' = TRUE
  /\ closer' = "done"
  /\ mu' = "free"
  /\ UNCHANGED <<queue, limit, todo, live, sink, drainer, history>>

\* The clock moves on.
Tick ==
  /\ held' = [i \in DOMAIN held |->
                [held[i] EXCEPT !.age = IF @ < HoldWindow THEN @ + 1 ELSE @]]
  /\ UNCHANGED <<heldBytes, pending, limit, storage, lock, threads, history>>

-----------------------------------------------------------------------------
Next ==
  \/ \E len \in PacketLens : WritePacket(len)
  \/ \E len \in LineLens : AddSecret(len)
  \/ \E r \in Rooms : SetRoom(r)
  \/ LiveEnds
  \/ notifyStop
  \/ writeSecrets
  \/ writeOldest
  \/ overflowDone
  \/ drain
  \/ drainDone
  \/ drainExit
  \/ Close
  \/ closeLocked
  \/ closeDone
  \/ Tick

\* Whoever holds the lock goes on to release it.
HolderStep == writeSecrets \/ writeOldest \/ overflowDone \/ drainDone \/ closeDone

\* The lock's holder, the drain's ticker, the goroutines that are past their
\* last blocking call and the clock get to run.  Go's mutex does not starve a
\* waiter and its select picks among ready cases at random, hence SF for the
\* drain.  Packets, lines, age passes and the call of Close may never come.
Fairness ==
  /\ WF_vars(HolderStep)
  /\ SF_vars(drain)
  /\ SF_vars(drainExit)
  /\ WF_vars(notifyStop)
  /\ WF_vars(closeLocked)
  /\ WF_vars(Tick)

Spec == Init /\ [][Next]_vars

FairSpec == Spec /\ Fairness

-----------------------------------------------------------------------------
(* Properties.                                                             *)

Packet == [id : Nat, len : Nat, age : 0 .. HoldWindow]
Secret == [id : Nat, len : Nat, after : Nat]
EPBs   == [kind : {"EPB"}, id : Nat, len : Nat]
DSBs   == [kind : {"DSB"}, lines : Seq(Secret)]
Block  == EPBs \cup DSBs

\* Every variable has its type; in particular drain never picks more packets
\* than are held, and the packets it picked stay held until it has written them.
TypeOK ==
  /\ held \in Seq(Packet) /\ heldBytes \in Int /\ pending \in Seq(Secret)
  /\ limited \in BOOLEAN /\ room \in Int /\ admitted \in Nat /\ stopped \in BOOLEAN
  /\ closed \in BOOLEAN /\ file \in Seq(Block)
  /\ flushed \in 0 .. Len(file) /\ ngErr \in BOOLEAN
  /\ mu \in {"free", "live", "drain", "close"} /\ todo \in 0 .. Len(held)
  /\ live \in {"reading", "notifying", "done"}
  /\ sink \in {"idle", "notifying"}
  /\ drainer \in {"ticking", "exited"}
  /\ closer \in {"idle", "waiting", "done"}
  /\ packets \in Nat /\ secrets \in Nat /\ notices \in Nat

\* The packets taken off the hold queue so far.
released == packets - Len(held)

IsEPB(k) == file[k].kind = "EPB"
IsDSB(k) == file[k].kind = "DSB"

\* A keylog line's block precedes, in the file, every packet that was still held
\* when AddSecret took the line (the promise on Writer and on writeHeld).  Every
\* prefix of a file with this property has it, so a sidecar killed between two
\* writes leaves a file that has it too.
SecretsPrecedeHeldPackets ==
  \A k \in DOMAIN file : IsDSB(k) =>
    \A j \in 1 .. k - 1 : IsEPB(j) =>
      \A l \in DOMAIN file[k].lines : file[j].id <= file[k].lines[l].after

\* Packets enter the file in the order WritePacket admitted them, each once,
\* with none left out before one that is in; and unless a write has failed,
\* every packet taken off the hold queue is in the file.
PacketsInOrderOnce ==
  /\ \A i, j \in DOMAIN file : i < j /\ IsEPB(i) /\ IsEPB(j) => file[i].id < file[j].id
  /\ \A j \in DOMAIN file : IsEPB(j) =>
       \A p \in 1 .. file[j].id : \E i \in 1 .. j : IsEPB(i) /\ file[i].id = p
  /\ ~ngErr => \A p \in 1 .. released : \E i \in DOMAIN file : IsEPB(i) /\ file[i].id = p

OnDisk(s, n) ==
  \E k \in 1 .. n : IsDSB(k) /\ \E l \in DOMAIN file[k].lines : file[k].lines[l].id = s
IsPending(s) == \E l \in DOMAIN pending : pending[l].id = s

\* A keylog line AddSecret admitted is pending until it is in the file, and then
\* is not pending again: no drain, overflow or Close loses or repeats one.
SecretsKeptOnce ==
  \A s \in 1 .. secrets :
    /\ ~(OnDisk(s, Len(file)) /\ IsPending(s))
    /\ OnDisk(s, Len(file)) \/ IsPending(s) \/ ngErr

Bytes(items) == SumFunction([i \in DOMAIN items |-> items[i].len])

\* External: the bytes pcapgo writes for a block.  A Decryption Secrets Block
\* carries each of its lines with a newline.
BlockBytes(b) ==
  IF b.kind = "EPB" THEN 32 + pad4(b.len) ELSE 20 + pad4(Bytes(b.lines) + Len(b.lines))

BytesIn(blocks) == SumFunction([k \in DOMAIN blocks |-> BlockBytes(blocks[k])])

\* What the pending lines, which writeHeld merges into one block, and the held
\* packets will add to the file.
QueuedBytes ==
  (IF pending = <<>> THEN 0 ELSE BlockBytes(DSB(pending)))
    + BytesIn([i \in DOMAIN held |-> EPB(held[i])])

\* The size of the file once everything still queued for it is written.
FinalBytes == HeaderSize + BytesIn(file) + (IF closed THEN 0 ELSE QueuedBytes)

\* What admit has counted covers the file and everything still queued for it, so
\* a file whose blocks were all admitted within the room never passes it:
\* padding, and merging lines into one block, never cost more than was counted
\* (Stop.Bytes is "an upper bound").
AdmittedCoversFile == FinalBytes <= admitted

\* heldBytes totals the hold queue, so the loop of WritePacket never runs past
\* the end of the queue, and outside WritePacket it is within the cap.
HoldQueueBounded ==
  /\ heldBytes = Bytes(held)
  /\ mu # "live" => heldBytes <= MaxHeldBytes

\* A packet leaves the hold queue before its window ends only because Close
\* writes everything, or because the queue has passed its cap.
HoldWindowKept ==
  [][Len(held') < Len(held) =>
       \/ Head(held).age >= HoldWindow
       \/ closer = "waiting"
       \/ Bytes(held) > MaxHeldBytes]_vars

\* Once capture has stopped nothing more is admitted, however much room the age
\* pass gives it (AC 9).
StopIsForGood ==
  [][stopped => /\ stopped'
                /\ packets' = packets /\ secrets' = secrets /\ admitted' = admitted]_vars

\* OnStop is called for a stop and only once (Options.OnStop: "called once, when
\* capture stops at Room"), though two threads may be refused at the same time.
NotifiedOnce ==
  notices + (IF live = "notifying" THEN 1 ELSE 0) + (IF sink = "notifying" THEN 1 ELSE 0)
    = (IF stopped THEN 1 ELSE 0)

\* Once the file is closed, by Close or by the drain of a stopped capture, it is
\* never written again.
NoWriteAfterClose == [][closed => closed' /\ UNCHANGED <<file, flushed>>]_vars

\* A closed file has every admitted packet, all of it on disk, unless the disk
\* failed ("The capture is complete only once Close has returned").
ClosedIsComplete == closed /\ ~ngErr => held = <<>> /\ flushed = Len(file)

\* Every admitted packet reaches the disk, without any later traffic, unless
\* the disk fails.
PacketsReachDisk ==
  \A p \in 1 .. MaxPackets :
    (packets >= p) ~> (ngErr \/ \E k \in 1 .. flushed : IsEPB(k) /\ file[k].id = p)

\* So does every line admitted while the file was open.
SecretsReachDisk ==
  \A s \in 1 .. MaxSecrets : (IsPending(s) /\ ~closed) ~> (ngErr \/ OnDisk(s, flushed))

\* Close returns, whichever of the drain and Close gets to the file first.
CloseReturns == (closer = "waiting") ~> (closer = "done")

\* A capture that stopped is closed and announced without waiting for Close.
StopSettles == stopped ~> (closed /\ notices = 1)

\* The comment on holdWindow: a sidecar killed before Close leaves a capture
\* "missing only the packets still held".
KillLosesOnlyHeld == mu = "free" /\ ~ngErr => flushed = Len(file)

-----------------------------------------------------------------------------
(* The capture as its callers see it.                                      *)

Log == INSTANCE CaptureLog WITH
  packetsOut <- packets - Len(held),
  secretsOut <- secrets - Len(pending),
  synced <- ~ngErr /\ flushed = Len(file),
  lost <- ngErr

\* The Writer, with its lock, hold queue, drain and Close, is the log that
\* CaptureLog describes: each of its steps is one of the log's, or unseen.
ImplementsLog == Log!Spec
=============================================================================
