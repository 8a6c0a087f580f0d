------------------------------ MODULE CaptureLog ------------------------------
(***************************************************************************)
(* What capture.Writer promises its callers, without its lock, its hold    *)
(* window, its byte counts and its goroutines: a log of packets and keylog *)
(* lines in which every line taken so far precedes every packet written    *)
(* from now on, which stops for good at the first block it refuses, and    *)
(* which is complete once closed unless the disk failed.  CaptureWriter    *)
(* implements this module; Keylog is composed with it.                     *)
(***************************************************************************)
EXTENDS Naturals

CONSTANTS
  MaxPackets,  \* bound: packets taken
  MaxSecrets,  \* bound: lines taken
  DiskMayFail  \* whether a write to the file may fail

VARIABLES
  packets,     \* packets taken
  secrets,     \* lines taken
  packetsOut,  \* packets written to the file, oldest first
  secretsOut,  \* lines written to the file, oldest first
  stopped,     \* a block was refused
  closed,      \* the file is closed
  synced,      \* everything written is on disk
  lost         \* a write has failed: from then on nothing reaches the disk

vars == <<packets, secrets, packetsOut, secretsOut, stopped, closed, synced, lost>>

Init ==
  /\ packets = 0 /\ secrets = 0 /\ packetsOut = 0 /\ secretsOut = 0
  /\ stopped = FALSE /\ closed = FALSE /\ synced = TRUE /\ lost = FALSE

TakePacket ==
  /\ ~stopped /\ ~closed
  /\ packets < MaxPackets
  /\ packets' = packets + 1
  /\ UNCHANGED <<secrets, packetsOut, secretsOut, stopped, closed, synced, lost>>

\* A closed capture that never stopped still takes lines; it writes none.
TakeSecret ==
  /\ ~stopped
  /\ secrets < MaxSecrets
  /\ secrets' = secrets + 1
  /\ UNCHANGED <<packets, packetsOut, secretsOut, stopped, closed, synced, lost>>

Refuse ==
  /\ ~stopped
  /\ stopped' = TRUE
  /\ UNCHANGED <<packets, secrets, packetsOut, secretsOut, closed, synced, lost>>

\* A write reaches the file's buffer, unless the disk fails.
Written ==
  /\ ~closed
  /\ synced' = FALSE
  /\ lost' \in {lost, lost \/ DiskMayFail}
  /\ UNCHANGED <<packets, secrets, stopped, closed>>

WriteSecrets ==
  /\ secretsOut < secrets
  /\ secretsOut' = secrets
  /\ Written
  /\ UNCHANGED packetsOut

WriteOldest ==
  /\ secretsOut = secrets
  /\ packetsOut < packets
  /\ packetsOut' = packetsOut + 1
  /\ Written
  /\ UNCHANGED secretsOut

\* A flush, which closes the file or leaves it open.  It closes only a file
\* that has everything taken so far.
Sync(closing) ==
  /\ ~closed
  /\ closing => packetsOut = packets /\ secretsOut = secrets
  /\ closed' = closing
  /\ lost' \in {lost, lost \/ DiskMayFail}
  /\ synced' = ~lost'
  /\ UNCHANGED <<packets, secrets, packetsOut, secretsOut, stopped>>

Next ==
  \/ TakePacket
  \/ TakeSecret
  \/ Refuse
  \/ WriteSecrets
  \/ WriteOldest
  \/ \E closing \in BOOLEAN : Sync(closing)

Spec == Init /\ [][Next]_vars
=============================================================================
