------------------------- MODULE CaptureWriterProofs -------------------------
(***************************************************************************)
(* What CaptureWriter guarantees for every value of its constants.         *)
(***************************************************************************)
EXTENDS CaptureWriter, TLAPS

-----------------------------------------------------------------------------
(* Sequences.                                                              *)

\* A sequence is a function on an interval.
LEMMA SeqLen ==
  ASSUME NEW S, NEW s \in Seq(S)
  PROVE  Len(s) \in Nat /\ s \in [1 .. Len(s) -> S] /\ DOMAIN s = 1 .. Len(s)
OBVIOUS

\* Its elements.
LEMMA SeqElement ==
  ASSUME NEW S, NEW s \in Seq(S), NEW i \in 1 .. Len(s)
  PROVE  s[i] \in S
OBVIOUS

\* The empty sequence, and no other, has length 0.
LEMMA SeqEmpty ==
  ASSUME NEW S
  PROVE  <<>> \in Seq(S) /\ Len(<<>>) = 0 /\ \A s \in Seq(S) : s # <<>> => Len(s) \in Nat \ {0}
OBVIOUS

\* Append, element by element.
LEMMA SeqAppend ==
  ASSUME NEW S, NEW s \in Seq(S), NEW x \in S
  PROVE  /\ Append(s, x) \in Seq(S) /\ Append(s, x) # <<>> /\ Len(Append(s, x)) = Len(s) + 1
         /\ Append(s, x)[Len(s) + 1] = x /\ \A i \in 1 .. Len(s) : Append(s, x)[i] = s[i]
OBVIOUS

\* Head and Tail of a sequence that has them.
LEMMA SeqTail ==
  ASSUME NEW S, NEW s \in Seq(S), s # <<>>
  PROVE  /\ Head(s) \in S /\ Tail(s) \in Seq(S) /\ Len(Tail(s)) = Len(s) - 1
         /\ \A i \in 1 .. Len(Tail(s)) : Tail(s)[i] = s[i + 1]
OBVIOUS

-----------------------------------------------------------------------------
(* What a step may do to the file, whoever takes it.                       *)

\* A prefix of the file is a sequence of its blocks.
LEMMA Prefix ==
  ASSUME NEW S, NEW s \in Seq(S), NEW k \in 0 .. Len(s)
  PROVE  /\ SubSeq(s, 1, k) \in Seq(S)
         /\ Len(SubSeq(s, 1, k)) = k
         /\ \A i \in 1 .. k : SubSeq(s, 1, k)[i] = s[i]
OBVIOUS

\* What Append does to a sequence, element by element.
LEMMA Appended ==
  ASSUME NEW S, NEW s \in Seq(S), NEW x \in S, NEW t, t = Append(s, x)
  PROVE  /\ Len(s) \in Nat /\ t \in Seq(S) /\ Len(t) = Len(s) + 1
         /\ t[Len(s) + 1] = x /\ \A i \in 1 .. Len(s) : t[i] = s[i]
BY SeqAppend, SeqLen

\* A write puts its block at the end of the file, or finds that the disk failed
\* and leaves a prefix of the file, or does nothing; and never takes back what
\* is flushed.
LEMMA NgWriteType ==
  ASSUME file \in Seq(Block), flushed \in 0 .. Len(file), ngErr \in BOOLEAN,
         NEW b \in Block, NgWrite(b)
  PROVE  /\ file' \in Seq(Block)
         /\ flushed' \in 0 .. Len(file')
         /\ ngErr' \in BOOLEAN
<1>1. CASE UNCHANGED <<file, flushed, ngErr>>
  BY <1>1
<1>2. CASE file' = Append(file, b) /\ UNCHANGED <<flushed, ngErr>>
  BY <1>2, SeqAppend
<1>3. CASE DiskFails
  BY <1>3, Prefix DEF DiskFails
<1> QED
  BY <1>1, <1>2, <1>3 DEF NgWrite

\* A flush keeps the file's blocks, or a prefix of them.
LEMMA NgFlushType ==
  ASSUME file \in Seq(Block), flushed \in 0 .. Len(file), ngErr \in BOOLEAN, NgFlush
  PROVE  /\ file' \in Seq(Block)
         /\ flushed' \in 0 .. Len(file')
         /\ ngErr' \in BOOLEAN
<1>1. CASE UNCHANGED <<file, flushed, ngErr>>
  BY <1>1
<1>2. CASE flushed' = Len(file) /\ UNCHANGED <<file, ngErr>>
  BY <1>2, SeqLen
<1>3. CASE DiskFails
  BY <1>3, Prefix DEF DiskFails
<1> QED
  BY <1>1, <1>2, <1>3 DEF NgFlush

\* A flush that meets no error leaves nothing in the buffer.
LEMMA FlushFlushes ==
  ASSUME NgFlush, ngErr \in BOOLEAN
  PROVE  ~ngErr' => flushed' = Len(file')
BY DEF NgFlush, DiskFails

\* What admit counts for a block is a natural number.
LEMMA SizesAreNat ==
  ASSUME NEW n \in Nat
  PROVE  epbSize(n) \in Nat /\ dsbSize(n) \in Nat
BY DEF epbSize, dsbSize, pad4

\* The clock changes nothing of a held packet but its age.
LEMMA TickType ==
  ASSUME held \in Seq(Packet), Tick
  PROVE  /\ held' \in Seq(Packet)
         /\ Len(held') = Len(held)
         /\ \A i \in 1 .. Len(held) : held'[i].id = held[i].id /\ held'[i].len = held[i].len
<1> DEFINE older(i) == [held[i] EXCEPT !.age = IF @ < HoldWindow THEN @ + 1 ELSE @]
<1>1. Len(held) \in Nat /\ DOMAIN held = 1 .. Len(held)
  BY SeqLen
<1>2. held' = [i \in 1 .. Len(held) |-> older(i)]
  BY <1>1 DEF Tick
<1>3. ASSUME NEW i \in 1 .. Len(held)
      PROVE  older(i) \in Packet /\ older(i).id = held[i].id /\ older(i).len = held[i].len
  <2>1. held[i] \in Packet
    BY SeqElement
  <2>2. held[i].age \in 0 .. HoldWindow /\ HoldWindow \in Nat
    BY <2>1, SizesAssumption DEF Packet
  <2> DEFINE a == IF held[i].age < HoldWindow THEN held[i].age + 1 ELSE held[i].age
  <2>3. a \in 0 .. HoldWindow
    BY <2>2
  <2>4. older(i) = [held[i] EXCEPT !.age = a]
    OBVIOUS
  <2> HIDE DEF a
  <2> QED
    BY <2>1, <2>3, <2>4, Zenon DEF Packet
<1>4. held' \in Seq(Packet)
  <2> HIDE DEF older
  <2> QED
    BY <1>1, <1>2, <1>3
<1>5. Len(held') = Len(held)
  BY <1>1, <1>2, <1>4, SeqLen
<1> QED
  BY <1>2, <1>3, <1>4, <1>5, Zenon

-----------------------------------------------------------------------------
(* Type correctness.                                                       *)

\* TypeOK alone is not inductive: that a secret's "after" is a natural number
\* needs that no more packets are held than were admitted, and that a packet
\* written by WritePacket or Close is none that drain counted needs that drain
\* leaves no count behind.
TypeInv ==
  /\ TypeOK
  /\ Len(held) <= packets
  /\ mu # "drain" => todo = 0

\* Every step of the capture keeps TypeInv.
LEMMA TypingStep == TypeInv /\ [Next]_vars => TypeInv'
<1> SUFFICES ASSUME TypeInv, [Next]_vars PROVE TypeInv'
  OBVIOUS
<1> USE SizesAssumption DEF TypeInv, TypeOK
<1>0. Len(held) \in Nat /\ Len(pending) \in Nat /\ Len(file) \in Nat
  BY SeqLen
<1>1. ASSUME NEW len \in PacketLens, WritePacket(len) PROVE TypeInv'
  <2>1. CASE admits(epbSize(len))
    <3> DEFINE p == [id |-> packets + 1, len |-> len, age |-> 0]
    <3>1. p \in Packet
      BY DEF Packet
    <3>2. held' = Append(held, p) /\ UNCHANGED <<pending, storage, todo, sink, drainer, closer, secrets, notices>>
      BY <1>1, <2>1 DEF WritePacket
    <3>3. held' \in Seq(Packet) /\ Len(held') = Len(held) + 1
      BY <3>1, <3>2, SeqAppend
    <3>4. epbSize(len) \in Nat
      BY SizesAreNat
    <3>5. /\ admitted' = admitted + epbSize(len) /\ heldBytes' = heldBytes + len
          /\ packets' = packets + 1 /\ mu = "free" /\ mu' \in {"free", "live"}
          /\ UNCHANGED <<limited, room, stopped, live>>
      BY <1>1, <2>1 DEF WritePacket
    <3> QED
      BY <1>0, <3>2, <3>3, <3>4, <3>5 DEF storage
  <2>2. CASE ~admits(epbSize(len))
    BY <1>1, <2>2, Zenon DEF WritePacket, refuse, afterRefusal, storage
  <2> QED
    BY <1>1, <2>1, <2>2 DEF WritePacket
<1>2. ASSUME NEW len \in LineLens, AddSecret(len) PROVE TypeInv'
  <2>0. UNCHANGED <<held, heldBytes, storage, lock, live, drainer, closer, packets, notices>>
    BY <1>2 DEF AddSecret
  <2>1. CASE admits(dsbSize(len + 1))
    <3> DEFINE l == [id |-> secrets + 1, len |-> len, after |-> packets - Len(held)]
    <3>1. l \in Secret
      BY <1>0 DEF Secret
    <3>2. pending' = Append(pending, l)
      BY <1>2, <2>1 DEF AddSecret
    <3>3. pending' \in Seq(Secret)
      BY <3>1, <3>2, SeqAppend
    <3>4. dsbSize(len + 1) \in Nat
      <4>1. len + 1 \in Nat
        OBVIOUS
      <4> QED
        BY <4>1, SizesAreNat, Zenon
    <3>5. /\ admitted' = admitted + dsbSize(len + 1) /\ secrets' = secrets + 1
          /\ UNCHANGED <<limited, room, stopped, sink>>
      BY <1>2, <2>1 DEF AddSecret
    <3> QED
      BY <2>0, <3>3, <3>4, <3>5 DEF storage, lock
  <2>2. CASE ~admits(dsbSize(len + 1))
    BY <1>2, <2>0, <2>2, Zenon DEF AddSecret, refuse, afterRefusal, storage, lock
  <2> QED
    BY <2>1, <2>2
<1>3. ASSUME NEW r \in Rooms, SetRoom(r) PROVE TypeInv'
  BY <1>3 DEF SetRoom, queue, storage, lock, threads, history
<1>4. CASE LiveEnds
  BY <1>4 DEF LiveEnds, queue, limit, storage, lock, history
<1>5. CASE notifyStop
  BY <1>5 DEF notifyStop, queue, limit, storage, lock
<1>6. CASE writeSecrets
  <2>1. DSB(pending) \in Block
    BY DEF DSB, Block, DSBs
  <2>2. file' \in Seq(Block) /\ flushed' \in 0 .. Len(file') /\ ngErr' \in BOOLEAN
    BY <1>6, <2>1, NgWriteType DEF writeSecrets
  <2> QED
    BY <1>6, <2>2, SeqEmpty DEF writeSecrets, limit, lock, threads, history
<1>7. CASE writeOldest
  <2>1. held # <<>> /\ (mu = "drain" => todo > 0)
    BY <1>7 DEF writeOldest, popOldest, more
  <2>2. /\ Head(held) \in Packet /\ Tail(held) \in Seq(Packet)
        /\ Len(Tail(held)) = Len(held) - 1
    BY <2>1, SeqTail
  <2>3. EPB(Head(held)) \in Block
    BY <2>2 DEF EPB, Block, EPBs, Packet
  <2>4. file' \in Seq(Block) /\ flushed' \in 0 .. Len(file') /\ ngErr' \in BOOLEAN
    BY <1>7, <2>3, NgWriteType DEF writeOldest, popOldest
  <2>5. /\ held' = Tail(held) /\ heldBytes' = heldBytes - Head(held).len
        /\ todo' = IF mu = "drain" THEN todo - 1 ELSE todo
        /\ UNCHANGED <<pending, limit, closed, mu, threads, history>>
    BY <1>7 DEF writeOldest, popOldest
  <2>6. heldBytes' \in Int
    BY <2>2, <2>5 DEF Packet
  <2> QED
    BY <1>0, <2>1, <2>2, <2>4, <2>5, <2>6 DEF limit, threads, history
<1>8. CASE overflowDone
  BY <1>8 DEF overflowDone, queue, limit, storage, threads, history
<1>9. CASE drain
  BY <1>9 DEF drain, countExpired, queue, limit, storage, threads, history
<1>10. CASE drainDone
  <2>1. file' \in Seq(Block) /\ flushed' \in 0 .. Len(file') /\ ngErr' \in BOOLEAN
    BY <1>10, NgFlushType DEF drainDone
  <2> QED
    BY <1>0, <1>10, <2>1, SeqEmpty DEF drainDone, writeHeldDone, more, settled, queue, limit, history
<1>11. CASE drainExit
  BY <1>11 DEF drainExit, queue, limit, storage, lock, history
<1>12. CASE Close
  BY <1>12 DEF Close, queue, limit, storage, lock, history
<1>13. CASE closeLocked
  BY <1>13 DEF closeLocked, takeLockToClose, queue, limit, storage, history
<1>14. CASE closeDone
  <2>1. file' \in Seq(Block) /\ flushed' \in 0 .. Len(file') /\ ngErr' \in BOOLEAN
    BY <1>14, NgFlushType DEF closeDone
  <2> QED
    BY <1>14, <2>1 DEF closeDone, queue, limit, history
<1>15. CASE Tick
  BY <1>15, TickType DEF Tick, limit, storage, lock, threads, history
<1>16. CASE UNCHANGED vars
  BY <1>16 DEF vars, queue, limit, storage, lock, threads, history
<1> QED
  BY <1>1, <1>2, <1>3, <1>4, <1>5, <1>6, <1>7, <1>8, <1>9, <1>10, <1>11, <1>12,
     <1>13, <1>14, <1>15, <1>16 DEF Next

\* NewWriter establishes it.
LEMMA TypingInit == Init => TypeInv
<1> SUFFICES ASSUME Init PROVE TypeInv
  OBVIOUS
<1>1. room \in Int
  BY SizesAssumption DEF Init
<1>2. limited \in BOOLEAN
  <2>1. limited = (room > 0)
    BY DEF Init
  <2>2. (room > 0) \in BOOLEAN
    BY <1>1
  <2> QED
    BY <2>1, <2>2, Zenon
<1>3. <<>> \in Seq(Packet) /\ <<>> \in Seq(Secret) /\ <<>> \in Seq(Block) /\ Len(<<>>) = 0
  BY SeqEmpty
<1>4. /\ held = <<>> /\ heldBytes = 0 /\ pending = <<>> /\ admitted = HeaderSize
      /\ file = <<>> /\ flushed = 0 /\ mu = "free" /\ todo = 0 /\ live = "reading"
      /\ sink = "idle" /\ drainer = "ticking" /\ closer = "idle"
      /\ packets = 0 /\ secrets = 0 /\ notices = 0
  BY DEF Init
<1>5. stopped \in BOOLEAN /\ closed \in BOOLEAN /\ ngErr \in BOOLEAN
  BY Zenon DEF Init
<1> QED
  BY <1>1, <1>2, <1>3, <1>4, <1>5, SizesAssumption DEF TypeInv, TypeOK

\* Every behaviour of the Writer keeps its variables in their types; in
\* particular drain never has more packets to write than are held.
THEOREM Typing == Spec => []TypeOK
<1>1. Spec => []TypeInv
  BY TypingInit, TypingStep, PTL DEF Spec
<1>2. TypeInv => TypeOK
  BY DEF TypeInv
<1> QED
  BY <1>1, <1>2, PTL

-----------------------------------------------------------------------------
(* The order of the blocks.  Ordered(f, n) is what holds of a file f when  *)
(* n packets have left the hold queue, whether or not the disk failed;     *)
(* Complete(f, n) is what holds as long as it has not.                     *)

PacketAt(f, k) == f[k].kind = "EPB"
SecretsAt(f, k) == f[k].kind = "DSB"

Ordered(f, n) ==
  /\ \A k \in 1 .. Len(f) : PacketAt(f, k) => f[k].id <= n
  /\ \A i, j \in 1 .. Len(f) : i < j /\ PacketAt(f, i) /\ PacketAt(f, j) => f[i].id < f[j].id
  /\ \A j \in 1 .. Len(f) : PacketAt(f, j) =>
       \A p \in 1 .. f[j].id : \E i \in 1 .. j : PacketAt(f, i) /\ f[i].id = p
  /\ \A k \in 1 .. Len(f) : SecretsAt(f, k) =>
       \A j \in 1 .. k - 1 : PacketAt(f, j) =>
         \A l \in DOMAIN f[k].lines : f[j].id <= f[k].lines[l].after

Complete(f, n) ==
  \A p \in 1 .. n : \E i \in 1 .. Len(f) : PacketAt(f, i) /\ f[i].id = p

\* A prefix of an ordered file is ordered.
LEMMA OrderedPrefix ==
  ASSUME NEW f \in Seq(Block), NEW n \in Nat, Ordered(f, n), NEW k \in 0 .. Len(f)
  PROVE  Ordered(SubSeq(f, 1, k), n)
<1> DEFINE g == SubSeq(f, 1, k)
<1>1. g \in Seq(Block) /\ Len(g) = k /\ \A i \in 1 .. k : g[i] = f[i]
  BY Prefix
<1>2. Len(f) \in Nat /\ k \in Nat /\ k <= Len(f)
  BY SeqLen
<1> HIDE DEF g
<1>3. \A i \in 1 .. k : i \in 1 .. Len(f) /\ g[i] = f[i]
  BY <1>1, <1>2
<1>4. \A j \in 1 .. k : PacketAt(g, j) =>
       \A p \in 1 .. g[j].id : \E i \in 1 .. j : PacketAt(g, i) /\ g[i].id = p
  <2> SUFFICES ASSUME NEW j \in 1 .. k, PacketAt(g, j), NEW p \in 1 .. g[j].id
               PROVE  \E i \in 1 .. j : PacketAt(g, i) /\ g[i].id = p
    OBVIOUS
  <2>1. PICK i \in 1 .. j : PacketAt(f, i) /\ f[i].id = p
    BY <1>3, Zenon DEF Ordered, PacketAt
  <2>2. i \in 1 .. k
    BY <1>2, <2>1
  <2> QED
    BY <1>3, <2>1, <2>2 DEF PacketAt
<1>5. \A m \in 1 .. k : SecretsAt(g, m) =>
       \A j \in 1 .. m - 1 : PacketAt(g, j) =>
         \A l \in DOMAIN g[m].lines : g[j].id <= g[m].lines[l].after
  <2> SUFFICES ASSUME NEW m \in 1 .. k, SecretsAt(g, m), NEW j \in 1 .. m - 1, PacketAt(g, j),
                      NEW l \in DOMAIN g[m].lines
               PROVE  g[j].id <= g[m].lines[l].after
    OBVIOUS
  <2>1. j \in 1 .. k /\ m \in 1 .. Len(f) /\ g[m] = f[m] /\ g[j] = f[j]
    BY <1>2, <1>3
  <2> QED
    BY <2>1 DEF Ordered, PacketAt, SecretsAt
<1>6. \A m \in 1 .. k : PacketAt(g, m) => g[m].id <= n
  BY <1>3 DEF Ordered, PacketAt
<1>7. \A i, j \in 1 .. k : i < j /\ PacketAt(g, i) /\ PacketAt(g, j) => g[i].id < g[j].id
  BY <1>3 DEF Ordered, PacketAt
<1>8. Ordered(g, n)
  BY <1>1, <1>4, <1>5, <1>6, <1>7 DEF Ordered
<1> QED
  BY <1>8 DEF g

\* Secrets that came after the n-th packet had left the queue may be added.
LEMMA OrderedSecrets ==
  ASSUME NEW f \in Seq(Block), NEW n \in Nat, Ordered(f, n),
         NEW ls \in Seq(Secret), \A l \in 1 .. Len(ls) : ls[l].after = n
  PROVE  /\ Ordered(Append(f, DSB(ls)), n)
         /\ Complete(f, n) => Complete(Append(f, DSB(ls)), n)
<1> DEFINE g == Append(f, DSB(ls))
<1>1. DSB(ls) \in Block /\ DSB(ls).kind = "DSB" /\ DSB(ls).lines = ls
  BY DEF DSB, Block, DSBs
<1>2. /\ Len(f) \in Nat /\ Len(g) = Len(f) + 1 /\ g[Len(f) + 1] = DSB(ls)
      /\ \A i \in 1 .. Len(f) : g[i] = f[i]
  BY <1>1, SeqAppend, SeqLen
<1>3. DOMAIN ls = 1 .. Len(ls)
  BY SeqLen
<1> HIDE DEF g
<1>4. \A i \in 1 .. Len(g) : PacketAt(g, i) => i \in 1 .. Len(f) /\ g[i] = f[i]
  BY <1>1, <1>2 DEF PacketAt
<1>5. \A k \in 1 .. Len(g) : PacketAt(g, k) => g[k].id <= n
  BY <1>4 DEF Ordered, PacketAt
<1>6. \A i, j \in 1 .. Len(g) : i < j /\ PacketAt(g, i) /\ PacketAt(g, j) => g[i].id < g[j].id
  BY <1>4 DEF Ordered, PacketAt
<1>7. \A j \in 1 .. Len(g) : PacketAt(g, j) =>
       \A p \in 1 .. g[j].id : \E i \in 1 .. j : PacketAt(g, i) /\ g[i].id = p
  <2> SUFFICES ASSUME NEW j \in 1 .. Len(g), PacketAt(g, j), NEW p \in 1 .. g[j].id
               PROVE  \E i \in 1 .. j : PacketAt(g, i) /\ g[i].id = p
    OBVIOUS
  <2>0. j \in 1 .. Len(f) /\ g[j] = f[j]
    BY <1>4
  <2>1. PICK i \in 1 .. j : PacketAt(f, i) /\ f[i].id = p
    BY <2>0 DEF Ordered, PacketAt
  <2>2. i \in 1 .. Len(f) /\ g[i] = f[i]
    BY <1>2, <2>0, <2>1
  <2> QED
    BY <2>1, <2>2 DEF PacketAt
<1>8. ASSUME NEW k \in 1 .. Len(g), SecretsAt(g, k), NEW j \in 1 .. k - 1, PacketAt(g, j),
             NEW l \in DOMAIN g[k].lines
      PROVE  g[j].id <= g[k].lines[l].after
  <2>1. j \in 1 .. Len(f) /\ g[j] = f[j] /\ PacketAt(f, j)
    BY <1>2, <1>8 DEF PacketAt
  <2>2. CASE k = Len(f) + 1
    <3>1. f[j].id <= n
      BY <2>1 DEF Ordered
    <3>2. g[k].lines = ls
      BY <1>1, <1>2, <2>2
    <3>3. ls[l].after = n
      BY <1>3, <1>8, <3>2
    <3> QED
      BY <2>1, <3>1, <3>2, <3>3
  <2>3. CASE k \in 1 .. Len(f)
    <3>1. g[k] = f[k] /\ SecretsAt(f, k)
      BY <1>2, <1>8, <2>3 DEF SecretsAt
    <3>2. l \in DOMAIN f[k].lines
      BY <1>8, <3>1
    <3>3. f[j].id <= f[k].lines[l].after
      BY <2>1, <2>3, <3>1, <3>2 DEF Ordered
    <3> QED
      BY <2>1, <3>1, <3>3
  <2>4. k = Len(f) + 1 \/ k \in 1 .. Len(f)
    BY <1>2
  <2> QED
    BY <2>2, <2>3, <2>4
<1>9. Complete(f, n) => Complete(g, n)
  BY <1>2 DEF Complete, PacketAt
<1> QED
  BY <1>5, <1>6, <1>7, <1>8, <1>9, Zenon DEF Ordered, g

\* The packet after the n-th may be added to a file with the n before it.
LEMMA OrderedPacket ==
  ASSUME NEW f \in Seq(Block), NEW n \in Nat, Ordered(f, n), Complete(f, n),
         NEW p \in Packet, p.id = n + 1
  PROVE  Ordered(Append(f, EPB(p)), n + 1) /\ Complete(Append(f, EPB(p)), n + 1)
<1> DEFINE g == Append(f, EPB(p))
<1>1. EPB(p) \in Block /\ EPB(p).kind = "EPB" /\ EPB(p).id = n + 1
  BY DEF EPB, Block, EPBs, Packet
<1>2. /\ Len(f) \in Nat /\ Len(g) = Len(f) + 1 /\ g[Len(f) + 1] = EPB(p)
      /\ \A i \in 1 .. Len(f) : g[i] = f[i]
  BY <1>1, SeqAppend, SeqLen
<1> HIDE DEF g
<1>3. \A k \in 1 .. Len(g) : PacketAt(g, k) => g[k].id <= n + 1
  <2> SUFFICES ASSUME NEW k \in 1 .. Len(g), PacketAt(g, k) PROVE g[k].id <= n + 1
    OBVIOUS
  <2>1. CASE k = Len(f) + 1
    BY <1>1, <1>2, <2>1
  <2>2. CASE k \in 1 .. Len(f)
    <3>1. f[k] \in Block /\ f[k].kind = "EPB"
      BY <1>2, <2>2, SeqElement DEF PacketAt
    <3>2. f[k].id \in Nat
      BY <3>1 DEF Block, EPBs, DSBs
    <3> QED
      BY <1>2, <2>2, <3>1, <3>2 DEF Ordered, PacketAt
  <2> QED
    BY <1>2, <2>1, <2>2
<1>4. ASSUME NEW i \in 1 .. Len(g), NEW j \in 1 .. Len(g), i < j, PacketAt(g, i), PacketAt(g, j)
      PROVE  g[i].id < g[j].id
  <2>1. i \in 1 .. Len(f) /\ g[i] = f[i] /\ PacketAt(f, i)
    BY <1>2, <1>4 DEF PacketAt
  <2>2. f[i].id \in Nat /\ f[i].id <= n
    <3>1. f[i] \in Block /\ f[i].kind = "EPB"
      BY <2>1, SeqElement DEF PacketAt
    <3> QED
      BY <2>1, <3>1 DEF Ordered, Block, EPBs, DSBs
  <2>3. CASE j = Len(f) + 1
    BY <1>1, <1>2, <2>1, <2>2, <2>3
  <2>4. CASE j \in 1 .. Len(f)
    BY <1>2, <1>4, <2>1, <2>4 DEF Ordered, PacketAt
  <2> QED
    BY <1>2, <2>3, <2>4
<1>5. ASSUME NEW q \in 1 .. n
      PROVE  \E i \in 1 .. Len(f) : PacketAt(g, i) /\ g[i].id = q
  BY <1>2, Zenon DEF Complete, PacketAt
<1>6. Complete(g, n + 1)
  <2>1. Len(f) + 1 \in 1 .. Len(g) /\ PacketAt(g, Len(f) + 1) /\ g[Len(f) + 1].id = n + 1
    BY <1>1, <1>2 DEF PacketAt
  <2>2. \A i \in 1 .. Len(f) : i \in 1 .. Len(g)
    BY <1>2
  <2>3. \A q \in 1 .. n + 1 : q \in 1 .. n \/ q = n + 1
    OBVIOUS
  <2> QED
    BY <1>5, <2>1, <2>2, <2>3, Zenon DEF Complete
<1>7. ASSUME NEW j \in 1 .. Len(g), PacketAt(g, j), NEW q \in 1 .. g[j].id
      PROVE  \E i \in 1 .. j : PacketAt(g, i) /\ g[i].id = q
  <2>1. CASE j = Len(f) + 1
    BY <1>1, <1>2, <1>5, <2>1, <1>7
  <2>2. CASE j \in 1 .. Len(f)
    <3>1. PICK i \in 1 .. j : PacketAt(f, i) /\ f[i].id = q
      BY <1>2, <1>7, <2>2 DEF Ordered, PacketAt
    <3>2. i \in 1 .. Len(f) /\ g[i] = f[i]
      BY <1>2, <2>2, <3>1
    <3> QED
      BY <3>1, <3>2 DEF PacketAt
  <2> QED
    BY <1>2, <2>1, <2>2
<1>8. ASSUME NEW k \in 1 .. Len(g), SecretsAt(g, k), NEW j \in 1 .. k - 1, PacketAt(g, j),
             NEW l \in DOMAIN g[k].lines
      PROVE  g[j].id <= g[k].lines[l].after
  <2>1. k \in 1 .. Len(f)
    BY <1>1, <1>2, <1>8 DEF SecretsAt
  <2>2. j \in 1 .. Len(f)
    BY <1>2, <2>1
  <2> QED
    BY <1>2, <1>8, <2>1, <2>2 DEF Ordered, PacketAt, SecretsAt
<1> QED
  BY <1>3, <1>4, <1>6, <1>7, <1>8, Zenon DEF Ordered, g

-----------------------------------------------------------------------------
(* The inductive invariant of the order: the hold queue continues the      *)
(* packets already released, and every pending line came after the last of *)
(* them, because whoever releases a packet writes the pending lines first. *)

OrderInv ==
  /\ \A i \in 1 .. Len(held) : held[i].id = released + i
  /\ \A l \in 1 .. Len(pending) : pending[l].after = released
  /\ Ordered(file, released)
  /\ ~ngErr => Complete(file, released)

\* A new capture is in order.
LEMMA OrderInit == Init => OrderInv
BY SeqEmpty DEF Init, OrderInv, Ordered, Complete, released

\* A file may be ordered for more packets than it holds.
LEMMA OrderedMore ==
  ASSUME NEW f \in Seq(Block), NEW n \in Nat, Ordered(f, n)
  PROVE  Ordered(f, n + 1)
<1>1. ASSUME NEW k \in 1 .. Len(f), PacketAt(f, k) PROVE f[k].id <= n + 1
  <2>1. f[k] \in Block /\ f[k].kind = "EPB"
    BY <1>1, SeqElement DEF PacketAt
  <2>2. f[k].id \in Nat
    BY <2>1 DEF Block, EPBs, DSBs
  <2> QED
    BY <1>1, <2>2 DEF Ordered
<1> QED
  BY <1>1 DEF Ordered

\* A disk failure leaves a prefix of the file, which is still ordered.
LEMMA DiskFailsOrder ==
  ASSUME TypeInv, OrderInv, released \in Nat, DiskFails
  PROVE  Ordered(file', released) /\ ngErr'
<1>1. PICK k \in flushed .. Len(file) : file' = SubSeq(file, 1, k)
  BY DEF DiskFails
<1>2. k \in 0 .. Len(file)
  BY <1>1 DEF TypeInv, TypeOK
<1>3. Ordered(file', released)
  BY <1>1, <1>2, OrderedPrefix DEF TypeInv, TypeOK, OrderInv
<1> QED
  BY <1>3 DEF DiskFails

\* A step that keeps the queues and the file, or after which the disk has failed
\* and only a prefix of the file is left, keeps the order.
LEMMA OrderFlush ==
  ASSUME TypeInv, OrderInv, NgFlush, UNCHANGED <<held, pending, packets>>
  PROVE  OrderInv'
<1>0. Len(held) \in Nat /\ released \in Nat /\ released' = released
  BY SeqLen DEF TypeInv, TypeOK, released
<1>1. CASE UNCHANGED <<file, ngErr>>
  BY <1>0, <1>1 DEF OrderInv
<1>2. CASE DiskFails
  BY <1>0, <1>2, DiskFailsOrder DEF OrderInv
<1> QED
  BY <1>1, <1>2 DEF NgFlush

\* Every step of the capture keeps its order, whoever takes it.
LEMMA OrderStep == TypeInv /\ TypeInv' /\ OrderInv /\ [Next]_vars => OrderInv'
<1> SUFFICES ASSUME TypeInv, TypeInv', OrderInv, [Next]_vars PROVE OrderInv'
  OBVIOUS
<1>0. /\ Len(held) \in Nat /\ Len(pending) \in Nat /\ packets \in Nat
      /\ released \in Nat /\ held \in Seq(Packet) /\ pending \in Seq(Secret)
  BY SeqLen DEF TypeInv, TypeOK, released
<1>a. ASSUME UNCHANGED <<held, pending, packets, file, ngErr>> PROVE OrderInv'
  BY <1>a DEF OrderInv, released
<1>1. ASSUME NEW len \in PacketLens, WritePacket(len) PROVE OrderInv'
  <2>1. CASE admits(epbSize(len))
    <3> DEFINE p == [id |-> packets + 1, len |-> len, age |-> 0]
    <3>1. /\ held' = Append(held, p) /\ packets' = packets + 1
          /\ UNCHANGED <<pending, file, ngErr>>
      BY <1>1, <2>1 DEF WritePacket, storage
    <3>2. p \in Packet
      BY <1>0, SizesAssumption DEF Packet
    <3>3. /\ Len(held') = Len(held) + 1 /\ held'[Len(held) + 1] = p
          /\ \A i \in 1 .. Len(held) : held'[i] = held[i]
      <4> HIDE DEF p
      <4> QED
        BY <1>0, <3>1, <3>2, Appended
    <3>4. released' = released
      BY <1>0, <3>1, <3>3 DEF released
    <3>5. p.id = released + (Len(held) + 1)
      BY <1>0 DEF released
    <3>6. \A i \in 1 .. Len(held') : held'[i].id = released' + i
      <4> HIDE DEF p
      <4> QED
        BY <1>0, <3>3, <3>4, <3>5 DEF OrderInv
    <3> QED
      BY <3>1, <3>4, <3>6 DEF OrderInv
  <2>2. CASE ~admits(epbSize(len))
    BY <1>1, <1>a, <2>2 DEF WritePacket, storage
  <2> QED
    BY <2>1, <2>2
<1>2. ASSUME NEW len \in LineLens, AddSecret(len) PROVE OrderInv'
  <2>0. UNCHANGED <<held, packets, file, ngErr>>
    BY <1>2 DEF AddSecret, storage
  <2>1. CASE admits(dsbSize(len + 1))
    <3> DEFINE l == [id |-> secrets + 1, len |-> len, after |-> packets - Len(held)]
    <3>1. pending' = Append(pending, l)
      BY <1>2, <2>1 DEF AddSecret
    <3>2. l \in Secret
      BY <1>0, SizesAssumption DEF Secret, TypeInv, TypeOK
    <3>3. /\ Len(pending') = Len(pending) + 1 /\ pending'[Len(pending) + 1] = l
          /\ \A i \in 1 .. Len(pending) : pending'[i] = pending[i]
      BY <1>0, <3>1, <3>2, SeqAppend
    <3>4. l.after = released /\ released' = released
      BY <2>0 DEF released
    <3>5. \A i \in 1 .. Len(pending') : pending'[i].after = released'
      <4> HIDE DEF l
      <4> QED
        BY <1>0, <3>3, <3>4 DEF OrderInv
    <3> QED
      BY <2>0, <3>4, <3>5 DEF OrderInv
  <2>2. CASE ~admits(dsbSize(len + 1))
    BY <1>2, <1>a, <2>0, <2>2 DEF AddSecret
  <2> QED
    BY <2>1, <2>2
<1>3. ASSUME NEW r \in Rooms, SetRoom(r) PROVE OrderInv'
  BY <1>3, <1>a DEF SetRoom, queue, storage, history
<1>4. CASE LiveEnds
  BY <1>4, <1>a DEF LiveEnds, queue, storage, history
<1>5. CASE notifyStop
  BY <1>5, <1>a DEF notifyStop, queue, storage
<1>6. CASE writeSecrets
  <2>1. /\ NgWrite(DSB(pending)) /\ pending' = <<>> /\ Len(<<>>) = 0
        /\ UNCHANGED <<held, packets>>
    BY <1>6, SeqEmpty DEF writeSecrets, history
  <2>2. released' = released
    BY <2>1 DEF released
  <2>3. Ordered(file', released) /\ (~ngErr' => Complete(file', released))
    <3>1. CASE UNCHANGED <<file, ngErr>>
      BY <3>1 DEF OrderInv
    <3>2. CASE file' = Append(file, DSB(pending)) /\ UNCHANGED ngErr
      BY <1>0, <3>2, OrderedSecrets, Zenon DEF OrderInv, TypeInv, TypeOK
    <3>3. CASE DiskFails
      BY <1>0, <3>3, DiskFailsOrder
    <3> QED
      BY <2>1, <3>1, <3>2, <3>3 DEF NgWrite
  <2> QED
    BY <2>1, <2>2, <2>3 DEF OrderInv
<1>7. CASE writeOldest
  <2> DEFINE p == Head(held)
  <2>1. /\ held # <<>> /\ pending = <<>> /\ NgWrite(EPB(p)) /\ held' = Tail(held)
        /\ UNCHANGED <<pending, packets>>
    BY <1>7 DEF writeOldest, popOldest, more, history
  <2>2. /\ p \in Packet /\ Len(held') = Len(held) - 1
        /\ \A i \in 1 .. Len(held') : held'[i] = held[i + 1]
    BY <1>0, <2>1, SeqTail
  <2>3. Len(held) >= 1 /\ p = held[1]
    BY <1>0, <2>1, SeqEmpty
  <2>4. p.id = released + 1 /\ released' = released + 1
    BY <1>0, <2>1, <2>2, <2>3 DEF OrderInv, released
  <2>5. Ordered(file', released') /\ (~ngErr' => Complete(file', released'))
    <3> HIDE DEF p
    <3>1. CASE ngErr /\ UNCHANGED <<file, ngErr>>
      BY <1>0, <2>4, <3>1, OrderedMore, Zenon DEF OrderInv, TypeInv, TypeOK
    <3>2. CASE ~ngErr /\ file' = Append(file, EPB(p))
      BY <1>0, <2>2, <2>4, <3>2, OrderedPacket, Zenon DEF OrderInv, TypeInv, TypeOK
    <3>3. CASE DiskFails
      <4>1. Ordered(file', released) /\ ngErr'
        BY <1>0, <3>3, DiskFailsOrder DEF DiskFails
      <4>2. file' \in Seq(Block)
        BY DEF TypeInv, TypeOK
      <4> QED
        BY <1>0, <2>4, <4>1, <4>2, OrderedMore
    <3> QED
      BY <2>1, <3>1, <3>2, <3>3 DEF NgWrite
  <2>6. \A i \in 1 .. Len(held') : held'[i].id = released' + i
    <3> SUFFICES ASSUME NEW i \in 1 .. Len(held') PROVE held'[i].id = released' + i
      OBVIOUS
    <3>1. i + 1 \in 1 .. Len(held) /\ held'[i] = held[i + 1]
      BY <1>0, <2>2
    <3>2. held[i + 1].id = released + (i + 1)
      BY <3>1 DEF OrderInv
    <3> QED
      BY <1>0, <2>4, <3>1, <3>2
  <2> QED
    BY <2>1, <2>5, <2>6, SeqEmpty DEF OrderInv
<1>8. CASE overflowDone
  BY <1>8, <1>a DEF overflowDone, queue, storage, history
<1>9. CASE drain
  BY <1>9, <1>a DEF drain, queue, storage, history
<1>10. CASE drainDone
  BY <1>10, OrderFlush DEF drainDone, queue, history
<1>11. CASE drainExit
  BY <1>11, <1>a DEF drainExit, queue, storage, history
<1>12. CASE Close
  BY <1>12, <1>a DEF Close, queue, storage, history
<1>13. CASE closeLocked
  BY <1>13, <1>a DEF closeLocked, takeLockToClose, queue, storage, history
<1>14. CASE closeDone
  BY <1>14, OrderFlush DEF closeDone, queue, history
<1>15. CASE Tick
  <2>1. /\ Len(held') = Len(held)
        /\ \A i \in 1 .. Len(held) : held'[i].id = held[i].id
    BY <1>0, <1>15, TickType
  <2>2. UNCHANGED <<pending, packets, file, ngErr>>
    BY <1>15 DEF Tick, storage, history
  <2> QED
    BY <2>1, <2>2 DEF OrderInv, released
<1>16. CASE UNCHANGED vars
  BY <1>16, <1>a DEF vars, queue, storage, history
<1> QED
  BY <1>1, <1>2, <1>3, <1>4, <1>5, <1>6, <1>7, <1>8, <1>9, <1>10, <1>11, <1>12,
     <1>13, <1>14, <1>15, <1>16 DEF Next

\* Hence a capture is always in order.
LEMMA OrderAlways == Spec => [](TypeInv /\ OrderInv)
<1>1. TypeInv /\ OrderInv /\ [Next]_vars => (TypeInv /\ OrderInv)'
  BY TypingStep, OrderStep
<1> QED
  BY <1>1, TypingInit, OrderInit, PTL DEF Spec

\* The promise on Writer: a keylog line's block precedes every packet that was
\* still held when the line came, whatever WritePacket, the drain, Close and a
\* failing disk interleave.
THEOREM SecretsFirst == Spec => []SecretsPrecedeHeldPackets
<1>1. TypeInv /\ OrderInv => SecretsPrecedeHeldPackets
  BY SeqLen DEF TypeInv, TypeOK, OrderInv, Ordered, PacketAt, SecretsAt,
     SecretsPrecedeHeldPackets, IsEPB, IsDSB
<1> QED
  BY <1>1, OrderAlways, PTL

\* Packets are written in the order of their admission, each once and with no
\* gap, and all of them that left the hold queue unless the disk failed.
THEOREM PacketOrder == Spec => []PacketsInOrderOnce
<1>1. TypeInv /\ OrderInv => PacketsInOrderOnce
  <2> SUFFICES ASSUME TypeInv, OrderInv PROVE PacketsInOrderOnce
    OBVIOUS
  <2>1. DOMAIN file = 1 .. Len(file)
    BY SeqLen DEF TypeInv, TypeOK
  <2>2. Ordered(file, released) /\ (~ngErr => Complete(file, released))
    BY DEF OrderInv
  <2>3. \A i, j \in DOMAIN file : i < j /\ IsEPB(i) /\ IsEPB(j) => file[i].id < file[j].id
    BY <2>1, <2>2 DEF Ordered, PacketAt, IsEPB
  <2>4. \A j \in DOMAIN file : IsEPB(j) =>
         \A p \in 1 .. file[j].id : \E i \in 1 .. j : IsEPB(i) /\ file[i].id = p
    BY <2>1, <2>2 DEF Ordered, PacketAt, IsEPB
  <2>5. ~ngErr => \A p \in 1 .. released : \E i \in DOMAIN file : IsEPB(i) /\ file[i].id = p
    BY <2>1, <2>2 DEF Complete, PacketAt, IsEPB
  <2> QED
    BY <2>3, <2>4, <2>5 DEF PacketsInOrderOnce
<1> QED
  BY <1>1, OrderAlways, PTL

-----------------------------------------------------------------------------
(* Stopping and closing.                                                   *)

\* Once capture has stopped nothing more is admitted, whatever room is set.
THEOREM StopFinal == Spec => StopIsForGood
<1> DEFINE A == stopped => /\ stopped'
                           /\ packets' = packets /\ secrets' = secrets /\ admitted' = admitted
<1>1. [Next]_vars => A
  <2> SUFFICES ASSUME [Next]_vars, stopped PROVE A
    OBVIOUS
  <2>1. ASSUME NEW len \in PacketLens, WritePacket(len) PROVE A
    BY <2>1 DEF WritePacket, refuse, admits
  <2>2. ASSUME NEW len \in LineLens, AddSecret(len) PROVE A
    BY <2>2 DEF AddSecret, refuse, admits
  <2>3. ASSUME NEW r \in Rooms, SetRoom(r) PROVE A
    BY <2>3 DEF SetRoom, history
  <2>4. CASE LiveEnds \/ notifyStop
    BY <2>4, Zenon DEF LiveEnds, notifyStop, limit, history
  <2>5. CASE writeSecrets \/ writeOldest \/ overflowDone
    BY <2>5, Zenon DEF writeSecrets, writeOldest, popOldest, overflowDone, limit, history
  <2>6. CASE drain \/ drainDone \/ drainExit
    BY <2>6, Zenon DEF drain, drainDone, drainExit, limit, history
  <2>7. CASE Close \/ closeLocked \/ closeDone
    BY <2>7, Zenon DEF Close, closeLocked, takeLockToClose, closeDone, limit, history
  <2>8. CASE Tick \/ UNCHANGED vars
    BY <2>8, Zenon DEF Tick, vars, limit, history
  <2> QED
    BY <2>1, <2>2, <2>3, <2>4, <2>5, <2>6, <2>7, <2>8 DEF Next
<1>2. [Next]_vars => [A]_vars
  BY <1>1
<1> QED
  BY <1>2, PTL DEF Spec, StopIsForGood

\* OnStop is called once for a stop, and never without one.
THEOREM NotifiedOnceAlways == Spec => []NotifiedOnce
<1>1. Init => NotifiedOnce
  BY DEF Init, NotifiedOnce
<1>2. TypeInv /\ NotifiedOnce /\ [Next]_vars => NotifiedOnce'
  <2> SUFFICES ASSUME TypeInv, NotifiedOnce, [Next]_vars PROVE NotifiedOnce'
    OBVIOUS
  <2>0. stopped \in BOOLEAN /\ notices \in Nat
    BY DEF TypeInv, TypeOK
  <2> USE DEF NotifiedOnce
  <2>1. ASSUME NEW len \in PacketLens, WritePacket(len) PROVE NotifiedOnce'
    <3>1. live = "reading" /\ UNCHANGED <<sink, notices>>
      BY <2>1 DEF WritePacket
    <3>2. \/ UNCHANGED <<stopped, live>>
          \/ stopped' = TRUE /\ live' = IF stopped THEN "done" ELSE "notifying"
      BY <2>1 DEF WritePacket, refuse, afterRefusal
    <3> QED
      BY <2>0, <3>1, <3>2
  <2>2. ASSUME NEW len \in LineLens, AddSecret(len) PROVE NotifiedOnce'
    <3>1. sink = "idle" /\ UNCHANGED <<live, notices>>
      BY <2>2 DEF AddSecret
    <3>2. \/ UNCHANGED <<stopped, sink>>
          \/ stopped' = TRUE /\ sink' = IF stopped THEN "idle" ELSE "notifying"
      BY <2>2 DEF AddSecret, refuse, afterRefusal
    <3> QED
      BY <2>0, <3>1, <3>2
  <2>3. ASSUME NEW r \in Rooms, SetRoom(r) PROVE NotifiedOnce'
    BY <2>3 DEF SetRoom, threads, history
  <2>4. CASE LiveEnds
    BY <2>4 DEF LiveEnds, limit, history
  <2>5. CASE notifyStop
    <3>1. notices' = notices + 1 /\ UNCHANGED stopped
      BY <2>5 DEF notifyStop, limit
    <3>2. CASE live = "notifying" /\ live' = "done" /\ UNCHANGED sink
      BY <2>0, <3>1, <3>2
    <3>3. CASE sink = "notifying" /\ sink' = "idle" /\ UNCHANGED live
      BY <2>0, <3>1, <3>3
    <3> QED
      BY <2>5, <3>2, <3>3 DEF notifyStop
  <2>6. CASE writeSecrets \/ writeOldest \/ overflowDone
    <3>1. UNCHANGED <<stopped, live, sink, notices>>
      BY <2>6 DEF writeSecrets, writeOldest, popOldest, overflowDone, limit, threads, history
    <3> QED
      BY <3>1
  <2>7. CASE drain \/ drainDone \/ drainExit
    <3>1. UNCHANGED <<stopped, live, sink, notices>>
      BY <2>7 DEF drain, drainDone, drainExit, limit, threads, history
    <3> QED
      BY <3>1
  <2>8. CASE Close \/ closeLocked \/ closeDone
    BY <2>8 DEF Close, closeLocked, takeLockToClose, closeDone, limit, history
  <2>9. CASE Tick \/ UNCHANGED vars
    <3>1. UNCHANGED <<stopped, live, sink, notices>>
      BY <2>9 DEF Tick, vars, limit, threads, history
    <3> QED
      BY <3>1
  <2> QED
    BY <2>1, <2>2, <2>3, <2>4, <2>5, <2>6, <2>7, <2>8, <2>9 DEF Next
<1>3. Spec => []TypeInv
  BY TypingInit, TypingStep, PTL DEF Spec
<1> QED
  BY <1>1, <1>2, <1>3, PTL DEF Spec

\* Who can still reach the file.  A closed file is out of reach because the
\* drain has returned, Close finds it closed, and WritePacket is refused or no
\* longer called.
ControlInv ==
  /\ mu = "live" => live = "reading" /\ ~stopped
  /\ mu = "drain" => drainer = "ticking"
  /\ mu = "close" => drainer = "exited" /\ closer = "waiting"
  /\ closer # "idle" => live = "done"
  /\ closed => /\ mu = "free" /\ drainer = "exited"
               /\ stopped \/ live = "done"
               /\ ~ngErr => held = <<>> /\ flushed = Len(file)

\* Every step keeps ControlInv: who may hold the lock, and what is left when the
\* file is closed.
LEMMA ControlStep == TypeInv /\ ControlInv /\ [Next]_vars => ControlInv'
<1> SUFFICES ASSUME TypeInv, ControlInv, [Next]_vars PROVE ControlInv'
  OBVIOUS
<1>1. ASSUME NEW len \in PacketLens, WritePacket(len) PROVE ControlInv'
  <2>1. live = "reading" /\ mu = "free" /\ UNCHANGED <<closed, file, flushed, ngErr, drainer, closer>>
    BY <1>1 DEF WritePacket, storage
  <2>2. \/ ~stopped /\ mu' \in {"live", "free"} /\ UNCHANGED <<stopped, live>>
        \/ stopped' = TRUE /\ UNCHANGED <<mu, held>>
    BY <1>1 DEF WritePacket, admits, refuse
  <2>3. closer = "idle" /\ (closed => stopped)
    BY <2>1 DEF ControlInv
  <2> QED
    BY <2>1, <2>2, <2>3 DEF ControlInv
<1>2. ASSUME NEW len \in LineLens, AddSecret(len) PROVE ControlInv'
  <2>1. mu = "free" /\ UNCHANGED <<held, closed, file, flushed, ngErr, mu, live, drainer, closer>>
    BY <1>2 DEF AddSecret, storage, lock
  <2>2. stopped' = TRUE \/ stopped' = stopped
    BY <1>2 DEF AddSecret, refuse
  <2> QED
    BY <2>1, <2>2 DEF ControlInv
<1> USE DEF ControlInv, TypeInv, TypeOK
<1>3. ASSUME NEW r \in Rooms, SetRoom(r) PROVE ControlInv'
  BY <1>3 DEF SetRoom, queue, storage, lock, threads
<1>4. CASE LiveEnds
  BY <1>4 DEF LiveEnds, queue, limit, storage, lock
<1>5. CASE notifyStop
  BY <1>5 DEF notifyStop, queue, limit, storage, lock
<1>6. CASE writeSecrets
  BY <1>6 DEF writeSecrets, limit, lock, threads
<1>7. CASE writeOldest
  BY <1>7 DEF writeOldest, popOldest, more, limit, threads
<1>8. CASE overflowDone
  BY <1>8 DEF overflowDone, queue, limit, storage, threads
<1>9. CASE drain
  BY <1>9 DEF drain, queue, limit, storage, threads
<1>10. CASE drainDone
  <2>1. ~ngErr' => flushed' = Len(file')
    BY <1>10, FlushFlushes DEF drainDone
  <2> QED
    BY <1>10, <2>1 DEF drainDone, settled, queue, limit
<1>11. CASE drainExit
  BY <1>11 DEF drainExit, queue, limit, storage, lock
<1>12. CASE Close
  BY <1>12 DEF Close, queue, limit, storage, lock
<1>13. CASE closeLocked
  BY <1>13 DEF closeLocked, takeLockToClose, queue, limit, storage
<1>14. CASE closeDone
  <2>1. ~ngErr' => flushed' = Len(file')
    BY <1>14, FlushFlushes DEF closeDone
  <2> QED
    BY <1>14, <2>1 DEF closeDone, writeHeldDone, more, queue, limit
<1>15. CASE Tick
  <2>1. held = <<>> => held' = <<>>
    BY <1>15, TickType, SeqEmpty
  <2> QED
    BY <1>15, <2>1 DEF Tick, limit, storage, lock, threads
<1>16. CASE UNCHANGED vars
  BY <1>16 DEF vars, queue, limit, storage, lock, threads
<1> QED
  BY <1>1, <1>2, <1>3, <1>4, <1>5, <1>6, <1>7, <1>8, <1>9, <1>10, <1>11, <1>12,
     <1>13, <1>14, <1>15, <1>16, Zenon DEF Next

\* Hence it always holds.
LEMMA ControlAlways == Spec => [](TypeInv /\ ControlInv)
<1>1. Init => ControlInv
  BY DEF Init, ControlInv
<1>2. TypeInv /\ ControlInv /\ [Next]_vars => (TypeInv /\ ControlInv)'
  BY TypingStep, ControlStep
<1> QED
  BY <1>1, <1>2, TypingInit, PTL DEF Spec

\* A closed capture has everything that was admitted, on disk, unless the disk
\* failed.
THEOREM ClosedComplete == Spec => []ClosedIsComplete
<1>1. ControlInv => ClosedIsComplete
  BY DEF ControlInv, ClosedIsComplete
<1> QED
  BY <1>1, ControlAlways, PTL

\* Nothing is written to the file once it is closed, and it stays closed.
THEOREM ClosedFinal == Spec => NoWriteAfterClose
<1> DEFINE A == closed => closed' /\ UNCHANGED <<file, flushed>>
<1>1. ControlInv /\ [Next]_vars => [A]_vars
  <2> SUFFICES ASSUME ControlInv, [Next]_vars, closed PROVE closed' /\ UNCHANGED <<file, flushed>>
    OBVIOUS
  <2>0. mu = "free"
    BY DEF ControlInv
  <2>1. CASE \/ \E len \in PacketLens : WritePacket(len)
             \/ \E len \in LineLens : AddSecret(len)
             \/ \E r \in Rooms : SetRoom(r)
    BY <2>1, Zenon DEF WritePacket, AddSecret, SetRoom, storage
  <2>2. CASE LiveEnds \/ notifyStop \/ drain \/ drainExit \/ Close \/ closeLocked \/ Tick
    BY <2>2, Zenon DEF LiveEnds, notifyStop, drain, drainExit, Close, closeLocked, takeLockToClose, Tick, storage
  <2>3. CASE writeSecrets \/ writeOldest \/ overflowDone \/ drainDone \/ closeDone
    BY <2>0, <2>3 DEF writeSecrets, writeOldest, popOldest, more, overflowDone, drainDone, closeDone
  <2>4. CASE UNCHANGED vars
    BY <2>4 DEF vars, storage
  <2> QED
    BY <2>1, <2>2, <2>3, <2>4 DEF Next
<1> QED
  BY <1>1, ControlAlways, PTL DEF Spec, NoWriteAfterClose

-----------------------------------------------------------------------------
(* The Writer implements CaptureLog.                                       *)

\* A write leaves something in the buffer, or has failed.
LEMMA WriteUnsynced ==
  ASSUME TypeInv, NEW b \in Block, NgWrite(b)
  PROVE  /\ ~(~ngErr' /\ flushed' = Len(file'))
         /\ ngErr' \in {ngErr, ngErr \/ DiskMayFail}
<1> USE DEF TypeInv, TypeOK
<1>1. CASE ngErr /\ UNCHANGED <<file, flushed, ngErr>>
  BY <1>1
<1>2. CASE file' = Append(file, b) /\ UNCHANGED <<flushed, ngErr>>
  <2>1. Len(file') = Len(file) + 1 /\ Len(file) \in Nat
    BY <1>2, SeqAppend, SeqLen
  <2>2. flushed' # Len(file')
    BY <1>2, <2>1
  <2> QED
    BY <1>2, <2>2
<1>3. CASE DiskFails
  BY <1>3, Zenon DEF DiskFails
<1> QED
  BY <1>1, <1>2, <1>3 DEF NgWrite

\* A flush syncs the log, or the log is lost.
LEMMA FlushSyncs ==
  ASSUME TypeInv, NgFlush
  PROVE  /\ (~ngErr' /\ flushed' = Len(file')) = ~ngErr'
         /\ ngErr' \in {ngErr, ngErr \/ DiskMayFail}
<1>1. ~ngErr' => flushed' = Len(file')
  BY FlushFlushes DEF TypeInv, TypeOK
<1>2. ngErr' \in {ngErr, ngErr \/ DiskMayFail}
  BY Zenon DEF NgFlush, DiskFails, TypeInv, TypeOK
<1> QED
  BY <1>1, <1>2

\* Every step of the Writer is a step of the log or leaves it as it is.
LEMMA LogStep == TypeInv /\ TypeInv' /\ ControlInv /\ [Next]_vars => [Log!Next]_(Log!vars)
<1> SUFFICES ASSUME TypeInv, TypeInv', ControlInv, [Next]_vars
             PROVE  Log!Next \/ UNCHANGED Log!vars
  OBVIOUS
<1>a. /\ held \in Seq(Packet) /\ pending \in Seq(Secret)
      /\ held' \in Seq(Packet) /\ pending' \in Seq(Secret)
      /\ packets \in Nat /\ secrets \in Nat /\ Len(held) <= packets
  BY DEF TypeInv, TypeOK
<1>0. /\ Len(held) \in Nat /\ Len(pending) \in Nat
      /\ Len(held') \in Nat /\ Len(pending') \in Nat
  BY <1>a, SeqLen
<1>1. ASSUME NEW len \in PacketLens, WritePacket(len)
      PROVE  Log!Next \/ UNCHANGED Log!vars
  <2>1. CASE admits(epbSize(len))
    <3>1. Len(held') = Len(held) + 1
      <4> DEFINE p == [id |-> packets + 1, len |-> len, age |-> 0]
      <4>1. p \in Packet
        BY <1>a, SizesAssumption DEF Packet
      <4>2. held' = Append(held, p)
        BY <1>1, <2>1 DEF WritePacket
      <4> HIDE DEF p
      <4> QED
        BY <1>a, <4>1, <4>2, Appended
    <3>2. ~stopped /\ ~closed
      BY <1>1, <2>1 DEF WritePacket, admits, ControlInv
    <3>3. /\ packets < MaxPackets /\ packets' = packets + 1
          /\ UNCHANGED <<secrets, pending, stopped, closed, file, flushed, ngErr>>
      BY <1>1, <2>1 DEF WritePacket, storage
    <3>4. packets' - Len(held') = packets - Len(held)
      BY <1>0, <1>a, <3>1, <3>3
    <3>5. Log!TakePacket
      BY <3>2, <3>3, <3>4 DEF Log!TakePacket
    <3> QED
      BY <3>5 DEF Log!Next
  <2>2. CASE ~admits(epbSize(len))
    BY <1>1, <2>2, Zenon DEF WritePacket, refuse, storage, Log!Refuse, Log!Next, Log!vars
  <2> QED
    BY <2>1, <2>2
<1>2. ASSUME NEW len \in LineLens, AddSecret(len)
      PROVE  Log!Next \/ UNCHANGED Log!vars
  <2>1. CASE admits(dsbSize(len + 1))
    <3> DEFINE s == [id |-> secrets + 1, len |-> len, after |-> packets - Len(held)]
    <3>1. s \in Secret
      <4>1. packets - Len(held) \in Nat /\ secrets + 1 \in Nat /\ len \in Nat
        BY <1>0, <1>a, SizesAssumption
      <4> QED
        BY <4>1 DEF Secret
    <3>2. pending' = Append(pending, s)
      BY <1>2, <2>1 DEF AddSecret
    <3>3. Len(pending') = Len(pending) + 1
      <4> HIDE DEF s
      <4> QED
        BY <1>a, <3>1, <3>2, Appended
    <3>4. /\ ~stopped /\ secrets < MaxSecrets /\ secrets' = secrets + 1
          /\ UNCHANGED <<packets, held, stopped, closed, file, flushed, ngErr>>
      BY <1>2, <2>1 DEF AddSecret, admits, storage
    <3>5. secrets' - Len(pending') = secrets - Len(pending)
      BY <1>0, <1>a, <3>3, <3>4
    <3>6. Log!TakeSecret
      BY <3>4, <3>5 DEF Log!TakeSecret
    <3> QED
      BY <3>6 DEF Log!Next
  <2>2. CASE ~admits(dsbSize(len + 1))
    BY <1>2, <2>2, Zenon DEF AddSecret, refuse, storage, Log!Refuse, Log!Next, Log!vars
  <2> QED
    BY <2>1, <2>2
<1>3. CASE writeSecrets
  <2>1. DSB(pending) \in Block
    BY <1>a DEF DSB, Block, DSBs
  <2>2. ~closed
    BY <1>3 DEF writeSecrets, ControlInv
  <2>3. /\ ~(~ngErr' /\ flushed' = Len(file'))
        /\ ngErr' \in {ngErr, ngErr \/ DiskMayFail}
    BY <1>3, <2>1, WriteUnsynced DEF writeSecrets
  <2>4. Len(pending) > 0 /\ Len(pending') = 0
    <3>1. pending # <<>> /\ pending' = <<>>
      BY <1>3 DEF writeSecrets
    <3> QED
      BY <1>0, <1>a, <3>1, SeqEmpty
  <2>5. Log!Written
    BY <1>3, <2>2, <2>3 DEF writeSecrets, limit, history, Log!Written
  <2>6. Log!WriteSecrets
    <3>1. UNCHANGED <<secrets, packets, held>>
      BY <1>3 DEF writeSecrets, history
    <3>2. /\ secrets - Len(pending) < secrets /\ secrets' - Len(pending') = secrets
          /\ UNCHANGED (packets - Len(held))
      BY <1>0, <1>a, <2>4, <3>1
    <3> QED
      BY <2>5, <3>2 DEF Log!WriteSecrets
  <2> QED
    BY <2>6 DEF Log!Next
<1>4. CASE writeOldest
  <2>1. held # <<>> /\ mu # "free"
    BY <1>4 DEF writeOldest, popOldest, more
  <2>2. Head(held) \in Packet /\ Len(held') = Len(held) - 1
    BY <1>4, <1>a, <2>1, SeqTail DEF writeOldest, popOldest
  <2>3. EPB(Head(held)) \in Block
    BY <2>2 DEF EPB, Block, EPBs, Packet
  <2>4. ~closed
    BY <2>1 DEF ControlInv
  <2>5. /\ ~(~ngErr' /\ flushed' = Len(file'))
        /\ ngErr' \in {ngErr, ngErr \/ DiskMayFail}
    BY <1>4, <2>3, WriteUnsynced DEF writeOldest, popOldest
  <2>6. Len(pending) = 0 /\ pending' = pending /\ Len(held) > 0
    <3>1. pending = <<>> /\ pending' = pending
      BY <1>4 DEF writeOldest, popOldest
    <3> QED
      BY <1>0, <1>a, <2>1, <3>1, SeqEmpty
  <2>7. Log!Written
    BY <1>4, <2>4, <2>5 DEF writeOldest, popOldest, limit, history, Log!Written
  <2>8. Log!WriteOldest
    <3>1. UNCHANGED <<secrets, packets>>
      BY <1>4 DEF writeOldest, popOldest, history
    <3>2. /\ secrets - Len(pending) = secrets /\ packets - Len(held) < packets
          /\ packets' - Len(held') = packets - Len(held) + 1
          /\ UNCHANGED (secrets - Len(pending))
      BY <1>0, <1>a, <2>2, <2>6, <3>1
    <3> QED
      BY <2>7, <3>2 DEF Log!WriteOldest
  <2> QED
    BY <2>8 DEF Log!Next
<1>5. CASE drainDone \/ closeDone
  <2> USE DEF TypeInv, TypeOK
  <2>1. /\ (~ngErr' /\ flushed' = Len(file')) = ~ngErr'
        /\ ngErr' \in {ngErr, ngErr \/ DiskMayFail}
    BY <1>5, FlushSyncs DEF drainDone, closeDone
  <2>2. ~closed /\ closed' \in BOOLEAN
    BY <1>5 DEF drainDone, closeDone, ControlInv
  <2>3. closed' => held = <<>> /\ pending = <<>>
    BY <1>5, <2>2, Zenon DEF drainDone, closeDone, settled, writeHeldDone, more
  <2>4. closed' => Len(held) = 0 /\ Len(pending) = 0
    BY <2>3, SeqEmpty
  <2>5. UNCHANGED <<packets, secrets, held, pending, stopped>>
    BY <1>5 DEF drainDone, closeDone, queue, limit, history
  <2>6. closed' => packets - Len(held) = packets /\ secrets - Len(pending) = secrets
    BY <2>4
  <2>7. UNCHANGED <<packets - Len(held), secrets - Len(pending)>>
    BY <2>5
  <2>8. Log!Sync(closed')
    BY <2>1, <2>2, <2>5, <2>6, <2>7, Zenon DEF Log!Sync
  <2> QED
    BY <2>2, <2>8 DEF Log!Next
<1>6. CASE Tick
  <2>1. Len(held') = Len(held)
    BY <1>6, TickType DEF TypeInv, TypeOK
  <2> QED
    BY <1>6, <2>1 DEF Tick, limit, storage, history, Log!vars
<1>7. CASE \/ \E r \in Rooms : SetRoom(r)
           \/ LiveEnds \/ notifyStop \/ overflowDone \/ drain
           \/ drainExit \/ Close \/ closeLocked \/ UNCHANGED vars
  <2>1. UNCHANGED <<packets, secrets, held, pending, stopped, closed, file, flushed, ngErr>>
    BY <1>7 DEF SetRoom, LiveEnds, notifyStop, overflowDone, drain, drainExit, Close,
                closeLocked, takeLockToClose, vars, queue, limit, storage, history
  <2> QED
    BY <2>1 DEF Log!vars
<1> QED
  BY <1>1, <1>2, <1>3, <1>4, <1>5, <1>6, <1>7 DEF Next

\* The Writer implements the log CaptureLog promises, for every hold window,
\* queue cap, room, block size and disk behaviour.
THEOREM Implementation == Spec => ImplementsLog
<1>1. Init => Log!Init
  <2> SUFFICES ASSUME Init PROVE Log!Init
    OBVIOUS
  <2>1. Len(held) = 0 /\ Len(pending) = 0 /\ Len(file) = 0
    BY SeqEmpty DEF Init
  <2>2. packets - Len(held) = 0 /\ secrets - Len(pending) = 0
    <3>1. packets = 0 /\ secrets = 0
      BY DEF Init
    <3> QED
      BY <2>1, <3>1
  <2>3. (~ngErr /\ flushed = Len(file)) = TRUE
    BY <2>1 DEF Init
  <2> QED
    BY <2>2, <2>3, Zenon DEF Init, Log!Init
<1>2. Spec => []TypeInv
  BY TypingInit, TypingStep, PTL DEF Spec
<1>3. Spec => []ControlInv
  BY ControlAlways, PTL
<1> QED
  BY <1>1, <1>2, <1>3, LogStep, PTL DEF Spec, ImplementsLog, Log!Spec

-----------------------------------------------------------------------------
(* Lines are kept once: the pending lines continue the lines already       *)
(* written, which are those up to written.                                 *)

written == secrets - Len(pending)

LineAt(f, k, l, s) == k \in 1 .. Len(f) /\ f[k].kind = "DSB" /\ l \in 1 .. Len(f[k].lines) /\ f[k].lines[l].id = s

\* The lines in f are numbered up to n.
Upto(f, n) == \A k, l, s : LineAt(f, k, l, s) => s <= n

\* Every line up to n is in f.
Has(f, n) == \A s \in 1 .. n : \E k, l : LineAt(f, k, l, s)

OnceInv ==
  /\ written >= 0
  /\ \A l \in 1 .. Len(pending) : pending[l].id = written + l
  /\ Upto(file, written)
  /\ ~ngErr => Has(file, written)

\* A write or flush that fails leaves fewer lines, never others.
LEMMA DiskFailsOnce ==
  ASSUME TypeInv, DiskFails, NEW n, Upto(file, n)
  PROVE  Upto(file', n) /\ ngErr'
<1>1. PICK k \in flushed .. Len(file) : file' = SubSeq(file, 1, k)
  BY DEF DiskFails
<1>2. k \in 0 .. Len(file) /\ file \in Seq(Block) /\ Len(file) \in Nat
  BY <1>1, SeqLen DEF TypeInv, TypeOK
<1>3. Len(file') = k /\ \A i \in 1 .. k : file'[i] = file[i]
  BY <1>1, <1>2, Prefix
<1>4. \A i, l, s : LineAt(file', i, l, s) => LineAt(file, i, l, s)
  <2>1. \A i \in 1 .. Len(file') : i \in 1 .. Len(file) /\ file'[i] = file[i]
    BY <1>2, <1>3
  <2> QED
    BY <2>1, Zenon DEF LineAt
<1> QED
  BY <1>4 DEF DiskFails, Upto

\* A packet's block changes nothing about lines, and a block of lines adds its own.
LEMMA AppendLines ==
  ASSUME NEW f \in Seq(Block), NEW b \in Block, NEW g, g = Append(f, b)
  PROVE  \A k, l, s : LineAt(g, k, l, s) <=>
           \/ LineAt(f, k, l, s)
           \/ k = Len(f) + 1 /\ b.kind = "DSB" /\ l \in 1 .. Len(b.lines) /\ b.lines[l].id = s
<1>1. Len(f) \in Nat /\ Len(g) = Len(f) + 1 /\ g[Len(f) + 1] = b /\ \A i \in 1 .. Len(f) : g[i] = f[i]
  BY Appended
<1> SUFFICES ASSUME NEW k, NEW l, NEW s
             PROVE  LineAt(g, k, l, s) <=>
                      \/ LineAt(f, k, l, s)
                      \/ k = Len(f) + 1 /\ b.kind = "DSB" /\ l \in 1 .. Len(b.lines) /\ b.lines[l].id = s
  OBVIOUS
<1>2. CASE k \in 1 .. Len(f)
  <2>1. k \in 1 .. Len(g) /\ g[k] = f[k] /\ k # Len(f) + 1
    BY <1>1, <1>2
  <2> QED
    BY <1>2, <2>1, Zenon DEF LineAt
<1>3. CASE k = Len(f) + 1
  <2>1. k \in 1 .. Len(g) /\ k \notin 1 .. Len(f) /\ g[k] = b
    BY <1>1, <1>3
  <2> QED
    BY <1>3, <2>1, Zenon DEF LineAt
<1>4. CASE k \notin 1 .. Len(f) /\ k # Len(f) + 1
  <2>1. k \notin 1 .. Len(g)
    BY <1>1, <1>4
  <2> QED
    BY <1>4, <2>1, Zenon DEF LineAt
<1> QED
  BY <1>2, <1>3, <1>4, Zenon

\* Every step keeps OnceInv: a line leaves the pending ones only into the file.
LEMMA OnceStep == TypeInv /\ OnceInv /\ [Next]_vars => OnceInv'
<1> SUFFICES ASSUME TypeInv, OnceInv, [Next]_vars PROVE OnceInv'
  OBVIOUS
<1>c. pending \in Seq(Secret) /\ secrets \in Nat /\ file \in Seq(Block) /\ ngErr \in BOOLEAN
  BY DEF TypeInv, TypeOK
<1>d. Len(pending) \in Nat /\ written >= 0
  BY <1>c, SeqLen DEF OnceInv
<1>0. /\ Len(pending) \in Nat /\ secrets \in Nat /\ written \in Nat
      /\ pending \in Seq(Secret) /\ file \in Seq(Block) /\ ngErr \in BOOLEAN
  BY <1>c, <1>d DEF written
<1>a. ASSUME UNCHANGED <<pending, secrets, file, ngErr>> PROVE OnceInv'
  BY <1>a DEF OnceInv, written
<1>b. ASSUME UNCHANGED <<pending, secrets>>, DiskFails PROVE OnceInv'
  <2>1. Upto(file', written) /\ ngErr'
    BY <1>b, DiskFailsOnce DEF OnceInv
  <2> QED
    BY <1>b, <2>1 DEF OnceInv, written
<1>1. ASSUME NEW len \in PacketLens, WritePacket(len) PROVE OnceInv'
  BY <1>1, <1>a DEF WritePacket, storage
<1>2. ASSUME NEW len \in LineLens, AddSecret(len) PROVE OnceInv'
  <2>0. UNCHANGED <<file, ngErr>>
    BY <1>2 DEF AddSecret, storage
  <2>1. CASE admits(dsbSize(len + 1))
    <3> DEFINE x == [id |-> secrets + 1, len |-> len, after |-> packets - Len(held)]
    <3>1. pending' = Append(pending, x) /\ secrets' = secrets + 1
      BY <1>2, <2>1 DEF AddSecret
    <3>2. x \in Secret
      <4>1. held \in Seq(Packet) /\ packets \in Nat /\ Len(held) <= packets
        BY DEF TypeInv, TypeOK
      <4>2. packets - Len(held) \in Nat /\ secrets + 1 \in Nat /\ len \in Nat
        BY <1>0, <4>1, SeqLen, SizesAssumption
      <4> QED
        BY <4>2 DEF Secret
    <3>3. /\ Len(pending') = Len(pending) + 1 /\ pending'[Len(pending) + 1] = x
          /\ \A i \in 1 .. Len(pending) : pending'[i] = pending[i]
      <4> HIDE DEF x
      <4> QED
        BY <1>0, <3>1, <3>2, Appended
    <3>4. x.id = written + (Len(pending) + 1) /\ written' = written
      <4>1. x.id = secrets + 1
        OBVIOUS
      <4> HIDE DEF x
      <4> QED
        BY <1>0, <3>1, <3>3, <4>1 DEF written
    <3> HIDE DEF x
    <3>5. \A i \in 1 .. Len(pending') : pending'[i].id = written' + i
      <4>1. \A i \in 1 .. Len(pending) : pending[i].id = written + i
        BY DEF OnceInv
      <4> SUFFICES ASSUME NEW i \in 1 .. Len(pending') PROVE pending'[i].id = written' + i
        OBVIOUS
      <4>2. CASE i = Len(pending) + 1
        <5>1. pending'[i] = x
          BY <3>3, <4>2
        <5> QED
          BY <3>4, <4>2, <5>1
      <4>3. CASE i \in 1 .. Len(pending)
        <5>1. pending'[i] = pending[i]
          BY <3>3, <4>3
        <5> QED
          BY <3>4, <4>1, <4>3, <5>1
      <4>4. i = Len(pending) + 1 \/ i \in 1 .. Len(pending)
        BY <1>0, <3>3
      <4> QED
        BY <4>2, <4>3, <4>4
    <3>6. written' >= 0
      BY <1>0, <3>4
    <3>7. Upto(file, written)' /\ (~ngErr => Has(file, written))'
      BY <2>0, <3>4 DEF OnceInv
    <3> QED
      BY <3>5, <3>6, <3>7 DEF OnceInv
  <2>2. CASE ~admits(dsbSize(len + 1))
    BY <1>2, <1>a, <2>0, <2>2 DEF AddSecret
  <2> QED
    BY <2>1, <2>2
<1>3. CASE \E r \in Rooms : SetRoom(r)
  BY <1>3, <1>a DEF SetRoom, queue, storage, history
<1>4. CASE LiveEnds \/ notifyStop \/ overflowDone \/ drain \/ drainExit \/ Close \/ closeLocked
  BY <1>4, <1>a DEF LiveEnds, notifyStop, overflowDone, drain, drainExit, Close, closeLocked,
                    takeLockToClose, queue, storage, history
<1>5. CASE writeSecrets
  <2>1. /\ NgWrite(DSB(pending)) /\ pending' = <<>> /\ Len(<<>>) = 0
        /\ UNCHANGED secrets
    BY <1>5, SeqEmpty DEF writeSecrets, history
  <2>2. written' = secrets /\ written + Len(pending) = secrets
    BY <1>0, <2>1 DEF written
  <2>a. ASSUME Upto(file', secrets), ~ngErr' => Has(file', secrets) PROVE OnceInv'
    <3>1. written' >= 0
      BY <1>0, <2>2
    <3>2. 1 .. Len(pending') = {}
      BY <2>1
    <3>3. Upto(file, written)' /\ (~ngErr => Has(file, written))'
      BY <2>2, <2>a
    <3> QED
      BY <3>1, <3>2, <3>3 DEF OnceInv
  <2>3. Upto(file, secrets)
    <3>1. \A k, l, s : LineAt(file, k, l, s) => s \in Nat
      <4> SUFFICES ASSUME NEW k, NEW l, NEW s, LineAt(file, k, l, s) PROVE s \in Nat
        OBVIOUS
      <4>1. file[k] \in Block /\ file[k].kind = "DSB"
        BY <1>0, SeqElement DEF LineAt
      <4>2. file[k].lines \in Seq(Secret)
        BY <4>1 DEF Block, EPBs, DSBs
      <4>3. file[k].lines[l] \in Secret
        BY <4>2, SeqElement DEF LineAt
      <4> QED
        BY <4>3 DEF LineAt, Secret
    <3>2. \A k, l, s : LineAt(file, k, l, s) => s <= written
      BY DEF OnceInv, Upto
    <3>3. \A s \in Nat : s <= written => s <= secrets
      BY <1>0 DEF written
    <3> QED
      BY <3>1, <3>2, <3>3 DEF Upto
  <2>4. CASE UNCHANGED <<file, ngErr>> /\ ngErr
    BY <2>3, <2>4, <2>a
  <2>5. CASE file' = Append(file, DSB(pending)) /\ UNCHANGED ngErr
    <3>1. DSB(pending) \in Block /\ DSB(pending).kind = "DSB" /\ DSB(pending).lines = pending
      BY <1>0 DEF DSB, Block, DSBs
    <3>2. \A k, l, s : LineAt(file', k, l, s) <=>
            LineAt(file, k, l, s) \/ (k = Len(file) + 1 /\ l \in 1 .. Len(pending) /\ pending[l].id = s)
      <4> DEFINE b == DSB(pending)
      <4>1. b \in Block /\ b.kind = "DSB" /\ b.lines = pending /\ file' = Append(file, b)
        BY <2>5, <3>1
      <4> HIDE DEF b
      <4>2. \A k, l, s : LineAt(file', k, l, s) <=>
              \/ LineAt(file, k, l, s)
              \/ k = Len(file) + 1 /\ b.kind = "DSB" /\ l \in 1 .. Len(b.lines) /\ b.lines[l].id = s
        BY <1>0, <4>1, AppendLines, Zenon
      <4> QED
        BY <4>1, <4>2, Zenon
    <3>3. \A l \in 1 .. Len(pending) : pending[l].id = written + l
      BY DEF OnceInv
    <3>4. Upto(file', secrets)
      <4> SUFFICES ASSUME NEW k, NEW l, NEW s, LineAt(file', k, l, s) PROVE s <= secrets
        BY DEF Upto
      <4>1. CASE LineAt(file, k, l, s)
        BY <2>3, <4>1 DEF Upto
      <4>2. CASE l \in 1 .. Len(pending) /\ pending[l].id = s
        <5>1. s = written + l
          BY <3>3, <4>2
        <5> QED
          BY <1>0, <2>2, <4>2, <5>1
      <4> QED
        BY <3>2, <4>1, <4>2
    <3>5. ~ngErr' => Has(file', secrets)
      <4> SUFFICES ASSUME ~ngErr', NEW s \in 1 .. secrets PROVE \E k, l : LineAt(file', k, l, s)
        BY DEF Has
      <4>1. CASE s <= written
        <5>1. ~ngErr /\ s \in 1 .. written
          BY <1>0, <2>5, <4>1
        <5>2. PICK k, l : LineAt(file, k, l, s)
          BY <5>1 DEF OnceInv, Has
        <5> QED
          BY <3>2, <5>2
      <4>2. CASE s > written
        <5>0. s - written \in 1 .. Len(pending) /\ written + (s - written) = s
          BY <1>0, <4>2 DEF written
        <5>1. s - written \in 1 .. Len(pending) /\ pending[s - written].id = s
          BY <3>3, <5>0
        <5> QED
          BY <3>2, <5>1, Zenon
      <4> QED
        BY <1>0, <4>1, <4>2
    <3> QED
      BY <2>a, <3>4, <3>5
  <2>6. CASE DiskFails
    <3>1. Upto(file', secrets) /\ ngErr'
      BY <2>3, <2>6, DiskFailsOnce
    <3> QED
      BY <2>a, <3>1
  <2> QED
    BY <2>1, <2>4, <2>5, <2>6 DEF NgWrite
<1>6. CASE writeOldest
  <2>1. NgWrite(EPB(Head(held))) /\ UNCHANGED <<pending, secrets>>
    BY <1>6 DEF writeOldest, popOldest, history
  <2>2. CASE file' = Append(file, EPB(Head(held))) /\ UNCHANGED ngErr
    <3>1. Head(held) \in Packet
      BY <1>6, SeqTail DEF writeOldest, popOldest, more, TypeInv, TypeOK
    <3>2. EPB(Head(held)) \in Block /\ EPB(Head(held)).kind # "DSB"
      BY <3>1 DEF EPB, Block, EPBs, Packet
    <3>3. \A k, l, s : LineAt(file', k, l, s) <=> LineAt(file, k, l, s)
      BY <1>0, <2>2, <3>2, AppendLines, Zenon
    <3> QED
      BY <2>1, <2>2, <3>3 DEF OnceInv, Upto, Has, written
  <2> QED
    BY <1>a, <1>b, <2>1, <2>2 DEF NgWrite
<1>7. CASE drainDone \/ closeDone
  <2>1. NgFlush /\ UNCHANGED <<pending, secrets>>
    BY <1>7 DEF drainDone, closeDone, queue, history
  <2> QED
    BY <1>a, <1>b, <2>1 DEF NgFlush
<1>8. CASE Tick
  BY <1>8, <1>a DEF Tick, storage, history
<1>9. CASE UNCHANGED vars
  BY <1>9, <1>a DEF vars, queue, storage, history
<1> QED
  BY <1>1, <1>2, <1>3, <1>4, <1>5, <1>6, <1>7, <1>8, <1>9 DEF Next

\* A keylog line that AddSecret admitted is pending or in the file, and never
\* both, unless the disk failed: however WritePacket, the drain and Close
\* interleave, none loses or repeats one.
THEOREM SecretsOnce == Spec => []SecretsKeptOnce
<1>1. Init => OnceInv
  <2> SUFFICES ASSUME Init PROVE OnceInv
    OBVIOUS
  <2>1. secrets = 0 /\ Len(pending) = 0 /\ Len(file) = 0
    BY SeqEmpty DEF Init
  <2>2. written = 0
    BY <2>1 DEF written
  <2>3. \A k, l, s : ~LineAt(file, k, l, s)
    BY <2>1 DEF LineAt
  <2>4. Upto(file, written) /\ Has(file, written)
    BY <2>2, <2>3 DEF Upto, Has
  <2>5. \A l \in 1 .. Len(pending) : pending[l].id = written + l
    BY <2>1
  <2> QED
    BY <2>2, <2>4, <2>5 DEF OnceInv
<1>2. (TypeInv /\ OnceInv) /\ [Next]_vars => (TypeInv /\ OnceInv)'
  BY TypingStep, OnceStep
<1>3. TypeInv /\ OnceInv => SecretsKeptOnce
  <2> SUFFICES ASSUME TypeInv, OnceInv, NEW s \in 1 .. secrets
               PROVE  /\ ~(OnDisk(s, Len(file)) /\ IsPending(s))
                      /\ OnDisk(s, Len(file)) \/ IsPending(s) \/ ngErr
    BY DEF SecretsKeptOnce
  <2>0. /\ Len(pending) \in Nat /\ secrets \in Nat /\ written \in Nat /\ written + Len(pending) = secrets
        /\ DOMAIN pending = 1 .. Len(pending) /\ ngErr \in BOOLEAN
    <3>1. pending \in Seq(Secret) /\ secrets \in Nat /\ ngErr \in BOOLEAN
      BY DEF TypeInv, TypeOK
    <3>2. Len(pending) \in Nat /\ DOMAIN pending = 1 .. Len(pending)
      BY <3>1, SeqLen
    <3>3. written >= 0
      BY DEF OnceInv
    <3> QED
      BY <3>1, <3>2, <3>3 DEF written
  <2>1. OnDisk(s, Len(file)) <=> \E k, l : LineAt(file, k, l, s)
    <3>1. ASSUME NEW k \in 1 .. Len(file), file[k].kind = "DSB" PROVE DOMAIN file[k].lines = 1 .. Len(file[k].lines)
      <4>1. file[k] \in Block
        BY <3>1, SeqElement DEF TypeInv, TypeOK
      <4>2. file[k].lines \in Seq(Secret)
        BY <3>1, <4>1 DEF Block, EPBs, DSBs
      <4> QED
        BY <4>2, SeqLen
    <3> QED
      BY <3>1 DEF OnDisk, IsDSB, LineAt
  <2>2. OnDisk(s, Len(file)) => s <= written
    BY <2>1 DEF OnceInv, Upto
  <2>3. IsPending(s) <=> s > written
    <3>1. IsPending(s) <=> \E l \in 1 .. Len(pending) : written + l = s
      BY <2>0 DEF IsPending, OnceInv
    <3>2. s > written => s - written \in 1 .. Len(pending) /\ written + (s - written) = s
      BY <2>0
    <3> QED
      BY <2>0, <3>1, <3>2
  <2>4. s <= written /\ ~ngErr => OnDisk(s, Len(file))
    <3> SUFFICES ASSUME s <= written, ~ngErr PROVE \E k, l : LineAt(file, k, l, s)
      BY <2>1
    <3>1. Has(file, written)
      BY DEF OnceInv
    <3>2. s \in 1 .. written
      BY <2>0
    <3> QED
      BY <3>1, <3>2 DEF Has
  <2> QED
    BY <2>0, <2>2, <2>3, <2>4
<1> QED
  BY <1>1, <1>2, <1>3, TypingInit, PTL DEF Spec
=============================================================================
