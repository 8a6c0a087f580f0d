------------------------- MODULE CaptureWriterBytes -------------------------
(***************************************************************************)
(* The bytes CaptureWriter holds and writes, for every value of its        *)
(* constants: the hold queue stays within its limits, and the file within  *)
(* what was admitted against the size limit.                               *)
(***************************************************************************)
EXTENDS CaptureWriterProofs, Sums

-----------------------------------------------------------------------------
(* The bytes in the hold queue.                                            *)

\* Bytes adds up natural numbers.
LEMMA BytesNat ==
  ASSUME NEW S, NEW s \in Seq(S), \A x \in S : x.len \in Nat
  PROVE  Bytes(s) \in Nat
<1> DEFINE f == [i \in DOMAIN s |-> s[i].len]
<1>1. Len(s) \in Nat /\ DOMAIN s = 1 .. Len(s) /\ \A i \in 1 .. Len(s) : s[i] \in S
  BY SeqLen
<1>2. f \in [1 .. Len(s) -> Nat] /\ Bytes(s) = SumFunction(f)
  BY <1>1 DEF Bytes
<1> HIDE DEF f
<1> QED
  BY <1>1, <1>2, SumNat

\* Nothing held is no bytes.
LEMMA BytesNone == Bytes(<<>>) = 0
<1> DEFINE f == [i \in DOMAIN <<>> |-> <<>>[i].len]
<1>1. DOMAIN f = {} /\ Bytes(<<>>) = SumFunction(f)
  BY DEF Bytes
<1> HIDE DEF f
<1> QED
  BY <1>1, SumOfNone

\* An item more is its length more.
LEMMA BytesAppend ==
  ASSUME NEW S, NEW s \in Seq(S), NEW x \in S, NEW t, t = Append(s, x), \A y \in S : y.len \in Nat
  PROVE  Bytes(t) = Bytes(s) + x.len
<1> DEFINE n == Len(s)
           f == [i \in DOMAIN s |-> s[i].len]
           g == [i \in DOMAIN t |-> t[i].len]
<1>1. n \in Nat /\ DOMAIN s = 1 .. n /\ \A i \in 1 .. n : s[i] \in S
  BY SeqLen
<1>2. t \in Seq(S) /\ Len(t) = n + 1 /\ t[n + 1] = x /\ \A i \in 1 .. n : t[i] = s[i]
  BY Appended
<1>3. DOMAIN t = 1 .. n + 1 /\ \A i \in 1 .. n + 1 : t[i] \in S
  BY <1>2, SeqLen
<1>4. f \in [1 .. n -> Int] /\ Bytes(s) = SumFunction(f)
  BY <1>1 DEF Bytes
<1>5. g \in [1 .. n + 1 -> Int] /\ Bytes(t) = SumFunction(g)
  BY <1>3 DEF Bytes
<1>6. n + 1 \in 1 .. n + 1 /\ \A i \in 1 .. n : i \in 1 .. n + 1
  BY <1>1
<1>7. g[n + 1] = x.len /\ \A i \in 1 .. n : g[i] = f[i]
  BY <1>1, <1>2, <1>3, <1>6
<1> HIDE DEF f, g, n
<1>8. SumFunction(g) = SumFunction(f) + g[n + 1]
  BY <1>1, <1>4, <1>5, <1>7, SumAppend, Zenon
<1> QED
  BY <1>4, <1>5, <1>7, <1>8

\* The oldest item less is its length less.
LEMMA BytesTail ==
  ASSUME NEW S, NEW s \in Seq(S), s # <<>>, \A y \in S : y.len \in Nat
  PROVE  Bytes(s) = Head(s).len + Bytes(Tail(s))
<1> DEFINE t == Tail(s)
           n == Len(t)
           f == [i \in DOMAIN s |-> s[i].len]
           g == [i \in DOMAIN t |-> t[i].len]
<1>1. t \in Seq(S) /\ Len(t) = Len(s) - 1 /\ Head(s) = s[1] /\ \A i \in 1 .. Len(t) : t[i] = s[i + 1]
  BY SeqTail
<1>2. n \in Nat /\ DOMAIN t = 1 .. n /\ \A i \in 1 .. n : t[i] \in S
  BY <1>1, SeqLen
<1>3. Len(s) \in Nat /\ DOMAIN s = 1 .. Len(s) /\ \A i \in 1 .. Len(s) : s[i] \in S
  BY SeqLen
<1>4. Len(s) = n + 1
  BY <1>1, <1>2, <1>3
<1>5. f \in [1 .. n + 1 -> Int] /\ Bytes(s) = SumFunction(f)
  BY <1>3, <1>4 DEF Bytes
<1>6. g \in [1 .. n -> Int] /\ Bytes(Tail(s)) = SumFunction(g)
  BY <1>2 DEF Bytes
<1>7. 1 \in 1 .. Len(s) /\ \A i \in 1 .. n : i + 1 \in 1 .. Len(s)
  BY <1>2, <1>4
<1>8. f[1] = Head(s).len /\ \A i \in 1 .. n : g[i] = f[i + 1]
  BY <1>1, <1>2, <1>3, <1>7
<1> HIDE DEF f, g, n
<1> QED
  BY <1>2, <1>5, <1>6, <1>8, SumTail, Zenon

\* Only the lengths count.
LEMMA BytesSame ==
  ASSUME NEW S, NEW s \in Seq(S), NEW t \in Seq(S), Len(t) = Len(s),
         \A i \in 1 .. Len(s) : t[i].len = s[i].len
  PROVE  Bytes(t) = Bytes(s)
<1>1. DOMAIN s = 1 .. Len(s) /\ DOMAIN t = 1 .. Len(s)
  BY SeqLen
<1>2. [i \in DOMAIN t |-> t[i].len] = [i \in DOMAIN s |-> s[i].len]
  BY <1>1
<1> QED
  BY <1>2, Zenon DEF Bytes

\* A held packet has a length.
LEMMA PacketLength == \A p \in Packet : p.len \in Nat
BY DEF Packet

\* The clock makes no held packet younger.
LEMMA TickAges ==
  ASSUME held \in Seq(Packet), Tick
  PROVE  \A i \in 1 .. Len(held) : held[i].age >= HoldWindow => held'[i].age >= HoldWindow
<1> SUFFICES ASSUME NEW i \in 1 .. Len(held), held[i].age >= HoldWindow PROVE held'[i].age >= HoldWindow
  OBVIOUS
<1>1. held[i] \in Packet /\ DOMAIN held = 1 .. Len(held)
  BY SeqElement, SeqLen
<1>2. held[i].age \in 0 .. HoldWindow /\ HoldWindow \in Nat
  BY <1>1, SizesAssumption DEF Packet
<1>3. held'[i] = [held[i] EXCEPT !.age = IF @ < HoldWindow THEN @ + 1 ELSE @]
  BY <1>1 DEF Tick
<1>4. ~(held[i].age < HoldWindow)
  BY <1>2
<1>5. held'[i] = [held[i] EXCEPT !.age = held[i].age]
  BY <1>3, <1>4
<1> QED
  BY <1>1, <1>5 DEF Packet

\* heldBytes is the queue's total, within the cap unless WritePacket is at work,
\* and the packets drain has still to write have been held for the window.
HoldInv ==
  /\ HoldQueueBounded
  /\ mu = "drain" => \A i \in 1 .. todo : held[i].age >= HoldWindow

\* Every step of the capture keeps it.
LEMMA HoldStep == TypeInv /\ TypeInv' /\ HoldInv /\ [Next]_vars => HoldInv'
<1> SUFFICES ASSUME TypeInv, TypeInv', HoldInv, [Next]_vars PROVE HoldInv'
  OBVIOUS
<1>a. held \in Seq(Packet) /\ heldBytes \in Int /\ todo \in 0 .. Len(held)
  BY DEF TypeInv, TypeOK
<1>b. heldBytes = Bytes(held) /\ Bytes(held) \in Nat /\ MaxHeldBytes \in Nat
  BY <1>a, BytesNat, PacketLength, SizesAssumption DEF HoldInv, HoldQueueBounded
<1>c. mu # "live" => heldBytes <= MaxHeldBytes
  BY DEF HoldInv, HoldQueueBounded
<1>d. ASSUME UNCHANGED <<held, heldBytes>>, mu' # mu => mu # "live" /\ mu' # "drain", todo' = todo
      PROVE  HoldInv'
  BY <1>d, <1>b, <1>c DEF HoldInv, HoldQueueBounded
<1>1. ASSUME NEW len \in PacketLens, WritePacket(len) PROVE HoldInv'
  <2>1. CASE admits(epbSize(len))
    <3> DEFINE p == [id |-> packets + 1, len |-> len, age |-> 0]
    <3>1. p \in Packet /\ p.len = len /\ len \in Nat
      <4>1. packets \in Nat /\ len \in Nat /\ HoldWindow \in Nat
        BY SizesAssumption DEF TypeInv, TypeOK
      <4> QED
        BY <4>1 DEF Packet
    <3>2. held' = Append(held, p)
      BY <1>1, <2>1 DEF WritePacket
    <3>3. /\ heldBytes' = heldBytes + len
          /\ mu' = IF heldBytes' > MaxHeldBytes THEN "live" ELSE "free"
      BY <1>1, <2>1 DEF WritePacket
    <3> HIDE DEF p
    <3>4. Bytes(held') = Bytes(held) + len
      BY <1>a, <3>1, <3>2, BytesAppend, PacketLength, Zenon
    <3> QED
      BY <1>b, <3>1, <3>3, <3>4 DEF HoldInv, HoldQueueBounded
  <2>2. CASE ~admits(epbSize(len))
    <3>1. UNCHANGED <<held, heldBytes, mu, todo>>
      BY <1>1, <2>2 DEF WritePacket
    <3> QED
      BY <1>d, <3>1
  <2> QED
    BY <2>1, <2>2
<1>2. ASSUME NEW len \in LineLens, AddSecret(len) PROVE HoldInv'
  <2>1. UNCHANGED <<held, heldBytes, mu, todo>>
    BY <1>2 DEF AddSecret, lock
  <2> QED
    BY <1>d, <2>1
<1>3. ASSUME NEW r \in Rooms, SetRoom(r) PROVE HoldInv'
  <2>1. UNCHANGED <<held, heldBytes, mu, todo>>
    BY <1>3 DEF SetRoom, queue, lock
  <2> QED
    BY <1>d, <2>1
<1>4. CASE LiveEnds \/ notifyStop \/ drainExit \/ Close \/ UNCHANGED vars
  <2>1. UNCHANGED <<held, heldBytes, mu, todo>>
    BY <1>4 DEF LiveEnds, notifyStop, drainExit, Close, vars, queue, lock
  <2> QED
    BY <1>d, <2>1
<1>5. CASE writeSecrets
  <2>1. UNCHANGED <<held, heldBytes, mu, todo>>
    BY <1>5 DEF writeSecrets, lock
  <2> QED
    BY <1>d, <2>1
<1>6. CASE writeOldest
  <2>1. /\ held # <<>> /\ held' = Tail(held) /\ heldBytes' = heldBytes - Head(held).len
        /\ mu' = mu /\ todo' = IF mu = "drain" THEN todo - 1 ELSE todo
    BY <1>6 DEF writeOldest, popOldest, more
  <2>2. /\ Head(held) \in Packet /\ held' \in Seq(Packet) /\ Len(held') = Len(held) - 1
        /\ \A i \in 1 .. Len(held') : held'[i] = held[i + 1]
    BY <1>a, <2>1, SeqTail
  <2>3. Head(held).len \in Nat /\ Bytes(held') \in Nat
    BY <2>2, BytesNat, PacketLength
  <2>4. Bytes(held) = Head(held).len + Bytes(held')
    BY <1>a, <2>1, BytesTail, PacketLength
  <2>5. heldBytes' = Bytes(held') /\ heldBytes' <= heldBytes
    BY <1>b, <2>1, <2>3, <2>4
  <2>6. HoldQueueBounded'
    BY <1>a, <1>b, <1>c, <2>1, <2>3, <2>5 DEF HoldQueueBounded
  <2>7. ASSUME mu' = "drain", NEW i \in 1 .. todo' PROVE held'[i].age >= HoldWindow
    <3>1. mu = "drain" /\ todo' = todo - 1
      BY <2>1, <2>7
    <3>2. Len(held) \in Nat /\ todo \in 0 .. Len(held)
      BY <1>a, SeqLen
    <3>3. i + 1 \in 1 .. todo /\ i \in 1 .. Len(held')
      BY <2>2, <2>7, <3>1, <3>2
    <3> QED
      BY <2>2, <3>1, <3>3 DEF HoldInv
  <2> QED
    BY <2>6, <2>7 DEF HoldInv
<1>7. CASE overflowDone
  <2>1. /\ mu = "live" /\ ~more /\ mu' = "free" /\ UNCHANGED <<held, heldBytes>>
    BY <1>7 DEF overflowDone, writeHeldDone, queue
  <2>2. CASE held = <<>>
    BY <1>b, <2>1, <2>2, BytesNone DEF HoldInv, HoldQueueBounded
  <2>3. CASE held # <<>>
    <3>1. heldBytes <= MaxHeldBytes
      BY <1>b, <2>1, <2>3 DEF more
    <3> QED
      BY <1>b, <2>1, <3>1 DEF HoldInv, HoldQueueBounded
  <2> QED
    BY <2>2, <2>3
<1>8. CASE drain
  <2>1. mu = "free" /\ mu' = "drain" /\ UNCHANGED <<held, heldBytes>>
    BY <1>8 DEF drain, queue
  <2>2. \A i \in 1 .. todo' : held'[i].age >= HoldWindow
    BY <1>8, <2>1 DEF drain, countExpired, stopsAt
  <2> QED
    BY <1>b, <1>c, <2>1, <2>2 DEF HoldInv, HoldQueueBounded
<1>9. CASE drainDone \/ closeLocked \/ closeDone
  <2>1. UNCHANGED <<held, heldBytes, todo>> /\ (mu' # mu => mu # "live" /\ mu' # "drain")
    BY <1>9 DEF drainDone, closeLocked, takeLockToClose, closeDone, queue
  <2> QED
    BY <1>d, <2>1
<1>10. CASE Tick
  <2>1. UNCHANGED <<heldBytes, mu, todo>>
    BY <1>10 DEF Tick, lock
  <2>2. /\ held' \in Seq(Packet) /\ Len(held') = Len(held)
        /\ \A i \in 1 .. Len(held) : held'[i].len = held[i].len
    BY <1>10, <1>a, TickType
  <2>3. Bytes(held') = Bytes(held)
    BY <1>a, <2>2, BytesSame
  <2>4. \A i \in 1 .. Len(held) : held[i].age >= HoldWindow => held'[i].age >= HoldWindow
    BY <1>10, <1>a, TickAges
  <2>5. \A i \in 1 .. todo : i \in 1 .. Len(held)
    <3>1. Len(held) \in Nat
      BY <1>a, SeqLen
    <3> QED
      BY <1>a, <3>1
  <2>6. mu = "drain" => \A i \in 1 .. todo : held'[i].age >= HoldWindow
    BY <2>4, <2>5 DEF HoldInv
  <2> QED
    BY <1>b, <1>c, <2>1, <2>3, <2>6 DEF HoldInv, HoldQueueBounded
<1> QED
  BY <1>1, <1>2, <1>3, <1>4, <1>5, <1>6, <1>7, <1>8, <1>9, <1>10 DEF Next

\* An empty queue is within its cap.
LEMMA HoldInit == Init => HoldInv
<1> SUFFICES ASSUME Init PROVE HoldInv
  OBVIOUS
<1>1. held = <<>> /\ heldBytes = 0 /\ mu = "free"
  BY DEF Init
<1>2. 0 <= MaxHeldBytes
  BY SizesAssumption
<1> QED
  BY <1>1, <1>2, BytesNone DEF HoldInv, HoldQueueBounded

\* It holds throughout.
LEMMA HoldAlways == Spec => [](TypeInv /\ HoldInv)
<1>1. Init => TypeInv /\ HoldInv
  BY TypingInit, HoldInit
<1>2. (TypeInv /\ HoldInv) /\ [Next]_vars => (TypeInv /\ HoldInv)'
  BY TypingStep, HoldStep
<1> QED
  BY <1>1, <1>2, PTL DEF Spec

\* heldBytes is at every moment the sum of the lengths of the held packets, for
\* queues of any length, and outside WritePacket it is within maxHeldBytes.
THEOREM QueueBounded == Spec => []HoldQueueBounded
<1>1. HoldInv => HoldQueueBounded
  BY DEF HoldInv
<1> QED
  BY <1>1, HoldAlways, PTL

\* A packet leaves the hold queue before its window ends only because Close
\* writes everything, or because the queue has passed its cap.
THEOREM WindowKept == Spec => HoldWindowKept
<1> DEFINE A == Len(held') < Len(held) =>
                  \/ Head(held).age >= HoldWindow
                  \/ closer = "waiting"
                  \/ Bytes(held) > MaxHeldBytes
<1>1. ASSUME TypeInv, HoldInv, ControlInv, [Next]_vars, Len(held') < Len(held)
      PROVE  \/ Head(held).age >= HoldWindow \/ closer = "waiting" \/ Bytes(held) > MaxHeldBytes
  <2>0. held \in Seq(Packet) /\ packets \in Nat
    BY <1>1 DEF TypeInv, TypeOK
  <2>a. held \in Seq(Packet) /\ Len(held) \in Nat
    BY <2>0, SeqLen
  <2>1. writeOldest
    <3>1. held' # held
      BY <1>1, <2>a
    <3>2. ASSUME NEW len \in PacketLens, WritePacket(len) PROVE FALSE
      <4> DEFINE p == [id |-> packets + 1, len |-> len, age |-> 0]
      <4>1. p \in Packet
        <5>1. packets \in Nat /\ len \in Nat /\ HoldWindow \in Nat
          BY <2>0, SizesAssumption
        <5> QED
          BY <5>1 DEF Packet
      <4>2. held' = Append(held, p)
        BY <3>1, <3>2 DEF WritePacket
      <4> HIDE DEF p
      <4>3. Len(held') = Len(held) + 1
        BY <2>a, <4>1, <4>2, Appended
      <4> QED
        BY <1>1, <2>a, <4>3
    <3>3. ~Tick
      BY <1>1, <2>a, TickType
    <3>4. ASSUME NEW len \in LineLens, AddSecret(len) PROVE FALSE
      BY <3>1, <3>4 DEF AddSecret
    <3>5. ASSUME NEW r \in Rooms, SetRoom(r) PROVE FALSE
      BY <3>1, <3>5 DEF SetRoom, queue
    <3>6. ~(LiveEnds \/ notifyStop \/ drainExit \/ Close \/ UNCHANGED vars)
      BY <3>1 DEF LiveEnds, notifyStop, drainExit, Close, vars, queue
    <3>7. ~(writeSecrets \/ overflowDone \/ drain)
      BY <3>1 DEF writeSecrets, overflowDone, drain, queue
    <3>8. ~(drainDone \/ closeLocked \/ closeDone)
      BY <3>1 DEF drainDone, closeLocked, takeLockToClose, closeDone, queue
    <3> QED
      BY <1>1, <3>2, <3>3, <3>4, <3>5, <3>6, <3>7, <3>8 DEF Next
  <2>2. more /\ held # <<>>
    BY <2>1 DEF writeOldest, popOldest, more
  <2>3. CASE mu = "live" /\ heldBytes > MaxHeldBytes
    BY <1>1, <2>3 DEF HoldInv, HoldQueueBounded
  <2>4. CASE mu = "drain" /\ todo > 0
    <3>1. todo \in Nat
      BY <1>1, <2>a DEF TypeInv, TypeOK
    <3>2. 1 \in 1 .. todo
      BY <2>4, <3>1
    <3>3. held[1].age >= HoldWindow
      BY <1>1, <2>4, <3>2 DEF HoldInv
    <3>4. Head(held) = held[1]
      BY <2>2, <2>a
    <3> QED
      BY <3>3, <3>4
  <2>5. CASE mu = "close"
    BY <1>1, <2>5 DEF ControlInv
  <2> QED
    BY <2>2, <2>3, <2>4, <2>5 DEF more
<1>2. TypeInv /\ HoldInv /\ ControlInv /\ [Next]_vars => [A]_vars
  BY <1>1
<1> QED
  BY <1>2, HoldAlways, ControlAlways, PTL DEF Spec, HoldWindowKept

-----------------------------------------------------------------------------
(* The bytes admit counts.                                                 *)

\* Padding two blocks apart costs no less than padding them together.
LEMMA PadTogether ==
  ASSUME NEW a \in Nat, NEW b \in Nat
  PROVE  pad4(a) \in Nat /\ pad4(a + b) <= pad4(a) + pad4(b)
BY DEF pad4

\* What a held packet will take in the file.
Costs(s) == SumFunction([i \in 1 .. Len(s) |-> epbSize(s[i].len)])

\* The blocks of the held packets have the sizes admit counted for them.
LEMMA HeldBlocks ==
  ASSUME NEW s \in Seq(Packet)
  PROVE  BytesIn([i \in DOMAIN s |-> EPB(s[i])]) = Costs(s)
<1> DEFINE h == [i \in DOMAIN s |-> EPB(s[i])]
<1>1. DOMAIN s = 1 .. Len(s)
  BY SeqLen
<1>2. DOMAIN h = 1 .. Len(s)
  BY <1>1
<1>3. \A k \in 1 .. Len(s) : BlockBytes(h[k]) = epbSize(s[k].len)
  <2> SUFFICES ASSUME NEW k \in 1 .. Len(s) PROVE BlockBytes(h[k]) = epbSize(s[k].len)
    BY Zenon
  <2>1. h[k] = EPB(s[k])
    BY <1>1
  <2>2. EPB(s[k]).kind = "EPB" /\ EPB(s[k]).len = s[k].len
    BY DEF EPB
  <2> QED
    BY <2>1, <2>2 DEF BlockBytes, epbSize
<1> HIDE DEF h
<1>4. [k \in DOMAIN h |-> BlockBytes(h[k])] = [i \in 1 .. Len(s) |-> epbSize(s[i].len)]
  BY <1>2, <1>3
<1> QED
  BY <1>4 DEF BytesIn, Costs, h

\* They are natural numbers.
LEMMA CostsNat ==
  ASSUME NEW s \in Seq(Packet)
  PROVE  Costs(s) \in Nat /\ \A i \in 1 .. Len(s) : epbSize(s[i].len) \in Nat
<1> DEFINE f == [i \in 1 .. Len(s) |-> epbSize(s[i].len)]
<1>1. Len(s) \in Nat /\ \A i \in 1 .. Len(s) : epbSize(s[i].len) \in Nat
  BY SeqLen, SeqElement, PacketLength, SizesAreNat, Zenon
<1>2. f \in [1 .. Len(s) -> Nat] /\ Costs(s) = SumFunction(f)
  BY <1>1 DEF Costs
<1> HIDE DEF f
<1> QED
  BY <1>1, <1>2, SumNat

\* A packet more costs its block more.
LEMMA CostsAppend ==
  ASSUME NEW s \in Seq(Packet), NEW p \in Packet, NEW t, t = Append(s, p)
  PROVE  Costs(t) = Costs(s) + epbSize(p.len)
<1> DEFINE n == Len(s)
           f == [i \in 1 .. Len(s) |-> epbSize(s[i].len)]
           g == [i \in 1 .. Len(t) |-> epbSize(t[i].len)]
<1>1. n \in Nat /\ t \in Seq(Packet) /\ Len(t) = n + 1 /\ t[n + 1] = p /\ \A i \in 1 .. n : t[i] = s[i]
  BY Appended
<1>2. \A i \in 1 .. n : epbSize(s[i].len) \in Int
  BY CostsNat
<1>3. \A i \in 1 .. n + 1 : epbSize(t[i].len) \in Int
  <2>1. \A i \in 1 .. Len(t) : epbSize(t[i].len) \in Nat
    BY <1>1, CostsNat, Zenon
  <2> QED
    BY <1>1, <2>1
<1>4. f \in [1 .. n -> Int] /\ Costs(s) = SumFunction(f)
  BY <1>2 DEF Costs
<1>5. g \in [1 .. n + 1 -> Int] /\ Costs(t) = SumFunction(g)
  BY <1>1, <1>3 DEF Costs
<1>6. n + 1 \in 1 .. n + 1 /\ \A i \in 1 .. n : i \in 1 .. n + 1
  BY <1>1
<1>7. g[n + 1] = epbSize(p.len) /\ \A i \in 1 .. n : g[i] = f[i]
  BY <1>1, <1>6
<1> HIDE DEF f, g, n
<1>8. SumFunction(g) = SumFunction(f) + g[n + 1]
  BY <1>1, <1>4, <1>5, <1>7, SumAppend
<1> QED
  BY <1>4, <1>5, <1>7, <1>8

\* The oldest packet less costs its block less.
LEMMA CostsTail ==
  ASSUME NEW s \in Seq(Packet), s # <<>>
  PROVE  Costs(s) = epbSize(Head(s).len) + Costs(Tail(s))
<1> DEFINE t == Tail(s)
           n == Len(t)
           f == [i \in 1 .. Len(s) |-> epbSize(s[i].len)]
           g == [i \in 1 .. Len(t) |-> epbSize(t[i].len)]
<1>1. t \in Seq(Packet) /\ Len(t) = Len(s) - 1 /\ Head(s) = s[1] /\ \A i \in 1 .. Len(t) : t[i] = s[i + 1]
  BY SeqTail
<1>2. n \in Nat /\ Len(s) \in Nat
  BY <1>1, SeqLen
<1>3. Len(s) = n + 1
  BY <1>1, <1>2
<1>4. \A i \in 1 .. Len(s) : epbSize(s[i].len) \in Int
  BY CostsNat
<1>5. \A i \in 1 .. n : epbSize(t[i].len) \in Int
  BY <1>1, CostsNat
<1>6. f \in [1 .. n + 1 -> Int] /\ Costs(s) = SumFunction(f)
  BY <1>3, <1>4 DEF Costs
<1>7. g \in [1 .. n -> Int] /\ Costs(Tail(s)) = SumFunction(g)
  BY <1>5 DEF Costs
<1>8. 1 \in 1 .. Len(s) /\ \A i \in 1 .. n : i + 1 \in 1 .. Len(s)
  BY <1>2, <1>3
<1>9. f[1] = epbSize(Head(s).len) /\ \A i \in 1 .. n : g[i] = f[i + 1]
  BY <1>1, <1>8
<1> HIDE DEF f, g, n
<1> QED
  BY <1>2, <1>6, <1>7, <1>9, SumTail, Zenon

\* Only the lengths count.
LEMMA CostsSame ==
  ASSUME NEW s \in Seq(Packet), NEW t \in Seq(Packet), Len(t) = Len(s),
         \A i \in 1 .. Len(s) : t[i].len = s[i].len
  PROVE  Costs(t) = Costs(s)
<1>1. [i \in 1 .. Len(t) |-> epbSize(t[i].len)] = [i \in 1 .. Len(s) |-> epbSize(s[i].len)]
  OBVIOUS
<1> QED
  BY <1>1 DEF Costs

\* A keylog line has a length.
LEMMA SecretLength == \A l \in Secret : l.len \in Nat
BY DEF Secret

\* A block has a size.
LEMMA BlockBytesNat ==
  ASSUME NEW b \in Block
  PROVE  BlockBytes(b) \in Nat
<1>1. CASE b \in EPBs
  <2>1. b.kind = "EPB" /\ b.len \in Nat
    BY <1>1 DEF EPBs
  <2>2. pad4(b.len) \in Nat
    BY <2>1, PadTogether, Zenon
  <2> QED
    BY <2>1, <2>2 DEF BlockBytes
<1>2. CASE b \in DSBs
  <2>1. b.kind = "DSB" /\ b.lines \in Seq(Secret)
    BY <1>2 DEF DSBs
  <2>2. Bytes(b.lines) \in Nat /\ Len(b.lines) \in Nat
    BY <2>1, BytesNat, SeqLen, SecretLength
  <2>3. Bytes(b.lines) + Len(b.lines) \in Nat
    BY <2>2
  <2>4. pad4(Bytes(b.lines) + Len(b.lines)) \in Nat
    BY <2>3, PadTogether
  <2> QED
    BY <2>1, <2>4 DEF BlockBytes
<1> QED
  BY <1>1, <1>2 DEF Block

\* So has a file.
LEMMA FileSizes ==
  ASSUME NEW f \in Seq(Block)
  PROVE  /\ BytesIn(f) = SumFunction([k \in DOMAIN f |-> BlockBytes(f[k])])
         /\ [k \in DOMAIN f |-> BlockBytes(f[k])] \in [1 .. Len(f) -> Nat]
         /\ BytesIn(f) \in Nat
<1> DEFINE z == [k \in DOMAIN f |-> BlockBytes(f[k])]
<1>1. DOMAIN f = 1 .. Len(f) /\ Len(f) \in Nat
  BY SeqLen
<1>2. \A k \in 1 .. Len(f) : BlockBytes(f[k]) \in Nat
  BY SeqElement, BlockBytesNat
<1>3. z \in [1 .. Len(f) -> Nat] /\ BytesIn(f) = SumFunction(z)
  BY <1>1, <1>2 DEF BytesIn
<1>4. SumFunction(z) \in Nat
  <2> HIDE DEF z
  <2> QED
    BY <1>1, <1>3, SumNat
<1> QED
  BY <1>3, <1>4

\* A block more is its size more.
LEMMA FileAppend ==
  ASSUME NEW f \in Seq(Block), NEW b \in Block, NEW g, g = Append(f, b)
  PROVE  BytesIn(g) = BytesIn(f) + BlockBytes(b)
<1> DEFINE n == Len(f)
           y == [k \in DOMAIN f |-> BlockBytes(f[k])]
           z == [k \in DOMAIN g |-> BlockBytes(g[k])]
<1>1. n \in Nat /\ g \in Seq(Block) /\ Len(g) = n + 1 /\ g[n + 1] = b /\ \A i \in 1 .. n : g[i] = f[i]
  BY Appended
<1>2. y \in [1 .. n -> Nat] /\ BytesIn(f) = SumFunction(y)
  BY FileSizes
<1>3. z \in [1 .. Len(g) -> Nat] /\ BytesIn(g) = SumFunction(z)
  BY <1>1, FileSizes, Zenon
<1>4. DOMAIN f = 1 .. n /\ DOMAIN g = 1 .. n + 1
  BY <1>1, SeqLen
<1>5. n + 1 \in 1 .. n + 1 /\ \A i \in 1 .. n : i \in 1 .. n + 1
  BY <1>1
<1>6. z[n + 1] = BlockBytes(b) /\ \A i \in 1 .. n : z[i] = y[i]
  BY <1>1, <1>4, <1>5
<1>7. y \in [1 .. n -> Int] /\ z \in [1 .. n + 1 -> Int]
  <2> HIDE DEF y, z
  <2> QED
    BY <1>1, <1>2, <1>3
<1> HIDE DEF y, z, n
<1>8. SumFunction(z) = SumFunction(y) + z[n + 1]
  BY <1>1, <1>6, <1>7, SumAppend
<1> QED
  BY <1>2, <1>3, <1>6, <1>8

\* A prefix of a file is no larger.
LEMMA FilePrefix ==
  ASSUME NEW f \in Seq(Block), NEW k \in 0 .. Len(f), NEW g, g = SubSeq(f, 1, k)
  PROVE  BytesIn(g) <= BytesIn(f)
<1> DEFINE n == Len(f)
           y == [i \in DOMAIN f |-> BlockBytes(f[i])]
           z == [i \in DOMAIN g |-> BlockBytes(g[i])]
<1>1. g \in Seq(Block) /\ Len(g) = k /\ \A i \in 1 .. k : g[i] = f[i]
  BY Prefix
<1>2. y \in [1 .. n -> Nat] /\ BytesIn(f) = SumFunction(y)
  BY FileSizes
<1>3. z \in [1 .. k -> Nat] /\ BytesIn(g) = SumFunction(z)
  <2>1. z \in [1 .. Len(g) -> Nat] /\ BytesIn(g) = SumFunction(z)
    BY <1>1, FileSizes, Zenon
  <2> QED
    BY <1>1, <2>1, Zenon
<1>4. n \in Nat /\ DOMAIN f = 1 .. n /\ DOMAIN g = 1 .. k
  BY <1>1, SeqLen
<1>5. \A i \in 1 .. k : i \in 1 .. n
  BY <1>4
<1>6. \A i \in 1 .. k : z[i] = y[i]
  BY <1>1, <1>4, <1>5
<1>7. k \in 0 .. n
  OBVIOUS
<1> HIDE DEF y, z, n
<1> QED
  BY <1>2, <1>3, <1>4, <1>6, <1>7, SumPrefix, Zenon

\* A disk that fails leaves a file no larger.
LEMMA FailShrinks ==
  ASSUME file \in Seq(Block), flushed \in 0 .. Len(file), DiskFails
  PROVE  BytesIn(file') <= BytesIn(file) /\ BytesIn(file') \in Nat
<1>1. PICK k \in flushed .. Len(file) : file' = SubSeq(file, 1, k)
  BY DEF DiskFails
<1>2. Len(file) \in Nat
  BY SeqLen
<1>3. k \in 0 .. Len(file)
  BY <1>1, <1>2
<1>4. file' \in Seq(Block)
  BY <1>1, <1>3, Prefix
<1> QED
  BY <1>1, <1>3, <1>4, FilePrefix, FileSizes, Zenon

\* A write adds at most its block to the file.
LEMMA WriteAdds ==
  ASSUME TypeInv, NEW b \in Block, NgWrite(b)
  PROVE  BytesIn(file') <= BytesIn(file) + BlockBytes(b)
<1>0. file \in Seq(Block) /\ flushed \in 0 .. Len(file)
  BY DEF TypeInv, TypeOK
<1>a. BytesIn(file) \in Nat /\ BlockBytes(b) \in Nat
  BY <1>0, FileSizes, BlockBytesNat, Zenon
<1>1. CASE UNCHANGED file
  BY <1>a, <1>1
<1>2. CASE file' = Append(file, b)
  <2>1. BytesIn(file') = BytesIn(file) + BlockBytes(b)
    BY <1>0, <1>2, FileAppend, Zenon
  <2> QED
    BY <1>a, <2>1
<1>3. CASE DiskFails
  <2>1. BytesIn(file') <= BytesIn(file) /\ BytesIn(file') \in Nat
    BY <1>0, <1>3, FailShrinks
  <2> QED
    BY <1>a, <2>1
<1> QED
  BY <1>1, <1>2, <1>3 DEF NgWrite

\* A flush adds nothing.
LEMMA FlushAdds ==
  ASSUME TypeInv, NgFlush
  PROVE  BytesIn(file') <= BytesIn(file)
<1>0. file \in Seq(Block) /\ flushed \in 0 .. Len(file)
  BY DEF TypeInv, TypeOK
<1>1. CASE UNCHANGED file
  <2>1. BytesIn(file) \in Nat
    BY <1>0, FileSizes, Zenon
  <2> QED
    BY <1>1, <2>1
<1>2. CASE DiskFails
  BY <1>0, <1>2, FailShrinks
<1> QED
  BY <1>1, <1>2 DEF NgFlush

\* What the pending lines will take in the file.
LineCost(s) == IF s = <<>> THEN 0 ELSE BlockBytes(DSB(s))

\* Its parts: what is counted for the lines and for the packets still queued.
LEMMA QueuedParts ==
  ASSUME NEW h \in Seq(Packet), NEW s \in Seq(Secret)
  PROVE  /\ LineCost(s) \in Nat /\ Costs(h) \in Nat /\ DSB(s) \in Block
         /\ (IF s = <<>> THEN 0 ELSE BlockBytes(DSB(s))) + BytesIn([i \in DOMAIN h |-> EPB(h[i])])
              = LineCost(s) + Costs(h)
<1>1. DSB(s) \in Block
  BY DEF DSB, Block, DSBs
<1>2. BlockBytes(DSB(s)) \in Nat
  BY <1>1, BlockBytesNat
<1>3. LineCost(s) \in Nat
  BY <1>2 DEF LineCost
<1>4. Costs(h) \in Nat /\ BytesIn([i \in DOMAIN h |-> EPB(h[i])]) = Costs(h)
  BY CostsNat, HeldBlocks
<1> QED
  BY <1>1, <1>3, <1>4 DEF LineCost

\* A line more adds at most what AddSecret counts for a block of its own: the
\* lines share one block, and one padding.
LEMMA LineAdds ==
  ASSUME NEW s \in Seq(Secret), NEW x \in Secret, NEW t, t = Append(s, x)
  PROVE  LineCost(t) <= LineCost(s) + dsbSize(x.len + 1)
<1> DEFINE n == Bytes(s) + Len(s)
           m == x.len + 1
<1>1. Len(s) \in Nat /\ t \in Seq(Secret) /\ Len(t) = Len(s) + 1 /\ t # <<>>
  <2>1. Len(s) \in Nat /\ t \in Seq(Secret) /\ Len(t) = Len(s) + 1
    BY Appended
  <2>2. Len(<<>>) = 0
    BY SeqEmpty
  <2> QED
    BY <2>1, <2>2
<1>2. Bytes(t) = Bytes(s) + x.len
  BY BytesAppend, SecretLength, Zenon
<1>3. Bytes(s) \in Nat /\ x.len \in Nat
  BY BytesNat, SecretLength
<1>4. n \in Nat /\ m \in Nat /\ Bytes(t) + Len(t) = n + m
  <2> DEFINE a == Bytes(s)
             b == Len(s)
             c == x.len
  <2>1. a \in Nat /\ b \in Nat /\ c \in Nat
    BY <1>1, <1>3
  <2> HIDE DEF a, b, c
  <2>3. (a + c) + (b + 1) = (a + b) + (c + 1) /\ a + b \in Nat /\ c + 1 \in Nat
    BY <2>1
  <2>2. (Bytes(s) + x.len) + (Len(s) + 1) = n + m /\ n \in Nat /\ m \in Nat
    BY <2>3 DEF a, b, c
  <2> QED
    BY <1>1, <1>2, <2>2, Zenon
<1>5. LineCost(t) = 20 + pad4(n + m)
  <2>1. DSB(t).kind = "DSB" /\ DSB(t).lines = t
    BY DEF DSB
  <2>2. BlockBytes(DSB(t)) = 20 + pad4(Bytes(t) + Len(t))
    BY <2>1 DEF BlockBytes
  <2> QED
    BY <1>1, <1>4, <2>2 DEF LineCost
<1>6. CASE s = <<>>
  <2>1. n = 0 /\ LineCost(s) = 0
    BY <1>6, BytesNone, SeqEmpty DEF LineCost
  <2>2. n + m = m
    BY <1>4, <2>1
  <2>3. LineCost(t) = dsbSize(m)
    BY <1>5, <2>2 DEF dsbSize
  <2>4. dsbSize(m) \in Nat
    BY <1>4, SizesAreNat, Zenon
  <2> HIDE DEF m
  <2>5. LineCost(t) <= LineCost(s) + dsbSize(m)
    BY <2>1, <2>3, <2>4
  <2> QED
    BY <2>5 DEF m
<1>7. CASE s # <<>>
  <2>1. DSB(s).kind = "DSB" /\ DSB(s).lines = s
    BY DEF DSB
  <2>2. LineCost(s) = 20 + pad4(n)
    BY <1>7, <2>1 DEF LineCost, BlockBytes
  <2> HIDE DEF n, m
  <2>3. pad4(n) \in Nat /\ pad4(m) \in Nat /\ pad4(n + m) \in Nat /\ pad4(n + m) <= pad4(n) + pad4(m)
    <3>1. n + m \in Nat
      BY <1>4
    <3> QED
      BY <1>4, <3>1, PadTogether, Zenon
  <2>4. LineCost(t) <= LineCost(s) + dsbSize(m)
    BY <1>5, <2>2, <2>3 DEF dsbSize
  <2> QED
    BY <2>4 DEF m
<1> QED
  BY <1>6, <1>7

\* The order in which three counts are added.
LEMMA Regrouped ==
  \A a, b, c \in Nat : a + (b + c) = b + (a + c) /\ a + c \in Nat
OBVIOUS

\* Bytes that move from a queue (q, of which b move) to the file (d, then e)
\* are counted once.
LEMMA Moved ==
  \A h, d, e, b, q, a \in Nat : h + d + (b + q) <= a /\ e <= d + b => h + e + q <= a
OBVIOUS

\* What is counted covers the header, the file and both queues, whether or not
\* the file is closed.
CoverInv == HeaderSize + BytesIn(file) + QueuedBytes <= admitted

\* Every step of the capture keeps it.
LEMMA CoverStep == TypeInv /\ TypeInv' /\ CoverInv /\ [Next]_vars => CoverInv'
<1> SUFFICES ASSUME TypeInv, TypeInv', CoverInv, [Next]_vars PROVE CoverInv'
  OBVIOUS
<1> DEFINE lines == LineCost(pending)
           frames == Costs(held)
           disk == BytesIn(file)
<1>0. HeaderSize \in Nat /\ admitted \in Nat /\ admitted' \in Nat
  BY SizesAssumption DEF TypeInv, TypeOK
<1>c. /\ held \in Seq(Packet) /\ pending \in Seq(Secret) /\ file \in Seq(Block)
      /\ packets \in Nat /\ secrets \in Nat
  BY DEF TypeInv, TypeOK
<1>a. /\ HeaderSize + disk + (lines + frames) <= admitted
      /\ lines \in Nat /\ frames \in Nat /\ disk \in Nat /\ DSB(pending) \in Block
  <2>1. lines \in Nat /\ frames \in Nat /\ DSB(pending) \in Block /\ QueuedBytes = lines + frames
    BY <1>c, QueuedParts, Zenon DEF QueuedBytes
  <2>2. disk \in Nat
    BY <1>c, FileSizes, Zenon
  <2> QED
    BY <2>1, <2>2 DEF CoverInv
<1>b. lines' \in Nat /\ frames' \in Nat /\ disk' \in Nat /\ QueuedBytes' = lines' + frames'
  <2>1. held' \in Seq(Packet) /\ pending' \in Seq(Secret) /\ file' \in Seq(Block)
    BY DEF TypeInv, TypeOK
  <2>2. lines' \in Nat /\ frames' \in Nat /\ QueuedBytes' = lines' + frames'
    BY <2>1, QueuedParts, Zenon DEF QueuedBytes
  <2>3. disk' \in Nat
    BY <2>1, FileSizes, Zenon
  <2> QED
    BY <2>2, <2>3
<1> SUFFICES HeaderSize + disk' + (lines' + frames') <= admitted'
  BY <1>b DEF CoverInv
<1>e. HeaderSize \in Nat /\ admitted \in Nat /\ disk \in Nat /\ lines \in Nat /\ frames \in Nat
  BY <1>0, <1>a
<1>f. HeaderSize + disk + (lines + frames) <= admitted
  BY <1>a
<1>g. disk' \in Nat /\ lines' \in Nat /\ frames' \in Nat
  BY <1>b
<1>d. ASSUME UNCHANGED <<held, pending, admitted, file>> PROVE HeaderSize + disk' + (lines' + frames') <= admitted'
  BY <1>a, <1>d
<1>1. ASSUME NEW len \in PacketLens, WritePacket(len) PROVE HeaderSize + disk' + (lines' + frames') <= admitted'
  <2>1. CASE admits(epbSize(len))
    <3> DEFINE p == [id |-> packets + 1, len |-> len, age |-> 0]
    <3>1. p \in Packet /\ p.len = len /\ len \in Nat
      <4>1. len \in Nat /\ HoldWindow \in Nat
        BY SizesAssumption
      <4> QED
        BY <1>c, <4>1 DEF Packet
    <3>2. held' = Append(held, p)
      BY <1>1, <2>1 DEF WritePacket
    <3>3. admitted' = admitted + epbSize(len) /\ UNCHANGED <<pending, file>>
      BY <1>1, <2>1 DEF WritePacket, storage
    <3> HIDE DEF p
    <3>4. Costs(held') = Costs(held) + epbSize(len)
      BY <1>c, <3>1, <3>2, CostsAppend, Zenon
    <3>5. epbSize(len) \in Nat
      BY <3>1, SizesAreNat
    <3>6. lines' = lines /\ disk' = disk /\ frames' = frames + epbSize(len)
      BY <3>3, <3>4
    <3> HIDE DEF lines, frames, disk
    <3> QED
      BY <1>0, <1>a, <3>3, <3>5, <3>6
  <2>2. CASE ~admits(epbSize(len))
    <3>1. UNCHANGED <<held, pending, admitted, file>>
      BY <1>1, <2>2 DEF WritePacket, refuse, storage
    <3> QED
      BY <1>d, <3>1
  <2> QED
    BY <2>1, <2>2
<1>2. ASSUME NEW len \in LineLens, AddSecret(len) PROVE HeaderSize + disk' + (lines' + frames') <= admitted'
  <2>1. CASE admits(dsbSize(len + 1))
    <3> DEFINE x == [id |-> secrets + 1, len |-> len, after |-> packets - Len(held)]
    <3>1. x \in Secret /\ x.len = len /\ len \in Nat
      <4>1. len \in Nat /\ packets - Len(held) \in Nat
        <5>1. Len(held) \in Nat /\ Len(held) <= packets
          BY <1>c, SeqLen DEF TypeInv
        <5> QED
          BY <1>c, <5>1, SizesAssumption
      <4> QED
        BY <1>c, <4>1 DEF Secret
    <3>2. pending' = Append(pending, x)
      BY <1>2, <2>1 DEF AddSecret
    <3>3. admitted' = admitted + dsbSize(len + 1) /\ UNCHANGED <<held, file>>
      BY <1>2, <2>1 DEF AddSecret, storage
    <3> HIDE DEF x
    <3>4. LineCost(pending') <= LineCost(pending) + dsbSize(x.len + 1)
      BY <1>c, <3>1, <3>2, LineAdds, Zenon
    <3>5. dsbSize(len + 1) \in Nat
      <4>1. len + 1 \in Nat
        BY <3>1
      <4> QED
        BY <4>1, SizesAreNat
    <3>6. lines' <= lines + dsbSize(len + 1) /\ disk' = disk /\ frames' = frames
      BY <3>1, <3>3, <3>4
    <3> HIDE DEF lines, frames, disk
    <3> QED
      BY <1>0, <1>a, <1>b, <3>3, <3>5, <3>6
  <2>2. CASE ~admits(dsbSize(len + 1))
    <3>1. UNCHANGED <<held, pending, admitted, file>>
      BY <1>2, <2>2 DEF AddSecret, refuse, storage
    <3> QED
      BY <1>d, <3>1
  <2> QED
    BY <2>1, <2>2
<1>3. ASSUME NEW r \in Rooms, SetRoom(r) PROVE HeaderSize + disk' + (lines' + frames') <= admitted'
  <2>1. UNCHANGED <<held, pending, admitted, file>>
    BY <1>3 DEF SetRoom, queue, storage
  <2> QED
    BY <1>d, <2>1
<1>4. CASE LiveEnds \/ notifyStop \/ drainExit \/ Close \/ UNCHANGED vars
  <2>1. UNCHANGED <<held, pending, admitted, file>>
    BY <1>4 DEF LiveEnds, notifyStop, drainExit, Close, vars, queue, limit, storage
  <2> QED
    BY <1>d, <2>1
<1>5. CASE overflowDone \/ drain \/ closeLocked
  <2>1. UNCHANGED <<held, pending, admitted, file>>
    BY <1>5 DEF overflowDone, drain, closeLocked, takeLockToClose, queue, limit, storage
  <2> QED
    BY <1>d, <2>1
<1>6. CASE writeSecrets
  <2>1. /\ pending # <<>> /\ NgWrite(DSB(pending)) /\ pending' = <<>>
        /\ UNCHANGED <<held, admitted>>
    BY <1>6 DEF writeSecrets, limit
  <2>2. BytesIn(file') <= BytesIn(file) + BlockBytes(DSB(pending))
    BY <1>a, <2>1, WriteAdds
  <2>3. lines = BlockBytes(DSB(pending)) /\ lines' = 0 /\ frames' = frames
    BY <2>1 DEF LineCost
  <2>4. disk' <= disk + lines
    BY <2>2, <2>3
  <2>5. admitted' = admitted
    BY <2>1
  <2> HIDE DEF lines, frames, disk
  <2>6. HeaderSize + disk' + frames <= admitted
    BY <1>e, <1>f, <1>g, <2>4, Moved, Zenon
  <2>7. 0 + frames = frames
    BY <1>e
  <2>8. HeaderSize + disk' + (0 + frames) <= admitted
    BY <2>6, <2>7, Zenon
  <2> QED
    BY <2>3, <2>5, <2>8, Zenon
<1>7. CASE writeOldest
  <2>1. /\ held # <<>> /\ NgWrite(EPB(Head(held))) /\ held' = Tail(held)
        /\ UNCHANGED <<pending, admitted>>
    BY <1>7 DEF writeOldest, popOldest, more, limit
  <2>2. Head(held) \in Packet
    BY <1>c, <2>1, SeqTail
  <2>3. EPB(Head(held)) \in Block
    BY <2>2 DEF EPB, Block, EPBs, Packet
  <2>4. BytesIn(file') <= BytesIn(file) + BlockBytes(EPB(Head(held)))
    BY <2>1, <2>3, WriteAdds
  <2>5. BlockBytes(EPB(Head(held))) = epbSize(Head(held).len)
    <3>1. EPB(Head(held)).kind = "EPB" /\ EPB(Head(held)).len = Head(held).len
      BY DEF EPB
    <3> QED
      BY <3>1 DEF BlockBytes, epbSize
  <2>6. Costs(held) = epbSize(Head(held).len) + Costs(Tail(held))
    BY <1>c, <2>1, CostsTail
  <2> DEFINE b == epbSize(Head(held).len)
  <2>7. b \in Nat
    BY <2>2, PacketLength, SizesAreNat
  <2>8. disk' <= disk + b /\ frames = b + frames' /\ lines' = lines
    BY <2>1, <2>4, <2>5, <2>6
  <2>9. admitted' = admitted
    BY <2>1
  <2> HIDE DEF lines, frames, disk, b
  <2>10. HeaderSize + disk' + (lines + frames') <= admitted
    <3>1. disk' <= disk + b /\ frames = b + frames'
      BY <2>8
    <3>2. lines + (b + frames') = b + (lines + frames') /\ lines + frames' \in Nat
      BY <1>e, <1>g, <2>7, Regrouped, Zenon
    <3>3. HeaderSize + disk + (b + (lines + frames')) <= admitted
      BY <1>f, <3>1, <3>2, Zenon
    <3> QED
      BY <1>e, <1>g, <2>7, <3>1, <3>2, <3>3, Moved, Zenon
  <2> QED
    BY <2>8, <2>9, <2>10
<1>8. CASE drainDone \/ closeDone
  <2>1. NgFlush /\ UNCHANGED <<held, pending, admitted>>
    BY <1>8 DEF drainDone, closeDone, queue, limit
  <2>2. disk' <= disk /\ lines' = lines /\ frames' = frames
    BY <2>1, FlushAdds
  <2>3. admitted' = admitted
    BY <2>1
  <2> HIDE DEF lines, frames, disk
  <2>4. HeaderSize + disk' + (lines + frames) <= admitted
    <3>1. disk' <= disk + 0 /\ lines + frames \in Nat /\ 0 + (lines + frames) = lines + frames /\ 0 \in Nat
      BY <1>e, <1>g, <2>2
    <3>2. HeaderSize + disk + (0 + (lines + frames)) <= admitted
      BY <1>f, <3>1, Zenon
    <3> QED
      BY <1>e, <1>g, <3>1, <3>2, Moved, Zenon
  <2> QED
    BY <2>2, <2>3, <2>4
<1>9. CASE Tick
  <2>1. UNCHANGED <<pending, admitted, file>>
    BY <1>9 DEF Tick, limit, storage
  <2>2. /\ held' \in Seq(Packet) /\ Len(held') = Len(held)
        /\ \A i \in 1 .. Len(held) : held'[i].len = held[i].len
    BY <1>9, <1>c, TickType
  <2>3. frames' = frames
    BY <1>c, <2>2, CostsSame
  <2>4. lines' = lines /\ disk' = disk /\ admitted' = admitted
    BY <2>1
  <2> HIDE DEF lines, frames, disk
  <2> QED
    BY <1>a, <2>3, <2>4
<1> QED
  BY <1>1, <1>2, <1>3, <1>4, <1>5, <1>6, <1>7, <1>8, <1>9 DEF Next

\* A new capture has its header, which is counted.
LEMMA CoverInit == Init => CoverInv
<1> SUFFICES ASSUME Init PROVE CoverInv
  OBVIOUS
<1>1. held = <<>> /\ pending = <<>> /\ file = <<>> /\ admitted = HeaderSize
  BY DEF Init
<1> DEFINE y == [k \in DOMAIN file |-> BlockBytes(file[k])]
           z == [i \in 1 .. Len(held) |-> epbSize(held[i].len)]
<1>2. Len(held) = 0
  BY <1>1, SeqEmpty
<1>3. DOMAIN y = {} /\ DOMAIN z = {}
  BY <1>1, <1>2
<1>4. BytesIn(file) = SumFunction(y) /\ Costs(held) = SumFunction(z)
  BY DEF BytesIn, Costs
<1>5. SumFunction(y) = 0 /\ SumFunction(z) = 0
  <2> HIDE DEF y, z
  <2> QED
    BY <1>3, SumOfNone
<1>6. QueuedBytes = LineCost(pending) + Costs(held)
  <2>1. held \in Seq(Packet) /\ pending \in Seq(Secret)
    BY <1>1, SeqEmpty
  <2> QED
    BY <2>1, QueuedParts, Zenon DEF QueuedBytes
<1>7. LineCost(pending) = 0
  BY <1>1 DEF LineCost
<1> QED
  BY <1>1, <1>4, <1>5, <1>6, <1>7, SizesAssumption DEF CoverInv

\* admit's count covers the file and what is queued for it, for packets and
\* lines of any number and length, however often the disk fails: a capture whose
\* blocks were admitted within the room never passes it.
THEOREM AdmittedCovers == Spec => []AdmittedCoversFile
<1>1. Init => TypeInv /\ CoverInv
  BY TypingInit, CoverInit
<1>2. (TypeInv /\ CoverInv) /\ [Next]_vars => (TypeInv /\ CoverInv)'
  BY TypingStep, CoverStep
<1>3. TypeInv /\ CoverInv => AdmittedCoversFile
  <2> SUFFICES ASSUME TypeInv, CoverInv PROVE AdmittedCoversFile
    OBVIOUS
  <2>1. QueuedBytes \in Nat /\ BytesIn(file) \in Nat /\ HeaderSize \in Nat /\ admitted \in Nat
    <3>1. /\ QueuedBytes = LineCost(pending) + Costs(held)
          /\ LineCost(pending) \in Nat /\ Costs(held) \in Nat /\ BytesIn(file) \in Nat
      <4>1. held \in Seq(Packet) /\ pending \in Seq(Secret) /\ file \in Seq(Block)
        BY DEF TypeInv, TypeOK
      <4> QED
        BY <4>1, QueuedParts, FileSizes, Zenon DEF QueuedBytes
    <3>2. HeaderSize \in Nat /\ admitted \in Nat
      BY SizesAssumption DEF TypeInv, TypeOK
    <3> QED
      BY <3>1, <3>2
  <2>2. CASE closed
    BY <2>1, <2>2 DEF CoverInv, AdmittedCoversFile, FinalBytes
  <2>3. CASE ~closed
    BY <2>1, <2>3 DEF CoverInv, AdmittedCoversFile, FinalBytes
  <2> QED
    BY <2>2, <2>3
<1> QED
  BY <1>1, <1>2, <1>3, PTL DEF Spec
=============================================================================
