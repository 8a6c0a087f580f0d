----------------------------- MODULE RelayProofs -----------------------------
(***************************************************************************)
(* The relay's two small parts, for any amount of data and any number of   *)
(* records: the limited logger it reports its misses through (Limiter),    *)
(* and one relayed connection (Splice).                                    *)
(***************************************************************************)
EXTENDS Limiter, Splice, TLAPS

-----------------------------------------------------------------------------
(* The limited logger: its bounds hold for every interval and burst, and   *)
(* any number of goroutines.                                               *)

\* Multiplying by a burst keeps an order.
LEMMA TimesMonotone ==
  ASSUME NEW b \in Nat, NEW x \in Int, NEW y \in Int, x <= y
  PROVE  b * x <= b * y
OBVIOUS

\* Where a time falls among the intervals.
LEMMA Division ==
  ASSUME NEW i \in Nat \ {0}, NEW a \in Nat
  PROVE  /\ a \div i \in Nat
         /\ i * (a \div i) <= a
         /\ a < i * (a \div i) + i
OBVIOUS

\* A time is in no earlier interval than a time before it.
LEMMA DivMonotone ==
  ASSUME NEW i \in Nat \ {0}, NEW a \in Nat, NEW b \in Nat, a <= b
  PROVE  a \div i <= b \div i
OBVIOUS

\* A time a whole interval later is in a later interval: a window that opens at
\* turnsOver is counted in an interval of its own.
LEMMA DivNext ==
  ASSUME NEW i \in Nat \ {0}, NEW a \in Nat, NEW b \in Nat, b - a >= i
  PROVE  1 + (a \div i) <= b \div i
OBVIOUS

-----------------------------------------------------------------------------

\* The strengthening of RateBounded: before the interval the current window
\* starts in, at most a burst was kept per interval, and the window itself has
\* kept at most a burst.  It is what a window that opens late relies on.
WindowInv ==
  /\ kept <= Burst
  /\ start <= clock
  /\ \/ start = -Interval /\ total = 0 /\ kept = 0
     \/ start \in Nat /\ total <= Burst * (start \div Interval) + kept

\* Every variable keeps its type, and no goroutine holds a time to come.
THEOREM TypeCorrect == Spec => []TypeOK
<1>1. Init => TypeOK
  BY LimitsAssumption DEF Init, TypeOK
<1>2. TypeOK /\ [Next]_vars => TypeOK'
  <2> SUFFICES ASSUME TypeOK, [Next]_vars PROVE TypeOK'
    OBVIOUS
  <2> USE LimitsAssumption DEF TypeOK
  <2>1. CASE Tick
    BY <2>1 DEF Tick, limiter, history
  <2>2. ASSUME NEW c \in Callers, log(c) PROVE TypeOK'
    BY <2>2 DEF log, limiter, history
  <2>3. ASSUME NEW c \in Callers, admit(c) PROVE TypeOK'
    BY <2>3 DEF admit, keep, drop
  <2>4. CASE UNCHANGED vars
    BY <2>4 DEF vars, limiter, history
  <2> QED
    BY <2>1, <2>2, <2>3, <2>4 DEF Next
<1> QED
  BY <1>1, <1>2, PTL DEF Spec

\* Every record a caller logged is kept, reported as suppressed by exactly one
\* record kept after it, or still counted in dropped.
THEOREM Accounted == Spec => []AllAccounted
<1>1. Init => AllAccounted
  BY DEF Init, AllAccounted
<1>2. TypeOK /\ AllAccounted /\ [Next]_vars => AllAccounted'
  <2> SUFFICES ASSUME TypeOK, AllAccounted, [Next]_vars PROVE AllAccounted'
    OBVIOUS
  <2> USE DEF TypeOK, AllAccounted
  <2>1. CASE Tick
    BY <2>1 DEF Tick, limiter, history
  <2>2. ASSUME NEW c \in Callers, log(c) PROVE AllAccounted'
    BY <2>2 DEF log, limiter, history
  <2>3. ASSUME NEW c \in Callers, admit(c) PROVE AllAccounted'
    BY <2>3 DEF admit, keep, drop
  <2>4. CASE UNCHANGED vars
    BY <2>4 DEF vars, limiter, history
  <2> QED
    BY <2>1, <2>2, <2>3, <2>4 DEF Next
<1> QED
  BY <1>1, <1>2, TypeCorrect, PTL DEF Spec

\* A record admitted at time t keeps WindowInv, whether it turns the window over
\* or not, and whether it is kept or dropped.
LEMMA AdmitKeepsWindow ==
  ASSUME TypeOK, WindowInv, NEW c \in Callers, admit(c)
  PROVE  WindowInv'
<1> DEFINE t == now[c]
<1> USE LimitsAssumption
<1>1. t \in Nat /\ t <= clock /\ clock \in Nat
  BY DEF admit, TypeOK
<1>2. clock' = clock
  BY DEF admit
<1>3. CASE turnsOver(t)
  <2>1. start' = t
    BY <1>3 DEF admit
  <2>2. kept' <= Burst /\ kept' \in Nat /\ total' \in Nat
    BY <1>3 DEF admit, keep, drop, TypeOK
  <2>3. (kept' = 0 /\ total' = total) \/ (kept' = 1 /\ total' = total + 1)
    BY <1>3 DEF admit, keep, drop, TypeOK
  <2>4. total <= Burst * (t \div Interval)
    <3>1. CASE start = -Interval /\ total = 0 /\ kept = 0
      <4>1. t \div Interval \in Nat
        BY <1>1, Division
      <4> QED
        BY <3>1, <4>1
    <3>2. CASE start \in Nat /\ total <= Burst * (start \div Interval) + kept
      <4>1. start \div Interval \in Nat /\ t \div Interval \in Nat
        BY <3>2, <1>1, Division
      <4>2. t - start >= Interval
        BY <1>3 DEF turnsOver
      <4>3. 1 + (start \div Interval) <= t \div Interval
        BY <3>2, <1>1, <4>2, DivNext
      <4>4. Burst * (1 + (start \div Interval)) <= Burst * (t \div Interval)
        BY <4>1, <4>3, TimesMonotone
      <4>5. total <= Burst * (start \div Interval) + Burst
        BY <3>2, <4>1 DEF WindowInv, TypeOK
      <4> QED
        BY <4>1, <4>4, <4>5 DEF TypeOK
    <3> QED
      BY <3>1, <3>2 DEF WindowInv
  <2>5. total' <= Burst * (t \div Interval) + kept'
    <3> DEFINE b == Burst * (t \div Interval)
    <3>1. b \in Int
      BY <1>1, Division
    <3>2. total <= b
      BY <2>4
    <3> HIDE DEF b
    <3>3. total' <= b + kept'
      BY <2>3, <3>1, <3>2 DEF TypeOK
    <3> QED
      BY <3>3 DEF b
  <2> QED
    BY <1>1, <1>2, <2>1, <2>2, <2>5 DEF WindowInv
<1>4. CASE ~turnsOver(t)
  <2>1. start \in Nat /\ total <= Burst * (start \div Interval) + kept
    BY <1>1, <1>4 DEF WindowInv, turnsOver
  <2>2. start' = start
    BY <1>4 DEF admit
  <2>3. /\ kept' <= Burst
        /\ (kept' = kept /\ total' = total) \/ (kept' = kept + 1 /\ total' = total + 1)
    BY <1>4 DEF admit, keep, drop, TypeOK, WindowInv
  <2>4. Burst * (start \div Interval) \in Int
    BY <2>1, Division
  <2>5. total' <= Burst * (start \div Interval) + kept'
    <3> DEFINE b == Burst * (start \div Interval)
    <3>1. b \in Int /\ total <= b + kept
      BY <2>1, <2>4
    <3> HIDE DEF b
    <3>2. total' <= b + kept'
      BY <2>3, <3>1 DEF TypeOK
    <3> QED
      BY <3>2 DEF b
  <2> QED
    BY <1>2, <2>1, <2>2, <2>3, <2>5 DEF WindowInv
<1> QED
  BY <1>3, <1>4

\* At most one burst per interval is kept, for every interval, burst and number
\* of goroutines, however long each is held up before it takes the lock.
THEOREM Bounded == Spec => []RateBounded
<1> USE LimitsAssumption
<1>1. Init => WindowInv
  BY DEF Init, WindowInv
<1>2. TypeOK /\ WindowInv /\ [Next]_vars => WindowInv'
  <2> SUFFICES ASSUME TypeOK, WindowInv, [Next]_vars PROVE WindowInv'
    OBVIOUS
  <2>1. CASE Tick
    <3>1. start' = start /\ kept' = kept /\ total' = total /\ clock' >= clock /\ clock' \in Nat
      BY <2>1 DEF Tick, limiter, history, TypeOK
    <3> QED
      BY <3>1 DEF WindowInv, TypeOK
  <2>2. ASSUME NEW c \in Callers, log(c) PROVE WindowInv'
    BY <2>2 DEF log, limiter, history, WindowInv
  <2>3. ASSUME NEW c \in Callers, admit(c) PROVE WindowInv'
    BY <2>3, AdmitKeepsWindow
  <2>4. CASE UNCHANGED vars
    BY <2>4 DEF vars, limiter, history, WindowInv
  <2> QED
    BY <2>1, <2>2, <2>3, <2>4 DEF Next
<1>3. TypeOK /\ WindowInv => RateBounded
  <2> SUFFICES ASSUME TypeOK, WindowInv PROVE total <= Burst * (1 + (clock \div Interval))
    BY DEF RateBounded
  <2>1. clock \div Interval \in Nat
    BY Division DEF TypeOK
  <2>2. CASE start = -Interval /\ total = 0 /\ kept = 0
    BY <2>1, <2>2
  <2>3. CASE start \in Nat /\ total <= Burst * (start \div Interval) + kept
    <3>1. start \div Interval \in Nat
      BY <2>3, Division
    <3>2. 1 + (start \div Interval) <= 1 + (clock \div Interval)
      BY <2>1, <2>3, <3>1, DivMonotone DEF WindowInv, TypeOK
    <3>3. Burst * (1 + (start \div Interval)) <= Burst * (1 + (clock \div Interval))
      BY <2>1, <3>1, <3>2, TimesMonotone
    <3> QED
      BY <2>1, <2>3, <3>1, <3>3 DEF WindowInv, TypeOK
  <2> QED
    BY <2>2, <2>3 DEF WindowInv
<1> QED
  BY <1>1, <1>2, <1>3, TypeCorrect, PTL DEF Spec

-----------------------------------------------------------------------------
(* One relayed connection: no peer is told of an end before it has         *)
(* everything that was sent.                                               *)

anyReset == \E x \in Ends : reset[x]

\* The strengthening of EndMeansAll: the sender of a direction that has ended
\* sends no more, so what was everything stays everything.
EndInv ==
  \A e \in Ends :
    fin[e] => anyReset \/ (peer[other(e)] # "open" /\ got[e] = sent[other(e)])

\* The two ends, and each is the other's other.
LEMMA OtherEnd ==
  \A e \in Ends : other(e) \in Ends /\ other(e) # e /\ other(other(e)) = e
BY DEF Ends, other

\* Every variable keeps its type, and a copy holds at most what it last read.
THEOREM ConnTypeCorrect == SpliceSpec => []SpliceTypeOK
<1>1. SpliceInit => SpliceTypeOK
  <2> SUFFICES ASSUME SpliceInit PROVE SpliceTypeOK
    OBVIOUS
  <2>1. \A e \in Ends : read[e] = 0 /\ got[other(e)] = 0 /\ sent[e] = 0 /\ taken[e] = 0 /\ got[e] = 0
    BY OtherEnd DEF SpliceInit
  <2>2. \A e \in Ends : inHand(e) \in {0, 1} /\ read[e] <= sent[e] /\ taken[e] <= got[e]
    BY <2>1 DEF inHand
  <2> QED
    BY <2>2, Zenon DEF SpliceInit, SpliceTypeOK
<1>2. SpliceTypeOK /\ [SpliceNext]_spliceVars => SpliceTypeOK'
  <2> SUFFICES ASSUME SpliceTypeOK, [SpliceNext]_spliceVars PROVE SpliceTypeOK'
    OBVIOUS
  <2> USE OtherEnd DEF SpliceTypeOK, inHand
  <2>1. ASSUME NEW e \in Ends, PeerSends(e) PROVE SpliceTypeOK'
    BY <2>1 DEF PeerSends, relay
  <2>2. ASSUME NEW e \in Ends, PeerShuts(e) PROVE SpliceTypeOK'
    BY <2>2 DEF PeerShuts, relay
  <2>3. ASSUME NEW e \in Ends, PeerCloses(e) PROVE SpliceTypeOK'
    BY <2>3 DEF PeerCloses, relay
  <2>4. ASSUME NEW e \in Ends, PeerResets(e) PROVE SpliceTypeOK'
    BY <2>4 DEF PeerResets, relay
  <2>5. ASSUME NEW e \in Ends, readSome(e) PROVE SpliceTypeOK'
    BY <2>5 DEF readSome, peers
  <2>6. ASSUME NEW e \in Ends, readEnds(e) PROVE SpliceTypeOK'
    BY <2>6 DEF readEnds, copyEnds, peers
  <2>7. ASSUME NEW e \in Ends, writeSome(e) PROVE SpliceTypeOK'
    BY <2>7 DEF writeSome, peers, relay
  <2>8. ASSUME NEW e \in Ends, writeFails(e) PROVE SpliceTypeOK'
    BY <2>8 DEF writeFails, copyEnds, peers
  <2>9. CASE spliceReturns
    BY <2>9 DEF spliceReturns, peers
  <2>10. ASSUME NEW e \in Ends, PeerReads(e) PROVE SpliceTypeOK'
    BY <2>10 DEF PeerReads, relay
  <2>11. CASE UNCHANGED spliceVars
    BY <2>11 DEF spliceVars, peers, relay
  <2> QED
    BY <2>1, <2>2, <2>3, <2>4, <2>5, <2>6, <2>7, <2>8, <2>9, <2>10, <2>11 DEF SpliceNext
<1> QED
  BY <1>1, <1>2, PTL DEF SpliceSpec

\* A peer that is told the other side has ended has everything the other side
\* sent, unless a connection was reset: CloseWrite follows the copy's last write.
THEOREM EndsAfterAll == SpliceSpec => []EndMeansAll
<1>1. SpliceInit => EndInv
  BY DEF SpliceInit, EndInv
<1>2. SpliceTypeOK /\ EndInv /\ [SpliceNext]_spliceVars => EndInv'
  <2> SUFFICES ASSUME SpliceTypeOK, EndInv, [SpliceNext]_spliceVars, NEW f \in Ends, fin'[f], ~anyReset'
               PROVE  peer'[other(f)] # "open" /\ got'[f] = sent'[other(f)]
    BY DEF EndInv
  <2> USE OtherEnd DEF SpliceTypeOK, EndInv, anyReset, inHand
  <2>1. ASSUME NEW e \in Ends, PeerSends(e)
        PROVE  peer'[other(f)] # "open" /\ got'[f] = sent'[other(f)]
    BY <2>1 DEF PeerSends, relay
  <2>2. ASSUME NEW e \in Ends, PeerShuts(e)
        PROVE  peer'[other(f)] # "open" /\ got'[f] = sent'[other(f)]
    BY <2>2 DEF PeerShuts, relay
  <2>3. ASSUME NEW e \in Ends, PeerCloses(e)
        PROVE  peer'[other(f)] # "open" /\ got'[f] = sent'[other(f)]
    BY <2>3 DEF PeerCloses, relay
  <2>4. ASSUME NEW e \in Ends, PeerResets(e)
        PROVE  peer'[other(f)] # "open" /\ got'[f] = sent'[other(f)]
    BY <2>4 DEF PeerResets, relay
  <2>5. ASSUME NEW e \in Ends, readSome(e)
        PROVE  peer'[other(f)] # "open" /\ got'[f] = sent'[other(f)]
    BY <2>5 DEF readSome, peers
  <2>6. ASSUME NEW e \in Ends, readEnds(e)
        PROVE  peer'[other(f)] # "open" /\ got'[f] = sent'[other(f)]
    <3>1. /\ ~anyReset
          /\ peer' = peer /\ got' = got /\ sent' = sent
          /\ fin' = [fin EXCEPT ![other(e)] = TRUE]
      BY <2>6 DEF readEnds, copyEnds, peers
    <3>2. CASE f = other(e)
      <4>1. other(f) = e
        BY <3>2
      <4>2. read[e] = sent[e] /\ peer[e] # "open" /\ inHand(e) = 0
        BY <2>6, <3>1 DEF readEnds
      <4>3. read[e] \in Nat /\ got[other(e)] \in Nat
        OBVIOUS
      <4>4. got[other(e)] = read[e]
        BY <4>2, <4>3
      <4> QED
        BY <3>1, <3>2, <4>1, <4>2, <4>4
    <3>3. CASE f # other(e)
      BY <3>1, <3>3
    <3> QED
      BY <3>2, <3>3
  <2>7. ASSUME NEW e \in Ends, writeSome(e)
        PROVE  peer'[other(f)] # "open" /\ got'[f] = sent'[other(f)]
    <3>1. ~anyReset
      BY <2>7 DEF writeSome
    <3>2. peer[other(f)] # "open" /\ got[f] = sent[other(f)]
      BY <2>7, <3>1 DEF writeSome, relay
    <3>3. other(e) # f
      BY <2>7, <3>2 DEF writeSome
    <3> QED
      BY <2>7, <3>2, <3>3 DEF writeSome, peers
  <2>8. ASSUME NEW e \in Ends, writeFails(e)
        PROVE  peer'[other(f)] # "open" /\ got'[f] = sent'[other(f)]
    BY <2>8 DEF writeFails, copyEnds, peers
  <2>9. CASE spliceReturns
    BY <2>9 DEF spliceReturns, peers
  <2>10. ASSUME NEW e \in Ends, PeerReads(e)
         PROVE  peer'[other(f)] # "open" /\ got'[f] = sent'[other(f)]
    BY <2>10 DEF PeerReads, relay
  <2>11. CASE UNCHANGED spliceVars
    BY <2>11 DEF spliceVars, peers, relay
  <2> QED
    BY <2>1, <2>2, <2>3, <2>4, <2>5, <2>6, <2>7, <2>8, <2>9, <2>10, <2>11 DEF SpliceNext
<1>3. EndInv => EndMeansAll
  BY DEF EndInv, EndMeansAll, anyReset
<1> QED
  BY <1>1, <1>2, <1>3, ConnTypeCorrect, PTL DEF SpliceSpec
=============================================================================
