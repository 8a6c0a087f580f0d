------------------------------- MODULE Splice -------------------------------
(***************************************************************************)
(* One relayed connection (splice in internal/proxy/relay.go): two copies, *)
(* one per direction, between the app's connection and the upstream's.     *)
(* The copy that reads from end e and writes to the other is e's copy.     *)
(* Bytes are counted, in order; a copy moves one at a time.  A peer reads  *)
(* when it likes, or never, and a write waits for room: no connection has  *)
(* a deadline.                                                             *)
(***************************************************************************)
EXTENDS Integers

CONSTANTS
  MaxData,  \* bound: bytes a peer sends
  Buffer    \* bytes the kernel holds for a peer that has not read them

ASSUME DataAssumption == MaxData \in Nat /\ Buffer \in Nat \ {0}

Ends == {"client", "upstream"}
other(e) == IF e = "client" THEN "upstream" ELSE "client"

VARIABLES
  peer,    \* what the peer did: "open", "shut" (its half), "gone" (closed)
  sent,    \* bytes it sent
  taken,   \* bytes it has read
  got,     \* bytes the relay has written to it
  reset,   \* its connection with the relay was reset
  read,    \* bytes the relay read from it
  copying, \* its copy has not returned
  fin,     \* the relay has shut its half towards it
  closed   \* splice has returned, both connections closed

peers == <<peer, sent, taken>>
relay == <<read, copying, fin, closed>>
spliceVars == <<peers, got, reset, relay>>

SpliceInit ==
  /\ peer = [e \in Ends |-> "open"] /\ sent = [e \in Ends |-> 0]
  /\ taken = [e \in Ends |-> 0]
  /\ got = [e \in Ends |-> 0] /\ reset = [e \in Ends |-> FALSE]
  /\ read = [e \in Ends |-> 0] /\ copying = [e \in Ends |-> TRUE]
  /\ fin = [e \in Ends |-> FALSE] /\ closed = FALSE

-----------------------------------------------------------------------------
(* The peers.                                                              *)

PeerSends(e) ==
  /\ peer[e] = "open" /\ sent[e] < MaxData
  /\ sent' = [sent EXCEPT ![e] = @ + 1]
  /\ UNCHANGED <<peer, taken, got, reset, relay>>

PeerReads(e) ==
  /\ peer[e] # "gone" /\ taken[e] < got[e]
  /\ taken' = [taken EXCEPT ![e] = @ + 1]
  /\ UNCHANGED <<peer, sent, got, reset, relay>>

PeerShuts(e) ==
  /\ peer[e] = "open"
  /\ peer' = [peer EXCEPT ![e] = "shut"]
  /\ UNCHANGED <<sent, taken, got, reset, relay>>

PeerCloses(e) ==
  /\ peer[e] # "gone"
  /\ peer' = [peer EXCEPT ![e] = "gone"]
  /\ UNCHANGED <<sent, taken, got, reset, relay>>

PeerResets(e) ==
  /\ ~reset[e]
  /\ peer' = [peer EXCEPT ![e] = "gone"]
  /\ reset' = [reset EXCEPT ![e] = TRUE]
  /\ UNCHANGED <<sent, taken, got, relay>>

-----------------------------------------------------------------------------
(* The copies.                                                             *)

inHand(e) == read[e] - got[other(e)]

copyEnds_KeepsHalf(e) ==
  /\ copying' = [copying EXCEPT ![e] = FALSE]
  /\ UNCHANGED <<peers, got, reset, read, fin, closed>>
\* io.Copy returns, and the copy shuts the half it wrote to.
copyEnds(e) ==
  /\ copying' = [copying EXCEPT ![e] = FALSE]
  /\ fin' = [fin EXCEPT ![other(e)] = TRUE]
  /\ UNCHANGED <<peers, got, reset, read, closed>>

readSome(e) ==
  /\ copying[e] /\ inHand(e) = 0
  /\ ~reset[e] /\ read[e] < sent[e]
  /\ read' = [read EXCEPT ![e] = @ + 1]
  /\ UNCHANGED <<peers, got, reset, copying, fin, closed>>

readEnds_Early(e) ==
  /\ copying[e]
  /\ reset[e] \/ peer[e] # "open"
  /\ copyEnds(e)
\* Everything is read and the peer has shut its half, or the read fails.
readEnds(e) ==
  /\ copying[e] /\ inHand(e) = 0
  /\ reset[e] \/ (read[e] = sent[e] /\ peer[e] # "open")
  /\ copyEnds(e)

hasRoom(e) == got[e] - taken[e] < Buffer

\* A write waits until the peer has room, and a peer that has closed answers it
\* with a reset.
writeSome(e) ==
  /\ copying[e] /\ inHand(e) > 0 /\ ~reset[other(e)]
  /\ hasRoom(other(e)) \/ peer[other(e)] = "gone"
  /\ got' = [got EXCEPT ![other(e)] = @ + 1]
  /\ reset' = [reset EXCEPT ![other(e)] = (peer[other(e)] = "gone")]
  /\ UNCHANGED <<peers, relay>>

writeFails(e) ==
  /\ copying[e] /\ inHand(e) > 0 /\ reset[other(e)]
  /\ copyEnds(e)

bothDone_Either == \E e \in Ends : ~copying[e]
\* What wg.Wait waits for.
bothDone == \A e \in Ends : ~copying[e]

\* splice returns and closes both connections, which would end a copy.
spliceReturns ==
  /\ bothDone /\ ~closed
  /\ closed' = TRUE
  /\ copying' = [e \in Ends |-> FALSE]
  /\ UNCHANGED <<peers, got, reset, read, fin>>

SpliceNext ==
  \/ \E e \in Ends : PeerSends(e)
  \/ \E e \in Ends : PeerReads(e)
  \/ \E e \in Ends : PeerShuts(e)
  \/ \E e \in Ends : PeerCloses(e)
  \/ \E e \in Ends : PeerResets(e)
  \/ \E e \in Ends : readSome(e)
  \/ \E e \in Ends : readEnds(e)
  \/ \E e \in Ends : writeSome(e)
  \/ \E e \in Ends : writeFails(e)
  \/ spliceReturns

\* The relay's goroutines run whenever their connection is ready.  The peers may
\* stay silent, and leave what they are sent unread, for ever.
Fairness ==
  /\ \A e \in Ends : WF_spliceVars(readSome(e) \/ readEnds(e) \/ writeSome(e) \/ writeFails(e))
  /\ WF_spliceVars(spliceReturns)

SpliceSpec == SpliceInit /\ [][SpliceNext]_spliceVars

FairSplice == SpliceSpec /\ Fairness

-----------------------------------------------------------------------------
(* Properties.                                                             *)

\* Every variable has its type, a copy never holds more than it read, and a peer
\* reads nothing that was not written to it.
SpliceTypeOK ==
  /\ peer \in [Ends -> {"open", "shut", "gone"}] /\ sent \in [Ends -> Nat]
  /\ taken \in [Ends -> Nat] /\ got \in [Ends -> Nat] /\ reset \in [Ends -> BOOLEAN]
  /\ read \in [Ends -> Nat] /\ copying \in [Ends -> BOOLEAN]
  /\ fin \in [Ends -> BOOLEAN] /\ closed \in BOOLEAN
  /\ \A e \in Ends : inHand(e) \in {0, 1} /\ read[e] <= sent[e] /\ taken[e] <= got[e]

\* A peer that is told the other side has ended has been given everything the
\* other side sent, unless one of the two connections was reset: a half-closed
\* peer still gets the rest of its answer (CloseWrite follows io.Copy).
EndMeansAll ==
  \A e \in Ends : fin[e] /\ ~(\E x \in Ends : reset[x]) => got[e] = sent[other(e)]

\* A peer that goes on reading.
Reads(e) == WF_spliceVars(PeerReads(e))

\* Everything a peer sends is read by the other when the other goes on reading,
\* whatever the other direction does (its receiver may never read, and block that
\* copy for good), unless a connection is reset or the reader has gone.
AllDelivered ==
  \A e \in Ends :
    Reads(other(e)) =>
      \A n \in 1 .. MaxData :
        (sent[e] >= n) ~> \/ taken[other(e)] >= n
                          \/ \E x \in Ends : reset[x]
                          \/ peer[other(e)] = "gone"

\* When both peers go on reading, and each ends some time after it is told that
\* the other has, one peer ending is enough for splice to return and free both
\* connections: each copy passes the end on, and neither waits for the other.
EndPropagates ==
  (\A e \in Ends : Reads(e) /\ (fin[e] ~> peer[e] # "open"))
    => ((\E e \in Ends : peer[e] # "open") ~> closed)

\* The comment on splice: it copies "until either side closes".
EitherClosesReturns == (\E e \in Ends : peer[e] = "gone") ~> closed
=============================================================================
