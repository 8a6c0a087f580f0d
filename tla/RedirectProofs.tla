--------------------------- MODULE RedirectProofs ---------------------------
(***************************************************************************)
(* What Redirect guarantees for any sockets, ports, addresses, map sizes   *)
(* and retries, and of the codec for any number of values of a byte.       *)
(***************************************************************************)
EXTENDS Redirect, TLAPS

TupleKeys == [loopback : BOOLEAN, port : Ports]

-----------------------------------------------------------------------------
(* The LRU maps.                                                           *)

\* A map is a function from some of the keys to values.
LEMMA MapOfDef ==
  ASSUME NEW K, NEW V, NEW m
  PROVE  m \in MapOf(K, V) <=> DOMAIN m \subseteq K /\ m \in [DOMAIN m -> V]
<1>1. ASSUME m \in MapOf(K, V) PROVE DOMAIN m \subseteq K /\ m \in [DOMAIN m -> V]
  <2>1. PICK S \in SUBSET K : m \in [S -> V]
    BY <1>1 DEF MapOf
  <2>2. DOMAIN m = S
    BY <2>1
  <2> QED
    BY <2>1, <2>2
<1>2. ASSUME DOMAIN m \subseteq K, m \in [DOMAIN m -> V] PROVE m \in MapOf(K, V)
  BY <1>2 DEF MapOf
<1> QED
  BY <1>1, <1>2

\* An update stores its own pair; of the others it may only drop some.
LEMMA UpdateMap ==
  ASSUME NEW K, NEW V, NEW m \in MapOf(K, V), NEW k \in K, NEW v \in V,
         NEW new \in Update(m, k, v)
  PROVE  /\ new \in MapOf(K, V)
         /\ new[k] = v
         /\ DOMAIN new \subseteq DOMAIN m \cup {k}
         /\ \A x \in DOMAIN new : x # k => new[x] = m[x]
<1>1. DOMAIN m \subseteq K /\ m \in [DOMAIN m -> V]
  BY MapOfDef
<1>2. PICK S \in SUBSET (DOMAIN m) : new = Put(m, S, k, v)
  <2>1. CASE k \in DOMAIN m \/ Cardinality(DOMAIN m) < MaxEntries
    BY <2>1 DEF Update
  <2>2. CASE ~(k \in DOMAIN m \/ Cardinality(DOMAIN m) < MaxEntries)
    <3>1. PICK old \in DOMAIN m : new = Put(m, DOMAIN m \ {old}, k, v)
      BY <2>2 DEF Update
    <3> QED
      BY <3>1
  <2> QED
    BY <2>1, <2>2
<1>3. DOMAIN new = S \cup {k}
  BY <1>2 DEF Put
<1>4. \A x \in S \cup {k} : new[x] = IF x = k THEN v ELSE m[x]
  BY <1>2 DEF Put
<1>5. new \in [DOMAIN new -> V]
  <2>1. \A x \in S \cup {k} : (IF x = k THEN v ELSE m[x]) \in V
    BY <1>1
  <2> QED
    BY <1>2, <1>3, <2>1 DEF Put
<1> QED
  BY <1>1, <1>3, <1>4, <1>5, MapOfDef

\* Deleting a key leaves the others.
LEMMA DeleteMap ==
  ASSUME NEW K, NEW V, NEW m \in MapOf(K, V), NEW k
  PROVE  /\ Delete(m, k) \in MapOf(K, V)
         /\ DOMAIN Delete(m, k) = DOMAIN m \ {k}
         /\ \A x \in DOMAIN m \ {k} : Delete(m, k)[x] = m[x]
<1>1. DOMAIN m \subseteq K /\ m \in [DOMAIN m -> V]
  BY MapOfDef
<1>2. DOMAIN Delete(m, k) = DOMAIN m \ {k}
  BY DEF Delete
<1>3. Delete(m, k) \in [DOMAIN m \ {k} -> V]
  BY <1>1 DEF Delete
<1>4. Delete(m, k) \in MapOf(K, V)
  BY <1>1, <1>2, <1>3, MapOfDef
<1> QED
  BY <1>2, <1>4 DEF Delete

\* A map without entries.
LEMMA EmptyMap ==
  ASSUME NEW K, NEW V
  PROVE  Empty \in MapOf(K, V) /\ DOMAIN Empty = {}
<1>1. DOMAIN Empty = {}
  BY DEF Empty
<1>2. Empty \in [{} -> V]
  BY DEF Empty
<1> QED
  BY <1>1, <1>2, MapOfDef, Zenon

\* A loaded map is the pinned one or an empty one.
LEMMA FreshMap ==
  ASSUME NEW K, NEW V, NEW m \in MapOf(K, V), NEW name
  PROVE  fresh(name, m) \in MapOf(K, V) /\ (fresh(name, m) = m \/ fresh(name, m) = Empty)
BY EmptyMap DEF fresh

\* The key of a source is a key of the tuple map.
LEMMA KeyType ==
  ASSUME NEW a, NEW p \in Ports
  PROVE  Key(a, p) \in TupleKeys
<1>1. (a \in Loopback) \in BOOLEAN
  OBVIOUS
<1> QED
  BY <1>1, Zenon DEF Key, TupleKeys

\* Two sources of the same address differ in their keys when they do in ports.
LEMMA KeyInjective ==
  ASSUME NEW a, NEW p, NEW q, Key(a, p) = Key(a, q)
  PROVE  p = q
BY DEF Key

-----------------------------------------------------------------------------
(* Types.                                                                  *)

\* What Loader.Close removes.
LEMMA RankDomain == DOMAIN rank = {"connect4", "sockops", "cookie", "tuple"}
BY DEF rank

\* Initially nothing is attached, on record or connected.
LEMMA TypingInit == Init => TypeOK
<1> SUFFICES ASSUME Init PROVE TypeOK
  OBVIOUS
<1>1. /\ Empty \in MapOf(Conns, Remotes)
      /\ Empty \in MapOf([loopback : BOOLEAN, port : Ports], Remotes)
  BY EmptyMap
<1>2. /\ origdst_by_cookie \in MapOf(Conns, Remotes)
      /\ origdst_by_tuple \in MapOf([loopback : BOOLEAN, port : Ports], Remotes)
  BY <1>1, Zenon DEF Init
<1>3. 0 \in 0 .. Retries /\ 0 \in Nat
  BY NumbersAssumption
<1>4. /\ want \in [Conns -> Addresses \cup {None}]
      /\ peer \in [Conns -> Addresses \cup {None}]
      /\ port \in [Conns -> Ports \cup {None}]
      /\ dst \in [Conns -> Remotes \cup {None}]
      /\ upstream \in [Conns -> Remotes \cup {None, RelayAddr}]
  BY DEF Init
<1>5. /\ sock \in [Conns -> {"idle", "connecting", "open", "failed", "gone"}]
      /\ joined \in [Conns -> BOOLEAN]
      /\ handler \in [Conns -> {"none", "backlog", "resolving", "dialing", "relaying", "reset", "closed"}]
      /\ attempt \in [Conns -> 0 .. Retries]
  BY <1>3 DEF Init
<1> QED
  BY <1>2, <1>3, <1>4, <1>5, Zenon DEF Init, TypeOK

\* A connection's end has its type whoever ends it.
LEMMA EndsType ==
  ASSUME TypeOK, NEW c \in Conns, NEW how \in {"reset", "closed"}, ends(c, how),
         UNCHANGED <<attempt, dst, upstream>>, misses' \in Nat
  PROVE  TypeOK'
BY DEF TypeOK, ends, maps, sidecar, loader

\* So have the ends of the connections the kernel resets.
LEMMA ResetsType ==
  ASSUME TypeOK, NEW S, resets(S)
  PROVE  /\ handler' \in [Conns -> {"none", "backlog", "resolving", "dialing", "relaying", "reset", "closed"}]
         /\ sock' \in [Conns -> {"idle", "connecting", "open", "failed", "gone"}]
BY DEF TypeOK, resets

\* Every step keeps the types.
LEMMA TypingStep == TypeOK /\ [Next]_vars => TypeOK'
<1> SUFFICES ASSUME TypeOK, [Next]_vars PROVE TypeOK'
  OBVIOUS
<1> USE NumbersAssumption, AddressesAssumption
<1>1. CASE UNCHANGED vars
  BY <1>1 DEF TypeOK, vars, maps, client, relay, sidecar, loader
<1>2. ASSUME NEW c \in Conns, App(c) PROVE TypeOK'
  <2>1. ASSUME NEW proto \in {"tcp", "udp"}, NEW a \in Addresses, cgroup_connect4(c, proto, a)
        PROVE TypeOK'
    <3>1. origdst_by_cookie' \in MapOf(Conns, Remotes)
      <4>1. CASE UNCHANGED origdst_by_cookie
        BY <4>1 DEF TypeOK
      <4>2. CASE redirects(proto, "app", a) /\ origdst_by_cookie' \in Update(origdst_by_cookie, c, a)
        <5>1. a \in Remotes
          BY <4>2 DEF redirects, Addresses
        <5> QED
          BY <4>2, <5>1, UpdateMap DEF TypeOK
      <4> QED
        BY <2>1, <4>1, <4>2 DEF cgroup_connect4
    <3>2. peer' \in [Conns -> Addresses \cup {None}]
      BY <2>1 DEF cgroup_connect4, TypeOK, Addresses
    <3>3. sock' \in [Conns -> {"idle", "connecting", "open", "failed", "gone"}]
      BY <2>1 DEF cgroup_connect4, TypeOK
    <3>4. want' \in [Conns -> Addresses \cup {None}] /\ joined' \in [Conns -> BOOLEAN]
      BY <2>1 DEF cgroup_connect4, TypeOK
    <3> QED
      BY <2>1, <3>1, <3>2, <3>3, <3>4 DEF cgroup_connect4, TypeOK, relay, sidecar, loader
  <2>2. CASE ConnectFails(c)
    BY <2>2 DEF ConnectFails, TypeOK, maps, relay, sidecar, loader
  <2>3. ASSUME NEW p \in Ports, tcp_connect(c, p) PROVE TypeOK'
    <3>1. /\ origdst_by_cookie' \in MapOf(Conns, Remotes)
          /\ origdst_by_tuple' \in MapOf(TupleKeys, Remotes)
          /\ joined' \in [Conns -> BOOLEAN]
      <4>1. CASE sockops /\ c \in DOMAIN origdst_by_cookie
        <5>1. origdst_by_cookie[c] \in Remotes
          BY <4>1, MapOfDef DEF TypeOK
        <5>2. Key(peer[c], p) \in TupleKeys
          BY KeyType
        <5>3. origdst_by_tuple' \in MapOf(TupleKeys, Remotes)
          BY <2>3, <4>1, <5>1, <5>2, UpdateMap, Zenon DEF tcp_connect, sockops_prog, TypeOK, TupleKeys
        <5>4. origdst_by_cookie' \in MapOf(Conns, Remotes)
          <6>1. origdst_by_cookie' = Delete(origdst_by_cookie, c)
            BY <2>3, <4>1 DEF tcp_connect, sockops_prog
          <6>2. origdst_by_cookie \in MapOf(Conns, Remotes)
            BY DEF TypeOK
          <6> QED
            BY <6>1, <6>2, DeleteMap, Zenon
        <5> QED
          BY <2>3, <4>1, <5>3, <5>4, Zenon DEF tcp_connect, sockops_prog, TypeOK
      <4>2. CASE ~(sockops /\ c \in DOMAIN origdst_by_cookie)
        BY <2>3, <4>2 DEF tcp_connect, sockops_prog, TypeOK, TupleKeys, maps
      <4> QED
        BY <4>1, <4>2
    <3>2. /\ sock' \in [Conns -> {"idle", "connecting", "open", "failed", "gone"}]
          /\ handler' \in [Conns -> {"none", "backlog", "resolving", "dialing", "relaying", "reset", "closed"}]
          /\ port' \in [Conns -> Ports \cup {None}]
      BY <2>3 DEF tcp_connect, TypeOK
    <3> QED
      BY <2>3, <3>1, <3>2 DEF tcp_connect, TypeOK, TupleKeys, sidecar, loader
  <2>4. CASE ClientCloses(c)
    BY <2>4 DEF ClientCloses, TypeOK, maps, relay, sidecar, loader
  <2> QED
    BY <1>2, <2>1, <2>2, <2>3, <2>4 DEF App
<1>3. ASSUME NEW c \in Conns, Handle(c) PROVE TypeOK'
  <2>1. CASE Serve(c)
    BY <2>1 DEF Serve, TypeOK, maps, client, sidecar, loader
  <2>2. CASE lookupHit(c)
    <3>1. origdst_by_tuple[tuple(c)] \in Remotes
      BY <2>2, MapOfDef DEF lookupHit, TypeOK
    <3> QED
      BY <2>2, <3>1 DEF lookupHit, TypeOK, maps, client, sidecar, loader
  <2>3. CASE lookupAgain(c)
    BY <2>3 DEF lookupAgain, TypeOK, maps, client, sidecar, loader
  <2>4. CASE lookupMiss(c)
    <3>1. misses' \in Nat
      BY <2>4 DEF lookupMiss, TypeOK
    <3> QED
      BY <2>4, <3>1, EndsType DEF lookupMiss
  <2>5. CASE lookupFails(c)
    BY <2>5, EndsType, Zenon DEF lookupFails, TypeOK
  <2>6. CASE Dial(c)
    <3>1. upstream' \in [Conns -> Remotes \cup {None, RelayAddr}]
      BY <2>6 DEF Dial, TypeOK
    <3> QED
      BY <2>6, <3>1 DEF Dial, TypeOK, maps, client, sidecar, loader
  <2>7. CASE DialFails(c)
    BY <2>7, EndsType, Zenon DEF DialFails, TypeOK
  <2>8. CASE spliceEnds(c)
    BY <2>8, EndsType, Zenon DEF spliceEnds, TypeOK
  <2> QED
    BY <1>3, <2>1, <2>2, <2>3, <2>4, <2>5, <2>6, <2>7, <2>8 DEF Handle, Resolve
<1>4. CASE Sidecar
  <2>1. CASE Load
    <3>1. /\ origdst_by_cookie' \in MapOf(Conns, Remotes)
          /\ origdst_by_tuple' \in MapOf(TupleKeys, Remotes)
      BY <2>1, FreshMap DEF Load, TypeOK, TupleKeys
    <3>2. /\ phase' \in {"down", "loaded"} /\ pins' \subseteq {"cookie", "tuple"} /\ runs' \in Nat
          /\ UNCHANGED <<client, relay, serving, connect4, sockops, links, failed>>
      <4>1. /\ phase' \in {"down", "loaded"} /\ runs' = runs + 1
            /\ UNCHANGED <<client, relay, serving, connect4, sockops, links, failed>>
        BY <2>1, Zenon DEF Load
      <4>2. pins' = {"cookie", "tuple"} \/ \E S \in SUBSET {"cookie", "tuple"} : pins' = pins \cup S
        BY <2>1, Zenon DEF Load
      <4>3. pins' \subseteq {"cookie", "tuple"}
        BY <4>2, Zenon DEF TypeOK
      <4>4. runs' \in Nat
        BY <4>1 DEF TypeOK
      <4> QED
        BY <4>1, <4>3, <4>4, Zenon
    <3> QED
      BY <3>1, <3>2, Zenon DEF TypeOK, TupleKeys, client, relay
  <2>2. CASE Attach
    BY <2>2, RankDomain, Zenon DEF Attach, TypeOK, maps, client, relay
  <2>3. CASE Listen
    BY <2>3 DEF Listen, TypeOK, maps, client, loader
  <2>4. CASE CloseListener
    BY <2>4, ResetsType, RankDomain, Zenon DEF CloseListener, resets, TypeOK, maps
  <2>5. CASE closeLoader
    <3>1. /\ phase' \in {"closing", "closed"} /\ UNCHANGED <<maps, client, relay, serving, runs>>
          /\ links' \subseteq DOMAIN rank
      BY <2>5 DEF closeLoader, TypeOK, loader
    <3>2. /\ connect4' \in BOOLEAN /\ sockops' \in BOOLEAN
          /\ pins' \subseteq {"cookie", "tuple"} /\ failed' \subseteq DOMAIN rank
      BY <2>5, Zenon DEF closeLoader, removes, TypeOK, loader
    <3> QED
      BY <3>1, <3>2 DEF TypeOK, maps, client, relay
  <2>6. CASE Exit
    BY <2>6, ResetsType, Zenon DEF Exit, resets, TypeOK, maps
  <2>7. CASE AcceptFails
    BY <2>7, Zenon DEF AcceptFails, TypeOK, maps, client, relay, loader
  <2> QED
    BY <1>4, <2>1, <2>2, <2>3, <2>4, <2>5, <2>6, <2>7 DEF Sidecar
<1> QED
  BY <1>1, <1>2, <1>3, <1>4 DEF Next

\* The redirect path keeps its types; in particular no loopback address is ever
\* on record as a destination.
THEOREM Typing == Spec => []TypeOK
BY TypingInit, TypingStep, PTL DEF Spec

-----------------------------------------------------------------------------
(* Where connections go.                                                   *)

\* A connection's record is its own: connect4 stored it for the connect it is
\* in, and sent that connect to the relay.
OwnRecords ==
  \A c \in DOMAIN origdst_by_cookie :
    sock[c] # "idle" /\ peer[c] = RelayAddr /\ origdst_by_cookie[c] = want[c]

\* sockops joins only connections to the relay, when they have a source port.
JoinedToRelay ==
  \A c \in Conns : joined[c] => peer[c] = RelayAddr /\ sock[c] \notin {"idle", "connecting"}

\* The relay knows nothing of a connection that has not been made.
HandledOnceMade == \A c \in Conns : sock[c] \in {"idle", "connecting"} => handler[c] = "none"

\* The entry for the source of a live, joined connection is its own.
OwnEntries ==
  \A c \in Conns :
    sock[c] = "open" /\ joined[c] /\ tuple(c) \in DOMAIN origdst_by_tuple
      => origdst_by_tuple[tuple(c)] = want[c]

RelayedToWanted ==
  \A c \in Conns :
    sock[c] = "open" /\ joined[c] /\ handler[c] \in {"dialing", "relaying"} => dst[c] = want[c]

RouteInv == OwnRecords /\ JoinedToRelay /\ HandledOnceMade /\ OwnEntries /\ RelayedToWanted

\* Before the first connect there is nothing to go wrong.
LEMMA RouteInit == Init => RouteInv
BY EmptyMap DEF Init, RouteInv, OwnRecords, JoinedToRelay, HandledOnceMade, OwnEntries, RelayedToWanted

\* Ends of connections, and steps that leave maps and clients alone, keep routes.
LEMMA RouteEnds ==
  ASSUME TypeOK, RouteInv, NEW S \in SUBSET Conns,
         sock' = [c \in Conns |-> IF c \in S THEN "gone" ELSE sock[c]],
         \A c \in Conns \ S : handler'[c] = handler[c] /\ dst'[c] = dst[c],
         UNCHANGED <<want, peer, port, joined>>,
         UNCHANGED maps
  PROVE  RouteInv'
BY DEF TypeOK, MapOf, RouteInv, OwnRecords, JoinedToRelay, HandledOnceMade, OwnEntries, RelayedToWanted, maps, tuple

\* Unless apps reuse a socket whose connect failed, every step keeps routes.
LEMMA RouteStep ==
  ASSUME ~SocketReuse
  PROVE  TypeOK /\ RouteInv /\ [Next]_vars => RouteInv'
<1> SUFFICES ASSUME TypeOK, RouteInv, [Next]_vars PROVE RouteInv'
  OBVIOUS
<1> USE DEF RouteInv
<1>0. DOMAIN origdst_by_cookie \subseteq Conns
  BY MapOfDef DEF TypeOK
<1>1. CASE UNCHANGED vars
  BY <1>1 DEF vars, maps, client, relay, OwnRecords, JoinedToRelay, HandledOnceMade, OwnEntries, RelayedToWanted, tuple
<1>2. ASSUME NEW c \in Conns, NEW proto \in {"tcp", "udp"}, NEW a \in Addresses, cgroup_connect4(c, proto, a)
      PROVE RouteInv'
  <2>0. sock[c] = "idle"
    BY <1>2 DEF cgroup_connect4
  <2>1. OwnRecords'
    <3>1. CASE UNCHANGED origdst_by_cookie
      <4>1. c \notin DOMAIN origdst_by_cookie
        BY <2>0 DEF OwnRecords
      <4> QED
        BY <1>0, <1>2, <3>1, <4>1 DEF cgroup_connect4, OwnRecords, TypeOK
    <3>2. CASE /\ redirects(proto, "app", a) /\ peer' = [peer EXCEPT ![c] = RelayAddr]
               /\ origdst_by_cookie' \in Update(origdst_by_cookie, c, a)
      <4>1. a \in Remotes
        BY <3>2 DEF redirects, Addresses
      <4>2. /\ origdst_by_cookie'[c] = a
            /\ DOMAIN origdst_by_cookie' \subseteq DOMAIN origdst_by_cookie \cup {c}
            /\ \A x \in DOMAIN origdst_by_cookie' : x # c => origdst_by_cookie'[x] = origdst_by_cookie[x]
        BY <3>2, <4>1, UpdateMap DEF TypeOK
      <4>3. sock'[c] = "connecting"
        BY <1>2, <3>2 DEF cgroup_connect4, redirects, TypeOK
      <4> QED
        BY <1>0, <1>2, <3>2, <4>2, <4>3 DEF cgroup_connect4, OwnRecords, TypeOK
    <3> QED
      BY <1>2, <3>1, <3>2 DEF cgroup_connect4
  <2>2. JoinedToRelay' /\ HandledOnceMade'
    BY <1>2, <2>0 DEF cgroup_connect4, JoinedToRelay, HandledOnceMade, TypeOK, relay
  <2>3. OwnEntries' /\ RelayedToWanted'
    BY <1>2 DEF cgroup_connect4, OwnEntries, RelayedToWanted, TypeOK, relay, tuple
  <2> QED
    BY <2>1, <2>2, <2>3
<1>3. ASSUME NEW c \in Conns, ConnectFails(c) PROVE RouteInv'
  BY <1>0, <1>3 DEF ConnectFails, TypeOK, maps, relay, OwnRecords, JoinedToRelay, HandledOnceMade, OwnEntries, RelayedToWanted, tuple
<1>4. ASSUME NEW c \in Conns, NEW p \in Ports, tcp_connect(c, p) PROVE RouteInv'
  <2>0. sock[c] = "connecting" /\ handler[c] = "none" /\ ~joined[c]
    BY <1>4 DEF tcp_connect, HandledOnceMade, JoinedToRelay
  <2>1. \A d \in Conns : d # c => /\ sock'[d] = sock[d] /\ handler'[d] = handler[d] /\ port'[d] = port[d]
    BY <1>4 DEF tcp_connect, TypeOK
  <2>2. sock'[c] \in {"open", "failed"} /\ handler'[c] \in {"none", "backlog"} /\ port'[c] = p
    BY <1>4, <2>0 DEF tcp_connect, TypeOK
  <2>3. UNCHANGED <<want, peer, dst>>
    BY <1>4 DEF tcp_connect
  <2>4. CASE sockops /\ c \in DOMAIN origdst_by_cookie
    <3>1. /\ origdst_by_cookie' = Delete(origdst_by_cookie, c)
          /\ joined' = [joined EXCEPT ![c] = TRUE]
          /\ origdst_by_tuple' \in Update(origdst_by_tuple, Key(peer[c], p), origdst_by_cookie[c])
      BY <1>4, <2>4 DEF tcp_connect, sockops_prog
    <3>2. peer[c] = RelayAddr /\ origdst_by_cookie[c] = want[c] /\ origdst_by_cookie[c] \in Remotes
      BY <2>4, MapOfDef DEF OwnRecords, TypeOK
    <3>3. /\ origdst_by_tuple'[Key(RelayAddr, p)] = want[c]
          /\ DOMAIN origdst_by_tuple' \subseteq DOMAIN origdst_by_tuple \cup {Key(RelayAddr, p)}
          /\ \A x \in DOMAIN origdst_by_tuple' : x # Key(RelayAddr, p) => origdst_by_tuple'[x] = origdst_by_tuple[x]
      <4>1. Key(RelayAddr, p) \in TupleKeys
        BY KeyType
      <4>2. origdst_by_tuple \in MapOf(TupleKeys, Remotes)
        BY DEF TypeOK, TupleKeys
      <4>3. want[c] \in Remotes /\ origdst_by_tuple' \in Update(origdst_by_tuple, Key(RelayAddr, p), want[c])
        BY <3>1, <3>2
      <4> QED
        BY <4>1, <4>2, <4>3, UpdateMap
    <3>4. OwnRecords'
      <4>1. origdst_by_cookie' = Delete(origdst_by_cookie, c)
        BY <3>1
      <4>2. /\ DOMAIN origdst_by_cookie' = DOMAIN origdst_by_cookie \ {c}
            /\ \A x \in DOMAIN origdst_by_cookie \ {c} : origdst_by_cookie'[x] = origdst_by_cookie[x]
        BY <4>1 DEF Delete
      <4> QED
        BY <1>0, <2>1, <2>3, <4>2 DEF OwnRecords
    <3>5. JoinedToRelay' /\ HandledOnceMade'
      BY <2>1, <2>2, <2>3, <3>1, <3>2 DEF JoinedToRelay, HandledOnceMade, TypeOK
    <3>6. OwnEntries'
      <4> SUFFICES ASSUME NEW d \in Conns, sock'[d] = "open", joined'[d],
                          tuple(d)' \in DOMAIN origdst_by_tuple'
                   PROVE  origdst_by_tuple'[tuple(d)'] = want'[d]
        BY DEF OwnEntries
      <4>1. CASE d = c
        BY <4>1, <2>2, <2>3, <3>2, <3>3 DEF tuple
      <4>2. CASE d # c
        <5>1. sock[d] = "open" /\ joined[d] /\ peer[d] = RelayAddr /\ tuple(d)' = Key(RelayAddr, port[d])
          BY <4>2, <2>1, <2>3, <3>1 DEF JoinedToRelay, TypeOK, tuple
        <5>2. port[d] # p
          BY <1>4, <5>1, <3>2 DEF tcp_connect, free
        <5>3. Key(RelayAddr, port[d]) # Key(RelayAddr, p)
          BY <5>2, KeyInjective
        <5>4. tuple(d) = Key(RelayAddr, port[d])
          BY <5>1 DEF tuple
        <5> QED
          BY <5>1, <5>3, <5>4, <3>3, <2>3 DEF OwnEntries
      <4> QED
        BY <4>1, <4>2
    <3>7. RelayedToWanted'
      BY <2>1, <2>2, <2>3, <3>1 DEF RelayedToWanted, TypeOK
    <3> QED
      BY <3>4, <3>5, <3>6, <3>7
  <2>5. CASE ~(sockops /\ c \in DOMAIN origdst_by_cookie)
    <3>1. UNCHANGED <<origdst_by_cookie, origdst_by_tuple, joined>>
      BY <1>4, <2>5 DEF tcp_connect, sockops_prog, maps
    <3>2. OwnRecords'
      BY <1>0, <2>1, <2>2, <2>3, <3>1 DEF OwnRecords
    <3>3. JoinedToRelay' /\ HandledOnceMade' /\ RelayedToWanted'
      BY <2>0, <2>1, <2>2, <2>3, <3>1 DEF JoinedToRelay, HandledOnceMade, RelayedToWanted
    <3>4. OwnEntries'
      BY <2>0, <2>1, <2>3, <3>1 DEF OwnEntries, tuple
    <3> QED
      BY <3>2, <3>3, <3>4
  <2> QED
    BY <2>4, <2>5
<1>5. ASSUME NEW c \in Conns, ClientCloses(c) PROVE RouteInv'
  <2>1. sock' = [d \in Conns |-> IF d \in {c} THEN "gone" ELSE sock[d]]
    BY <1>5, Zenon DEF ClientCloses, TypeOK
  <2> QED
    BY <1>5, <2>1, RouteEnds, Zenon DEF ClientCloses, relay
<1>6. ASSUME NEW c \in Conns, Serve(c) PROVE RouteInv'
  BY <1>6 DEF Serve, TypeOK, maps, client, OwnRecords, JoinedToRelay, HandledOnceMade, OwnEntries, RelayedToWanted, tuple
<1>7. ASSUME NEW c \in Conns, Resolve(c) PROVE RouteInv'
  <2>1. CASE lookupHit(c)
    <3>1. UNCHANGED <<origdst_by_cookie, origdst_by_tuple, sock, want, peer, port, joined>>
      BY <2>1 DEF lookupHit, maps, client
    <3>2. OwnRecords' /\ JoinedToRelay' /\ OwnEntries'
      BY <3>1 DEF OwnRecords, JoinedToRelay, OwnEntries, tuple
    <3>3. HandledOnceMade'
      BY <1>7, <2>1, <3>1 DEF Resolve, lookupHit, HandledOnceMade, TypeOK
    <3>4. RelayedToWanted'
      BY <2>1, <3>1 DEF lookupHit, OwnEntries, RelayedToWanted, TypeOK
    <3> QED
      BY <3>2, <3>3, <3>4
  <2>2. CASE lookupAgain(c)
    BY <2>2 DEF lookupAgain, maps, client, OwnRecords, JoinedToRelay, HandledOnceMade, OwnEntries, RelayedToWanted, tuple
  <2>3. CASE ends(c, "reset") /\ UNCHANGED dst
    <3>1. sock' = [d \in Conns |-> IF d \in {c} THEN "gone" ELSE sock[d]]
      BY <2>3, Zenon DEF ends, TypeOK
    <3>2. \A d \in Conns \ {c} : handler'[d] = handler[d] /\ dst'[d] = dst[d]
      BY <2>3 DEF ends, TypeOK
    <3>3. UNCHANGED <<want, peer, port, joined>> /\ UNCHANGED maps
      BY <2>3 DEF ends
    <3>4. {c} \in SUBSET Conns
      OBVIOUS
    <3> QED
      BY <3>1, <3>2, <3>3, <3>4, RouteEnds, Zenon
  <2> QED
    BY <1>7, <2>1, <2>2, <2>3 DEF Resolve, lookupMiss, lookupFails
<1>8. ASSUME NEW c \in Conns, Dial(c) PROVE RouteInv'
  <2>1. /\ UNCHANGED <<origdst_by_cookie, origdst_by_tuple, sock, want, peer, port, joined, dst>>
        /\ handler' = [handler EXCEPT ![c] = "relaying"] /\ handler[c] = "dialing"
    BY <1>8 DEF Dial, maps, client
  <2>2. OwnRecords' /\ JoinedToRelay' /\ OwnEntries'
    BY <2>1 DEF OwnRecords, JoinedToRelay, OwnEntries, tuple
  <2>3. RelayedToWanted'
    <3>1. \A d \in Conns : handler'[d] = handler[d] \/ (d = c /\ handler'[d] = "relaying")
      BY <2>1 DEF TypeOK
    <3> QED
      BY <2>1, <3>1 DEF RelayedToWanted
  <2>4. HandledOnceMade'
    BY <2>1 DEF HandledOnceMade, TypeOK
  <2> QED
    BY <2>2, <2>3, <2>4
<1>9. ASSUME NEW c \in Conns, DialFails(c) \/ spliceEnds(c) PROVE RouteInv'
  <2>0. ends(c, "closed") /\ UNCHANGED dst
    BY <1>9 DEF DialFails, spliceEnds
  <2>1. sock' = [d \in Conns |-> IF d \in {c} THEN "gone" ELSE sock[d]]
    BY <2>0, Zenon DEF ends, TypeOK
  <2>2. \A d \in Conns \ {c} : handler'[d] = handler[d] /\ dst'[d] = dst[d]
    BY <2>0 DEF ends, TypeOK
  <2>3. UNCHANGED <<want, peer, port, joined>> /\ UNCHANGED maps
    BY <2>0 DEF ends
  <2>4. {c} \in SUBSET Conns
    OBVIOUS
  <2> QED
    BY <2>1, <2>2, <2>3, <2>4, RouteEnds, Zenon
<1>10. CASE Load
  <2>1. UNCHANGED <<sock, want, peer, port, joined, handler, dst>>
    BY <1>10 DEF Load, client, relay
  <2>2. /\ origdst_by_cookie' = origdst_by_cookie \/ DOMAIN origdst_by_cookie' = {}
        /\ origdst_by_tuple' = origdst_by_tuple \/ DOMAIN origdst_by_tuple' = {}
    BY <1>10, FreshMap, EmptyMap DEF Load, TypeOK
  <2>3. OwnRecords' /\ OwnEntries'
    BY <2>1, <2>2 DEF OwnRecords, OwnEntries, tuple
  <2> QED
    BY <2>1, <2>3 DEF JoinedToRelay, HandledOnceMade, RelayedToWanted
<1>11. CASE Attach \/ Listen \/ AcceptFails \/ closeLoader
  <2>1. UNCHANGED <<origdst_by_cookie, origdst_by_tuple, sock, want, peer, port, joined, handler, dst>>
    BY <1>11 DEF Attach, Listen, AcceptFails, closeLoader, maps, client, relay
  <2> QED
    BY <2>1 DEF OwnRecords, JoinedToRelay, HandledOnceMade, OwnEntries, RelayedToWanted, tuple
<1>12. ASSUME NEW S \in SUBSET Conns, resets(S), UNCHANGED maps PROVE RouteInv'
  BY <1>12, RouteEnds, Zenon DEF resets
<1>13. CASE CloseListener
  BY <1>13, <1>12 DEF CloseListener
<1>14. CASE Exit
  BY <1>14, <1>12 DEF Exit
<1> QED
  BY <1>1, <1>2, <1>3, <1>4, <1>5, <1>6, <1>7, <1>8, <1>9, <1>10, <1>11, <1>13, <1>14
  DEF Next, App, Handle, Sidecar

\* Unless apps reuse a socket whose connect failed, a redirected connection is
\* relayed to the destination it asked for or to none: whatever earlier
\* connections and killed runs left in the maps, whatever was evicted.
THEOREM Routing ==
  ASSUME ~SocketReuse
  PROVE  Spec => []RelayedToOriginal
<1>1. RouteInv => RelayedToOriginal
  BY DEF RouteInv, RelayedToWanted, RelayedToOriginal
<1>2. Init => TypeOK /\ RouteInv
  BY TypingInit, RouteInit
<1>3. (TypeOK /\ RouteInv) /\ [Next]_vars => (TypeOK /\ RouteInv)'
  BY TypingStep, RouteStep
<1> QED
  BY <1>1, <1>2, <1>3, PTL DEF Spec

-----------------------------------------------------------------------------
(* No loop.                                                                *)

\* What the relay dials is a destination connect4 recorded.
DialsRecorded ==
  \A c \in Conns : /\ handler[c] = "dialing" => dst[c] \in Remotes
                   /\ upstream[c] # RelayAddr

\* Every step keeps the relay's dials away from the relay.
LEMMA LoopStep == TypeOK /\ DialsRecorded /\ [Next]_vars => DialsRecorded'
<1> SUFFICES ASSUME TypeOK, DialsRecorded, [Next]_vars PROVE DialsRecorded'
  OBVIOUS
<1>1. CASE UNCHANGED vars
  BY <1>1 DEF vars, relay, DialsRecorded
<1>2. ASSUME NEW c \in Conns, App(c) PROVE DialsRecorded'
  <2>1. UNCHANGED <<dst, upstream>> /\ \A d \in Conns : handler'[d] = "dialing" => handler[d] = "dialing"
    BY <1>2 DEF App, cgroup_connect4, ConnectFails, tcp_connect, ClientCloses, relay, TypeOK
  <2> QED
    BY <2>1 DEF DialsRecorded
<1>3. ASSUME NEW c \in Conns, Handle(c) PROVE DialsRecorded'
  <2>1. CASE lookupHit(c)
    <3>1. origdst_by_tuple[tuple(c)] \in Remotes
      BY <2>1, MapOfDef DEF lookupHit, TypeOK
    <3> QED
      BY <2>1, <3>1 DEF lookupHit, DialsRecorded, TypeOK
  <2>2. CASE Dial(c)
    <3>1. dst[c] \in Remotes /\ dst[c] # RelayAddr
      BY <2>2, AddressesAssumption DEF Dial, DialsRecorded
    <3>2. upstream' = [upstream EXCEPT ![c] = dst[c]]
      BY <2>2 DEF Dial, redirects
    <3> QED
      BY <2>2, <3>1, <3>2 DEF Dial, DialsRecorded, TypeOK
  <2>3. CASE Serve(c) \/ lookupAgain(c) \/ lookupMiss(c) \/ lookupFails(c) \/ DialFails(c) \/ spliceEnds(c)
    BY <2>3 DEF Serve, lookupAgain, lookupMiss, lookupFails, DialFails, spliceEnds, ends, DialsRecorded, TypeOK
  <2> QED
    BY <1>3, <2>1, <2>2, <2>3 DEF Handle, Resolve
<1>4. CASE Sidecar
  <2>1. UNCHANGED <<dst, upstream>> /\ \A d \in Conns : handler'[d] = "dialing" => handler[d] = "dialing"
    <3>1. CASE Load \/ Attach \/ Listen \/ AcceptFails \/ closeLoader
      BY <3>1 DEF Load, Attach, Listen, AcceptFails, closeLoader, relay
    <3>2. CASE CloseListener \/ Exit
      <4>1. PICK S : resets(S)
        BY <3>2 DEF CloseListener, Exit
      <4> QED
        BY <4>1 DEF resets
    <3> QED
      BY <1>4, <3>1, <3>2 DEF Sidecar
  <2> QED
    BY <2>1 DEF DialsRecorded
<1> QED
  BY <1>1, <1>2, <1>3, <1>4 DEF Next

\* The relay's dial is never redirected back to the relay.
THEOREM LoopFree == Spec => []NoLoop
<1>1. Init => TypeOK /\ DialsRecorded
  BY TypingInit, AddressesAssumption DEF Init, DialsRecorded, None
<1>2. (TypeOK /\ DialsRecorded) /\ [Next]_vars => (TypeOK /\ DialsRecorded)'
  BY TypingStep, LoopStep
<1>3. DialsRecorded => NoLoop
  BY DEF DialsRecorded, NoLoop
<1> QED
  BY <1>1, <1>2, <1>3, PTL DEF Spec

-----------------------------------------------------------------------------
(* No made-up destination.                                                 *)

Settled(d) == sock[d] \notin {"idle", "connecting"}

\* A connection with this source port has asked for this destination.
Asked(p, a) == \E d \in Conns : Settled(d) /\ port[d] = p /\ want[d] = a

AskedInv ==
  /\ \A k \in DOMAIN origdst_by_tuple : Asked(k.port, origdst_by_tuple[k])
  /\ \A c \in Conns : dst[c] # None => Settled(c) /\ Asked(port[c], dst[c])

\* Unless apps reuse a socket, what a connection asked for and its source port
\* stay once it has them.
LEMMA SettledStays ==
  ASSUME ~SocketReuse, TypeOK, [Next]_vars, NEW d \in Conns, Settled(d)
  PROVE  Settled(d)' /\ port'[d] = port[d] /\ want'[d] = want[d]
<1> USE DEF Settled
<1>1. CASE UNCHANGED vars
  BY <1>1 DEF vars, client
<1>2. ASSUME NEW c \in Conns, App(c) PROVE Settled(d)' /\ port'[d] = port[d] /\ want'[d] = want[d]
  <2>1. ASSUME NEW proto \in {"tcp", "udp"}, NEW a \in Addresses, cgroup_connect4(c, proto, a)
        PROVE  Settled(d)' /\ port'[d] = port[d] /\ want'[d] = want[d]
    BY <2>1 DEF cgroup_connect4, TypeOK
  <2>2. CASE ConnectFails(c) \/ ClientCloses(c)
    BY <2>2 DEF ConnectFails, ClientCloses, TypeOK
  <2>3. ASSUME NEW p \in Ports, tcp_connect(c, p)
        PROVE  Settled(d)' /\ port'[d] = port[d] /\ want'[d] = want[d]
    BY <2>3 DEF tcp_connect, TypeOK
  <2> QED
    BY <1>2, <2>1, <2>2, <2>3 DEF App
<1>3. ASSUME NEW c \in Conns, Handle(c) PROVE Settled(d)' /\ port'[d] = port[d] /\ want'[d] = want[d]
  <2>1. CASE Serve(c) \/ lookupHit(c) \/ lookupAgain(c) \/ Dial(c)
    <3>1. UNCHANGED client
      BY <2>1 DEF Serve, lookupHit, lookupAgain, Dial
    <3> QED
      BY <3>1 DEF client
  <2>2. CASE lookupMiss(c) \/ lookupFails(c) \/ DialFails(c) \/ spliceEnds(c)
    <3>1. sock' = [sock EXCEPT ![c] = "gone"] /\ UNCHANGED <<want, port>>
      BY <2>2 DEF lookupMiss, lookupFails, DialFails, spliceEnds, ends
    <3> QED
      BY <3>1 DEF TypeOK
  <2> QED
    BY <1>3, <2>1, <2>2, Zenon DEF Handle, Resolve
<1>4. CASE Sidecar
  <2>1. CASE Load \/ Attach \/ Listen \/ AcceptFails \/ closeLoader
    <3>1. UNCHANGED client
      BY <2>1 DEF Load, Attach, Listen, AcceptFails, closeLoader
    <3> QED
      BY <3>1 DEF client
  <2>2. CASE CloseListener \/ Exit
    <3>1. PICK S : resets(S)
      BY <2>2 DEF CloseListener, Exit
    <3> QED
      BY <3>1 DEF resets
  <2> QED
    BY <1>4, <2>1, <2>2 DEF Sidecar
<1> QED
  BY <1>1, <1>2, <1>3, <1>4 DEF Next

\* A step that adds no entry and resolves nothing keeps AskedInv.
LEMMA AskedFrame ==
  ASSUME ~SocketReuse, TypeOK, AskedInv, [Next]_vars, UNCHANGED dst,
         DOMAIN origdst_by_tuple' \subseteq DOMAIN origdst_by_tuple,
         \A k \in DOMAIN origdst_by_tuple' : origdst_by_tuple'[k] = origdst_by_tuple[k]
  PROVE  AskedInv'
<1>1. ASSUME NEW k \in DOMAIN origdst_by_tuple' PROVE Asked(k.port, origdst_by_tuple[k])'
  <2>1. Asked(k.port, origdst_by_tuple[k])
    BY <1>1 DEF AskedInv
  <2>2. PICK d \in Conns : Settled(d)' /\ port'[d] = k.port /\ want'[d] = origdst_by_tuple[k]
    BY <2>1, SettledStays DEF Asked
  <2> QED
    BY <2>2 DEF Asked
<1>2. ASSUME NEW c \in Conns, dst'[c] # None PROVE Settled(c)' /\ Asked(port[c], dst[c])'
  <2>1. Settled(c) /\ Asked(port[c], dst[c])
    BY <1>2 DEF AskedInv
  <2>2. PICK d \in Conns : Settled(d)' /\ port'[d] = port[c] /\ want'[d] = dst[c]
    BY <2>1, SettledStays DEF Asked
  <2>3. Settled(c)' /\ port'[c] = port[c]
    BY <2>1, SettledStays
  <2> QED
    BY <2>2, <2>3 DEF Asked
<1> QED
  BY <1>1, <1>2 DEF AskedInv

\* Every step keeps AskedInv.
LEMMA AskedStep ==
  ASSUME ~SocketReuse
  PROVE  TypeOK /\ RouteInv /\ AskedInv /\ [Next]_vars => AskedInv'
<1> SUFFICES ASSUME TypeOK, RouteInv, AskedInv, [Next]_vars PROVE AskedInv'
  OBVIOUS
<1>1. CASE UNCHANGED <<origdst_by_tuple, dst>>
  BY <1>1, AskedFrame
<1>2. ASSUME NEW c \in Conns, NEW p \in Ports, tcp_connect(c, p) PROVE AskedInv'
  <2>1. UNCHANGED dst
    BY <1>2 DEF tcp_connect
  <2>2. CASE sockops /\ c \in DOMAIN origdst_by_cookie
    <3>1. origdst_by_tuple' \in Update(origdst_by_tuple, Key(peer[c], p), origdst_by_cookie[c])
      BY <1>2, <2>2, Zenon DEF tcp_connect, sockops_prog
    <3>2. origdst_by_cookie[c] = want[c] /\ origdst_by_cookie[c] \in Remotes
      BY <2>2, MapOfDef DEF RouteInv, OwnRecords, TypeOK
    <3>3. Key(peer[c], p) \in TupleKeys /\ Key(peer[c], p).port = p
      BY KeyType DEF Key
    <3>4. origdst_by_tuple \in MapOf(TupleKeys, Remotes)
      BY DEF TypeOK, TupleKeys
    <3>5. /\ origdst_by_tuple'[Key(peer[c], p)] = want[c]
          /\ DOMAIN origdst_by_tuple' \subseteq DOMAIN origdst_by_tuple \cup {Key(peer[c], p)}
          /\ \A x \in DOMAIN origdst_by_tuple' :
               x # Key(peer[c], p) => origdst_by_tuple'[x] = origdst_by_tuple[x]
      <4> DEFINE key == Key(peer[c], p)
                 old == origdst_by_cookie[c]
      <4>1. /\ origdst_by_tuple' \in Update(origdst_by_tuple, key, old) /\ old = want[c]
            /\ old \in Remotes /\ key \in TupleKeys
        BY <3>1, <3>2, <3>3
      <4> HIDE DEF key, old
      <4>2. /\ origdst_by_tuple'[key] = old
            /\ DOMAIN origdst_by_tuple' \subseteq DOMAIN origdst_by_tuple \cup {key}
            /\ \A x \in DOMAIN origdst_by_tuple' : x # key => origdst_by_tuple'[x] = origdst_by_tuple[x]
        BY <3>4, <4>1, UpdateMap
      <4> QED
        BY <4>1, <4>2 DEF key
    <3>6. Settled(c)' /\ port'[c] = p /\ want'[c] = want[c]
      BY <1>2 DEF tcp_connect, Settled, TypeOK
    <3>7. ASSUME NEW k \in DOMAIN origdst_by_tuple' PROVE Asked(k.port, origdst_by_tuple[k])'
      <4>1. CASE k = Key(peer[c], p)
        BY <4>1, <3>3, <3>5, <3>6, Zenon DEF Asked
      <4>2. CASE k # Key(peer[c], p)
        <5>1. Asked(k.port, origdst_by_tuple[k]) /\ origdst_by_tuple'[k] = origdst_by_tuple[k]
          BY <4>2, <3>5, <3>7 DEF AskedInv
        <5>2. PICK d \in Conns : Settled(d)' /\ port'[d] = k.port /\ want'[d] = origdst_by_tuple[k]
          BY <5>1, SettledStays DEF Asked
        <5> QED
          BY <5>1, <5>2 DEF Asked
      <4> QED
        BY <4>1, <4>2
    <3>8. ASSUME NEW d \in Conns, dst'[d] # None PROVE Settled(d)' /\ Asked(port[d], dst[d])'
      <4>1. Settled(d) /\ Asked(port[d], dst[d])
        BY <2>1, <3>8 DEF AskedInv
      <4>2. PICK e \in Conns : Settled(e)' /\ port'[e] = port[d] /\ want'[e] = dst[d]
        BY <4>1, SettledStays DEF Asked
      <4>3. Settled(d)' /\ port'[d] = port[d]
        BY <4>1, SettledStays
      <4> QED
        BY <2>1, <4>2, <4>3 DEF Asked
    <3> QED
      BY <3>7, <3>8 DEF AskedInv
  <2>3. CASE ~(sockops /\ c \in DOMAIN origdst_by_cookie)
    BY <1>1, <1>2, <2>1, <2>3 DEF tcp_connect, sockops_prog, maps
  <2> QED
    BY <2>2, <2>3
<1>3. ASSUME NEW c \in Conns, handler[c] = "resolving", lookupHit(c) PROVE AskedInv'
  <2>1. /\ UNCHANGED <<origdst_by_tuple, sock, want, peer, port>>
        /\ tuple(c) \in DOMAIN origdst_by_tuple /\ tuple(c).port = port[c]
        /\ dst' = [dst EXCEPT ![c] = origdst_by_tuple[tuple(c)]]
    BY <1>3 DEF lookupHit, maps, client, tuple, Key
  <2>2. Settled(c)
    BY <1>3 DEF RouteInv, HandledOnceMade, Settled
  <2>3. Asked(port[c], origdst_by_tuple[tuple(c)])
    BY <2>1 DEF AskedInv
  <2>5. \A k \in DOMAIN origdst_by_tuple' : Asked(k.port, origdst_by_tuple[k])'
    <3>1. \A k \in DOMAIN origdst_by_tuple : Asked(k.port, origdst_by_tuple[k])
      BY DEF AskedInv
    <3> QED
      BY <2>1, <3>1 DEF Asked, Settled
  <2>6. ASSUME NEW d \in Conns, dst'[d] # None PROVE Settled(d)' /\ Asked(port[d], dst[d])'
    <3>1. Settled(d) /\ Asked(port[d], dst'[d])
      <4>1. CASE d = c
        BY <2>1, <2>2, <2>3, <4>1 DEF TypeOK
      <4>2. CASE d # c
        <5>1. dst'[d] = dst[d]
          BY <2>1, <4>2 DEF TypeOK
        <5> QED
          BY <2>6, <5>1 DEF AskedInv
      <4> QED
        BY <4>1, <4>2
    <3> QED
      BY <2>1, <3>1 DEF Asked, Settled
  <2> QED
    BY <2>5, <2>6 DEF AskedInv
<1>4. CASE Load
  <2>1. origdst_by_tuple' = fresh("tuple", origdst_by_tuple) /\ UNCHANGED dst
    BY <1>4 DEF Load, relay
  <2>2. origdst_by_tuple' = origdst_by_tuple \/ origdst_by_tuple' = Empty
    BY <2>1 DEF fresh
  <2> QED
    BY <2>1, <2>2, AskedFrame DEF Empty
<1>5. ASSUME NEW c \in Conns, Handle(c) PROVE AskedInv'
  <2>1. CASE handler[c] = "resolving" /\ lookupHit(c)
    BY <1>3, <2>1
  <2>2. CASE Serve(c) \/ lookupAgain(c) \/ lookupMiss(c) \/ lookupFails(c) \/ Dial(c) \/ DialFails(c) \/ spliceEnds(c)
    BY <1>1, <2>2, Zenon DEF Serve, lookupAgain, lookupMiss, lookupFails, Dial, DialFails, spliceEnds, ends, maps
  <2> QED
    BY <1>5, <2>1, <2>2 DEF Handle, Resolve
<1>6. ASSUME NEW c \in Conns, App(c) PROVE AskedInv'
  <2>1. CASE \E p \in Ports : tcp_connect(c, p)
    BY <1>2, <2>1
  <2>2. CASE UNCHANGED <<origdst_by_tuple, dst>>
    BY <1>1, <2>2
  <2> QED
    BY <1>6, <2>1, <2>2 DEF App, cgroup_connect4, ConnectFails, ClientCloses, maps, relay
<1>7. CASE Sidecar
  BY <1>1, <1>4, <1>7 DEF Sidecar, Attach, Listen, AcceptFails, CloseListener, closeLoader, Exit, resets, maps, relay
<1>8. CASE UNCHANGED vars
  BY <1>1, <1>8 DEF vars, maps, relay
<1> QED
  BY <1>5, <1>6, <1>7, <1>8 DEF Next

\* Unless apps reuse a socket whose connect failed, every destination the relay
\* dials was asked for by a connection from the same source port, whatever the
\* maps evicted and whatever a killed run left in them (Resolve, handle).
THEOREM NoDefault ==
  ASSUME ~SocketReuse
  PROVE  Spec => []NeverADefault
<1>1. Init => TypeOK /\ RouteInv /\ AskedInv
  BY TypingInit, RouteInit, EmptyMap, Zenon DEF Init, AskedInv
<1>2. (TypeOK /\ RouteInv /\ AskedInv) /\ [Next]_vars => (TypeOK /\ RouteInv /\ AskedInv)'
  BY TypingStep, RouteStep, AskedStep
<1>3. AskedInv => NeverADefault
  BY Zenon DEF AskedInv, Asked, NeverADefault
<1> QED
  BY <1>1, <1>2, <1>3, PTL DEF Spec

-----------------------------------------------------------------------------
(* Shutdown.                                                               *)

\* Between Attach and Close every attached program is recorded, and during Close
\* what is still attached or pinned is still to be removed or has failed to be.
LoaderInv ==
  /\ phase = "down" => ~connect4 /\ ~sockops
  /\ phase \in {"loaded", "attached", "serving"} =>
       (connect4 => "connect4" \in links) /\ (sockops => "sockops" \in links)
  /\ phase = "closing" =>
       /\ connect4 => "connect4" \in links \cup failed
       /\ sockops => "sockops" \in links \cup failed
       /\ pins \subseteq links \cup failed
  /\ OnlyFailedLeft

\* A step of Loader.Close keeps LoaderInv, whether its removal fails or not.
LEMMA CloseKeepsRecord ==
  ASSUME TypeOK, LoaderInv, closeLoader
  PROVE  LoaderInv'
<1> USE DEF LoaderInv, OnlyFailedLeft
<1>1. CASE links = {} /\ phase' = "closed" /\ UNCHANGED loader
  BY <1>1 DEF closeLoader, loader
<1>2. ASSUME NEW x \in links, removes(x), links' = links \ {x}, phase' = phase PROVE LoaderInv'
  <2>1. phase' = "closing"
    BY <1>2 DEF closeLoader
  <2>2. CASE /\ connect4' = (connect4 /\ x # "connect4") /\ sockops' = (sockops /\ x # "sockops")
             /\ pins' = pins \ {x} /\ UNCHANGED failed
    <3>1. connect4' => "connect4" \in links' \cup failed'
      BY <1>2, <2>1, <2>2, Zenon DEF TypeOK
    <3>2. sockops' => "sockops" \in links' \cup failed'
      BY <1>2, <2>1, <2>2, Zenon DEF TypeOK
    <3>3. pins' \subseteq links' \cup failed'
      BY <1>2, <2>1, <2>2
    <3> QED
      BY <2>1, <3>1, <3>2, <3>3, Zenon
  <2>3. CASE failed' = failed \cup {x} /\ UNCHANGED <<connect4, sockops, pins>>
    BY <1>2, <2>1, <2>3
  <2> QED
    BY <1>2, <2>2, <2>3, Zenon DEF removes
<1> QED
  BY <1>1, <1>2, Zenon DEF closeLoader

\* A Close that ran to its end leaves attached or pinned only what it failed to
\* remove, however far Attach had come and however many removals fail.
THEOREM LeavesOnlyFailed == Spec => []OnlyFailedLeft
<1>1. Init => LoaderInv
  BY DEF Init, LoaderInv, OnlyFailedLeft
<1>2. TypeOK /\ LoaderInv /\ [Next]_vars => LoaderInv'
  <2> SUFFICES ASSUME TypeOK, LoaderInv, [Next]_vars PROVE LoaderInv'
    OBVIOUS
  <2>1. CASE UNCHANGED sidecar
    BY <2>1, Zenon DEF sidecar, loader, LoaderInv, OnlyFailedLeft
  <2>2. CASE Load
    BY <2>2 DEF Load, LoaderInv, OnlyFailedLeft
  <2>3. CASE Attach
    BY <2>3 DEF Attach, LoaderInv, OnlyFailedLeft, TypeOK
  <2>4. CASE Listen \/ AcceptFails
    BY <2>4 DEF Listen, AcceptFails, loader, LoaderInv, OnlyFailedLeft
  <2>5. CASE CloseListener
    BY <2>5 DEF CloseListener, LoaderInv, OnlyFailedLeft, TypeOK
  <2>6. CASE closeLoader
    BY <2>6, CloseKeepsRecord
  <2>7. CASE Exit
    BY <2>7 DEF Exit, LoaderInv, OnlyFailedLeft
  <2>8. ASSUME NEW c \in Conns, App(c) \/ Handle(c) PROVE UNCHANGED sidecar
    BY <2>8, Zenon DEF App, cgroup_connect4, ConnectFails, tcp_connect, ClientCloses, Handle, Serve, Resolve,
                lookupHit, lookupAgain, lookupMiss, lookupFails, Dial, DialFails, spliceEnds, ends
  <2> QED
    BY <2>1, <2>2, <2>3, <2>4, <2>5, <2>6, <2>7, <2>8, Zenon DEF Next, Sidecar, vars
<1>3. LoaderInv => OnlyFailedLeft
  BY DEF LoaderInv
<1> QED
  BY <1>1, <1>2, <1>3, Typing, PTL DEF Spec

-----------------------------------------------------------------------------
(* The byte-order contract.                                                *)

\* Dividing by Base takes the last byte of a number off.
LEMMA LastByte ==
  ASSUME NEW B \in Nat \ {0}, NEW q \in Nat, NEW b \in 0 .. B - 1
  PROVE  /\ q * B + b \in Nat
         /\ (q * B + b) \div B = q
         /\ (q * B + b) % B = b
  OBVIOUS

\* A byte is its own last byte.
LEMMA OneByte ==
  ASSUME NEW B \in Nat \ {0}, NEW b \in 0 .. B - 1
  PROVE  b % B = b
  OBVIOUS

\* Four bytes make a number from which the same four bytes are read (Uint32 and
\* PutUint32), and shifting it right by 24 leaves the first.
LEMMA FourBytes ==
  ASSUME NEW a \in Octets
  PROVE  /\ bytes32(uint32(a)) = a
         /\ shift8(shift8(shift8(uint32(a)))) = a[1]
<1>1. /\ Base \in Nat \ {0}
      /\ a[1] \in 0 .. Base - 1 /\ a[2] \in 0 .. Base - 1
      /\ a[3] \in 0 .. Base - 1 /\ a[4] \in 0 .. Base - 1
  BY BytesAssumption DEF Octets, Byte
<1> DEFINE two == a[1] * Base + a[2]
           three == two * Base + a[3]
           four == three * Base + a[4]
<1>2. two \in Nat /\ two \div Base = a[1] /\ two % Base = a[2]
  <2>1. a[1] \in Nat
    BY <1>1
  <2> QED
    BY <1>1, <2>1, LastByte, Zenon
<1>3. uint32(a) = four
  BY DEF uint32, uint16
<1> HIDE DEF two
<1>4. three \in Nat /\ three \div Base = two /\ three % Base = a[3]
  <2>1. two \in Nat
    BY <1>2
  <2> QED
    BY <1>1, <2>1, LastByte, Zenon
<1> HIDE DEF three
<1>5. four \in Nat /\ four \div Base = three /\ four % Base = a[4]
  BY <1>1, <1>4, LastByte, Zenon
<1> HIDE DEF four
<1>6. a[1] % Base = a[1]
  BY <1>1, OneByte
<1>7. bytes32(four) = <<a[1], a[2], a[3], a[4]>>
  BY <1>2, <1>4, <1>5, <1>6, Zenon DEF bytes32, shift8
<1>8. <<a[1], a[2], a[3], a[4]>> = a
  BY DEF Octets
<1>9. shift8(shift8(shift8(four))) = a[1]
  BY <1>2, <1>4, <1>5, Zenon DEF shift8
<1> QED
  BY <1>3, <1>7, <1>8, <1>9

\* Two bytes make a number from which the same two are read.
LEMMA TwoBytes ==
  ASSUME NEW b \in [1 .. 2 -> Byte]
  PROVE  bytes16(uint16(b)) = b
<1>1. Base \in Nat \ {0} /\ b[1] \in 0 .. Base - 1 /\ b[2] \in 0 .. Base - 1
  BY BytesAssumption DEF Byte
<1>2. uint16(b) \div Base = b[1] /\ uint16(b) % Base = b[2]
  BY <1>1, LastByte DEF uint16
<1>3. b[1] % Base = b[1]
  BY <1>1, OneByte
<1>4. <<b[1], b[2]>> = b
  OBVIOUS
<1> QED
  BY <1>2, <1>3, <1>4, Zenon DEF bytes16, shift8

\* A number of 16 bits is spelled by two bytes.
LEMMA SixteenBits ==
  ASSUME NEW p \in Uint16
  PROVE  bytes16(p) \in [1 .. 2 -> Byte] /\ uint16(bytes16(p)) = p
<1> DEFINE q == p \div Base
           r == p % Base
<1>1. Base \in Nat \ {0} /\ p \in Nat /\ p < Base * Base
  BY BytesAssumption DEF Uint16
<1>2. q \in Nat /\ r \in 0 .. Base - 1 /\ p = q * Base + r
  BY <1>1
<1> HIDE DEF q, r
<1>3. q \in 0 .. Base - 1
  BY <1>1, <1>2
<1>4. q % Base = q
  BY <1>1, <1>3, OneByte
<1>5. bytes16(p) = <<q, r>>
  BY <1>4, Zenon DEF bytes16, shift8, q, r
<1>6. <<q, r>> \in [1 .. 2 -> Byte]
  BY <1>2, <1>3 DEF Byte
<1>7. uint16(<<q, r>>) = p
  BY <1>2 DEF uint16
<1> QED
  BY <1>5, <1>6, <1>7

\* Reversing bytes twice gives them back, and they stay bytes.
LEMMA TwiceInOrder ==
  ASSUME NEW n \in Nat, NEW b \in [1 .. n -> Byte], NEW little \in BOOLEAN
  PROVE  /\ inOrder(little, b) \in [1 .. n -> Byte]
         /\ inOrder(little, inOrder(little, b)) = b
<1>1. CASE ~little
  BY <1>1 DEF inOrder
<1>2. CASE little
  <2> DEFINE rev == [i \in 1 .. n |-> b[n + 1 - i]]
  <2>1. b \in Seq(Byte) /\ Len(b) = n /\ DOMAIN b = 1 .. n
    OBVIOUS
  <2>2. rev \in [1 .. n -> Byte]
    OBVIOUS
  <2>3. rev \in Seq(Byte) /\ Len(rev) = n /\ DOMAIN rev = 1 .. n
    BY <2>2
  <2>4. inOrder(little, b) = rev
    BY <1>2, <2>1 DEF inOrder
  <2>5. [i \in 1 .. n |-> rev[n + 1 - i]] = b
    OBVIOUS
  <2> HIDE DEF rev
  <2>6. inOrder(little, rev) = [i \in 1 .. n |-> rev[n + 1 - i]]
    BY <1>2, <2>3 DEF inOrder
  <2> QED
    BY <2>2, <2>4, <2>5, <2>6
<1> QED
  BY <1>1, <1>2

\* Whatever the machine's byte order: a port survives bpf_htons and bpf_ntohs, the
\* bytes of an address survive a load and a store, and bpf_ntohl makes of the loaded
\* address the number its bytes spell.
LEMMA RoundTrips ==
  ASSUME NEW little \in BOOLEAN
  PROVE  /\ \A p \in Uint16 : htons(little, htons(little, p)) = p
         /\ \A a \in Octets : /\ toMemory(little, fromMemory(little, a)) = a
                              /\ htonl(little, fromMemory(little, a)) = uint32(a)
                              /\ htonl(little, uint32(a)) = fromMemory(little, a)
<1>1. ASSUME NEW p \in Uint16 PROVE htons(little, htons(little, p)) = p
  <2> DEFINE b == bytes16(p)
             m == inOrder(little, b)
  <2>1. b \in [1 .. 2 -> Byte] /\ uint16(b) = p
    BY SixteenBits
  <2> HIDE DEF b
  <2>2. m \in [1 .. 2 -> Byte] /\ inOrder(little, m) = b
    BY <2>1, TwiceInOrder, Zenon
  <2>3. bytes16(uint16(m)) = m
    BY <2>2, TwoBytes
  <2> QED
    BY <2>1, <2>2, <2>3, Zenon DEF htons, b
<1>2. ASSUME NEW a \in Octets
      PROVE  /\ toMemory(little, fromMemory(little, a)) = a
             /\ htonl(little, fromMemory(little, a)) = uint32(a)
             /\ htonl(little, uint32(a)) = fromMemory(little, a)
  <2> DEFINE m == inOrder(little, a)
  <2>1. m \in Octets /\ inOrder(little, m) = a
    BY TwiceInOrder, Zenon DEF Octets
  <2>2. bytes32(uint32(m)) = m /\ bytes32(uint32(a)) = a
    BY <2>1, FourBytes
  <2> QED
    BY <2>1, <2>2, Zenon DEF htonl, toMemory, fromMemory
<1> QED
  BY <1>1, <1>2

\* The two sides of the contract agree on every address and port.
LEMMA AlwaysSound == Sound = BOOLEAN
<1> SUFFICES ASSUME NEW inside \in BOOLEAN, NEW little \in BOOLEAN, NEW a \in Octets,
                    a[1] = LoopbackNet <=> inside
             PROVE  /\ isLoopback(little, sockAddr(little, a, 0)) <=> inside
                    /\ toRelay(little) = sockAddr(little, Localhost, PROXY_PORT)
                    /\ Decodes(little, a) /\ Finds(little, a)
  BY Zenon DEF Sound, SoundFor
<1>1. isLoopback(little, sockAddr(little, a, 0)) <=> inside
  <2>1. sockAddr(little, a, 0).user_ip4 = fromMemory(little, a)
    BY DEF sockAddr
  <2>2. htonl(little, fromMemory(little, a)) = uint32(a)
    BY RoundTrips
  <2>3. shift8(shift8(shift8(uint32(a)))) = a[1]
    BY FourBytes
  <2> QED
    BY <2>1, <2>2, <2>3, Zenon DEF isLoopback
<1>2. toRelay(little) = sockAddr(little, Localhost, PROXY_PORT)
  <2>1. Localhost \in Octets
    BY BytesAssumption DEF Localhost, Octets, Byte
  <2>2. htonl(little, uint32(Localhost)) = fromMemory(little, Localhost)
    BY <2>1, RoundTrips
  <2> QED
    BY <2>2, Zenon DEF toRelay, sockAddr
<1>3. Decodes(little, a)
  <2> SUFFICES ASSUME NEW p \in Uint16
               PROVE  /\ recorded(little, sockAddr(little, a, p)) = OrigDst(little, a, p)
                      /\ AddrPort(little, OrigDst(little, a, p)) = [addr |-> a, port |-> p]
    BY Zenon DEF Decodes
  <2>1. htons(little, htons(little, p)) = p
    BY RoundTrips
  <2>2. toMemory(little, fromMemory(little, a)) = a
    BY RoundTrips
  <2>3. recorded(little, sockAddr(little, a, p)) = OrigDst(little, a, p)
    BY <2>1 DEF recorded, sockAddr, OrigDst
  <2>4. AddrPort(little, OrigDst(little, a, p)) = [addr |-> a, port |-> p]
    BY <2>2 DEF AddrPort, OrigDst
  <2> QED
    BY <2>3, <2>4
<1>4. Finds(little, a)
  BY Zenon DEF Finds, TupleKey, rekeyed
<1> QED
  BY <1>1, <1>2, <1>3, <1>4

\* The byte-order contract of codec.go and proxy.bpf.c holds of every address a
\* socket asks for, for any number of values of a byte, so for 256.
THEOREM ByteOrder == Spec => []ByteOrderContract
<1>1. ByteOrderContract
  <2>1. \A d : (d \in Loopback) \in BOOLEAN
    OBVIOUS
  <2> QED
    BY <2>1, AlwaysSound, Zenon DEF ByteOrderContract
<1> QED
  BY <1>1, PTL
=============================================================================
