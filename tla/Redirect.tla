------------------------------ MODULE Redirect ------------------------------
(***************************************************************************)
(* The redirect path: the connect4 and sockops programs with their two LRU *)
(* maps (bpf/proxy.bpf.c), the resolver and the relay's handler            *)
(* (internal/proxy), and the part of the sidecar's life that attaches,     *)
(* listens, detaches and unpins (internal/ebpf/loader.go, cmd/app/app.go). *)
(*                                                                         *)
(* A connection is an app's socket, named by its cookie.  connect(2) runs  *)
(* connect4, then picks a source port, runs sockops and sends the SYN; on  *)
(* loopback the SYN is answered within the same call.  The map key is the  *)
(* source address and port; the source address is 127.0.0.1 exactly when   *)
(* the peer is a loopback address, and only such keys can collide with one *)
(* the relay looks up, so a key is "is it loopback" and the port.          *)
(***************************************************************************)
EXTENDS Integers, FiniteSets, Codec

CONSTANTS
  Conns,       \* the app's sockets
  Ports,       \* source ports
  Remotes,     \* destinations outside 127.0.0.0/8
  Loopback,    \* destinations inside it
  RelayAddr,   \* 127.0.0.1:PROXY_PORT, where the relay listens
  MaxEntries,  \* max_entries of each map
  Retries,     \* Resolver.retries
  MaxRuns,     \* bound: how often the sidecar is started
  MaxFailures, \* bound: how many removals of a Close fail
  SocketReuse  \* whether an app calls connect again on a socket whose connect failed

ASSUME AddressesAssumption ==
  /\ RelayAddr \in Loopback
  /\ Remotes \cap Loopback = {}
  /\ "none" \notin Remotes \cup Loopback \cup Ports

ASSUME NumbersAssumption ==
  /\ MaxEntries \in Nat
  /\ Retries \in Nat
  /\ MaxRuns \in Nat
  /\ MaxFailures \in Nat
  /\ SocketReuse \in BOOLEAN

Addresses == Remotes \cup Loopback

VARIABLES
  origdst_by_cookie, \* the two maps, as functions on the keys they hold
  origdst_by_tuple,
  sock,      \* the client's end: idle, connecting, open, failed or gone
  want,      \* where the app asked to connect
  peer,      \* where the kernel connects
  port,      \* the source port
  joined,    \* sockops has keyed this connect's destination by its source
  handler,   \* the relay's end
  attempt,   \* Resolve's attempt
  dst,       \* what Resolve returned
  upstream,  \* where the relay's dial arrived
  misses,    \* Resolver.misses
  phase,     \* how far Start or Close is
  serving,   \* Relay.Serve accepts
  connect4,  \* connect4 is attached
  sockops,   \* sockops is attached
  pins,      \* the maps pinned in bpffs
  links,     \* Loader.links, by program; in Close, all that it has left to remove
  failed,    \* history: what Close failed to remove
  runs       \* how often the sidecar was started

maps    == <<origdst_by_cookie, origdst_by_tuple>>
client  == <<sock, want, peer, port, joined>>
relay   == <<handler, attempt, dst, upstream, misses>>
loader  == <<connect4, sockops, pins, links, failed>>
sidecar == <<phase, serving, loader, runs>>
vars    == <<maps, client, relay, sidecar>>

None == "none"
Empty == [k \in {} |-> None]

Key(a, p) == [loopback |-> a \in Loopback, port |-> p]

-----------------------------------------------------------------------------
(* External: a BPF_MAP_TYPE_LRU_HASH map.  A new key in a full map evicts  *)
(* another; the kernel's order is approximate, so any.                     *)

Put(m, S, k, v) == [x \in S \cup {k} |-> IF x = k THEN v ELSE m[x]]

Update(m, k, v) ==
  IF k \in DOMAIN m \/ Cardinality(DOMAIN m) < MaxEntries
    THEN {Put(m, DOMAIN m, k, v)}
    ELSE {Put(m, DOMAIN m \ {old}, k, v) : old \in DOMAIN m}

Delete(m, k) == [x \in DOMAIN m \ {k} |-> m[x]]

-----------------------------------------------------------------------------
Init ==
  /\ origdst_by_cookie = Empty /\ origdst_by_tuple = Empty
  /\ sock = [c \in Conns |-> "idle"]
  /\ want = [c \in Conns |-> None] /\ peer = [c \in Conns |-> None]
  /\ port = [c \in Conns |-> None] /\ joined = [c \in Conns |-> FALSE]
  /\ handler = [c \in Conns |-> "none"] /\ attempt = [c \in Conns |-> 0]
  /\ dst = [c \in Conns |-> None] /\ upstream = [c \in Conns |-> None]
  /\ misses = 0
  /\ phase = "down" /\ serving = FALSE /\ connect4 = FALSE /\ sockops = FALSE
  /\ pins = {} /\ links = {} /\ failed = {} /\ runs = 0

-----------------------------------------------------------------------------
(* The app and the kernel programs.                                        *)

redirects_AnyUid(proto, uid, a) == proto = "tcp" /\ a \notin Loopback
\* The conditions under which cgroup_connect4 rewrites the destination.
redirects(proto, uid, a) == proto = "tcp" /\ uid # "proxy" /\ a \notin Loopback

\* connect(2) up to its choice of a source port.
cgroup_connect4(c, proto, a) ==
  /\ \/ sock[c] = "idle"
     \/ sock[c] = "failed" /\ SocketReuse
  /\ sock' = [sock EXCEPT ![c] = IF proto = "tcp" THEN "connecting" ELSE "gone"]
  /\ want' = [want EXCEPT ![c] = a]
  /\ joined' = [joined EXCEPT ![c] = FALSE]
  /\ \/ /\ connect4 /\ redirects(proto, "app", a)
        /\ peer' = [peer EXCEPT ![c] = RelayAddr]
        /\ origdst_by_cookie' \in Update(origdst_by_cookie, c, a)
     \/ /\ ~(connect4 /\ redirects(proto, "app", a))
        /\ peer' = [peer EXCEPT ![c] = a]
        /\ UNCHANGED origdst_by_cookie
  /\ UNCHANGED <<origdst_by_tuple, port, relay, sidecar>>

\* connect(2) fails before sockops runs: no source port is free.
ConnectFails(c) ==
  /\ sock[c] = "connecting"
  /\ sock' = [sock EXCEPT ![c] = "failed"]
  /\ UNCHANGED <<maps, want, peer, port, joined, relay, sidecar>>

\* The four-tuple is not taken: the source port may be in use towards another
\* peer only.
free(p, a) == \A d \in Conns : ~(sock[d] = "open" /\ port[d] = p /\ peer[d] = a)

sockops_prog_NoExist(c, p) ==
  IF sockops /\ c \in DOMAIN origdst_by_cookie
    THEN /\ \/ Key(peer[c], p) \in DOMAIN origdst_by_tuple /\ UNCHANGED origdst_by_tuple
            \/ /\ Key(peer[c], p) \notin DOMAIN origdst_by_tuple
               /\ origdst_by_tuple' \in Update(origdst_by_tuple, Key(peer[c], p), origdst_by_cookie[c])
         /\ origdst_by_cookie' = Delete(origdst_by_cookie, c)
         /\ joined' = [joined EXCEPT ![c] = TRUE]
    ELSE UNCHANGED <<maps, joined>>
\* sockops_prog, when the connection gets source port p.
sockops_prog(c, p) ==
  IF sockops /\ c \in DOMAIN origdst_by_cookie
    THEN /\ origdst_by_tuple' \in Update(origdst_by_tuple, Key(peer[c], p), origdst_by_cookie[c])
         /\ origdst_by_cookie' = Delete(origdst_by_cookie, c)
         /\ joined' = [joined EXCEPT ![c] = TRUE]
    ELSE UNCHANGED <<maps, joined>>

listening == phase = "serving"

\* The rest of connect(2): the source port, sockops, the SYN and its answer.
tcp_connect(c, p) ==
  /\ sock[c] = "connecting"
  /\ free(p, peer[c])
  /\ port' = [port EXCEPT ![c] = p]
  /\ sockops_prog(c, p)
  /\ IF peer[c] # RelayAddr
       THEN /\ sock' = [sock EXCEPT ![c] = "open"]
            /\ UNCHANGED handler
       ELSE /\ sock' = [sock EXCEPT ![c] = IF listening THEN "open" ELSE "failed"]
            /\ handler' = [handler EXCEPT ![c] = IF listening THEN "backlog" ELSE @]
  /\ UNCHANGED <<want, peer, attempt, dst, upstream, misses, sidecar>>

\* The app resets the connection, or closes one that is not the relay's.
ClientCloses(c) ==
  /\ sock[c] = "open"
  /\ sock' = [sock EXCEPT ![c] = "gone"]
  /\ UNCHANGED <<maps, want, peer, port, joined, relay, sidecar>>

-----------------------------------------------------------------------------
(* The relay.                                                              *)

\* The relay is done with connection c, and so is the client's end.
ends(c, how) ==
  /\ handler' = [handler EXCEPT ![c] = how]
  /\ sock' = [sock EXCEPT ![c] = "gone"]
  /\ UNCHANGED <<maps, want, peer, port, joined, sidecar>>

\* Serve accepts, also a connection its client has reset meanwhile, and starts
\* handle on it.
Serve(c) ==
  /\ serving
  /\ handler[c] = "backlog"
  /\ handler' = [handler EXCEPT ![c] = "resolving"]
  /\ UNCHANGED <<maps, client, attempt, dst, upstream, misses, sidecar>>

\* Accept fails, say for want of a file descriptor: Serve returns for good, nobody
\* reads its error, and the listener stays open.
AcceptFails ==
  /\ serving
  /\ serving' = FALSE
  /\ UNCHANGED <<maps, client, relay, phase, loader, runs>>

\* Whether the sidecar still has the maps open: objs.Close comes last.
mapsOpen == phase # "closed"

tuple(c) == Key(peer[c], port[c])

lookupHit(c) ==
  /\ mapsOpen /\ tuple(c) \in DOMAIN origdst_by_tuple
  /\ dst' = [dst EXCEPT ![c] = origdst_by_tuple[tuple(c)]]
  /\ handler' = [handler EXCEPT ![c] = "dialing"]
  /\ UNCHANGED <<maps, client, attempt, upstream, misses, sidecar>>

lookupAgain_Unbounded(c) ==
  /\ mapsOpen /\ tuple(c) \notin DOMAIN origdst_by_tuple
  /\ attempt' = [attempt EXCEPT ![c] = (@ + 1) % (Retries + 1)]
  /\ UNCHANGED <<maps, client, handler, dst, upstream, misses, sidecar>>
lookupAgain(c) ==
  /\ mapsOpen /\ tuple(c) \notin DOMAIN origdst_by_tuple
  /\ attempt[c] < Retries
  /\ attempt' = [attempt EXCEPT ![c] = @ + 1]
  /\ UNCHANGED <<maps, client, handler, dst, upstream, misses, sidecar>>

lookupMiss_Default(c) ==
  /\ mapsOpen /\ tuple(c) \notin DOMAIN origdst_by_tuple
  /\ attempt[c] >= Retries
  /\ misses' = misses + 1
  /\ \E a \in Remotes : dst' = [dst EXCEPT ![c] = a]
  /\ handler' = [handler EXCEPT ![c] = "dialing"]
  /\ UNCHANGED <<maps, client, attempt, upstream, sidecar>>
\* The bounded retry is used up: the miss is counted and the client reset.
lookupMiss(c) ==
  /\ mapsOpen /\ tuple(c) \notin DOMAIN origdst_by_tuple
  /\ attempt[c] >= Retries
  /\ misses' = misses + 1
  /\ ends(c, "reset")
  /\ UNCHANGED <<attempt, dst, upstream>>

\* Any other lookup error: reset, and no miss.
lookupFails(c) ==
  /\ ~mapsOpen
  /\ ends(c, "reset")
  /\ UNCHANGED <<attempt, dst, upstream, misses>>

\* One attempt of Resolve, with what handle does of its result.
Resolve(c) ==
  /\ handler[c] = "resolving"
  /\ lookupHit(c) \/ lookupAgain(c) \/ lookupMiss(c) \/ lookupFails(c)

\* handle dials the destination, through connect4 like any other socket.
Dial(c) ==
  /\ handler[c] = "dialing"
  /\ upstream' = [upstream EXCEPT ![c] =
       IF connect4 /\ redirects("tcp", "proxy", dst[c]) THEN RelayAddr ELSE dst[c]]
  /\ handler' = [handler EXCEPT ![c] = "relaying"]
  /\ UNCHANGED <<maps, client, attempt, dst, misses, sidecar>>

\* The dial fails or times out: onDialErr, and the client is closed.
DialFails(c) ==
  /\ handler[c] = "dialing"
  /\ ends(c, "closed")
  /\ UNCHANGED <<attempt, dst, upstream, misses>>

\* Both copies of splice have ended.
spliceEnds(c) ==
  /\ handler[c] = "relaying"
  /\ ends(c, "closed")
  /\ UNCHANGED <<attempt, dst, upstream, misses>>

-----------------------------------------------------------------------------
(* The sidecar's life.                                                     *)

fresh(name, m) == IF name \in pins THEN m ELSE Empty

\* A map pinned by an earlier run is reused, entries included.  When loading fails,
\* the maps pinned before stay pinned: Start has no loader to close.
Load ==
  /\ phase = "down"
  /\ runs < MaxRuns
  /\ runs' = runs + 1
  /\ origdst_by_cookie' = fresh("cookie", origdst_by_cookie)
  /\ origdst_by_tuple' = fresh("tuple", origdst_by_tuple)
  /\ \/ phase' = "loaded" /\ pins' = {"cookie", "tuple"}
     \/ phase' = "down" /\ \E S \in SUBSET {"cookie", "tuple"} : pins' = pins \cup S
  /\ UNCHANGED <<client, relay, serving, connect4, sockops, links, failed>>

Attach_RecordsLast ==
  /\ phase = "loaded"
  /\ \/ /\ ~connect4 /\ connect4' = TRUE
        /\ UNCHANGED <<links, sockops, phase>>
     \/ /\ connect4 /\ sockops' = TRUE /\ links' = {"connect4", "sockops"}
        /\ phase' = "attached"
        /\ UNCHANGED connect4
  /\ UNCHANGED <<maps, client, relay, serving, pins, failed, runs>>
\* Attach binds connect4, then sockops, each recorded for Close once it is bound.
Attach ==
  /\ phase = "loaded"
  /\ \/ /\ ~connect4 /\ connect4' = TRUE /\ links' = links \cup {"connect4"}
        /\ UNCHANGED <<sockops, phase>>
     \/ /\ connect4 /\ sockops' = TRUE /\ links' = links \cup {"sockops"}
        /\ phase' = "attached"
        /\ UNCHANGED connect4
  /\ UNCHANGED <<maps, client, relay, serving, pins, failed, runs>>

\* The relay starts, with a resolver of its own.
Listen ==
  /\ phase = "attached"
  /\ phase' = "serving" /\ serving' = TRUE
  /\ misses' = 0
  /\ UNCHANGED <<maps, client, handler, attempt, dst, upstream, loader, runs>>

inBacklog(c) == handler[c] = "backlog"
accepted(c) == handler[c] \in {"resolving", "dialing", "relaying"}

\* The kernel resets the relay's ends of the connections in S.
resets(S) ==
  /\ handler' = [c \in Conns |-> IF c \in S THEN "reset" ELSE handler[c]]
  /\ sock' = [c \in Conns |-> IF c \in S THEN "gone" ELSE sock[c]]
  /\ UNCHANGED <<want, peer, port, joined, attempt, dst, upstream, misses>>

\* App.Close, on shutdown or because a later step of Start failed: the listener
\* closes, and what it has not accepted is reset.  Handlers go on.
CloseListener ==
  /\ phase \in {"loaded", "attached", "serving"}
  /\ phase' = "closing" /\ serving' = FALSE
  /\ links' = links \cup {"cookie", "tuple"}
  /\ resets({c \in Conns : inBacklog(c)})
  /\ UNCHANGED <<maps, connect4, sockops, pins, failed, runs>>

\* The order of Loader.Close: the links as they were attached, then the pins.
rank == [connect4 |-> 1, sockops |-> 2, cookie |-> 3, tuple |-> 4]

\* Detaching or unpinning x, which may fail.
removes(x) ==
  \/ /\ connect4' = (connect4 /\ x # "connect4") /\ sockops' = (sockops /\ x # "sockops")
     /\ pins' = pins \ {x}
     /\ UNCHANGED failed
  \/ /\ Cardinality(failed) < MaxFailures /\ failed' = failed \cup {x}
     /\ UNCHANGED <<connect4, sockops, pins>>

\* Loader.Close goes on whatever fails, and closes the maps last.
closeLoader ==
  /\ phase = "closing"
  /\ \/ \E x \in links :
          /\ \A y \in links : rank[x] <= rank[y]
          /\ removes(x)
          /\ links' = links \ {x} /\ UNCHANGED phase
     \/ links = {} /\ phase' = "closed" /\ UNCHANGED loader
  /\ UNCHANGED <<maps, client, relay, serving, runs>>

\* The process ends: once Close has returned, or killed at any point.  The kernel
\* closes its links and its sockets; pins stay.
Exit ==
  /\ phase # "down"
  /\ phase' = "down" /\ serving' = FALSE
  /\ connect4' = FALSE /\ sockops' = FALSE /\ links' = {} /\ failed' = {}
  /\ resets({c \in Conns : inBacklog(c) \/ accepted(c)})
  /\ UNCHANGED <<maps, pins, runs>>

-----------------------------------------------------------------------------
Handle(c) == Serve(c) \/ Resolve(c) \/ Dial(c) \/ DialFails(c) \/ spliceEnds(c)

App(c) ==
  \/ \E proto \in {"tcp", "udp"}, a \in Addresses : cgroup_connect4(c, proto, a)
  \/ ConnectFails(c)
  \/ \E p \in Ports : tcp_connect(c, p)
  \/ ClientCloses(c)

Sidecar == Load \/ Attach \/ Listen \/ AcceptFails \/ CloseListener \/ closeLoader \/ Exit

Next == Sidecar \/ \E c \in Conns : App(c) \/ Handle(c)

Spec == Init /\ [][Next]_vars

\* The relay's goroutines get to run, Serve for as long as no Accept fails, and a
\* dial ends within its timeout; a started Close goes on.  Traffic, and a splice's
\* end, may never come.
Fairness ==
  /\ \A c \in Conns : /\ WF_vars(Serve(c))
                      /\ WF_vars(Resolve(c))
                      /\ WF_vars(Dial(c) \/ DialFails(c))
  /\ WF_vars(closeLoader)

FairSpec == Spec /\ Fairness

-----------------------------------------------------------------------------
(* Properties.                                                             *)

MapOf(K, V) == UNION {[S -> V] : S \in SUBSET K}

\* Every variable has its type, and every destination on record is one that
\* connect4 redirects.
TypeOK ==
  /\ origdst_by_cookie \in MapOf(Conns, Remotes)
  /\ origdst_by_tuple \in MapOf([loopback : BOOLEAN, port : Ports], Remotes)
  /\ sock \in [Conns -> {"idle", "connecting", "open", "failed", "gone"}]
  /\ want \in [Conns -> Addresses \cup {None}]
  /\ peer \in [Conns -> Addresses \cup {None}]
  /\ port \in [Conns -> Ports \cup {None}]
  /\ joined \in [Conns -> BOOLEAN]
  /\ handler \in [Conns -> {"none", "backlog", "resolving", "dialing", "relaying", "reset", "closed"}]
  /\ attempt \in [Conns -> 0 .. Retries]
  /\ dst \in [Conns -> Remotes \cup {None}]
  /\ upstream \in [Conns -> Remotes \cup {None, RelayAddr}]
  /\ misses \in Nat
  /\ phase \in {"down", "loaded", "attached", "serving", "closing", "closed"}
  /\ serving \in BOOLEAN /\ connect4 \in BOOLEAN /\ sockops \in BOOLEAN
  /\ pins \subseteq {"cookie", "tuple"} /\ runs \in Nat
  /\ links \subseteq DOMAIN rank /\ failed \subseteq DOMAIN rank

\* A redirected connection that sockops joined with its destination is relayed to
\* that destination or to none, as long as its client is there: neither an entry
\* left by an earlier connection from its port, nor a run that was killed, nor an
\* eviction sends it elsewhere.
RelayedToOriginal ==
  \A c \in Conns :
    /\ sock[c] = "open" /\ peer[c] # want[c] /\ joined[c]
    /\ handler[c] \in {"dialing", "relaying"}
    => dst[c] = want[c]

\* The relay never makes up a destination: one that it dials was asked for by a
\* connection with the same source ("never forward to a default").
NeverADefault ==
  \A c \in Conns :
    dst[c] # None => \E d \in Conns : want[d] = dst[c] /\ port[d] = port[c]

\* The relay's own dial is never redirected back to the relay.
NoLoop == \A c \in Conns : upstream[c] # RelayAddr

\* A Close that ran to its end leaves attached or pinned only what it failed to
\* remove, whichever step of Start it follows: nothing is attached that it has no
\* record of, and no failure keeps it from the rest ("A subsystem that fails to
\* close ... never keeps the others open").
OnlyFailedLeft ==
  phase = "closed" =>
    /\ connect4 => "connect4" \in failed
    /\ sockops => "sockops" \in failed
    /\ pins \subseteq failed

\* Whatever IPv4 address, inside 127.0.0.0/8 or not, the one a socket asks for
\* stands for, and on machines of either byte order: the programs treat its bytes
\* as Redirect does the address, and the relay finds the key sockops stored and
\* decodes exactly the destination connect4 recorded ("Ip fields hold the IPv4
\* address in network byte order ... Port fields hold the port in host byte order").
ByteOrderContract == \A c \in Conns : want[c] # None => (want[c] \in Loopback) \in Sound

\* A connection that reaches the relay is dialed or reset after a bounded number
\* of attempts, or goes down with the sidecar; only one that waits to be accepted
\* when an Accept fails stays undecided, and one that was accepted never does.
HandlersDecide ==
  \A c \in Conns :
    (handler[c] \in {"backlog", "resolving", "dialing"})
      ~> \/ handler[c] \in {"relaying", "reset", "closed"}
         \/ handler[c] = "backlog" /\ ~serving

\* The comment on Serve: it "accepts connections until the listener is closed".
ServesUntilClosed == listening => serving

\* What newResolver's comment says of a connection without a record of its own,
\* because it was evicted or was never redirected: it is a miss, and reset.
UnjoinedIsReset ==
  \A c \in Conns : handler[c] \in {"dialing", "relaying"} => joined[c]

\* What WithOnRelayed's comment says: onRelayed is given the correct original
\* destination of the connection, whether or not its client is still there.
LoggedDestination ==
  \A c \in Conns : handler[c] = "relaying" /\ joined[c] => dst[c] = want[c]
=============================================================================
