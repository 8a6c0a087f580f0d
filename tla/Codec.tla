-------------------------------- MODULE Codec --------------------------------
(***************************************************************************)
(* The byte-order contract between bpf/proxy.bpf.c and                     *)
(* internal/ebpf/codec.go, on machines of either byte order.  Numbers are  *)
(* what C and Go compute with; sequences of bytes are what is in memory    *)
(* and on the wire.  A byte has Base values, a port two bytes and an       *)
(* address four.                                                           *)
(***************************************************************************)
EXTENDS Integers, Sequences

CONSTANTS
  Base,        \* values of a byte: 256
  LoopbackNet, \* the first byte of the loopback addresses: 127
  PROXY_PORT

Byte == 0 .. Base - 1
Octets == [1 .. 4 -> Byte]
Uint16 == 0 .. Base * Base - 1
Localhost == <<LoopbackNet, 0, 0, 1>>

ASSUME BytesAssumption ==
  /\ Base \in Nat /\ Base > 1
  /\ LoopbackNet \in Byte
  /\ PROXY_PORT \in Uint16

-----------------------------------------------------------------------------
(* External: memory, and the byte-order helpers of C and Go.               *)

\* The number that bytes spell, the most significant first.
uint16(b) == b[1] * Base + b[2]
uint32(b) == (uint16(b) * Base + b[3]) * Base + b[4]

\* The bytes that spell a number; n >> 8 drops its last.
shift8(n) == n \div Base
bytes16(n) == <<shift8(n) % Base, n % Base>>
bytes32(n) == <<shift8(shift8(shift8(n))) % Base, shift8(shift8(n)) % Base, shift8(n) % Base, n % Base>>

\* Bytes as a little- or big-endian machine has them in memory.
inOrder(little, b) == IF little THEN [i \in DOMAIN b |-> b[Len(b) + 1 - i]] ELSE b

\* The number that is in memory as these four bytes, and back.
fromMemory(little, b) == uint32(inOrder(little, b))
toMemory(little, n) == inOrder(little, bytes32(n))

\* bpf_htonl and bpf_htons, which are their own inverses bpf_ntohl and bpf_ntohs.
htonl(little, n) == uint32(toMemory(little, n))
htons(little, n) == uint16(inOrder(little, bytes16(n)))

-----------------------------------------------------------------------------
(* codec.go.                                                               *)

TupleKey_Network(little, a, p) == [ip |-> uint32(a), port |-> p]
TupleKey(little, a, p) == [ip |-> fromMemory(little, a), port |-> p]

OrigDst(little, a, p) == [ip |-> fromMemory(little, a), port |-> p]

AddrPort(little, od) == [addr |-> toMemory(little, od.ip), port |-> od.port]

-----------------------------------------------------------------------------
(* proxy.bpf.c, on the fields of its contexts.                             *)

\* user_ip4 and user_port of a connect, both in network order.
sockAddr(little, a, p) == [user_ip4 |-> fromMemory(little, a), user_port |-> htons(little, p)]

isLoopback(little, ctx) == shift8(shift8(shift8(htonl(little, ctx.user_ip4)))) = LoopbackNet

\* What connect4 records of the destination, and what it replaces it by.
recorded(little, ctx) == [ip |-> ctx.user_ip4, port |-> htons(little, ctx.user_port)]
toRelay(little) ==
  [user_ip4 |-> htonl(little, uint32(Localhost)), user_port |-> htons(little, PROXY_PORT)]

\* The key of sockops: local_ip4 is in network order, local_port is not.
rekeyed(little, a, p) == [ip |-> fromMemory(little, a), port |-> p]

-----------------------------------------------------------------------------
\* The two sides agree on a destination, for every port: its record is what the
\* codec takes it for, and it is decoded to the bytes that were asked for.
Decodes(little, a) ==
  \A p \in Uint16 :
    LET od == recorded(little, sockAddr(little, a, p))
    IN  od = OrigDst(little, a, p) /\ AddrPort(little, od) = [addr |-> a, port |-> p]

\* The relay finds what sockops stored for a source, for every port.
Finds(little, a) == \A p \in Uint16 : TupleKey(little, a, p) = rekeyed(little, a, p)

\* connect4's test for 127.0.0.0/8, the relay's address on the wire, the record and
\* the key are right, on either machine, for every address inside 127.0.0.0/8, or
\* for every one outside it.
SoundFor(inside) ==
  \A little \in BOOLEAN : \A a \in {o \in Octets : o[1] = LoopbackNet <=> inside} :
    /\ isLoopback(little, sockAddr(little, a, 0)) <=> inside
    /\ toRelay(little) = sockAddr(little, Localhost, PROXY_PORT)
    /\ Decodes(little, a) /\ Finds(little, a)

Sound == {inside \in BOOLEAN : SoundFor(inside)}
=============================================================================
