------------------------------ MODULE Address -------------------------------
(***************************************************************************)
(* The conversions between Python's addresses and lwIP's: SockAddr of      *)
(* src/lwip/socket.py between address tuples and sockaddr structs, and     *)
(* str2ip, ip2str, ip4_addr of src/lwip/inet.py between texts and numbers. *)
(*                                                                         *)
(* An IPv4 literal is the sequence of the numbers between its dots, the    *)
(* empty text the empty sequence; an IPv6 literal is the address and the   *)
(* spelling, of which inet_ntop makes one, and the empty text a spelling   *)
(* of ::.  The host is little endian, as str2ip assumes.                   *)
(***************************************************************************)
EXTENDS Integers, Sequences

AF_UNSPEC == 0
AF_INET == 2
AF_INET6 == 10

Byte == 0..255
Port == {n \in Nat : n < 65536}   \* unsigned short
U32 == {n \in Nat : n \div 65536 < 65536}
Bytes(n) == [1..n -> Byte]

-----------------------------------------------------------------------------
(* Byte order and text.                                                     *)

htons(port) == (port % 256) * 256 + port \div 256

(* How a number of two bytes lies in memory, and on the network. *)
InMemory(word) == <<word % 256, word \div 256>>
OnWire(word) == <<word \div 256, word % 256>>

(* inet_pton(AF_INET, .) accepts the literal. *)
IsLiteral(host) == host \in Bytes(4)

(* The value of the hexadecimal digits that "02x" makes of a number, shifted in. *)
Shift(octet) == IF octet < 256 THEN 256 ELSE 4096

(* int(f"{d:02x}{c:02x}{b:02x}{a:02x}", 16), for numbers below 4096. *)
str2ip(host) ==
  ((host[4] * Shift(host[3]) + host[3]) * Shift(host[2]) + host[2]) * Shift(host[1]) + host[1]

(* ipnum & 0xFF, (ipnum >> 8) & 0xFF, ... *)
Shr8(n) == n \div 256

ip2str(ipnum) ==
  <<ipnum % 256, Shr8(ipnum) % 256, Shr8(Shr8(ipnum)) % 256, Shr8(Shr8(Shr8(ipnum))) % 256>>

(* The addr field of the struct that ip4_addr fills with memmove. *)
ip4_addr(host) == host[1] + 256 * (host[2] + 256 * (host[3] + 256 * host[4]))

-----------------------------------------------------------------------------
(* SockAddr.                                                                *)

(* The family, by the length of the tuple unless the caller knows it. *)
FamilyOf(address, family) ==
  IF family # AF_UNSPEC THEN family
  ELSE IF Len(address) = 2 THEN AF_INET
  ELSE IF Len(address) = 4 THEN AF_INET6 ELSE AF_UNSPEC

(* inet_pton fails, htons and the fields of cffi overflow. *)
Parseable4(address) ==
  /\ Len(address) = 2
  /\ address[1] = <<>> \/ IsLiteral(address[1])
  /\ address[2] \in Port

Parseable6(address) ==
  /\ Len(address) = 4
  /\ address[1].addr \in Bytes(16)
  /\ address[2] \in Port
  /\ address[3] \in U32
  /\ address[4] \in U32

(* parse_address returns rather than raises. *)
Parseable(address, family) ==
  \/ FamilyOf(address, family) = AF_INET /\ Parseable4(address)
  \/ FamilyOf(address, family) = AF_INET6 /\ Parseable6(address)

(* The struct; its port is the number the program would read in it. *)
parse_address(address, family) ==
  IF FamilyOf(address, family) = AF_INET
  THEN [family |-> AF_INET, len |-> 16, port |-> htons(address[2]),
        addr |-> IF address[1] = <<>> THEN [i \in 1..4 |-> 0] ELSE address[1],
        flowinfo |-> 0, scope_id |-> 0]
  ELSE [family |-> AF_INET6, len |-> 28, port |-> htons(address[2]),
        addr |-> address[1].addr, flowinfo |-> address[3], scope_id |-> address[4]]

(* inet_ntop has one spelling for each address. *)
ntop(addr) == [addr |-> addr, spelling |-> "canonical"]

unparse_address(sa) ==
  IF sa.family = AF_INET THEN <<sa.addr, htons(sa.port)>>
  ELSE <<ntop(sa.addr), htons(sa.port), sa.flowinfo, sa.scope_id>>

(* The structs of the two families, as lwIP fills them. *)
SockAddr4 == [family : {AF_INET}, len : {16}, port : Port, addr : Bytes(4), flowinfo : {0}, scope_id : {0}]
SockAddr6 == [family : {AF_INET6}, len : {28}, port : Port, addr : Bytes(16), flowinfo : U32, scope_id : U32]

(* The tuple that stands for the same address as a parseable one. *)
Canonical(address) ==
  IF Len(address) = 2
  THEN <<IF address[1] = <<>> THEN [i \in 1..4 |-> 0] ELSE address[1], address[2]>>
  ELSE <<ntop(address[1].addr), address[2], address[3], address[4]>>

=============================================================================
