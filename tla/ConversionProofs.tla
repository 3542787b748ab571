-------------------------- MODULE ConversionProofs --------------------------
(***************************************************************************)
(* What the conversions of Address compute, for all addresses, and the     *)
(* translation of SockOpt, for all tables of names.                        *)
(***************************************************************************)
EXTENDS Address, SockOpt, TLAPS

(* A number has its lowest byte and the rest.                               *)
LEMMA ByteType ==
  ASSUME NEW n
  PROVE  n \in Byte <=> n \in Int /\ 0 <= n /\ n < 256
BY SMT DEF Byte

LEMMA DivMod ==
  ASSUME NEW n \in Int, NEW q \in Int, NEW l \in Int, q = n \div 256, l = n % 256
  PROVE  n = 256 * q + l /\ 0 <= l /\ l < 256
BY SMT

LEMMA DivType ==
  ASSUME NEW n \in Nat
  PROVE  n \div 256 \in Nat /\ n % 256 \in Nat
BY SMT

LEMMA DivModOf ==
  ASSUME NEW q \in Int, NEW l \in Int, 0 <= l, l < 256
  PROVE  (256 * q + l) % 256 = l /\ (256 * q + l) \div 256 = q
<1>1. (256 * q + l) % 256 = l
  BY SMT
<1>2. (256 * q + l) \div 256 = q
  BY SMT
<1> QED
  BY <1>1, <1>2

(* The two bytes of a port.                                                 *)
LEMMA PortBytes ==
  ASSUME NEW p \in Port
  PROVE  /\ p % 256 \in Byte /\ p \div 256 \in Byte
         /\ p = 256 * (p \div 256) + (p % 256)
<1>1. PICK q \in Nat, l \in Nat : q = p \div 256 /\ l = p % 256
  BY DivType DEF Port
<1>2. p \in Nat /\ p < 65536
  BY DEF Port
<1>3. p = 256 * q + l /\ 0 <= l /\ l < 256
  BY <1>1, <1>2, DivMod
<1>4. q < 256
  BY <1>2, <1>3
<1>5. q \in Byte /\ l \in Byte
  BY <1>3, <1>4, ByteType
<1> QED
  BY <1>1, <1>3, <1>5

(* Two bytes and the number they make.                                      *)
LEMMA WordOfBytes ==
  ASSUME NEW h \in Byte, NEW l \in Byte
  PROVE  (256 * h + l) % 256 = l /\ (256 * h + l) \div 256 = h
<1>1. h \in Int /\ l \in Int /\ 0 <= l /\ l < 256
  BY ByteType
<1> QED
  BY <1>1, DivModOf

LEMMA WordIsPort ==
  ASSUME NEW h \in Byte, NEW l \in Byte
  PROVE  256 * l + h \in Port
<1>1. h \in Int /\ l \in Int /\ 0 <= h /\ h < 256 /\ 0 <= l /\ l < 256
  BY ByteType
<1> QED
  BY <1>1, SMT DEF Port

(***************************************************************************)
(* socket.htons is its own inverse, and the number stored in sin_port lies *)
(* in memory as the port is to appear in a packet.                         *)
(***************************************************************************)
THEOREM PortOnWire ==
  ASSUME NEW p \in Port
  PROVE  /\ htons(p) \in Port
         /\ htons(htons(p)) = p
         /\ InMemory(htons(p)) = OnWire(p)
<1> DEFINE h == p \div 256
           l == p % 256
<1>1. h \in Byte /\ l \in Byte /\ p = 256 * h + l
  BY PortBytes DEF h, l
<1>2. htons(p) = 256 * l + h
  BY <1>1 DEF htons, Byte
<1> HIDE DEF h, l
<1>3. (256 * l + h) % 256 = h /\ (256 * l + h) \div 256 = l
  BY <1>1, WordOfBytes
<1>4. htons(p) \in Port
  BY <1>1, <1>2, WordIsPort
<1>5. htons(htons(p)) = p
  BY <1>1, <1>2, <1>3 DEF htons, Byte
<1>6. InMemory(htons(p)) = OnWire(p)
  BY <1>2, <1>3 DEF InMemory, OnWire, h, l
<1> QED
  BY <1>4, <1>5, <1>6

(***************************************************************************)
(* A struct lwIP has filled (getsockname, getpeername, accept, recvfrom)   *)
(* survives the way to the program and back: the tuple made of it parses   *)
(* to the same struct.                                                     *)
(***************************************************************************)
THEOREM ParseOfUnparse ==
  ASSUME NEW sa \in SockAddr4 \cup SockAddr6
  PROVE  /\ Parseable(unparse_address(sa), AF_UNSPEC)
         /\ parse_address(unparse_address(sa), AF_UNSPEC) = sa
<1>1. sa.port \in Port /\ htons(sa.port) \in Port /\ htons(htons(sa.port)) = sa.port
  <2>1. sa.port \in Port
    BY DEF SockAddr4, SockAddr6
  <2> QED
    BY <2>1, PortOnWire
<1>2. CASE sa \in SockAddr4
  <2> DEFINE a == <<sa.addr, htons(sa.port)>>
  <2>1. sa.family = AF_INET /\ sa.addr \in Bytes(4) /\ unparse_address(sa) = a
    BY <1>2 DEF SockAddr4, unparse_address
  <2>2. Len(a) = 2 /\ a[1] = sa.addr /\ a[2] = htons(sa.port) /\ FamilyOf(a, AF_UNSPEC) = AF_INET
    BY DEF FamilyOf
  <2>3. sa.addr # <<>>
    BY <2>1 DEF Bytes
  <2> HIDE DEF a
  <2>4. Parseable(a, AF_UNSPEC)
    BY <1>1, <2>1, <2>2 DEF Parseable, Parseable4, IsLiteral
  <2>5. parse_address(a, AF_UNSPEC) = sa
    <3>1. parse_address(a, AF_UNSPEC) =
            [family |-> AF_INET, len |-> 16, port |-> sa.port, addr |-> sa.addr, flowinfo |-> 0, scope_id |-> 0]
      BY <1>1, <2>2, <2>3 DEF parse_address
    <3> QED
      BY <1>2, <3>1 DEF SockAddr4
  <2> QED
    BY <2>1, <2>4, <2>5
<1>3. CASE sa \in SockAddr6
  <2> DEFINE a == <<ntop(sa.addr), htons(sa.port), sa.flowinfo, sa.scope_id>>
  <2>1. /\ sa.family = AF_INET6 /\ sa.addr \in Bytes(16) /\ sa.flowinfo \in U32 /\ sa.scope_id \in U32
        /\ unparse_address(sa) = a
    BY <1>3 DEF SockAddr6, unparse_address, AF_INET, AF_INET6
  <2>2. /\ Len(a) = 4 /\ a[1].addr = sa.addr /\ a[2] = htons(sa.port) /\ a[3] = sa.flowinfo /\ a[4] = sa.scope_id
        /\ FamilyOf(a, AF_UNSPEC) = AF_INET6
    BY DEF FamilyOf, ntop
  <2> HIDE DEF a
  <2>3. Parseable(a, AF_UNSPEC)
    BY <1>1, <2>1, <2>2 DEF Parseable, Parseable6
  <2>4. parse_address(a, AF_UNSPEC) = sa
    <3>1. parse_address(a, AF_UNSPEC) =
            [family |-> AF_INET6, len |-> 28, port |-> sa.port, addr |-> sa.addr,
             flowinfo |-> sa.flowinfo, scope_id |-> sa.scope_id]
      BY <1>1, <2>2 DEF parse_address, AF_INET, AF_INET6
    <3> QED
      BY <1>3, <3>1 DEF SockAddr6
  <2> QED
    BY <2>1, <2>3, <2>4
<1> QED
  BY <1>2, <1>3

(***************************************************************************)
(* What a program passes to bind, connect or sendto it gets back from      *)
(* getsockname, getpeername or recvfrom, up to the spelling of the host.   *)
(***************************************************************************)
THEOREM UnparseOfParse ==
  ASSUME NEW address, Parseable(address, AF_UNSPEC)
  PROVE  unparse_address(parse_address(address, AF_UNSPEC)) = Canonical(address)
<1>1. CASE Len(address) = 2
  <2>1. FamilyOf(address, AF_UNSPEC) = AF_INET /\ address[2] \in Port
    BY <1>1 DEF FamilyOf, Parseable, Parseable4, AF_INET, AF_INET6
  <2>2. htons(htons(address[2])) = address[2]
    BY <2>1, PortOnWire
  <2> QED
    BY <1>1, <2>1, <2>2 DEF parse_address, unparse_address, Canonical
<1>2. CASE Len(address) # 2
  <2>1. FamilyOf(address, AF_UNSPEC) = AF_INET6 /\ address[2] \in Port
    BY <1>2 DEF FamilyOf, Parseable, Parseable4, Parseable6, AF_INET, AF_INET6
  <2>2. htons(htons(address[2])) = address[2]
    BY <2>1, PortOnWire
  <2> QED
    BY <1>2, <2>1, <2>2 DEF parse_address, unparse_address, Canonical, AF_INET, AF_INET6
<1> QED
  BY <1>1, <1>2

-----------------------------------------------------------------------------
(* inet.py.                                                                 *)

(***************************************************************************)
(* The number str2ip gives for a literal is the one lwIP keeps in an       *)
(* ip4_addr for it, so a routing function can compare src and dst with it. *)
(***************************************************************************)
THEOREM NumberIsNative ==
  ASSUME NEW host, IsLiteral(host)
  PROVE  str2ip(host) = ip4_addr(host)
<1>1. \A i \in 1..4 : host[i] \in Byte
  BY DEF IsLiteral, Bytes
<1>2. \A i \in 1..4 : Shift(host[i]) = 256
  BY <1>1 DEF Shift, Byte
<1>3. \A a, b, c, d \in Byte : ((d * 256 + c) * 256 + b) * 256 + a = a + 256 * (b + 256 * (c + 256 * d))
  BY SMT DEF Byte
<1>4. str2ip(host) = ((host[4] * 256 + host[3]) * 256 + host[2]) * 256 + host[1]
  BY <1>2 DEF str2ip
<1> QED
  BY <1>1, <1>3, <1>4 DEF ip4_addr

(* A number of which b is the lowest byte and n the rest; and back.         *)
Join(b, n) == b + 256 * n
Low(n) == n % 256

LEMMA LowByte ==
  ASSUME NEW b \in Byte, NEW n \in Nat
  PROVE  Join(b, n) \in Nat /\ Low(Join(b, n)) = b /\ Shr8(Join(b, n)) = n
<1>1. b \in Int /\ 0 <= b /\ b < 256
  BY ByteType
<1>2. b + 256 * n = 256 * n + b /\ b + 256 * n \in Nat
  BY <1>1
<1>3. (256 * n + b) % 256 = b /\ (256 * n + b) \div 256 = n
  BY <1>1, DivModOf
<1> QED
  BY <1>2, <1>3 DEF Shr8, Join, Low

LEMMA LowByteOf ==
  ASSUME NEW n \in Nat
  PROVE  Low(n) \in Byte /\ Shr8(n) \in Nat /\ n = Join(Low(n), Shr8(n))
<1>1. PICK q \in Nat, l \in Nat : q = n \div 256 /\ l = n % 256
  BY DivType
<1>2. n = 256 * q + l /\ 0 <= l /\ l < 256
  BY <1>1, DivMod
<1>3. l \in Byte /\ n = l + 256 * q
  BY <1>2, ByteType
<1> QED
  BY <1>1, <1>3 DEF Shr8, Join, Low

LEMMA ByteIsNat ==
  ASSUME NEW b \in Byte
  PROVE  b \in Nat /\ Low(b) = b
<1>1. b \in Int /\ 0 <= b /\ b < 256
  BY ByteType
<1>2. b \in Nat
  BY <1>1
<1>3. b % 256 = b
  BY <1>1, SMT
<1> QED
  BY <1>2, <1>3 DEF Low

LEMMA FourJoined ==
  ASSUME NEW a \in Byte, NEW b \in Byte, NEW c \in Byte, NEW d \in Byte
  PROVE  ip4_addr(<<a, b, c, d>>) = Join(a, Join(b, Join(c, d)))
BY DEF ip4_addr, Join

LEMMA FourLows ==
  ASSUME NEW n
  PROVE  ip2str(n) = <<Low(n), Low(Shr8(n)), Low(Shr8(Shr8(n))), Low(Shr8(Shr8(Shr8(n))))>>
BY DEF ip2str, Low

(* ip2str reads the text back out of the number str2ip made of it.          *)
THEOREM TextOfNumber ==
  ASSUME NEW host, IsLiteral(host)
  PROVE  ip2str(str2ip(host)) = host
<1>1. PICK a \in Byte, b \in Byte, c \in Byte, d \in Byte : host = <<a, b, c, d>>
  <2>1. host[1] \in Byte /\ host[2] \in Byte /\ host[3] \in Byte /\ host[4] \in Byte
    BY DEF IsLiteral, Bytes
  <2>2. host = <<host[1], host[2], host[3], host[4]>>
    BY DEF IsLiteral, Bytes
  <2> QED
    BY <2>1, <2>2
<1> DEFINE n2 == Join(c, d)
           n1 == Join(b, n2)
           n == Join(a, n1)
<1>2. d \in Nat /\ Low(d) = d
  BY ByteIsNat
<1>3. n2 \in Nat /\ Low(n2) = c /\ Shr8(n2) = d
  BY <1>2, LowByte
<1> HIDE DEF n2
<1>4. n1 \in Nat /\ Low(n1) = b /\ Shr8(n1) = n2
  BY <1>3, LowByte
<1> HIDE DEF n1
<1>5. Low(n) = a /\ Shr8(n) = n1
  BY <1>4, LowByte
<1>6. str2ip(host) = n
  BY <1>1, FourJoined, NumberIsNative DEF n1, n2
<1> HIDE DEF n
<1>7. ip2str(n) = <<a, b, c, d>>
  BY <1>2, <1>3, <1>4, <1>5, FourLows
<1> QED
  BY <1>1, <1>6, <1>7

(* The bytes of a number of 32 bits.                                        *)
Below32(n) == n < 65536 * 65536

LEMMA WordBound ==
  ASSUME NEW n \in U32
  PROVE  n \in Nat /\ Below32(n)
<1>1. n \in Nat /\ n \div 65536 < 65536
  BY DEF U32
<1> QED
  BY <1>1, SMT DEF Below32

LEMMA HighByte ==
  ASSUME NEW a \in Byte, NEW b \in Byte, NEW c \in Byte, NEW d \in Nat, NEW n \in Nat,
         n = Join(a, Join(b, Join(c, d))), Below32(n)
  PROVE  d \in Byte
<1>1. a \in Nat /\ b \in Nat /\ c \in Nat
  BY ByteIsNat
<1>2. n = a + 256 * (b + 256 * (c + 256 * d))
  BY DEF Join
<1>3. 256 * (256 * (256 * d)) <= n
  BY <1>1, <1>2
<1>4. d < 256
  BY <1>3, SMT DEF Below32
<1> QED
  BY <1>4, ByteType

(* And str2ip makes the number again of the text, for every address.        *)
THEOREM NumberOfText ==
  ASSUME NEW ipnum \in U32
  PROVE  IsLiteral(ip2str(ipnum)) /\ str2ip(ip2str(ipnum)) = ipnum
<1> DEFINE q1 == Shr8(ipnum)
           q2 == Shr8(q1)
           q3 == Shr8(q2)
           a == Low(ipnum)
           b == Low(q1)
           c == Low(q2)
<1>1. ipnum \in Nat /\ Below32(ipnum)
  BY WordBound
<1>2. q1 \in Nat /\ a \in Byte /\ ipnum = Join(a, q1)
  BY <1>1, LowByteOf
<1>3. q2 \in Nat /\ b \in Byte /\ q1 = Join(b, q2)
  BY <1>2, LowByteOf
<1>4. q3 \in Nat /\ c \in Byte /\ q2 = Join(c, q3)
  BY <1>3, LowByteOf
<1>5. ip2str(ipnum) = <<a, b, c, Low(q3)>>
  BY FourLows
<1> HIDE DEF q1, q2, q3, a, b, c
<1>6. ipnum = Join(a, Join(b, Join(c, q3)))
  BY <1>2, <1>3, <1>4
<1>7. q3 \in Byte /\ Low(q3) = q3
  BY <1>1, <1>2, <1>3, <1>4, <1>6, HighByte, ByteIsNat
<1>8. IsLiteral(<<a, b, c, q3>>)
  BY <1>2, <1>3, <1>4, <1>7 DEF IsLiteral, Bytes
<1>9. ip4_addr(<<a, b, c, q3>>) = ipnum
  BY <1>2, <1>3, <1>4, <1>6, <1>7, FourJoined
<1> QED
  BY <1>5, <1>7, <1>8, <1>9, NumberIsNative

-----------------------------------------------------------------------------
(* What the translation table holds.                                        *)

(* The name a dict keeps for a value has that value.                        *)
LEMMA LastHasValue ==
  ASSUME NEW all, NEW rank, Ordered(all, rank), NEW names \in SUBSET all, NEW value, HasValue(names, value)
  PROVE  LastWith(names, rank, value) \in Common(names) /\ socket[LastWith(names, rank, value)] = value
<1> DEFINE S == {n \in Common(names) : socket[n] = value}
<1>1. S \in SUBSET all /\ S # {}
  BY DEF HasValue, Common
<1>2. \E n \in S : \A m \in S : rank[m] <= rank[n]
  BY <1>1 DEF Ordered
<1>3. \E n \in Common(names) :
        /\ socket[n] = value
        /\ \A m \in Common(names) : socket[m] = value => rank[m] <= rank[n]
  BY <1>2
<1> QED
  BY <1>3 DEF LastWith

(***************************************************************************)
(* When setsockopt and getsockopt do not raise ENOPROTOOPT, the level and  *)
(* the option they hand to lwIP are those of names that both modules have  *)
(* and that the socket module gives the values the program passed.         *)
(***************************************************************************)
THEOREM TranslatedByName ==
  ASSUME Constants, NEW level, NEW optname, Translatable(level, optname)
  PROVE  \E l \in Common(Level) : \E o \in Common(OptionsOf[l]) :
           /\ socket[l] = level /\ socket[o] = optname
           /\ translate_sockopt(level, optname) = <<defs[l], defs[o]>>
<1>1. LevelEntry(level) \in Common(Level) /\ socket[LevelEntry(level)] = level
  BY LastHasValue DEF Constants, Translatable, LevelEntry
<1>2. OptionsOf[LevelEntry(level)] \in SUBSET Name
  BY <1>1 DEF Constants, Common
<1>3. /\ OptEntry(level, optname) \in Common(OptionsOf[LevelEntry(level)])
      /\ socket[OptEntry(level, optname)] = optname
  BY <1>2, LastHasValue DEF Constants, Translatable, OptEntry
<1> QED
  BY <1>1, <1>3 DEF translate_sockopt

(***************************************************************************)
(* A name that shares its value with no other of its level, under a level  *)
(* of which that is true too, is translated to itself.                     *)
(***************************************************************************)
THEOREM NameKept ==
  ASSUME Constants, NEW l \in Common(Level), NEW o \in Common(OptionsOf[l]),
         \A k \in Common(Level) : socket[k] = socket[l] => k = l,
         \A p \in Common(OptionsOf[l]) : socket[p] = socket[o] => p = o
  PROVE  /\ Translatable(socket[l], socket[o])
         /\ translate_sockopt(socket[l], socket[o]) = <<defs[l], defs[o]>>
<1>1. HasValue(Level, socket[l])
  BY DEF HasValue
<1>2. LevelEntry(socket[l]) = l
  BY <1>1, LastHasValue DEF Constants, LevelEntry
<1>3. Translatable(socket[l], socket[o])
  BY <1>1, <1>2 DEF Translatable, HasValue
<1>4. OptionsOf[l] \in SUBSET Name
  BY DEF Constants, Common
<1>5. OptEntry(socket[l], socket[o]) = o
  BY <1>2, <1>3, <1>4, LastHasValue DEF Constants, OptEntry, Translatable
<1> QED
  BY <1>2, <1>3, <1>5 DEF translate_sockopt

=============================================================================
