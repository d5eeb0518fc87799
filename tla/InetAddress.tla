---------------------------- MODULE InetAddress ----------------------------
(* Addresses: the text a program gives or prints, the object that keeps it,  *)
(* and the bytes the sockets take and return. A text is cut at its colons    *)
(* and each piece at its dots: "10.0.0.1:1935" is                            *)
(* <<<<10, 0, 0, 1>>, <<1935>>>>, and a word that is no number is -1. An     *)
(* IPv6 address is kept as its text, which has two colons or more.           *)
EXTENDS Bytes

Piece == Seq(Nat \cup {-1})
Text == Seq(Piece)
Port == 0 .. (Two - 1)

(* std::to_string, atoi                                                      *)
ToText(n) == <<<<n>>>>
ToNumber(text) ==
  IF Len(text) > 0 /\ Len(text[1]) > 0 /\ text[1][1] \in Nat THEN text[1][1] ELSE 0

(* inet_pton takes an address of its family and nothing else.                *)
IsIPv4(text) ==
  Len(text) = 1 /\ Len(text[1]) = 4 /\ \A i \in 1 .. 4 : text[1][i] \in Byte
IsIPv6(text) == Len(text) \in 3 .. 9
Any6 == <<<<>>, <<>>, <<>>>>

(* A host is cut at its first colon.                                         *)
getIp(host) == IF Len(host) > 1 THEN <<host[1]>> ELSE host
getPortText(host) == IF Len(host) > 1 THEN Tail(host) ELSE ToText(0)

FromHost(host, ipv6) == [addr |-> getIp(host), port |-> getPortText(host), ipv6 |-> ipv6]
FromIpPort(ip, port, ipv6) == [addr |-> ip, port |-> ToText(port), ipv6 |-> ipv6]

(* InetAddress(): no address and no port.                                    *)
Blank == [addr |-> <<<<>>>>, port |-> <<<<>>>>, ipv6 |-> FALSE]

setHost(a, host) == [a EXCEPT !.addr = getIp(host), !.port = getPortText(host)]
setAddr(a, addr) == [a EXCEPT !.addr = addr]
setPort(a, port) == [a EXCEPT !.port = ToText(port)]
setIsIpv6(a, ipv6) == [a EXCEPT !.ipv6 = ipv6]

getPort(a) == ToNumber(a.port) % Two
toIpPort(a) == a.addr \o a.port

(* sockaddr: the family, and port and address in network order. inet_pton    *)
(* returns 0, not -1, for a text that is no address: the error is not seen   *)
(* and the address of the sockaddr stays what it was.                        *)
SockAddrIn6(a) ==
  [family |-> "AF_INET6", port |-> WriteUint16T(getPort(a)),
   addr |-> IF IsIPv6(a.addr) THEN a.addr ELSE Any6]
SockAddrIn(a, old) ==
  [family |-> "AF_INET", port |-> WriteUint16T(getPort(a)),
   addr |-> IF IsIPv4(a.addr) THEN a.addr[1] ELSE old]
getSockAddr(a, old) == IF a.ipv6 THEN SockAddrIn6(a) ELSE SockAddrIn(a, old)

(* accept fills an address from a sockaddr; only an IPv6 one sets its flag.  *)
FromSockAddr(a, sock) ==
  IF sock.family = "AF_INET"
  THEN setPort(setAddr(a, <<sock.addr>>), ReadUint16T(sock.port))
  ELSE setIsIpv6(setPort(setAddr(a, sock.addr), ReadUint16T(sock.port)), TRUE)

(* getLocalAddress, getPeerAddress                                           *)
AddressOf(sock) == FromSockAddr(Blank, sock)

(* What bind and connect are given: connect says the length of the IPv6     *)
(* structure whatever the family.                                            *)
SizeIn == 16
SizeIn6 == 28
bindAddress(a, old) ==
  [sock |-> getSockAddr(a, old), length |-> IF a.ipv6 THEN SizeIn6 ELSE SizeIn]
connect(a, old) == [sock |-> getSockAddr(a, old), length |-> SizeIn6]

parseIpv4(text) == IF IsIPv4(text) THEN ReadUint32T(text[1]) ELSE 0

Between(ip, first, last) == ReadUint32T(first) <= ip /\ ip <= ReadUint32T(last)

isLanIp(a) ==
  LET ip == parseIpv4(a.addr)
  IN  \/ Between(ip, <<10, 0, 0, 0>>, <<10, 255, 255, 255>>)
      \/ Between(ip, <<172, 16, 0, 0>>, <<172, 31, 255, 255>>)
      \/ Between(ip, <<192, 168, 0, 0>>, <<192, 168, 255, 255>>)

(* INADDR_LOOPBACK is one address.                                           *)
isWanIp(a) == ~isLanIp(a) /\ parseIpv4(a.addr) # ReadUint32T(<<127, 0, 0, 1>>)

Loopback6 == <<<<>>, <<>>, <<1>>>>
isLoopbackIp(a) == a.addr \in {<<<<127, 0, 0, 1>>>>, Loopback6}
=============================================================================
