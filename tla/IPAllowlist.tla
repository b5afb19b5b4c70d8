----------------------------- MODULE IPAllowlist -----------------------------
(***************************************************************************)
(* IPAllowlist: which clients the CIDR entries of a tunnel let in.         *)
(*                                                                         *)
(* An address is [type, bytes], or Unparsed for a text that inet_pton()    *)
(* refuses; an entry is [ip, prefix], where prefix is what std::stoi()     *)
(* returns, NoPrefix for an entry without '/' and BadPrefix if it throws.  *)
(***************************************************************************)
EXTENDS Integers, Sequences, Powers

CONSTANTS
  ByteBits,    \* bits of a byte, 8 in the code
  V4Bytes,     \* 4
  V6Bytes,     \* 16
  Unparsed,
  NoPrefix,
  BadPrefix

ASSUME WidthAssumption ==
  /\ {ByteBits, V4Bytes, V6Bytes} \subseteq Nat \ {0}
  /\ V4Bytes # V6Bytes

Width(type) == IF type = "v4" THEN V4Bytes ELSE V6Bytes
Bits(type) == ByteBits * Width(type)

None == [type |-> "none"]

-----------------------------------------------------------------------------
\* b & (0xFF << (8 - bits)), in one byte
HighBits(b, bits) == b - (b % Power(2, ByteBits - bits))

\* parse_cidr(): the host bits are cleared, byte by byte
NetworkOf(bytes, prefix) ==
  LET full == prefix \div ByteBits
      rest == prefix % ByteBits
  IN  [i \in DOMAIN bytes |->
         IF i <= full THEN bytes[i]
         ELSE IF i = full + 1 /\ rest > 0 THEN HighBits(bytes[i], rest)
         ELSE 0]

ParseCidr(entry) ==
  LET ip == entry.ip
      prefix == IF entry.prefix = NoPrefix THEN Bits(ip.type) ELSE entry.prefix
  IN  IF ip = Unparsed \/ entry.prefix = BadPrefix THEN None
      ELSE IF prefix < 0 \/ prefix > Bits(ip.type) THEN None
      ELSE [type |-> ip.type, network |-> NetworkOf(ip.bytes, prefix), prefix |-> prefix]

\* from_cidr_list(): one bad entry spoils the list
Parses(entries) == \A i \in DOMAIN entries : ParseCidr(entries[i]) # None
Ranges(entries) == [i \in DOMAIN entries |-> ParseCidr(entries[i])]

\* matches_cidr(): whole bytes first, then the bits that are left.
\* Faulty: the bits that are left are not compared
FaultyMatchesCidr(bytes, range) ==
  /\ Len(bytes) = Len(range.network)
  /\ LET full == range.prefix \div ByteBits
     IN  \A i \in 1..full : bytes[i] = range.network[i]

MatchesCidr(bytes, range) ==
  /\ Len(bytes) = Len(range.network)
  /\ LET full == range.prefix \div ByteBits
         rest == range.prefix % ByteBits
     IN  /\ \A i \in 1..full : bytes[i] = range.network[i]
         /\ rest > 0 /\ full < Len(bytes) =>
              HighBits(bytes[full + 1], rest) = HighBits(range.network[full + 1], rest)

IsAllowed(ranges, ip) ==
  \/ ranges = <<>>
  \/ /\ ip # Unparsed
     /\ \E i \in DOMAIN ranges :
          ranges[i].type = ip.type /\ MatchesCidr(ip.bytes, ranges[i])

\* HTTPProxy::validate_ip_allowlist(): a list that does not parse lets nobody in
ValidateIpAllowlist(entries, ip) ==
  entries = <<>> \/ (Parses(entries) /\ IsAllowed(Ranges(entries), ip))
=============================================================================
