-------------------------------- MODULE MCCidr ---------------------------------
(* An instance of Cidr for TLC. *)
EXTENDS Cidr

PowersOfTwo == [t \in 0 .. W |-> 2 ^ t]

AnyCidr == [addr : 0 .. 2 ^ W - 1, ones : 0 .. W]

\* Blocks without host bits.
Nets == {c \in AnyCidr : c.addr % 2 ^ (W - c.ones) = 0}

\* Every pair of blocks, every three without host bits, and the odd lines.
AllFiles ==
  {<<>>, <<Blank>>, <<Blank, Bad>>}
  \union {<<c>> : c \in AnyCidr}
  \union {<<c, d>> : c \in AnyCidr, d \in AnyCidr}
  \union {<<c, Blank, d, e>> : c \in Nets, d \in Nets, e \in Nets}
  \union {<<c, Bad>> : c \in Nets}
===============================================================================
