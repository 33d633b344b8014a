------------------------------- MODULE MCHelpers -------------------------------
(* An instance of Helpers for TLC. *)
EXTENDS Helpers

CONSTANTS t1, t2, t3, c1, c2

Job(kind, proxy, outbound, enabled) ==
  [kind |-> kind, proxy |-> proxy, outbound |-> outbound, enabled |-> enabled]

\* Directly and through outbounds: one that is named, the first, one that is gone, none.
DirectURL    == Job("url", FALSE, NoTag, <<t1>>)
DirectScript == Job("script", FALSE, NoTag, <<t1>>)
Named        == Job("file", TRUE, t1, <<t2, t1>>)
First        == Job("url", TRUE, NoTag, <<t2, t1>>)
Gone         == Job("file", TRUE, t3, <<t2, t1>>)
None         == Job("url", TRUE, NoTag, <<>>)
Script       == Job("script", TRUE, t2, <<t1, t2>>)

\* Two batches, the second of them not full; one outbound; one that is gone.
All     == Job("latency", FALSE, NoTag, <<t1, t2, t3>>)
One     == Job("latency", FALSE, t2, <<t1, t2, t3>>)
Missing == Job("latency", FALSE, t3, <<t1>>)

SideBySide ==
  {[c \in Commands |-> IF c = c1 THEN pair[1] ELSE pair[2]] :
     pair \in {<<Named, First>>, <<Named, Script>>, <<Script, Script>>, <<Gone, None>>,
               <<One, Named>>, <<One, One>>, <<All, DirectURL>>, <<All, Named>>,
               <<Missing, DirectScript>>}}
===============================================================================
