------------------------------ MODULE MCDataPath -------------------------------
(* Instances of DataPath for TLC. *)
EXTENDS DataPath

CONSTANTS N1, N2, A1, A2, R1, C1, T1, T2, T3

\* A2 is the address of N2; N1's is shared with nobody.
AddressOf == [n \in {N1, N2} |-> IF n = N1 THEN A1 ELSE A2]

On(tag)    == [tag |-> tag, enabled |-> TRUE]
Down(tag)  == [tag |-> tag, enabled |-> FALSE]
C1Is(policy, tag) == <<[ip |-> C1, policy |-> policy, outbound |-> tag]>>

R(action, mode, tag, includes, excludes, addrs, protos) ==
  [enabled |-> TRUE, action |-> action, mode |-> mode, outbound |-> tag,
   includes |-> includes, excludes |-> excludes, addrs |-> addrs, protos |-> protos]

FakeN1    == R("proxy", "fakeip", T1, {N1}, {}, {}, {})
FakeN2    == R("proxy", "auto", T2, {N1, N2}, {N1}, {}, {})
RealMixed == R("proxy", "real_ip", NoTag, {N2}, {}, {A1, R1}, {"tcp"})
DirectN1  == R("direct", "auto", NoTag, {N1}, {}, {A2}, {})
BlockN2   == R("block", "auto", NoTag, {N2}, {}, {A2}, {})
AddrsT2   == R("proxy", "auto", T2, {}, {}, {A1, A2}, {})
MixedN1   == R("proxy", "auto", T2, {N1}, {}, {A1}, {"udp"})
DownN1    == [BlockN2 EXCEPT !.enabled = FALSE, !.includes = {N1}, !.addrs = {A1}]

Base == [routing |-> "custom", rules |-> <<FakeN1>>, simple |-> FakeN1,
         outbounds |-> <<On(T1), On(T2)>>, clients |-> <<>>,
         fakeip |-> TRUE, range |-> "default", manage |-> TRUE]

RulePool == {FakeN1, FakeN2, RealMixed, DirectN1, BlockN2, AddrsT2, MixedN1, DownN1}
RuleLists == {<<r, s>> : r \in RulePool, s \in RulePool} \union {<<>>}

Policies == {<<>>, C1Is("direct", NoTag), C1Is("proxy", T2)}
Orders   == {<<Down(T3), On(T2), On(T1)>>, <<On(T1), On(T2)>>}

\* Every pair of rules, in each mode that has rules; the simple rule; no rules.
PolicyConfigs ==
  {[Base EXCEPT !.rules = l, !.clients = c, !.outbounds = o] :
     l \in RuleLists, c \in Policies, o \in Orders}
  \union {[Base EXCEPT !.routing = "simple", !.simple = r, !.rules = <<AddrsT2>>,
                       !.clients = c, !.outbounds = o] :
            r \in RulePool, c \in Policies, o \in Orders}
  \union {[Base EXCEPT !.routing = "global", !.rules = <<r, BlockN2>>,
                       !.clients = c, !.outbounds = o] :
            r \in RulePool, c \in Policies, o \in Orders}
  \union {[Base EXCEPT !.rules = <<DirectN1, BlockN2>>, !.outbounds = <<Down(T1)>>]}

\* Changes of the rules, the mode, the outbounds and the clients,
\* and a configuration that is rejected.
EditedConfigs ==
  {Base,
   [Base EXCEPT !.rules = <<[FakeN1 EXCEPT !.outbound = T2], AddrsT2>>],
   [Base EXCEPT !.outbounds = <<On(T2)>>],
   [Base EXCEPT !.rules = <<AddrsT2, FakeN1, FakeN2>>,
                !.outbounds = <<On(T2), On(T1)>>]}

AllConfigs == PolicyConfigs \union EditedConfigs
===============================================================================
