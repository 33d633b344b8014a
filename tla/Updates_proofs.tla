----------------------------- MODULE Updates_proofs -----------------------------
(* Theorems about Updates, for any links, downloads, lists and commands. *)
EXTENDS Updates, Ranks

USE DEF HasList, HasWork, Places

LEMMA EmptyContent == Empty \in Content
  BY DEF Empty, Content, Node

LEMMA InitType == Init => TypeOK
  <1>1. [Empty EXCEPT !.admin = TRUE] \in Content
    BY EmptyContent DEF Content
  <1> QED
    BY <1>1 DEF Init, TypeOK

\* What ApplyNodes computes is a configuration.
LEMMA AppliedContent ==
  ASSUME NEW content \in Content, NEW links \in Offers,
         NEW tags \in [DOMAIN links -> Tags]
  PROVE  [content EXCEPT !.nodes =
            [i \in DOMAIN links |-> [tag |-> tags[i], key |-> Key[links[i]]]]] \in Content
  <1>1. links \in Seq(Links) /\ Key \in [Links -> Keys]
    BY UpdatesAssumption
  <1> DEFINE nodes == [i \in DOMAIN links |-> [tag |-> tags[i], key |-> Key[links[i]]]]
  <1>2. \A i \in DOMAIN links : [tag |-> tags[i], key |-> Key[links[i]]] \in Node
    BY <1>1 DEF Node, AllKeys
  <1>3. DOMAIN links = 1 .. Len(links) /\ Len(links) \in Nat
    BY <1>1
  <1>4. nodes \in Seq(Node)
    BY <1>2, <1>3
  <1>5. [content EXCEPT !.nodes = nodes] \in Content
    BY <1>4 DEF Content
  <1> QED
    BY <1>5

LEMMA NextType == TypeOK /\ [Next]_vars => TypeOK'
  <1> SUFFICES ASSUME TypeOK, [Next]_vars
               PROVE  TypeOK'
    OBVIOUS
  <1> USE UpdatesAssumption DEF TypeOK, Goto, Took, Computed, Stores, Commands
  <1>1. ASSUME NEW j \in SubJobs, SubFetch(j)
        PROVE  TypeOK'
    BY <1>1 DEF SubFetch
  <1>2. ASSUME NEW j \in SubJobs, SubApply(j)
        PROVE  TypeOK'
    <2>1. PICK tags \in [DOMAIN got[j] -> Tags] :
            LET next == [file EXCEPT !.nodes =
                           [i \in DOMAIN got[j] |-> [tag |-> tags[i], key |-> Key[got[j][i]]]]]
            IN IF Valid(next) THEN Goto(j, "save") /\ Computed(j, next)
               ELSE Goto(j, "idle") /\ UNCHANGED work
      BY <1>2 DEF SubApply
    <2> DEFINE next == [file EXCEPT !.nodes =
                          [i \in DOMAIN got[j] |-> [tag |-> tags[i], key |-> Key[got[j][i]]]]]
    <2>2. got[j] \in Offers /\ file \in Content
      BY <1>2 DEF SubApply
    <2>3. next \in Content
      BY ONLY <2>2, AppliedContent, tags \in [DOMAIN got[j] -> Tags]
    <2> HIDE DEF next
    <2>4. CASE work' = [work EXCEPT ![j] = next] /\ at' = [at EXCEPT ![j] = "save"]
      BY <1>2, <2>3, <2>4 DEF SubApply
    <2>5. CASE work' = work /\ at' = [at EXCEPT ![j] = "idle"]
      BY <1>2, <2>5 DEF SubApply
    <2> QED
      BY <2>1, <2>4, <2>5 DEF next
  <1>3. ASSUME NEW j \in ProvJobs, ProvFetch(j)
        PROVE  TypeOK'
    BY <1>3 DEF ProvFetch
  <1>4. ASSUME NEW j \in ProvJobs, MetaApply(j)
        PROVE  TypeOK'
    <2>1. [file EXCEPT !.items = got[j]] \in Content
      BY <1>4 DEF MetaApply, Content
    <2> QED
      BY <1>4, <2>1 DEF MetaApply
  <1>5. ASSUME NEW j \in SubJobs \union ProvJobs, Truncate(j)
        PROVE  TypeOK'
    BY <1>5, EmptyContent DEF Truncate
  <1>6. ASSUME NEW j \in SubJobs \union ProvJobs, Fill(j)
        PROVE  TypeOK'
    BY <1>6, EmptyContent DEF Fill
  <1>7. ASSUME NEW l \in Loaders, LoadList(l)
        PROVE  TypeOK'
    BY <1>7 DEF LoadList
  <1>8. ASSUME NEW l \in Loaders, ReadList(l)
        PROVE  TypeOK'
    BY <1>8 DEF ReadList
  <1>9. ASSUME NEW c \in ProvJobs \union Loaders, TruncateCache(c)
        PROVE  TypeOK'
    BY <1>9 DEF TruncateCache
  <1>10. ASSUME NEW c \in ProvJobs \union Loaders, FillCache(c)
         PROVE  TypeOK'
    BY <1>10 DEF FillCache
  <1>11. ASSUME NEW c \in ProvJobs \union Loaders, CompareCache(c)
         PROVE  TypeOK'
    BY <1>11 DEF CompareCache
  <1>12. ASSUME Edit
         PROVE  TypeOK'
    <2>1. \A p \in DOMAIN file.nodes : file.nodes[p] \in Node
      BY DEF Content
    <2>2. \A o \in Outbounds(file) : o.tag \in Tags /\ o.key \in AllKeys
      BY <2>1 DEF Outbounds, Own, Node, Tags, AllKeys
    <2>3. PICK rule \in {<<o.tag, o.key>> : o \in Outbounds(file)} \union {NoRule, file.rule},
               enabled \in BOOLEAN :
            file' = [file EXCEPT !.rule = rule, !.enabled = enabled]
      BY <1>12 DEF Edit
    <2>4. rule \in (Tags \X AllKeys) \union {NoRule}
      BY <2>2 DEF Content
    <2>5. file' \in Content
      BY <2>3, <2>4 DEF Content
    <2> QED
      BY <1>12, <2>5 DEF Edit
  <1>13. ASSUME UNCHANGED vars
         PROVE  TypeOK'
    BY <1>13 DEF vars
  <1>14. ASSUME NEW c \in Commands, WriteFails(c)
         PROVE  TypeOK'
    BY <1>14 DEF WriteFails
  <1> QED
    BY <1>1, <1>2, <1>3, <1>4, <1>5, <1>6, <1>7, <1>8, <1>9, <1>10, <1>11, <1>12, <1>13,
       <1>14
    DEF Next

\* Every file, local and place keeps its type.
THEOREM TypeCorrect == Spec => []TypeOK
  BY InitType, NextType, PTL DEF Spec

-------------------------------------------------------------------------------
(* A rule keeps its node *)

\* The tag is one that ApplyNodes makes for nodes of this identity.
Belongs(tag, key) == \E r \in Links, n \in 1 .. MaxSuffix : tag = <<Base[r], n>> /\ key = Key[r]

\* Nodes have tags of their own identities; beside the administrator's outbound none
\* has its tag; a rule stands beside it and refers to it or to a node.
Sound(content) ==
  /\ \A p \in DOMAIN content.nodes :
       /\ Belongs(content.nodes[p].tag, content.nodes[p].key)
       /\ content.admin => content.nodes[p].tag # OwnTag
  /\ content.rule # NoRule =>
       /\ content.admin
       /\ \/ content.rule = <<OwnTag, OwnKey>>
          \/ content.rule[1] # OwnTag /\ Belongs(content.rule[1], content.rule[2])
  /\ Valid(content)

\* Contents on disk, and contents about to be.
RuleInv ==
  /\ Sound(file)
  /\ \A c \in Commands : at[c] \in HasWork => Sound(work[c])

LEMMA EmptySound == Sound(Empty) /\ Sound([Empty EXCEPT !.admin = TRUE])
  BY DEF Sound, Empty, Valid, OwnTags, NodeTags

\* An identity has its own hashes, so a tag has one identity.
LEMMA OneIdentity ==
  ASSUME HashesDiffer, NEW tag, NEW k, NEW l, Belongs(tag, k), Belongs(tag, l)
  PROVE  k = l
  BY DEF HashesDiffer, Belongs

\* In a sound configuration the rule's tag is its node's.
LEMMA SoundKeeps ==
  ASSUME HashesDiffer, Sound(file), TypeOK
  PROVE  RuleKeepsNode
  <1> SUFFICES ASSUME file.rule # NoRule
               PROVE  /\ \A o \in Outbounds(file) : o.tag = file.rule[1] => o.key = file.rule[2]
                      /\ file.enabled => \E o \in Outbounds(file) : o.tag = file.rule[1]
    BY DEF RuleKeepsNode
  <1>1. ASSUME NEW p \in DOMAIN file.nodes, file.nodes[p].tag = file.rule[1]
        PROVE  file.nodes[p].key = file.rule[2]
    <2>1. file.rule[1] # OwnTag
      BY <1>1 DEF Sound
    <2>2. Belongs(file.rule[1], file.rule[2])
      BY <2>1 DEF Sound
    <2>3. Belongs(file.rule[1], file.nodes[p].key)
      BY <1>1 DEF Sound
    <2> QED
      BY <2>2, <2>3, OneIdentity
  <1>2. ASSUME file.admin, OwnTag = file.rule[1]
        PROVE  OwnKey = file.rule[2]
    BY <1>2 DEF Sound
  <1>3. ASSUME NEW o \in Outbounds(file), o.tag = file.rule[1]
        PROVE  o.key = file.rule[2]
    BY <1>1, <1>2, <1>3 DEF Outbounds, Own
  <1>4. ASSUME file.enabled
        PROVE  \E o \in Outbounds(file) : o.tag = file.rule[1]
    <2>1. file.rule[1] \in OwnTags(file) \union NodeTags(file)
      BY <1>4 DEF Sound, Valid
    <2>2. CASE \E p \in DOMAIN file.nodes : file.nodes[p].tag = file.rule[1]
      BY <2>2 DEF Outbounds
    <2>3. CASE file.admin /\ file.rule[1] = OwnTag
      <3>1. Own \in Outbounds(file) /\ Own.tag = OwnTag
        BY <2>3 DEF Outbounds, Own
      <3> QED
        BY <2>3, <3>1
    <2> QED
      BY <2>1, <2>2, <2>3 DEF OwnTags, NodeTags
  <1> QED
    BY <1>3, <1>4

\* The tags that ApplyNodes gives belong to their links, and none is the
\* administrator's.
LEMMA AssignedBelong ==
  ASSUME NEW content, Sound(content), NEW links \in Seq(Links),
         NEW tags \in [DOMAIN links -> Tags], TagsAssigned(content, links, tags),
         NEW i \in DOMAIN links
  PROVE  /\ Belongs(tags[i], Key[links[i]])
         /\ content.admin => tags[i] # OwnTag
  <1>1. CASE HasStoredTag(content.nodes, links, i)
    <2>1. PICK p \in Stored(content.nodes, Key[links[i]]) : tags[i] = content.nodes[p].tag
      BY <1>1 DEF TagsAssigned, IsStoredTag
    <2> QED
      BY <2>1 DEF Stored, Sound
  <1>2. CASE ~HasStoredTag(content.nodes, links, i)
    <2>1. IsUniqueTag(Base[links[i]], Used(content, tags, i), tags[i])
      BY <1>2 DEF TagsAssigned, TagBase
    <2>2. links[i] \in Links
      OBVIOUS
    <2>3. tags[i] \notin OwnTags(content)
      BY <2>1 DEF IsUniqueTag, Used
    <2> QED
      BY <2>1, <2>2, <2>3 DEF IsUniqueTag, Belongs, OwnTags
  <1> QED
    BY <1>1, <1>2

LEMMA RuleStep ==
  ASSUME TypeOK, RuleInv, [Next]_vars
  PROVE  RuleInv'
  <1> USE UpdatesAssumption DEF RuleInv, Goto, Took, Computed, Stores, Commands
  <1>1. ASSUME NEW j \in SubJobs, SubFetch(j)
        PROVE  RuleInv'
    BY <1>1 DEF SubFetch, TypeOK
  <1>2. ASSUME NEW j \in SubJobs, SubApply(j)
        PROVE  RuleInv'
    <2>1. PICK tags \in [DOMAIN got[j] -> Tags] :
            /\ TagsAssigned(file, got[j], tags)
            /\ LET next == [file EXCEPT !.nodes =
                              [i \in DOMAIN got[j] |-> [tag |-> tags[i], key |-> Key[got[j][i]]]]]
               IN IF Valid(next) THEN Goto(j, "save") /\ Computed(j, next)
                  ELSE Goto(j, "idle") /\ UNCHANGED work
      BY <1>2 DEF SubApply
    <2> DEFINE nodes == [i \in DOMAIN got[j] |-> [tag |-> tags[i], key |-> Key[got[j][i]]]]
               next  == [file EXCEPT !.nodes = nodes]
    <2>2. got[j] \in Seq(Links)
      BY <1>2 DEF SubApply, TypeOK
    <2>3. \A i \in DOMAIN got[j] : /\ Belongs(tags[i], Key[got[j][i]])
                                   /\ file.admin => tags[i] # OwnTag
      BY <2>1, <2>2, AssignedBelong
    <2>4. /\ next.nodes = nodes /\ next.rule = file.rule /\ next.admin = file.admin
      BY DEF TypeOK, Content
    <2>5. Valid(next) => Sound(next)
      BY <2>3, <2>4 DEF Sound
    <2>6. Sound(file')
      BY <1>2 DEF SubApply
    <2>7. CASE Valid(next)
      <3>1. work' = [work EXCEPT ![j] = next] /\ at' = [at EXCEPT ![j] = "save"]
        BY <2>1, <2>7
      <3> QED
        BY <2>5, <2>6, <2>7, <3>1 DEF TypeOK
    <2>8. CASE ~Valid(next)
      <3>1. work' = work /\ at' = [at EXCEPT ![j] = "idle"]
        BY <2>1, <2>8
      <3> QED
        BY <2>6, <3>1 DEF TypeOK
    <2> QED
      BY <2>7, <2>8
  <1>3. ASSUME NEW j \in ProvJobs, ProvFetch(j)
        PROVE  RuleInv'
    BY <1>3 DEF ProvFetch, TypeOK
  <1>4. ASSUME NEW j \in ProvJobs, MetaApply(j)
        PROVE  RuleInv'
    <2> DEFINE next == [file EXCEPT !.items = got[j]]
    <2>1. /\ next.nodes = file.nodes /\ next.rule = file.rule /\ next.admin = file.admin
      BY DEF TypeOK, Content
    <2>2. Valid(next) => Sound(next)
      BY <2>1 DEF Sound
    <2> QED
      BY <1>4, <2>2 DEF MetaApply, TypeOK
  <1>5. ASSUME NEW j \in SubJobs \union ProvJobs, Truncate(j)
        PROVE  RuleInv'
    BY <1>5, EmptySound DEF Truncate, TypeOK
  <1>6. ASSUME NEW j \in SubJobs \union ProvJobs, Fill(j)
        PROVE  RuleInv'
    BY <1>6 DEF Fill, TypeOK
  <1>7. ASSUME NEW l \in Loaders, LoadList(l)
        PROVE  RuleInv'
    BY <1>7 DEF LoadList, TypeOK
  <1>8. ASSUME NEW l \in Loaders, ReadList(l)
        PROVE  RuleInv'
    BY <1>8 DEF ReadList, TypeOK
  <1>9. ASSUME NEW c \in ProvJobs \union Loaders, TruncateCache(c)
        PROVE  RuleInv'
    BY <1>9 DEF TruncateCache, TypeOK
  <1>10. ASSUME NEW c \in ProvJobs \union Loaders, FillCache(c)
         PROVE  RuleInv'
    BY <1>10 DEF FillCache, TypeOK
  <1>11. ASSUME NEW c \in ProvJobs \union Loaders, CompareCache(c)
         PROVE  RuleInv'
    BY <1>11 DEF CompareCache, TypeOK
  <1>12. ASSUME Edit
         PROVE  RuleInv'
    <2>1. PICK rule \in {<<o.tag, o.key>> : o \in Outbounds(file)} \union {NoRule, file.rule},
               enabled \in BOOLEAN :
            file' = [file EXCEPT !.rule = rule, !.enabled = enabled] /\ Valid(file')
      BY <1>12 DEF Edit
    <2>2. /\ file'.nodes = file.nodes /\ file'.rule = rule
          /\ file'.admin = TRUE /\ file.admin = TRUE
      BY <1>12, <2>1 DEF Edit, TypeOK, Content
    <2>3. \A p \in DOMAIN file.nodes :
            Belongs(file.nodes[p].tag, file.nodes[p].key) /\ file.nodes[p].tag # OwnTag
      BY <2>2 DEF Sound
    <2>4. ASSUME NEW o \in Outbounds(file), rule = <<o.tag, o.key>>
          PROVE  \/ rule = <<OwnTag, OwnKey>>
                 \/ rule[1] # OwnTag /\ Belongs(rule[1], rule[2])
      <3>1. CASE o = Own
        BY <2>4, <3>1 DEF Own
      <3>2. CASE \E p \in DOMAIN file.nodes : o = file.nodes[p]
        <4>1. o.tag # OwnTag /\ Belongs(o.tag, o.key)
          BY <2>3, <3>2
        <4>2. rule[1] = o.tag /\ rule[2] = o.key
          BY <2>4
        <4> QED
          BY <4>1, <4>2
      <3> QED
        BY <3>1, <3>2 DEF Outbounds
    <2>5. rule # NoRule => \/ rule = <<OwnTag, OwnKey>>
                           \/ rule[1] # OwnTag /\ Belongs(rule[1], rule[2])
      BY <2>4 DEF Sound
    <2>6. Sound(file')
      BY <2>1, <2>2, <2>3, <2>5 DEF Sound
    <2> QED
      BY <1>12, <2>6 DEF Edit
  <1>13. ASSUME UNCHANGED vars
         PROVE  RuleInv'
    BY <1>13 DEF vars
  <1>14. ASSUME NEW c \in Commands, WriteFails(c)
         PROVE  RuleInv'
    BY <1>14 DEF WriteFails, TypeOK
  <1> QED
    BY <1>1, <1>2, <1>3, <1>4, <1>5, <1>6, <1>7, <1>8, <1>9, <1>10, <1>11, <1>12, <1>13,
       <1>14
    DEF Next

\* Whatever subscriptions offer and however updates, loaders and the administrator
\* interleave, a rule's tag names the node it was chosen for, and that node is there
\* while neto is enabled, provided that different nodes have different hashes.
THEOREM RuleKept ==
  ASSUME HashesDiffer
  PROVE  Spec => []RuleKeepsNode
  <1>1. Init => RuleInv
    BY EmptySound DEF Init, RuleInv
  <1>2. TypeOK /\ RuleInv /\ [Next]_vars => RuleInv'
    BY RuleStep
  <1>3. TypeOK /\ RuleInv => RuleKeepsNode
    BY HashesDiffer, SoundKeeps DEF RuleInv
  <1> QED
    BY <1>1, <1>2, <1>3, TypeCorrect, PTL DEF Spec

-------------------------------------------------------------------------------
(* A node that is offered again *)

Copies(links, key) == {i \in DOMAIN links : Key[links[i]] = key}

\* The ranks of stored nodes and of offered links are ranks in sets of indices.
LEMMA NodeRanks ==
  ASSUME NEW content \in Content, NEW links \in Seq(Links)
  PROVE  /\ \A key : /\ Stored(content.nodes, key) \subseteq 1 .. Len(content.nodes)
                     /\ Copies(links, key) \subseteq 1 .. Len(links)
         /\ \A p \in DOMAIN content.nodes :
              /\ p \in Stored(content.nodes, content.nodes[p].key)
              /\ Rank(content.nodes, p) =
                   Cardinality(Below(Stored(content.nodes, content.nodes[p].key), p))
         /\ \A i \in DOMAIN links :
              /\ i \in Copies(links, Key[links[i]])
              /\ Cardinality(Earlier(links, i)) =
                   Cardinality(Below(Copies(links, Key[links[i]]), i))
         /\ Len(content.nodes) \in Nat /\ Len(links) \in Nat
  <1>1. /\ content.nodes \in Seq(Node)
        /\ DOMAIN content.nodes = 1 .. Len(content.nodes) /\ Len(content.nodes) \in Nat
        /\ DOMAIN links = 1 .. Len(links) /\ Len(links) \in Nat
    BY DEF Content
  <1>2. ASSUME NEW key
        PROVE  /\ Stored(content.nodes, key) \subseteq 1 .. Len(content.nodes)
               /\ Copies(links, key) \subseteq 1 .. Len(links)
    BY <1>1 DEF Stored, Copies
  <1>3. ASSUME NEW p \in DOMAIN content.nodes
        PROVE  /\ p \in Stored(content.nodes, content.nodes[p].key)
               /\ Rank(content.nodes, p) =
                    Cardinality(Below(Stored(content.nodes, content.nodes[p].key), p))
    BY <1>3 DEF Stored, Rank, Below
  <1>4. ASSUME NEW i \in DOMAIN links
        PROVE  /\ i \in Copies(links, Key[links[i]])
               /\ Cardinality(Earlier(links, i)) =
                    Cardinality(Below(Copies(links, Key[links[i]]), i))
    <2>1. \A k \in Int : k \in 1 .. i - 1 <=> k \in 1 .. Len(links) /\ k < i
      BY <1>1
    <2>2. Earlier(links, i) = Below(Copies(links, Key[links[i]]), i)
      BY <1>1, <2>1 DEF Earlier, Copies, Below
    <2> QED
      BY <2>2 DEF Copies
  <1> QED
    BY <1>1, <1>2, <1>3, <1>4

\* The loop of ApplyNodes gives no tag twice: a new one is not in use, and none is
\* made for an identity while a stored one is left, so it is not handed out later.
LEMMA TagsDiffer ==
  ASSUME HashesDiffer, NEW content \in Content, Sound(content), content.enabled,
         NEW links \in Seq(Links), NEW tags \in [DOMAIN links -> Tags],
         TagsAssigned(content, links, tags),
         NEW i \in DOMAIN links, NEW k \in DOMAIN links, i < k
  PROVE  tags[i] # tags[k]
  <1> DEFINE nodes == content.nodes
  <1>1. /\ DOMAIN links = 1 .. Len(links) /\ i \in Nat /\ k \in Nat /\ i \in 1 .. k - 1
    OBVIOUS
  <1>2. CASE ~HasStoredTag(nodes, links, k)
    <2>1. tags[k] \notin Used(content, tags, k)
      BY <1>2 DEF TagsAssigned, IsUniqueTag
    <2> QED
      BY <1>1, <2>1 DEF Used
  <1>3. CASE HasStoredTag(nodes, links, k)
    <2>1. PICK b \in Stored(nodes, Key[links[k]]) :
            Rank(nodes, b) = Cardinality(Earlier(links, k)) /\ tags[k] = nodes[b].tag
      BY <1>3 DEF TagsAssigned, IsStoredTag
    <2>2. b \in DOMAIN nodes /\ nodes[b].key = Key[links[k]]
          /\ Belongs(tags[k], Key[links[k]])
      BY <2>1 DEF Stored, Sound
    <2>3. SUFFICES ASSUME tags[i] = tags[k] PROVE FALSE
      OBVIOUS
    <2>4. Belongs(tags[i], Key[links[i]])
      BY AssignedBelong
    <2>5. Key[links[i]] = Key[links[k]]
      BY <2>2, <2>3, <2>4, OneIdentity
    <2>6. Cardinality(Earlier(links, i)) < Cardinality(Earlier(links, k))
          /\ Cardinality(Earlier(links, i)) \in Nat /\ Cardinality(Earlier(links, k)) \in Nat
      <3> DEFINE I == Copies(links, Key[links[k]])
      <3>1. I \in SUBSET (1 .. Len(links)) /\ Len(links) \in Nat /\ i \in I /\ k \in I
            /\ Cardinality(Earlier(links, i)) = Cardinality(Below(I, i))
            /\ Cardinality(Earlier(links, k)) = Cardinality(Below(I, k))
        BY <2>5, NodeRanks
      <3> HIDE DEF I
      <3>2. /\ Cardinality(Below(I, i)) \in Nat /\ Cardinality(Below(I, k)) \in Nat
            /\ Cardinality(Below(I, i)) < Cardinality(Below(I, k))
        BY ONLY <3>1, i < k, BelowRanks, BelowUpTo
      <3> QED
        BY <3>1, <3>2
    <2>7. HasStoredTag(nodes, links, i)
      <3>1. Cardinality(Stored(nodes, Key[links[k]])) \in Nat
        BY NodeRanks, IndicesFinite
      <3> QED
        BY <1>3, <2>5, <2>6, <3>1 DEF HasStoredTag
    <2>8. PICK a \in Stored(nodes, Key[links[i]]) :
            Rank(nodes, a) = Cardinality(Earlier(links, i)) /\ tags[i] = nodes[a].tag
      BY <2>7 DEF TagsAssigned, IsStoredTag
    <2>9. a = b
      BY <2>1, <2>2, <2>3, <2>8 DEF Sound, Valid, Stored
    <2> QED
      BY <2>1, <2>6, <2>8, <2>9
  <1> QED
    BY <1>2, <1>3

\* A stored node keeps its tag when its identity is offered often enough.
LEMMA StoredTagGiven ==
  ASSUME NEW content \in Content, NEW links \in Seq(Links), NEW tags \in [DOMAIN links -> Tags],
         TagsAssigned(content, links, tags), NEW p \in DOMAIN content.nodes,
         Rank(content.nodes, p) < Cardinality(Copies(links, content.nodes[p].key))
  PROVE  \E i \in DOMAIN links : tags[i] = content.nodes[p].tag
  <1> DEFINE key == content.nodes[p].key
             S == Stored(content.nodes, key)
             C == Copies(links, key)
  <1>1. /\ S \in SUBSET (1 .. Len(content.nodes)) /\ Len(content.nodes) \in Nat /\ p \in S
        /\ C \in SUBSET (1 .. Len(links)) /\ Len(links) \in Nat
        /\ Rank(content.nodes, p) = Cardinality(Below(S, p))
    BY NodeRanks
  <1>2. \A q \in S : Rank(content.nodes, q) = Cardinality(Below(S, q))
    <2> TAKE q \in S
    <2>1. q \in DOMAIN content.nodes /\ content.nodes[q].key = key
      BY DEF Stored
    <2> QED
      BY <2>1, NodeRanks
  <1>3. \A i \in C : /\ i \in DOMAIN links /\ Key[links[i]] = key
                     /\ Cardinality(Earlier(links, i)) = Cardinality(Below(C, i))
    <2> TAKE i \in C
    <2>1. i \in DOMAIN links /\ Key[links[i]] = key
      BY DEF Copies
    <2> QED
      BY <2>1, NodeRanks
  <1>4. Rank(content.nodes, p) < Cardinality(C)
    OBVIOUS
  <1> HIDE DEF S, C, key
  <1>5. Rank(content.nodes, p) \in Nat /\ Rank(content.nodes, p) < Cardinality(S)
    BY <1>1, BelowUpTo
  <1>6. PICK i \in C : Cardinality(Earlier(links, i)) = Rank(content.nodes, p)
    <2>1. \A n \in Nat : n < Cardinality(C) => \E i \in C : Cardinality(Below(C, i)) = n
      BY <1>1, BelowRanks
    <2> QED
      BY <1>3, <1>4, <1>5, <2>1
  <1>7. HasStoredTag(content.nodes, links, i)
    BY <1>3, <1>5, <1>6 DEF HasStoredTag, S
  <1>8. PICK q \in S : Rank(content.nodes, q) = Rank(content.nodes, p)
                       /\ tags[i] = content.nodes[q].tag
    BY <1>3, <1>6, <1>7 DEF TagsAssigned, IsStoredTag, S
  <1>9. q = p
    <2>1. \A a, b \in S : Cardinality(Below(S, a)) = Cardinality(Below(S, b)) => a = b
      BY <1>1, BelowRanks
    <2> QED
      BY <1>1, <1>2, <1>8, <2>1
  <1> QED
    BY <1>3, <1>8, <1>9

\* Only ApplyNodes takes a command on from its download.
LEMMA OnlyApply ==
  ASSUME TypeOK, [Next]_vars, NEW j \in SubJobs, at[j] = "fetched", at'[j] # "fetched"
  PROVE  SubApply(j)
  <1> USE UpdatesAssumption DEF TypeOK, Goto, Commands
  <1>1. \A c \in Commands \ {j} : \A place :
          at' = [at EXCEPT ![c] = place] => at'[j] = at[j]
    OBVIOUS
  <1>2. CASE UNCHANGED vars \/ Edit
    BY <1>2 DEF vars, Edit
  <1>3. ASSUME NEW c \in Commands,
               \/ c \in SubJobs /\ (SubFetch(c) \/ (SubApply(c) /\ c # j))
               \/ c \in ProvJobs /\ (ProvFetch(c) \/ MetaApply(c))
               \/ Truncate(c) \/ Fill(c) \/ LoadList(c) \/ ReadList(c)
               \/ TruncateCache(c) \/ FillCache(c) \/ CompareCache(c) \/ WriteFails(c)
        PROVE  FALSE
    <2>1. \E place : at' = [at EXCEPT ![c] = place]
      BY <1>3 DEF SubFetch, SubApply, ProvFetch, MetaApply, Truncate, Fill, LoadList, ReadList,
         TruncateCache, FillCache, CompareCache, WriteFails, Stores
    <2>2. c # j
      BY <1>3 DEF SubFetch, ProvFetch, MetaApply, Truncate, Fill, LoadList, ReadList,
         TruncateCache, FillCache, CompareCache, WriteFails
    <2> QED
      BY <1>1, <2>1, <2>2
  <1> QED
    BY <1>2, <1>3 DEF Next

\* A configuration that ApplyNodes computes is only invalid for want of the rule's tag.
LEMMA RefusedForRule ==
  ASSUME HashesDiffer, NEW content \in Content, Sound(content), NEW links \in Seq(Links),
         NEW tags \in [DOMAIN links -> Tags], TagsAssigned(content, links, tags),
         ~Valid([content EXCEPT !.nodes =
                   [i \in DOMAIN links |-> [tag |-> tags[i], key |-> Key[links[i]]]]])
  PROVE  LET next == [content EXCEPT !.nodes =
                        [i \in DOMAIN links |-> [tag |-> tags[i], key |-> Key[links[i]]]]]
         IN /\ next.enabled /\ next.rule # NoRule
            /\ next.rule[1] \notin OwnTags(next) \union NodeTags(next)
  <1> DEFINE nodes == [i \in DOMAIN links |-> [tag |-> tags[i], key |-> Key[links[i]]]]
             next == [content EXCEPT !.nodes = nodes]
  <1>1. next.nodes = nodes /\ next.admin = content.admin /\ next.enabled = content.enabled
    BY DEF Content
  <1>2. /\ DOMAIN nodes = DOMAIN links /\ \A i \in DOMAIN links : nodes[i].tag = tags[i]
    OBVIOUS
  <1>3. ~Valid(next)
    OBVIOUS
  <1> HIDE DEF nodes
  <1>4. next.enabled
    BY <1>3 DEF Valid
  <1>5. \A i, k \in DOMAIN links : tags[i] = tags[k] => i = k
    <2>1. \A i, k \in DOMAIN links : i < k => tags[i] # tags[k]
      BY <1>1, <1>4, TagsDiffer
    <2>2. DOMAIN links \subseteq Int
      OBVIOUS
    <2> QED
      BY <2>1, <2>2
  <1>6. \A i \in DOMAIN links : content.admin => tags[i] # OwnTag
    BY AssignedBelong
  <1> HIDE DEF next
  <1>7. OwnTags(next) \intersect NodeTags(next) = {}
    BY <1>1, <1>2, <1>6 DEF OwnTags, NodeTags
  <1>8. next.rule # NoRule /\ next.rule[1] \notin OwnTags(next) \union NodeTags(next)
    BY <1>1, <1>2, <1>3, <1>4, <1>5, <1>7 DEF Valid
  <1> QED
    BY <1>4, <1>8 DEF next, nodes

LEMMA OfferedStep ==
  ASSUME HashesDiffer, TypeOK, RuleInv, [Next]_vars, NEW j \in SubJobs,
         NEW p \in DOMAIN file.nodes,
         at[j] = "fetched", at'[j] # "fetched", file.enabled,
         file.rule = <<file.nodes[p].tag, file.nodes[p].key>>,
         Rank(file.nodes, p) < Cardinality(Copies(got[j], file.nodes[p].key))
  PROVE  at'[j] = "save" /\ file.nodes[p].tag \in NodeTags(work'[j])
  <1>1. SubApply(j)
    BY OnlyApply
  <1> DEFINE links == got[j]
  <1>2. links \in Seq(Links) /\ file \in Content /\ Sound(file)
    <2>1. j \in Commands
      BY DEF Commands
    <2>2. links \in Offers
      BY <2>1 DEF TypeOK
    <2> QED
      BY <2>2, UpdatesAssumption DEF TypeOK, RuleInv
  <1>3. PICK tags \in [DOMAIN links -> Tags] :
          /\ TagsAssigned(file, links, tags)
          /\ LET next == [file EXCEPT !.nodes =
                            [i \in DOMAIN links |-> [tag |-> tags[i], key |-> Key[links[i]]]]]
             IN IF Valid(next) THEN Goto(j, "save") /\ Computed(j, next)
                ELSE Goto(j, "idle") /\ UNCHANGED work
    BY <1>1 DEF SubApply
  <1> DEFINE nodes == [i \in DOMAIN links |-> [tag |-> tags[i], key |-> Key[links[i]]]]
             next == [file EXCEPT !.nodes = nodes]
  <1>4. /\ next.nodes = nodes /\ next.rule = file.rule /\ next.admin = file.admin
        /\ next.enabled = file.enabled
    BY <1>2 DEF Content
  <1>5. /\ DOMAIN nodes = DOMAIN links /\ \A i \in DOMAIN links : nodes[i].tag = tags[i]
    OBVIOUS
  <1>9. \E i \in DOMAIN links : tags[i] = file.nodes[p].tag
    BY <1>2, <1>3, StoredTagGiven
  <1>10. file.nodes[p].tag \in NodeTags(next)
    BY <1>4, <1>5, <1>9 DEF NodeTags
  <1>11. Valid(next)
    <2>1. next.rule[1] = file.nodes[p].tag
      BY <1>4
    <2> QED
      BY <1>2, <1>3, <1>10, <2>1, RefusedForRule
  <1>12. at' = [at EXCEPT ![j] = "save"] /\ work' = [work EXCEPT ![j] = next]
    BY <1>3, <1>11 DEF Goto, Computed
  <1> HIDE DEF next
  <1> QED
    BY <1>10, <1>12 DEF TypeOK, Commands

\* A download with the rule's node in enough copies is accepted, and the rule's tag
\* stays with it: all tags given are different, none is the administrator's, and the
\* stored tag goes to the link of the same rank (importer/uci.go 54-69, 105-107).
THEOREM OfferedIsKept ==
  ASSUME HashesDiffer
  PROVE  Spec => OfferedNodeKept
  <1>1. Init => RuleInv
    BY EmptySound DEF Init, RuleInv
  <1>2. TypeOK /\ RuleInv /\ [Next]_vars => RuleInv'
    BY RuleStep
  <1> DEFINE Kept ==
        \A j \in SubJobs, p \in DOMAIN file.nodes :
          LET stored == file.nodes[p]
              copies == {i \in DOMAIN got[j] : Key[got[j][i]] = stored.key}
          IN /\ at[j] = "fetched" /\ at'[j] # "fetched" /\ file.enabled
             /\ file.rule = <<stored.tag, stored.key>>
             /\ Rank(file.nodes, p) < Cardinality(copies)
             => at'[j] = "save" /\ stored.tag \in NodeTags(work'[j])
  <1>3. TypeOK /\ RuleInv /\ [Next]_vars => Kept
    BY HashesDiffer, OfferedStep DEF Copies
  <1> QED
    BY <1>1, <1>2, <1>3, TypeCorrect, PTL DEF Spec, OfferedNodeKept

\* A refused download has no more copies of the rule's node than were stored before it.
RefusedWithout ==
  \A j \in SubJobs : at[j] = "fetched" /\ at'[j] = "idle" =>
    /\ file.enabled
    /\ \E p \in DOMAIN file.nodes :
         /\ file.rule = <<file.nodes[p].tag, file.nodes[p].key>>
         /\ Cardinality(Copies(got[j], file.nodes[p].key)) <= Rank(file.nodes, p)

\* Nothing else makes an update fail: the only download that ApplyNodes refuses is one
\* that has fewer copies of the rule's node than were stored up to it, while neto is
\* enabled; the tags that the other nodes get are never the reason (uci.go 54-69, 105-107).
THEOREM OnlyMissingRefused ==
  ASSUME HashesDiffer
  PROVE  Spec => [][RefusedWithout]_vars
  <1>1. Init => RuleInv
    BY EmptySound DEF Init, RuleInv
  <1>2. TypeOK /\ RuleInv /\ [Next]_vars => RuleInv'
    BY RuleStep
  <1>3. ASSUME TypeOK, RuleInv, [Next]_vars, NEW j \in SubJobs, at[j] = "fetched", at'[j] = "idle"
        PROVE  /\ file.enabled
               /\ \E p \in DOMAIN file.nodes :
                    /\ file.rule = <<file.nodes[p].tag, file.nodes[p].key>>
                    /\ Cardinality(Copies(got[j], file.nodes[p].key)) <= Rank(file.nodes, p)
    <2> DEFINE links == got[j]
    <2>1. links \in Seq(Links) /\ file \in Content /\ Sound(file) /\ j \in Commands
      BY <1>3, UpdatesAssumption DEF TypeOK, RuleInv, Commands
    <2>2. SubApply(j)
      BY <1>3, OnlyApply
    <2>3. PICK tags \in [DOMAIN links -> Tags] :
            /\ TagsAssigned(file, links, tags)
            /\ ~Valid([file EXCEPT !.nodes =
                         [i \in DOMAIN links |-> [tag |-> tags[i], key |-> Key[links[i]]]]])
      <3>1. ~Goto(j, "save")
        BY <1>3, <2>1 DEF Goto, TypeOK
      <3> QED
        BY <2>2, <3>1 DEF SubApply
    <2> DEFINE next == [file EXCEPT !.nodes =
                          [i \in DOMAIN links |-> [tag |-> tags[i], key |-> Key[links[i]]]]]
    <2> HIDE DEF links
    <2>4. /\ next.enabled /\ next.rule # NoRule
          /\ next.rule[1] \notin OwnTags(next) \union NodeTags(next)
      BY <1>3, <2>1, <2>3, RefusedForRule
    <2>5. /\ next.rule = file.rule /\ next.admin = file.admin /\ next.enabled = file.enabled
          /\ NodeTags(next) = {tags[i] : i \in DOMAIN links}
      BY <2>1 DEF Content, NodeTags
    <2> HIDE DEF next
    <2>6. file.rule[1] \notin OwnTags(file) /\ file.enabled /\ file.rule # NoRule
      BY <2>4, <2>5 DEF OwnTags
    <2>7. PICK p \in DOMAIN file.nodes : file.nodes[p].tag = file.rule[1]
      BY <2>1, <2>6 DEF Sound, Valid, NodeTags
    <2>8. file.rule[1] # OwnTag /\ Belongs(file.rule[1], file.rule[2])
      <3>1. file.admin
        BY <2>1, <2>6 DEF Sound
      <3> QED
        BY <2>1, <2>6, <3>1 DEF Sound, OwnTags
    <2>9. file.nodes[p].key = file.rule[2]
      <3>1. Belongs(file.rule[1], file.nodes[p].key)
        BY <2>1, <2>7 DEF Sound
      <3> QED
        BY <2>8, <3>1, OneIdentity
    <2>10. file.rule = <<file.nodes[p].tag, file.nodes[p].key>>
      <3>1. file.rule \in Tags \X AllKeys
        BY <2>1, <2>6 DEF Content
      <3> QED
        BY <2>7, <2>9, <3>1
    <2>11. ~(Rank(file.nodes, p) < Cardinality(Copies(links, file.nodes[p].key)))
      <3> SUFFICES ASSUME Rank(file.nodes, p) < Cardinality(Copies(links, file.nodes[p].key))
                   PROVE  FALSE
        OBVIOUS
      <3>1. \E i \in DOMAIN links : tags[i] = file.nodes[p].tag
        BY <2>1, <2>3, StoredTagGiven
      <3> QED
        BY <2>4, <2>5, <2>7, <3>1
    <2>12. Rank(file.nodes, p) \in Nat /\ Cardinality(Copies(links, file.nodes[p].key)) \in Nat
      <3> DEFINE S == Stored(file.nodes, file.nodes[p].key)
                 C == Copies(links, file.nodes[p].key)
      <3>1. /\ S \in SUBSET (1 .. Len(file.nodes)) /\ Len(file.nodes) \in Nat /\ p \in S
            /\ C \in SUBSET (1 .. Len(links)) /\ Len(links) \in Nat
            /\ Rank(file.nodes, p) = Cardinality(Below(S, p))
        BY <2>1, NodeRanks
      <3> HIDE DEF S, C
      <3>2. Rank(file.nodes, p) \in Nat /\ Cardinality(C) \in Nat
        BY <3>1, BelowUpTo, IndicesFinite
      <3> QED
        BY <3>2 DEF C
    <2> QED
      BY <2>6, <2>10, <2>11, <2>12 DEF links
  <1>4. TypeOK /\ RuleInv /\ [Next]_vars => RefusedWithout
    BY <1>3 DEF RefusedWithout
  <1> QED
    BY <1>1, <1>2, <1>4, TypeCorrect, PTL DEF Spec

-------------------------------------------------------------------------------
(* The list file *)

\* An empty list file is one that is being filled, from a list that was downloaded.
FillingInv ==
  /\ cache = Torn => \E c \in Commands : at[c] \in {"filling", "refilling"}
  /\ \A c \in ProvJobs : at[c] \in HasList => got[c] \in Lists

LEMMA FillingNext ==
  ASSUME Loaders = {}, ~WritesFail, TypeOK, FillingInv, [Next]_vars
  PROVE  FillingInv'
  <1> USE UpdatesAssumption DEF FillingInv, TypeOK, Goto, Took, Computed, Commands
  <1>1. CASE UNCHANGED vars
    BY <1>1 DEF vars
  <1>2. ASSUME NEW j \in SubJobs, SubFetch(j) \/ SubApply(j) PROVE FillingInv'
    <2>1. /\ at[j] \in {"idle", "fetched"} /\ cache' = cache
          /\ \E place : at' = [at EXCEPT ![j] = place]
          /\ \E value : got' = [got EXCEPT ![j] = value]
      BY <1>2 DEF SubFetch, SubApply
    <2> QED
      BY <2>1
  <1>3. ASSUME NEW j \in ProvJobs, ProvFetch(j) \/ MetaApply(j) PROVE FillingInv'
    <2>1. /\ at[j] \in {"idle", "meta"} /\ cache' = cache
          /\ \/ at' = [at EXCEPT ![j] = "write"] /\ \E list \in Lists : got' = [got EXCEPT ![j] = list]
             \/ /\ \E place \in {"save", "idle"} : at' = [at EXCEPT ![j] = place]
                /\ got' = [got EXCEPT ![j] = Missing]
      BY <1>3 DEF ProvFetch, MetaApply
    <2> QED
      BY <2>1
  <1>4. ASSUME NEW j \in SubJobs \union ProvJobs, Truncate(j) \/ Fill(j) PROVE FillingInv'
    <2>1. /\ at[j] \in {"save", "saving"} /\ UNCHANGED <<cache, got>>
          /\ \E place \in {"saving", "idle"} : at' = [at EXCEPT ![j] = place]
      BY <1>4 DEF Truncate, Fill
    <2> QED
      BY <2>1
  <1>5. ASSUME NEW c \in ProvJobs, TruncateCache(c) PROVE FillingInv'
    BY <1>5 DEF TruncateCache
  <1>6. ASSUME NEW c \in ProvJobs, FillCache(c) PROVE FillingInv'
    <2>1. cache' = got[c] /\ got[c] \in Lists /\ got' = got
      BY <1>6 DEF FillCache, Stores
    <2>2. \E place \in HasList : at' = [at EXCEPT ![c] = place] /\ at[c] \in HasList
      BY <1>6 DEF FillCache, Stores
    <2> QED
      BY <2>1, <2>2
  <1>7. ASSUME NEW c \in ProvJobs, CompareCache(c) PROVE FillingInv'
    <2>1. /\ at[c] = "stored" /\ UNCHANGED <<cache, got>>
          /\ \E place \in HasList : at' = [at EXCEPT ![c] = place]
      BY <1>7 DEF CompareCache, Stores
    <2> QED
      BY <2>1
  <1>8. CASE Edit
    BY <1>8 DEF Edit
  <1> QED
    BY <1>1, <1>2, <1>3, <1>4, <1>5, <1>6, <1>7, <1>8 DEF Next, WriteFails

\* Provider updates by themselves, however many at a time, never leave an empty list:
\* it takes a failing write or a command that mirrors the lists it has loaded
\* (provider/update.go 29-55, config.go 205-229).
THEOREM UpdatesKeepList ==
  ASSUME Loaders = {}, ~WritesFail
  PROVE  Spec => []ProviderCacheWhole
  <1>1. Init => FillingInv
    BY UpdatesAssumption DEF Init, FillingInv, Commands
  <1>2. TypeOK /\ FillingInv /\ [Next]_vars => FillingInv'
    BY Loaders = {}, ~WritesFail, FillingNext
  <1>3. FillingInv => ProviderCacheWhole
    BY DEF FillingInv, ProviderCacheWhole
  <1> QED
    BY <1>1, <1>2, <1>3, TypeCorrect, PTL DEF Spec
===============================================================================
