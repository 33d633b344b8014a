-------------------------------- MODULE Updates --------------------------------
(***************************************************************************)
(* The update commands of netod and the files they share: a subscription   *)
(* update replaces the outbound sections of its nodes in /etc/config/neto, *)
(* a provider update replaces a list in /etc/neto/provider-cache and its   *)
(* item count in the configuration.  Cron and LuCI start them at any time; *)
(* LuCI commits edits, and every other command loads the configuration and *)
(* the lists meanwhile.  Nothing locks a file: os.WriteFile truncates it,  *)
(* then writes, and what is written was computed from an earlier read.     *)
(* Two writes of one file that overlap may mix their texts: the steps leave*)
(* such overlaps out.                                                      *)
(*                                                                         *)
(* One subscription, one provider and one rule stand for any number: their *)
(* sections do not look at each other.  A node's link determines its       *)
(* identity `Key` (protocol, endpoint, credential) and, by its hash, the   *)
(* base of its tag; labels and transport options are left out, and so are  *)
(* nodes that Validate rejects for themselves.                             *)
(***************************************************************************)

EXTENDS Naturals, Sequences, FiniteSets

CONSTANTS
  Links,          \* links to nodes
  Keys,           \* identities of nodes
  Key,            \* the identity of each link
  Bases,          \* hashes of links
  Base,           \* the hash of each link
  OwnTag, OwnKey, \* the administrator's own outbound
  Offers,         \* what the subscription may offer: sequences of links
  Lists,          \* provider lists
  NoRule,         \* no rule has an outbound
  Torn,           \* a list file between truncation and writing
  Missing,        \* no list file
  MaxSuffix,      \* bound on the numbers that make tags unique
  WritesFail,     \* may a write fail, or its command die, once the file is truncated?
  SubJobs, ProvJobs, Loaders

VARIABLES
  file,           \* /etc/config/neto
  cache,          \* the provider's list file
  at,             \* where each command is
  got,            \* what each command has downloaded or read: a local, Missing unless in use
  work            \* the configuration each update command is about to write, likewise

vars == <<file, cache, at, got, work>>

Commands == SubJobs \union ProvJobs \union Loaders
Tags     == (Bases \X (1 .. MaxSuffix)) \union {OwnTag}
AllKeys  == Keys \union {OwnKey}

\* The administrator's tag may look like a node's.
ASSUME UpdatesAssumption ==
  /\ Key \in [Links -> Keys] /\ Base \in [Links -> Bases]
  /\ Offers \subseteq Seq(Links) \ {<<>>}
  /\ NoRule \notin Tags \X AllKeys
  /\ Torn \notin Lists /\ Missing \notin Lists /\ Torn # Missing
  /\ MaxSuffix \in Nat \ {0} /\ WritesFail \in BOOLEAN
  /\ SubJobs \intersect ProvJobs = {} /\ SubJobs \intersect Loaders = {}
  /\ ProvJobs \intersect Loaders = {}

\* Links with one hash lead to one node: hashes do not collide, and the name of the
\* subscription leaves room for the hash within a tag's 48 characters.
HashesDiffer == \A r, s \in Links : Base[r] = Base[s] => Key[r] = Key[s]

Node == [tag : Tags, key : AllKeys]

\* `admin` says whether the administrator's sections are there, his outbound among
\* them; `nodes` are the subscription's.  A rule is a tag and the identity of the node
\* that the administrator chose with it.
Content == [admin : BOOLEAN, enabled : BOOLEAN, nodes : Seq(Node),
            rule : (Tags \X AllKeys) \union {NoRule}, items : Lists \union {Torn, Missing}]

\* An empty file is valid, and neto is enabled by default.
Empty == [admin |-> FALSE, enabled |-> TRUE, nodes |-> <<>>, rule |-> NoRule,
          items |-> Missing]

\* Where a command is between two accesses to the files, and on what it depends.
HasList == {"write", "filling", "stored", "rewrite", "refilling", "meta"}
HasWork == {"save", "saving"}
Places  == {"idle", "fetched", "restore", "mirror"} \union HasList \union HasWork

TypeOK ==
  /\ file \in Content
  /\ cache \in Lists \union {Torn, Missing}
  /\ at \in [Commands -> Places]
  /\ DOMAIN got = Commands /\ DOMAIN work = Commands
  /\ \A c \in Commands :
       /\ at[c] = "fetched" => c \in SubJobs /\ got[c] \in Offers
       /\ at[c] \in HasList => c \notin SubJobs /\ got[c] \in Lists \union {Torn}
       /\ at[c] = "meta" => c \in ProvJobs
       /\ at[c] \in {"restore", "mirror"} => c \in Loaders
       /\ at[c] \in HasWork => c \notin Loaders /\ work[c] \in Content

OwnTags(content) == IF content.admin THEN {OwnTag} ELSE {}

NodeTags(content) == {content.nodes[p].tag : p \in DOMAIN content.nodes}

Own == [tag |-> OwnTag, key |-> OwnKey]

Outbounds(content) ==
  {content.nodes[p] : p \in DOMAIN content.nodes}
    \union (IF content.admin THEN {Own} ELSE {})

Init ==
  /\ file = [Empty EXCEPT !.admin = TRUE]
  /\ cache = Missing
  /\ at = [c \in Commands |-> "idle"]
  /\ got = [c \in Commands |-> Missing]
  /\ work = [c \in Commands |-> Empty]

\* Parse: nothing of a disabled configuration is checked.
Valid(content) ==
  content.enabled =>
    /\ \A p, q \in DOMAIN content.nodes :
         content.nodes[p].tag = content.nodes[q].tag => p = q
    /\ OwnTags(content) \intersect NodeTags(content) = {}
    /\ content.rule # NoRule => content.rule[1] \in OwnTags(content) \union NodeTags(content)

Goto(c, place)    == at' = [at EXCEPT ![c] = place]
Took(c, value)    == got' = [got EXCEPT ![c] = value]
Computed(c, next) == work' = [work EXCEPT ![c] = next]

-------------------------------------------------------------------------------
(* The tags of a subscription's nodes *)

\* Mutated form of Stored: nodes are matched by place, not by identity.
StoredAnywhere(nodes, key) == DOMAIN nodes

\* Where the nodes of an identity are, among the stored ones.
Stored(nodes, key) == {p \in DOMAIN nodes : nodes[p].key = key}

\* The links of the same identity that come before the i-th.
Earlier(links, i) == {j \in 1 .. i - 1 : Key[links[j]] = Key[links[i]]}

Rank(nodes, p) == Cardinality({q \in Stored(nodes, nodes[p].key) : q < p})

\* takeSubscriptionTag: the stored tags of an identity go to its links in order.
HasStoredTag(nodes, links, i) ==
  Cardinality(Earlier(links, i)) < Cardinality(Stored(nodes, Key[links[i]]))

IsStoredTag(nodes, links, i, tag) ==
  \E p \in Stored(nodes, Key[links[i]]) :
    Rank(nodes, p) = Cardinality(Earlier(links, i)) /\ tag = nodes[p].tag

\* tagBase
TagBase(links, i) == Base[links[i]]

\* uniqueTag: base, base_2, base_3, ...
IsUniqueTag(base, used, tag) ==
  \E n \in 1 .. MaxSuffix :
    /\ tag = <<base, n>> /\ tag \notin used
    /\ \A m \in 1 .. n - 1 : <<base, m>> \in used

\* The tags in use when the i-th link gets its own: those stored are not, they were
\* removed with their sections.
Used(content, tags, i) == OwnTags(content) \union {tags[j] : j \in 1 .. i - 1}

\* Mutated form of TagsAssigned: stored tags are forgotten.
TagsAssignedAnew(content, links, tags) ==
  \A i \in DOMAIN links :
    IsUniqueTag(TagBase(links, i), Used(content, tags, i), tags[i])

\* The loop of ApplyNodes gives the links these tags.
TagsAssigned(content, links, tags) ==
  \A i \in DOMAIN links :
    IF HasStoredTag(content.nodes, links, i)
    THEN IsStoredTag(content.nodes, links, i, tags[i])
    ELSE IsUniqueTag(TagBase(links, i), Used(content, tags, i), tags[i])

-------------------------------------------------------------------------------
(* netod subscriptions update *)

\* The configuration is loaded (with its lists: see Load), the subscription is
\* downloaded and its links parsed.
SubFetch(j) ==
  /\ at[j] = "idle" /\ file.admin /\ Valid(file)
  /\ \E links \in Offers : Took(j, links)
  /\ Goto(j, "fetched")
  /\ UNCHANGED <<file, cache, work>>

\* ApplyNodes reads the configuration again and computes its successor.
SubApply(j) ==
  /\ at[j] = "fetched"
  /\ \E tags \in [DOMAIN got[j] -> Tags] :
       /\ TagsAssigned(file, got[j], tags)
       /\ LET next == [file EXCEPT !.nodes =
                        [i \in DOMAIN got[j] |-> [tag |-> tags[i], key |-> Key[got[j][i]]]]]
          IN IF Valid(next) THEN Goto(j, "save") /\ Computed(j, next)
             ELSE Goto(j, "idle") /\ UNCHANGED work
  /\ Took(j, Missing)
  /\ UNCHANGED <<file, cache>>

-------------------------------------------------------------------------------
(* netod providers update, and the list file *)

\* loadConfigForManagement, the download and its normalisation.
ProvFetch(j) ==
  /\ at[j] = "idle" /\ file.admin /\ Valid(file)
  /\ \E list \in Lists : Took(j, list)
  /\ Goto(j, "write")
  /\ UNCHANGED <<file, cache, work>>

\* The list is written: a loader is done with it, an update has its item count.
Stores(c) ==
  IF c \in Loaders THEN Goto(c, "idle") /\ Took(c, Missing)
  ELSE Goto(c, "meta") /\ UNCHANGED got

\* os.WriteFile of the cache ("write") and of the persistent copy ("rewrite"): both
\* directories are the same, and so are both files.
TruncateCache(c) ==
  /\ at[c] \in {"write", "rewrite"}
  /\ \A d \in Commands : at[d] \notin {"filling", "refilling"}
  /\ Goto(c, IF at[c] = "write" THEN "filling" ELSE "refilling")
  /\ cache' = Torn
  /\ UNCHANGED <<file, got, work>>

\* An updated list is mirrored as it is; a restored one is read once more for that if it
\* is of domains, and not mirrored if it is of addresses.
FillCache(c) ==
  /\ at[c] \in {"filling", "refilling"}
  /\ cache' = got[c]
  /\ \/ (at[c] = "refilling" \/ c \in Loaders) /\ Stores(c)
     \/ /\ at[c] = "filling" /\ UNCHANGED got
        /\ Goto(c, IF c \in Loaders THEN "mirror" ELSE "stored")
  /\ UNCHANGED <<file, work>>

\* WritePersistentCache: nothing is written if the file has these contents.
CompareCache(c) ==
  /\ at[c] = "stored"
  /\ IF cache = got[c] THEN Stores(c) ELSE Goto(c, "rewrite") /\ UNCHANGED got
  /\ UNCHANGED <<file, cache, work>>

\* UpdateMetadata reads the configuration; the provider may be gone.
MetaApply(j) ==
  /\ at[j] = "meta"
  /\ LET next == [file EXCEPT !.items = got[j]]
     IN IF file.admin /\ Valid(next) THEN Goto(j, "save") /\ Computed(j, next)
        ELSE Goto(j, "idle") /\ UNCHANGED work
  /\ Took(j, Missing)
  /\ UNCHANGED <<file, cache>>

-------------------------------------------------------------------------------
(* os.WriteFile of the configuration *)

Truncate(j) ==
  /\ at[j] = "save"
  /\ \A d \in Commands : at[d] # "saving"
  /\ Goto(j, "saving")
  /\ file' = Empty
  /\ UNCHANGED <<cache, got, work>>

Fill(j) ==
  /\ at[j] = "saving" /\ Goto(j, "idle")
  /\ file' = work[j] /\ Computed(j, Empty)
  /\ UNCHANGED <<cache, got>>

\* The flash is full, or the command is killed: the file stays empty.  A command that
\* dies elsewhere takes no further step.
WriteFails(c) ==
  /\ WritesFail
  /\ at[c] \in {"filling", "refilling", "saving"} /\ Goto(c, "idle")
  /\ Took(c, Missing) /\ Computed(c, Empty)
  /\ UNCHANGED <<file, cache>>

-------------------------------------------------------------------------------
(* Any command that loads the configuration and its lists *)

\* The list is read; if there is none RestoreDefaultCache looks for the other copy,
\* which is the same file.
LoadList(l) ==
  /\ at[l] = "idle" /\ file.admin /\ Valid(file)
  /\ Goto(l, IF cache = Missing THEN "restore" ELSE "mirror")
  /\ UNCHANGED <<file, cache, got, work>>

\* Mutated form of ReadList: a file that is not there counts as read.
ReadListAlways(l) ==
  /\ at[l] \in {"restore", "mirror"}
  /\ Goto(l, IF at[l] = "restore" THEN "write" ELSE "stored") /\ Took(l, cache)
  /\ UNCHANGED <<file, cache, work>>

\* RestoreDefaultCache or MirrorDefaultCache reads the file again.
ReadList(l) ==
  /\ at[l] \in {"restore", "mirror"}
  /\ IF cache = Missing THEN Goto(l, "idle") /\ UNCHANGED got
     ELSE Goto(l, IF at[l] = "restore" THEN "write" ELSE "stored") /\ Took(l, cache)
  /\ UNCHANGED <<file, cache, work>>

-------------------------------------------------------------------------------
(* LuCI *)

\* A commit: uci writes a new file and renames it.  The rule gets one of the
\* outbounds there are, or keeps its own; neto is enabled or disabled.  The
\* administrator is taken to commit configurations that load.
Edit ==
  /\ file.admin
  /\ \E rule \in {<<o.tag, o.key>> : o \in Outbounds(file)} \union {NoRule, file.rule},
        enabled \in BOOLEAN :
       /\ file' = [file EXCEPT !.rule = rule, !.enabled = enabled]
       /\ Valid(file')
  /\ UNCHANGED <<cache, at, got, work>>

Next ==
  \/ \E j \in SubJobs : SubFetch(j) \/ SubApply(j)
  \/ \E j \in ProvJobs : ProvFetch(j) \/ MetaApply(j)
  \/ \E j \in SubJobs \union ProvJobs : Truncate(j) \/ Fill(j)
  \/ \E l \in Loaders : LoadList(l) \/ ReadList(l)
  \/ \E c \in ProvJobs \union Loaders : TruncateCache(c) \/ FillCache(c) \/ CompareCache(c)
  \/ \E c \in Commands : WriteFails(c)
  \/ Edit

Spec == Init /\ [][Next]_vars

-------------------------------------------------------------------------------
(* Properties *)

\* Through any updates, refused ones, half-written files and lost edits, what the
\* rule's tag names is the node that the administrator chose, and it is there while
\* neto is enabled: ApplyNodes never hands a tag in use to another node, and rejects
\* a download without the rule's node.
RuleKeepsNode ==
  file.rule # NoRule =>
    /\ \A o \in Outbounds(file) : o.tag = file.rule[1] => o.key = file.rule[2]
    /\ file.enabled => \E o \in Outbounds(file) : o.tag = file.rule[1]

\* A download that offers the rule's node, in as many copies as were stored up to it,
\* whatever its transport options now, is not refused and keeps the rule's tag.
OfferedNodeKept ==
  [][\A j \in SubJobs, p \in DOMAIN file.nodes :
       LET stored == file.nodes[p]
           copies == {i \in DOMAIN got[j] : Key[got[j][i]] = stored.key}
       IN /\ at[j] = "fetched" /\ at'[j] # "fetched" /\ file.enabled
          /\ file.rule = <<stored.tag, stored.key>>
          /\ Rank(file.nodes, p) < Cardinality(copies)
          => at'[j] = "save" /\ stored.tag \in NodeTags(work'[j])]_vars

\* While no write fails, when no command runs the list file is not empty: updates leave the list they
\* downloaded, and commands that only load lists do no damage.
ProviderCacheWhole ==
  (\A c \in Commands : at[c] = "idle") => cache # Torn
===============================================================================
