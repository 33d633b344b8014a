# TLA+ verification of neto

neto turns an OpenWrt router into a policy router: nftables decides which LAN
traffic is proxied, sing-box carries it and owns FakeIP, `netod` forwards DNS by
policy, and a procd init script brings all of it up and down on a router that
must keep working when neto does not. This directory holds TLA+ models of that
program, TLC configurations that check them, and TLAPS proofs. The reference is
the code under `src/`; every definition below a "map" entry of `PROJECT.json`
names the lines it was translated from.

## Inventory

| Component | State it keeps | Operations | What is hard | What makes it correct |
|---|---|---|---|---|
| dnsmasq take-over, `init.d/neto` 22-71, 242-333 | staged and committed `dhcp` UCI, three files in `/etc/neto/dnsmasq-state` | `neto_write_dnsmasq`, `neto_remove_dnsmasq` | a power loss between two commands, edits of `dns_listen` and `manage_dnsmasq` while attached, repeated starts | the administrator's configuration comes back; no server of his is ever lost; nothing of neto stays |
| service lifecycle, `init.d/neto` 335-412, `main.go` check/compile/ready/apply/run | instance set in procd, nft table, ip rules, routes, crontab block | start, stop, restart, reload, triggers, respawn | edits between two reads of the configuration, failing commands, daemons that die, reboots, lingering daemons | the LAN is exposed only to what works; a stop leaves nothing; marked traffic is routed |
| policy, `ruleengine`, `nft`, `singbox`, `proxyroute`, `dnsproxy` decisions | generated ruleset, sing-box configuration, netod's copy of the rules, DNS answers clients keep | generate, load, look up, connect | three programs re-derive one policy, each from the configuration it read last | a name that got a FakeIP leaves through its rule's outbound; direct clients bypass; IP rules keep their outbound |
| DNS proxy server, `dnsproxy` | two sockets, their loops, a goroutine per question | listen, read, identify the client, answer, forward, stop | client identity behind dnsmasq, malformed messages, silent upstreams, SIGTERM among all of it | each question is settled once, as its client's policy says; names and client subnets stay where they belong; everything ends |
| configuration, `config` | `/etc/config/neto` | parse, defaults, validate | what Validate does not reject | the generators' preconditions |
| provider update and cache, `provider`, `main.go` 594-1265 | two caches in one place, metadata in the UCI file | download, normalise, write, restore | failure half-way, concurrent edit of the file | a failed update keeps the old list |
| subscription import, `importer` | outbound sections and their tags | decode, match, replace | nodes that share a key | a tag rules refer to keeps its node |
| CIDR normalisation, `policy` | none | read, sort, merge, split | 0.0.0.0 and 255.255.255.255 in 32 bits | same addresses, in disjoint aligned blocks, as few as can be |
| outbound latency test, `main.go` 781-973 | helper sing-box, measurements | batches, two passes, semaphore | concurrency of four, a helper that dies | every outbound reported once, no goroutine lost |
| temporary proxy for downloads, `main.go` 712-770, 992-1288 | helper sing-box, a port, a script's output | start, wait, fetch or run, kill | free-port race between commands, deadlines, cut output | the helper ends; the outbound asked for is used; nothing partial is delivered |
| installer, upgrade, uninstall | installed files, the running service | `restart_neto_safely` | a half-started service after an upgrade | direct mode when not verified |
| LuCI, provider scripts, packaging, status | - | forms, text, reports | - | - |

### How they interact

`rc.common` serialises the init script's functions per service. `start_service`
runs `netod check` and `netod compile`, checks the compiled sing-box
configuration and submits two instances to procd; `service_started` waits for an
end-to-end DNS answer (`netod ready`), then `netod apply` installs the nft table,
the ip rule and the route, then dnsmasq is pointed at netod and the crontab block
is written. `stop_service` undoes all of it, and procd then kills the instances.
procd reloads the service when `/etc/config/neto` or a network changes and
respawns daemons. LuCI edits the UCI file and calls `restart`. The crontab jobs
call `netod ... update` and `restart`. Every program reads the configuration file
for itself, when it starts: this is where most hazards come from.

The list of hazards, each at its line with the properties that watch it, is in
`PROJECT.json`.

## Modules

| Module | Models | Checked by |
|---|---|---|
| `DnsHandoff` | abstract: dnsmasq runs the administrator's configuration, or that with one listener of neto in front | refined by `DnsmasqTakeover` |
| `DnsmasqTakeover` | the two dnsmasq functions of the init script, command by command, with edits and power loss | `MCDnsmasqTakeover` |
| `DnsmasqTakeover_proofs` | theorems | TLAPS |
| `Lifecycle` | the init script's service functions with the netod commands they run, procd, daemons, triggers, cron, edits, reboot | `MCLifecycle` |
| `Lifecycle_proofs` | theorems | TLAPS |
| `Policy` | what one configuration makes netod answer, nft decide and sing-box route: operators, no state | through `DataPath` |
| `DataPath` | which configuration each program runs with, FakeIP allocation, the answers clients keep, what becomes of their connections | `MCDataPath` |
| `DataPath_proofs` | theorems | TLAPS |
| `Updates` | the update commands and the loaders on the configuration and the lists: truncate and write, no locks; the tags of a subscription's nodes | `MCUpdates` |
| `Updates_proofs` | theorems | TLAPS |
| `DnsService` | abstract: each question is settled once, with its client's answer or none | refined by `DnsServer` |
| `DnsMessage` | what the parsers of `dnsproxy` tell apart in a message, reading and removing client subnets: operators | through `DnsServer` |
| `DnsServer` | `netod run`'s DNS server: listeners, loops, a goroutine per question, deadlines, shutdown | `MCDnsServer` |
| `DnsServer_proofs` | theorems | TLAPS |
| `Cidr` | reading and normalising a file of blocks, one step per round of its loops | `MCCidr` |
| `Cidr_proofs` | theorems | TLAPS |
| `Helpers` | downloads, provider scripts and latency tests with the sing-box each starts, side by side | `MCHelpers` |
| `Helpers_proofs` | theorems | TLAPS |
| `Ranks` | lemmas on the least element of a set of numbers and on counting the chosen indices of a sequence, for `Policy`, `Cidr` and `Updates` | TLAPS |

`DnsmasqTakeover` has its `DnsHandoff` by INSTANCE with the dnsmasq it drives, and
`DnsServer` its `DnsService`; `Lifecycle` sees dnsmasq as `DnsHandoff` leaves it;
`DataPath` and `DnsServer` share `Policy`.

### DnsHandoff and DnsmasqTakeover

`uci` commands change a staged copy in RAM (`staged`), `uci commit` writes it to
flash (`flash`), dnsmasq sees flash when it is reloaded (`resolver`). The state
files are on flash as soon as they are written. Options are reduced to "absent",
the value neto needs ("neto": `1` or `32`), and anything else. `pc` steps through
the commands; a power loss (`Reboot`) returns to "idle" with `staged = flash`. A
file in the legacy directory and its successor are one variable: the script reads
and removes them together. `EditNeto` changes `dns_listen` and `manage_dnsmasq` at
any moment; `Administer` changes the administrator's dnsmasq section between two
runs (its options only while neto does not hold them, since what is then edited is
neto's value).

`PlainUsers` is the set of administrator configurations the script can tell from
its own leftovers: an option set to neto's value only next to servers. Outside of
it the code does lose the option: a lone `noresolv=1` or `addsubnet=32` is taken
for a leftover, saved as missing and dropped on restore.

### Lifecycle

A configuration is the options the control flow depends on. The shell's copy is
`conf` (one `config_load` per function), a netod command's copy is `app`; both are
read from `cfg`, which an edit may change between any two commands. `pc` goes
through `b_*` (start_service), `g_*` (service_started up to the probe), `a_*`
(netod apply), `h_*` (dnsmasq and cron), `s_*` (stop_service and procd_kill).
`queued` is the set of invocations that wait for the lock. procd is `svc`
("none", an "empty" or a "full" instance set) and the two daemons; `dying` and
`dyingSing` are daemons that were told to terminate and may still answer. The
kernel is `nft` (the marks the table sets), `rules` and `routes`. Adding to it and
deleting from it may fail; nobody looks at a deletion's error (`main.go` 388-389, 406,
411-412, `|| true` in `stop_service`), so a table that cannot be deleted may stand
without its route. `stuck`, which no action reads, records what a failed deletion may
have left until one succeeds, and the properties say nothing of that. dnsmasq is seen
through `DnsHandoff`: `dns` is the listener in front, or `None`; the take-over's
own steps are in `DnsmasqTakeover`.

rc.common, procd and uci are not under `src/`: their actions (lock, instance
submission, kill, respawn, triggers) are modelled from how the script uses them
and marked external. A reload keeps a daemon whose command did not change, and an
early return of `start_service` submits an empty set.

The order of `apply` is that of the code: after the probe. The "Start sequence" of
docs/ARCHITECTURE.md lists `apply` before the sing-box check and before `run`.

### Policy and DataPath

A configuration (`Config`) is the sequence of rules in priority order, the simple
rule, outbounds, client sections, the mode, and what decides FakeIP. Domain
matchers are sets of names, IP matchers sets of addresses; ports narrow a rule as
protocols do and are left out. `Parse` fills in the first enabled outbound,
`Validate` has the checks the generators rely on. `NetodAnswer`, `NftVerdict` and
`SingBoxOutbound` each translate one generator or handler: nothing but the
configuration relates them, and that they fit together is what the properties say.

`DataPath` gives every program its copy: `netod`, `sing`, `table`, and `compiled`,
the file sing-box reads at its next start; dnsmasq asks netod while `attached`, which
outlives a reboot and goes with a stop. `pool` numbers the FakeIP addresses;
`cached` is the last answer each client got for each name, kept without limit of
time; `lapsed` marks those from before the last boot, which empties sing-box's
store: their addresses are given out again, and nothing is claimed of them. A run of the service is begin, compile, apply, with crashes, failures and
edits in between; the single commands and their failures are in `Lifecycle`. `LuCI`
says that every edit is followed by a restart, as LuCI's and the update jobs' are;
without it there is procd's reload only. `Outcome` follows a packet through the
table and sing-box. The configurations of one instance share fakeip_enabled and
fakeip_range (`DataPathAssumption`): a change of the range empties sing-box's store
and makes every cached answer void. The service is enabled throughout; disabling
is in `Lifecycle`.

sing-box is not under `src/`: the allocation of FakeIP addresses, their reverse
mapping, sniffing, and the store in `/tmp` are modelled from the configuration that
neto generates for it: a connection to a FakeIP address is routed by the name of the
address, also where sing-box might sniff another one.

### Updates

`file` is `/etc/config/neto` and `cache` one provider's list. A command is a place
(`at`) between two accesses to them, with the locals it carries over: what it has
downloaded or read (`got`), and the configuration it computed (`work`).
`os.WriteFile` is two steps, so every other command may find a file empty
(`Empty`, `Torn`); between reading and writing anything may happen, as no file is
locked. `WriteFails` leaves a file truncated. Left out are two writes of one file that
overlap (they may leave a mixture of both texts): `Truncate` and `TruncateCache`
wait for a write in progress, which the code does not.

`TagsAssigned` states what the loop of `ApplyNodes` computes: stored tags of an
identity (`Key`) in their order, then `Base` with the first free suffix. The
administrator's tag may look like a generated one. A rule carries, beside its tag,
the identity of the node it was chosen for; the code has no such field, the
properties compare with it. `restore` and `mirror` are `RestoreDefaultCache` and
`MirrorDefaultCache`, whose two directories are one.

### DnsServer, DnsMessage and DnsService

One identity (`Queries`) stands for one question on its way: `queued` at a socket,
`reading` (TCP only), `handling`, `dialing`, `waiting` for the upstream, `replying`,
and then answered or not. `client` is what `clientIP` makes of the question, `sent`
what the upstream got, `result` where the reply comes from. `run`, `ctx`, `socket`,
`loop` and `errCh` are `Run`, its context, the two listeners, `serveUDP` and
`serveTCP`, and the channel between them; `commandRun` cancels the context on a
signal and exits when `Run` returns. `Policy` decides, as it does in `DataPath`.

A message is the counts of its header, the questions and records that can be
decoded, and whether bytes are left over (`DnsMessage`): enough for every early
return of the parsers. dnsmasq, which is external, adds the asker's address as a
client subnet, behind whatever the asker put there. The sending host is "router",
"v6" or "linklocal" when it is no LAN client with an IPv4 address; a link-local source
has a zone, which `net.ParseIP` does not read, and is treated like the loopback. Deadlines have no clock; the
client's, which was set earlier, passes before the upstream's.

`DnsService` is what the server promises: a question is pending, and then has the
answer that the policy has for the *host that asked* (`Promised`, computed from the
host and not from the message), or none.

The assumption on `Requests` keeps apart what the code cannot know: hosts behind
dnsmasq, the router's own programs and hosts with a link-local address put no client
subnet into their questions.
A host that asks over IPv6 is unknown to netod and gets the real resolver.

Seen while modelling, and not contradicted by any property: a message that cannot be
decoded to its last byte is forwarded as it came, client subnet included
(docs/ARCHITECTURE.md:248 says the client subnet is stripped before forwarding;
dnsmasq sends no such message, a client that asks netod itself may); a failing
`Accept` or `ReadFrom`, for want of a descriptor for instance, ends the daemon, which
procd respawns; the router's own addresses are read once, at the start; a TCP answer
that comes after the client's 5 s is lost though the upstream was in time.

### Cidr

`LoadIPv4CIDRsFile`, `NormalizeIPv4CIDRs` and `rangeToCIDRs` as one sequential
program: a step per line, per range merged, per halving and per block. Addresses have
`W` bits and wrap as uint32 does; sizes and the `+1` of the merge are wider, as in the
code. Sorting is any permutation that is in order.

### Helpers

A command is one process (`Commands`) with one job: a download of a URL or to a file,
a provider script, or a latency test. `pc` is where its main goroutine is, `port` and
`helper` its sing-box, `got`/`route`/`status` the transfer, `worker` and `held` the
goroutines and the semaphore of a pass, `report` what is printed, sorted at the end.
Commands share the router's ports only: `freeLocalPort` gives a port back before the
helper has it, so two commands may draw the same one (`shared`, a history variable),
the later helper exits, and `waitForPort` is content with whoever listens. `Killed` is
the process's end without its deferred calls: the helper stays, holding its port.
A script ends, or is killed by its context, but `cmd.Run` also waits for whoever
still holds its output ("draining"), without a deadline.

Delays, names and error texts are left out: among the outbounds that work, and among
the others, the printed order is any. That a script which ends well has written all
it has to is assumed of the script.

## Runs

| Run | Shows | Bounds |
|---|---|---|
| `takeover` | without power loss, hand-off, restoration and memory of the originals, under edits | two listeners (default and another, so a move and its return happen), two servers of the administrator, all plain option values |
| `takeover_power_loss` | no server lost under any number of power losses; a completed release is clean with one listener | one listener, two servers |
| `lifecycle` | routing behind the table, clean stop, exposure only after a probe | four configurations (enabled, disabled, invalid and unmanaged, moved listener), one edit, one crash, reboot or failed deletion, other commands fail at any time, daemons linger |
| `lifecycle_disable` | disabling takes effect (liveness) | on/off, two edits, no fault |
| `lifecycle_failed_reload` (violation) | a failing check on reload leaves dnsmasq and nft without daemons | two configurations, one edit |
| `configuration` | the three programs fit together, agree again after changes, IP rules keep their outbound, old FakeIP addresses stay good | begins in each of some 490 configurations: all pairs of eight rules (domain, IP, mixed, excluding, disabled; every action and mode), simple and global mode, three client policies, two orders of outbounds with a disabled one; then changes among four, one of them invalid, any number of changes, crashes, failures and reboots; one client, two names, three addresses |
| `reload_only` (violation) | a reload leaves the daemons behind the table | four configurations |
| `updates` | tags stay with their nodes, a refresh keeps the node it offers | one subscription update, one provider update, one loader; three links (two to one node), two downloads (a duplicate, a changed link beside a node whose tag is taken), one list |
| `updates_stale_list` (violation) | a loader empties a list that an update has written | one provider update, one loader |
| `dns_server` | each question gets its client's answer or none; names and subnets stay; shutdown; a loop that fails alone leaves no question stranded; liveness | some 40 questions one at a time (every host, transport, name, type and malformed shape) in one configuration, several in three others (global mode; AAAA not filtered and real names by the proxy; an upstream that is the listener), and two questions of different clients at once, over TCP and UDP; SIGTERM and failing sockets at any time |
| `cidr` | same addresses, proper and minimal blocks, termination | 3-bit addresses: every pair of blocks with or without host bits, every three without, blank and bad lines; the first and the last address, neighbours, duplicates, nesting |
| `helpers` | helpers end, outbounds are the ones asked for, results whole, reports complete | nine pairs of commands, two ports, three outbounds, one place in the semaphore, batches of two |

With two workers on a small machine `lifecycle` (4.4 million states), `updates`
(1.1 million) and `dns_server` (78 thousand, with large steps) take between two and a
half and three minutes each, `helpers` and `configuration` under two, `lifecycle_disable`
about one; the others take seconds.

The bounds are counters of edits (`MaxEdits`) and of faults (`MaxFaults`): one
edit puts any command's two reads at odds, two return to where the run began; the
scripts hold no history beyond one run except what they leave in the kernel and
on flash, so a further edit or fault starts from a state already explored with
fewer. Invocations are a set, and are not bounded. `DataPath` needs no counters: its
state is finite. Rules interact in pairs (the first that matches wins), so pairs of
every kind of rule reach every order of any two; one client suffices because no
decision reads another client's section, two names because a FakeIP address can
only be confused with another one. In `Updates` a download has two nodes and its tags
need suffixes up to two, which is `MaxSuffix`; what may go wrong between commands
needs one reader beside one writer of each kind. Questions meet only in the sockets,
the context and the process's end, so two of them reach every interference. In
`Helpers`, 4 slots and batches of 32 become 1 and 2, so that the semaphore is at its
limit and the second of two batches is not full; a third command could only be a
second rival for a port. A 3-bit address space has every relation of two or three
blocks (apart, side by side, nested, equal, at either end); `Cidr_proofs` covers 32.

Deadlock is checked everywhere but in `updates` (and in the three runs whose programs
end: `dns_server`, `cidr`, `helpers`): there a failing write, or two
updates, may leave a configuration without the administrator's sections, and then no
command does anything until he writes it again, which the model leaves out.

Fairness: a script that runs goes on (`WF(Script)`), since each of its commands
returns (the probe has a timeout of 30 s, the failing branch is in the model);
and the lock is granted to someone who waits (`WF(Begin)`). Nothing is assumed of
daemons, triggers or the administrator. In `DnsServer` the goroutines run and the
timers fire; hosts, upstreams and signals need not do anything. In `Helpers` a process
that can go on does, since what it waits for has a time limit (5 s for the
helper, curl's `--max-time`, the script's context), but for the `sing-box check` of the
helper's configuration (`CheckBinary`), which is taken to end; helpers, children that hold a
script's output, and the administrator need not act. `Cidr` is one goroutine that runs.

### Findings

- `lifecycle_failed_reload`: on a reload, an invalid configuration stops the
  daemons but not what points at them. A stop repairs it.
- `reload_only`: procd's reload keeps daemons whose command is unchanged.
- `updates_stale_list`: both provider caches are one directory, so mirroring a list
  writes back to the file it was read from, whatever has been written there since.

The models also leave aside cases in which a property is false, and say so
in their assumptions. reserved4 makes room for the default FakeIP range by its text
only: any other range inside a reserved block, which Validate accepts, is returned
before it is captured (`FakeIPRouted` takes a range outside; and with
fakeip_enabled=0, which LuCI never writes, netod still answers with FakeIP addresses
and nothing captures them). `stop_service` removes the rule and route of the mark and table
configured now, so a pair edited since the start stays (`OneMark`). sing-box's domain
routes match sniffed names too and take connections from the outbound of an IP rule
(`IPRuleOutbound` is about connections without a name). Two nodes whose links have one
hash, or a subscription name so long that tags are cut before the hash, may swap tags
(`HashesDiffer`). Others: a lone option of the administrator with neto's value
(`PlainUsers`); a power loss between the removal of the state files and the commit,
after which the listener is moved and the old one stays in dnsmasq (`ReleasedClean`
is checked with one listener); and two sections for one client address, which
Validate accepts: nft takes the union of the direct ones, netod's map the last of
all (`UniqueSections`, and one section per client in the instances).

## Proofs

For every value of the constants (any listeners, servers, marks, configurations,
any bound):

- `DnsmasqTakeover_proofs`: `TypeCorrect`; `ServersKept` (power loss included),
  from a direct induction; `Restores`, `Remembers` and
  `TakeoverImplementsHandoff`, under `PlainUsers` and no power loss, from
  `TakeoverInv`. That invariant says, for each command the script may be at, what
  staged, flash, resolver and the state files hold as functions of the
  administrator's configuration and the listener that was attached (`Shown`):
  the properties speak of "idle" only, and are not inductive because what a
  release leaves depends on what each earlier command left. The refinement maps
  every command but `Reload` to a stutter. `Released` (`ReleasedClean`) holds for two
  reasons, and assumes one of two things: if the only listener is the default one, its
  entry is removed by name whatever the state files say, so that `ReleasingInv`
  (staged, then committed, then running configuration are clean) holds through power
  losses; with other listeners the entry is known from a state file only, and
  `ForgottenInv` with `TakeoverInv` needs the power to stay on. Without either the
  property is false.
- `Lifecycle_proofs`: `TypeCorrect`; `CaptureRouted` (`RouteInv`: inside apply's
  window the mark being installed is the table's); `StopClean` (`StopInv`: what
  each step of stop_service has already removed; assumes `OneMark`, without which
  the property is false), both but for what a failed deletion left (`stuck`);
  `ExposureBacked` (`BackedInv`: a start that submits no daemons has removed an earlier
  exposure, and gets on to the probe only if the service has been enabled again, when a
  reload waits). It is about behaviours in which no check of a start fails
  (`ChecksPass`; `lifecycle_failed_reload` shows one that does) and a service that is
  not registered with procd is not enabled again under a start that found it disabled
  (`EnabledUnseen`: no trigger sees that edit, and a daemon that is terminating may
  answer the probe of the empty set). It is false without either; `apply`, deletions and
  daemons may fail, configurations be invalid, daemons linger. `ExposureProbed` (`ProbedInv`: from the probe on, the run's
  copies agree with what was probed unless the configuration was edited). `RunsEnd`: a
  run takes at most 26 commands (`CommandsLeft` falls with each and nobody else raises it).
  `DisabledIsQuiet`: a disabled service is off the LAN whenever no script runs or waits,
  from `DisableInv` (an edit that triggers no reload finds nothing to take away; one that
  meets a start leaves a reload waiting). It assumes that the router does not reboot:
  with one reboot it is false, since a start that finds the service enabled, and dnsmasq
  still attached, may be followed by an edit before procd has a service to reload.

- `DataPath_proofs`: `TypeCorrect`; `Agreement` from `AgreeInv` (unless a restart is
  due, every copy comes from the file; assumes `LuCI`, without which it is false);
  `FakeIPRouted` from `AgreeInv` and `PoolInv` (no two names share a number, numbers
  given are the first ones, what a client was told is still the name's) and a lemma
  about one configuration, `FakeIPOutbound`: the rule that made netod answer is the
  first domain route of sing-box and has an inbound, and nft captures the packet.
  It assumes FakeIP on, a range outside reserved4 and one section per client, and
  is false without any of them; `DirectBypassed` and `IPRulesRouted`
  likewise, for one section per client. `AllProxied` (`ProxiedEntirely`) needs `AgreeInv`
  and that the enabled outbounds, which are selected in order, are outbounds of the file
  with their tags (`EnabledType`, by the ranks of `Ranks`); a client may have any sections.

- `Updates_proofs`: `TypeCorrect`; `RuleKept` from `RuleInv`: every configuration, on
  disk or about to be written, is `Sound`, that is, each node's tag is made from a hash
  of its own identity, none is the administrator's, and a rule stands only where the
  administrator's sections do. The property alone is not inductive: a tag freed by one
  update may be taken by the next, and a configuration computed earlier comes back.
  Assumes `HashesDiffer`, without which it is false. `OfferedIsKept`
  (`OfferedNodeKept`) says when `ApplyNodes` accepts a download, `OnlyMissingRefused` that
  it refuses no other: copies of one identity are counted by rank (`Copies`,
  `NodeRanks`), the copy of a stored node's rank gets its tag (`StoredTagGiven`), and all
  tags differ (`TagsDiffer`). Both assume `HashesDiffer`. `UpdatesKeepList`: without a loader and a
  failing write the list is never empty (`FillingInv`); run `updates_stale_list` shows
  what one loader does to it.

- `DnsServer_proofs`: `TypeCorrect`; `ServesThePolicy`, the refinement of
  `DnsService`, from `JobsInv`: what netod takes for the client is the host that asked
  in everything the policy looks at (`WireQuestion`, `AddressTypes`: what dnsmasq adds
  is found again), and `result` is what was promised from the moment it is chosen.
  Every action of the goroutines is a stutter but `Ask`, the replies and those that give
  up; `Exit` gives up all at once. `NamesPrivate` and `SubnetsLocal` come from the same
  invariant and from lemmas on what `StripClientSubnet` leaves; `StopNoError` from
  `StopInv`: an error in `errCh` was put there by a failing socket, and a loop's socket is
  closed only by the context or after `Run` has returned. `NobodyStranded`
  (`NoneStranded`) from `StrandedInv`: a loop that is gone while the daemon serves has
  left its error in `errCh`, and there are no open sockets without the daemon.
  `QuestionsGoOn`: a question takes at most eight steps. They assume `ServerAssumption`.

- `Cidr_proofs`, for every width: `TypeCorrect`; `Coverage` and `Proper` from `IInv`,
  which says for each loop which addresses are covered by the ranges read so far, by
  merged and unread ranges together, or by the blocks given out and what remains of the
  merged ranges; that ranges are sorted, merged ones apart by a gap; that the block
  tried is aligned and does not leave its range. The property only speaks of the end.
  `Fewest` (`Minimal`) from `MinInv`, which adds the history of halvings: the block
  tried is the largest that is aligned or the double of it goes beyond the range, and
  what is left of a range after a block is shorter than a block that would complete its
  double. `LoopsEnd`: rounds, addresses and size left fall lexicographically.

- `Helpers_proofs`, for any number of commands, ports and outbounds: `TypeCorrect` (with
  `Counted`: places taken are queries running, or `held` could leave Nat);
  `QueriesAreBounded` from it; `HelpersDoEnd`, `OutboundIsOwn` and `ResultsAreWhole` from
  `SafeInv`: a command without a port has no helper, and two with one port have `shared`.
  `ReportIsWhole` (`ReportWhole`) from `ReportInv`: between batches the report is, in
  order, what comes before the next batch (`Reported`), and who is asked in the second pass
  has answered in the first (`AnsweredTwice`); sorting then keeps what is there.
  `CommandsAdvance`: batches, and within one the steps and queries left, fall
  lexicographically with every step of the command, and nobody else raises them.

`Policy` writes the enabled outbounds as the sequence indexed by their rank, not with
SelectSeq, about which the provers know nothing.

Every invariant and every action property of the passing runs is stated by a theorem.
`BackedExposure`, which is false in `lifecycle_failed_reload`, is proved of the
behaviours named above; TLC agrees on these with two edits and one fault.
Only model-checked are the liveness properties, `DisableTakesEffect`,
`QuestionsEnd`, `StopsWhenTold`, `Terminates` and `CommandsEnd`: fairness and ENABLED are
out of the prover's reach. What is proved of them is that nothing goes on for ever
(`RunsEnd`, `QuestionsGoOn`, `LoopsEnd`, `CommandsAdvance`: TLC need only show that
something can always be done), that no question is stranded (`NobodyStranded`), and that nothing is
left to wait for when the service is off (`DisabledIsQuiet`).
The measures of these theorems are not properties of the runs.

## Plan

Done: the take-over, the lifecycle, policy and data path, the files under update
commands, the DNS server, the normalisation of blocks, and the commands with helpers.
Left, in this order:

1. `Upgrade`: `restart_neto_safely` of install.sh and upgrade.sh over `Lifecycle`, and
   cron jobs with a duration, which outlive a stop.
2. The manual import of links (`importer/links.go`) into the file of `Updates`.
3. Composition of `Lifecycle` with `DnsmasqTakeover` in one state space, through
   `DnsHandoff`.
4. Theorems about 1 to 3, as they come; of what is there, every safety property is proved.

## Not modelled

Text: parsing of share links, of the fields of the configuration, of `ip rule` output,
generated file syntax. LuCI's forms, provider shell scripts, packaging. The status
report and the legacy snippet have no state. Two `netod download` commands to one
output share its temporary file (`main.go` 1227); the scripts that call it use names
of their own, and the model gives every download its own.
