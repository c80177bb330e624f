# Verification of wg-acl-manager

wg-acl-manager is a Flask app that keeps, in SQLite, which WireGuard peer may
reach which targets, and carries that over to the iptables of the WireGuard
server by running generated bash scripts there. It also registers the
peers themselves, live and in the config of wg-quick. This directory holds TLA+
models of it, the TLC runs that check them, and TLAPS proofs about them.

## Inventory

| Part | State it keeps | Operations | Modelled in |
|---|---|---|---|
| `firewall.py`: scripts for one client | none; the scripts edit the kernel's client chains and hook chains | `build_apply_script`, `build_remove_script`, `detect_hook_chain`, `list_remote_wgacl_chains` | `Firewall`, `Target`; what they promise: `ClientFilter` |
| `wireguard.run_on_target` | the running script | start, result, 15 s timeout; bash here (`local`) or over SSH | `Target`, `AclManager` |
| `acl.py` | reads the tables | `apply_client`, `resolve_rule_targets`, `reapply_all_on_startup`, `diff_target_sets`; `import_peers_from_config`; `build_netzplan_data` | `AclManager`; import in `PeerRegistry`; `Netzplan` |
| `routes/permissions.py` | tables `clients`, `rules` | add, toggle, move, delete a client; add, delete a rule; full-access matrix; apply one or all; import, type of a client | `AclManager`, `PeerRegistry` |
| `routes/maintenance.py` | none | `cleanup_orphaned_chains` | `AclManager` |
| `routes/services.py` | table `services` | add, delete unless in use | `AclManager` |
| `tags.py`, `routes/tags.py` | tables `tags`, `client_tags` | create, delete, members of a group; a platform's group | `AclManager`, the last in `PeerRegistry` |
| `db.py` | the SQLite file | connection per request, `init_db`, migrations | `Schema`; tables, ids and cascades in `AclManager` and `PeerRegistry` |
| `__init__.py`, `entrypoint.sh` | the process | start, reapply in local mode, then serve with waitress | `AclManager` |
| `wireguard.py` (peers), `provisioning.py`, `networks.py` | live WireGuard peers, `<iface>.conf`, routes, `client_networks` | register a peer (by hand or with a desktop config), change its AllowedIPs or its address, suggest a free IP, parse the config | `PeerRegistry`, `PeerConf` |
| `routes/netzplan.py` | none | draw the tables | `Netzplan` |
| dashboard, maintenance page | none | read and format | no: they change nothing |
| `config.py`, `auth.py` | none | environment, password check | no: constants, stateless |

How they interact: a request thread commits its change to SQLite, reads the
client and then its rules in separate statements, and calls `run_on_target`
one to three times (the probe for `DOCKER-USER`, the listing of chains, the
script). Nothing locks: waitress runs requests on several threads, each script
is a process of its own on the server, and all of them edit the same hook
chain. In local mode the start of the app applies every client once, before
it serves. Requests for peers run one script that changes the kernel's peers
(`wg set`), its routes and `<iface>.conf`, and keep the networks behind a peer
in `client_networks`; `wg-quick` builds the kernel's side from the file at
every start of the server.

What is hard here: two requests whose reads and scripts interleave; scripts
cut short between "flush" and "DROP"; a probe that fails and is taken for an
answer; a script that outlives the 15 s its caller waits; `netfilter-persistent
save` in the middle of somebody else's script, and the boot that restores it;
requests that go on after a step has failed; a config file that the app
appends to, rewrites through one temporary name, and shares with an
administrator's editor.

What makes each part correct: the scripts keep the order of the hook chains,
never lose a DROP to concurrency, and each changes what its own client meets
and nobody else (`Target`); a request that reports success has left the server
as the tables say, and it stays so until somebody changes the rows; rules go
only when somebody means it; nothing is left of clients that are gone; every
request is answered (`AclManager`); the network plan shows what is enforced
(`Netzplan`); a peer is the same in the kernel, in the routes, in the config
and in the tables, and who is told otherwise is told the truth
(`PeerRegistry`); parser, grep and awk see the same blocks in the config
(`PeerConf`); nobody is served by a database that is not up to date
(`Schema`). `PROJECT.json` lists the hazards at their lines with the
properties that cover them.

## Modules

- **`Firewall`**: the data. A client chain is kept up to its verdicts: the
  ACCEPT lines in front of the first DROP, and whether there is a DROP. A hook
  chain (`DOCKER-USER`, `FORWARD`) is a sequence of jumps (named by the
  client's address), the established rule, and foreign rules (`Mesh`). The two
  scripts are records: address, hook, lines still to append, line to run next.
- **`Target`**: the server. `chains`, `hooks`, `saved` (what a boot restores)
  and `script` (one slot per thread of the app, and slots for scripts nobody
  waits for). One action per iptables command: `NewChain` (-N), `Flush` (-F),
  `AppendAccept`, `AppendDrop`, `CheckEstablished` / `InsertEstablished` and
  `CheckJump` / `InsertJump` (the two halves of `-C || -I`), `Unhook` (-D),
  `Clear`, `DeleteChain` (-X), `Save`; `Abort` is `set -e` at a line that
  fails. `Start`, `Collect`, `Kill`, `Detach` are what `run_on_target` can do
  to a script. `TargetSpec` lets any script start at any time: it is an open
  system, and the abstract specification `AclManager` is checked against.
- **`ClientFilter`**: the abstract specification of `firewall.py`. A client is
  open or meets a filter of its own; a job that applies may give its client a
  filter that adds no foreign line, a job that removes may open its client, and
  nothing else happens to any filter, short of a reboot. No hook chains, no
  order of commands. `Target` implements it: `filter` is what a packet meets on
  its walk through the hook chain (`Meets`), `work` what a script has still to
  do (`WorkOf`). `ScriptsKeepToTheirClient` is the property.
- **`AclManager`**: extends `Target` with the tables (`clients`, `rules`,
  `services`, `tags`, `members`, and `autoinc`, the last ids given out) and the
  requests. One action per SQL statement or call to the server, named after the
  handler for the first one (`toggle_client`, then `ToggleWrite`, `Reread`,
  `Detect`, `ReadRules`, `ResolveGroup`, `FinishRun`, `Reply`). A handler that
  is one transaction is one action. `req[t]` is what thread t has read so far:
  stale reads are in the model because the code keeps them in local variables.
  `set_client_wg_ip` goes through `Detect` twice, first for the removal of the
  old chain, then, after `Readdress` (the UPDATE that a UNIQUE column can
  refuse), to apply the new address. The full-access matrix reads the rules
  (`ReadGrants`) and writes the difference (`Grant`) in two steps;
  `delete_service` counts and deletes in two steps.
- **`Netzplan`**: the nodes and permission edges that `build_netzplan_data`
  draws, as functions of the tables, and what a reader takes them to mean.
- **`AclClaims`**: what the README and the app's messages say, and the code
  does not keep.
- **`PeerRegistry`**: on its own, since it shares only the rows of `clients`
  with the rest. `live`, `routes` (kernel), `conf`, `tmp` (files), `clients`
  (with `client_networks`), `tag` and `tagged` (the group of a platform and its
  members) and `req[t]`, the request of a thread with what it has read. The
  scripts of `register_peer_on_target` (`WgSet`, `RouteReplace`, `Grep`,
  `AppendBlock`) and `set_peer_allowed_ips` (`WgSet`, `RouteReplace`,
  `OpenTmp`, `Awk`, `Rename`) run command by command. A command that fails ends
  them (`CommandFails`), but for the routes: `2>/dev/null || true` passes over
  those that the kernel refuses (`RouteReplace` picks which). That the shell opens and
  empties `$CONF.tmp` before awk runs is a step of its own, and a file that was
  renamed under an open handle is still written to. A block of the config keeps
  what the app reads of it: key, host address, `#IP:` comment, networks, and
  whether the awk program would recognise its lines (`plain`). A registration
  goes on transaction by transaction: the client, the SELECT and the INSERT of
  the platform's group, the memberships, the networks. The import does, too
  (`Batch`). `set_client_wg_ip` is modelled here for its peer: read the config,
  rewrite the block if there is one, then the UPDATE, whatever the script said.
  `Reboot` is `wg-quick up`. `suggest_free_ip` (`provision`, `FetchSubnet`,
  `FetchInUse`, `SuggestFree`) reads the config twice, and a second read that
  fails gives no peers.
- **`PeerBlocks`**: a block of the config, shared by `PeerRegistry` and
  `PeerConf`: what the app reads of one, and what the awk program makes of a
  sequence of them.
- **`PeerConf`**: the same config as lines, written by an administrator
  (`Write`) and by the two scripts, each a single step. The parser
  (`ReadLine`, folded over the file), grep (`Mentions`) and awk (`Names`,
  `Starts`, `InPeer`, `Replaced`) look at the lines each in their own way.
  `Blocks` says by positions, without running a parser, which block each line
  belongs to; the properties compare the programs with it, and so justify
  that `PeerRegistry` keeps blocks.
- **`Schema`**: `get_db`, `init_db` and `run_migrations` on several threads.
  One action per statement that commits: `CreateTable`, `ReadColumns` (PRAGMA),
  `AlterTable`, `SeedServices` (one transaction), `SetReady`; `Restart` at any
  point. A thread keeps the columns it has read (`seen`). Threads share nothing
  but the file and `_db_ready`.
- **`TargetProofs`** (about `Target` and `ClientFilter`), **`AppProofs`**,
  **`SettledProofs`**, **`MatrixProofs`**, **`ResidueProofs`** (about `AclManager`,
  the second also about `Netzplan`), **`PeerProofs`** (about `PeerRegistry`),
  **`ConfProofs`** (about `PeerConf`), **`SchemaProofs`** (about `Schema`): the
  theorems. What an invariant needs to be inductive is defined
  at the end of the module it is about, where TLC can check it as well.
- **`MCTarget`, `MCAcl`, `MCPeers`, `MCConf`, `MCSchema`**: instances for TLC.

Definitions marked "Mutant" are deliberately wrong variants of the definition
below them; no specification uses them. Each breaks one property when it is
put in place of the right one, which shows that the property depends on the
code.

`opened`, `disturbed` and `standing`, and `refused` and `astray` in `PeerRegistry`,
are history variables: no action's guard reads them. `opened` remembers why a chain has no DROP, `disturbed` which
requests somebody else has meddled with (a change of their rows or policies,
another script for one of their clients, a reboot under them; for a change of
the matrix also a change of the rules it has read, `Regranted`; of an apply that
is still reading, only changes to what it has already read count, statement by
statement: `Reading`), `standing` what
the last answer said of each client, until its rows change or somebody else's
script works on its address. Scripts for other clients do not count: that they
are harmless is what is checked. `refused` collects the routes that the kernel has
refused since the last boot, `astray` remembers that since then a script has left
kernel and file different by itself (`GoesAstray`): it broke off behind its `wg set`,
it registered a key that the file has already, or it changed a peer whose block is in a
foreign style or shares an address with another block.

## Properties

- `EstablishedFirst`, `JumpsBeforeMesh`: the order of the hook chains under any
  interleaving of `-C || -I 1` and `-C || -I 2`.
- `DropNeverLost`: a hooked chain without DROP is just being filled, or was
  left so by a removal, a broken script or a boot. Two apply scripts for one
  client can mix their lines, but the one that appends last ends with a DROP.
- `ScriptsKeepToTheirClient`: `Target` implements `ClientFilter`.
- `SettledStaysEnforced`: when a request answers with success and nobody
  meddled with its client, the client's traffic meets exactly what the tables
  say, whatever was on the server before, and it *stays* so until its rows
  change, a reboot, or a script on its address that is not of a request about
  it; requests for other clients and cleanups run on meanwhile. For `apply_all`
  and the start-up it holds for all clients.
- `NoResidue`: without faults and with one request at a time, only restricted
  clients of the tables have a chain or a jump between requests, after any
  sequence of adding, toggling, moving and deleting.
- `PlanShowsChains`: for such settled clients the network plan shows what the
  packets meet on the server, services and group members resolved.
- `FullAccessAsChosen`: after an undisturbed change of the matrix the client has
  full access to what was chosen and to nothing else, unless it read two rules
  for one destination.
- `RulesGoByRequest`: a rule disappears only by a request that names it, its
  client or its group, by a matrix without its destination, or by its service,
  and then it was added after `delete_service` had found the service unused.
- `RequestsEnd`: every request is answered.
- `RegisteredAsReported`: a registration that answers with success has stored
  client, networks and group, unless it says that the client existed, and then
  it has not created it.
- `SuccessMeansPersisted`: a registration, a change of networks or of the address
  that reports success and has changed a peer leaves the client's row, the config
  and the kernel in agreement, so that the next start of `wg-quick` brings back
  what is live; and it leaves the peer's routes, but for those that the kernel has refused, of
  which the answer says nothing. Left out: a key that the config has already (the
  code does not duplicate it and leaves the old block), blocks the awk program
  does not recognise, and requests that have not found a peer to change
  (`MCMovedAlone.cfg` shows one of them).
- `ImportComplete`: after an import every peer of the config with an address of
  its own has a row, across all of its transactions.
- `OthersUntouched`: no step changes the blocks of a peer no script is just
  working on.
- `KernelMatchesFile`: between scripts, a start of `wg-quick` would build the very
  peers that the kernel has, all of them and after any number of requests: `wg set`
  takes a contested address from the same peer that the order of the blocks does,
  and what an append or awk does to the file is what `wg set` has done
  to the kernel. It would add only routes that were refused. The exceptions are
  those of `astray`, and the next boot ends them.
- `ParserReadsBlocks`: the parser reads every block, whatever its spelling and
  wherever it ends, tells the name from the `#IP:` hint, and `peer_own_ip` and
  `peer_managed_networks` make of it what `PeerRegistry` makes of its blocks.
- `RewriteActsOnBlocks`, `RegisterActsOnBlocks`: on the blocks, what the two
  scripts do to the lines is `Rewritten` and the appended block of
  `PeerRegistry`. They hold for an administrator who writes the headers of peers
  as the app does and comments no key out (`AppStyle`).
- `OtherPeersKept`, `RegisteredSurvives`: what the docstrings of the two functions
  promise of the config. It holds for such an administrator, and not for
  others (see below).
- `TextInv`: why it does. A line that names a key is the key line of one block,
  and awk recognises the header of that block.
- `ServedMeansMigrated`: whoever gets a connection finds every table, column and
  builtin service, however many threads migrate and wherever the process was
  killed. `OnlyAdds`: nothing is removed or overwritten. `OnlyRacesFail`: a
  migration fails only while another one goes on, or after one has got done in
  the same process; what a killed migration has left makes none fail.
  `SomebodyGetsThrough`: racing migrations fail each other's requests, not all
  of them.
- `TargetSpec` as a property of the app: requests use the server only through
  the scripts and `run_on_target`. So the theorems about `Target` hold for the
  app, for every value of the constants (`AppImplementsTarget`).

## Runs

| Run | Instance | Shows |
|---|---|---|
| `target` | 2 addresses, 2 scripts at once (one can be left behind), kills, reboots | the four properties of the server, and `ClientFilter` |
| `sequential` | 1 thread, 2 client rows on 2 addresses, 2 rules, 1 group, 13 requests, Docker, persistent | success means enforced, and stays so; no residue; the plan shows it |
| `editing` | 2 threads, 1 client, 2 rules, 2 services, matrix, deletions, cleanups | rules go only when meant; the matrix gives what was chosen; what others do meanwhile does not spoil a success |
| `local` | local mode, probes lost, scripts killed, restarts, reboots that restore a snapshot, a refused destination | the reapply repairs what it reports as done; implements `Target` |
| `ssh` | ssh mode, scripts that run on, restarts, reboots, a refused destination | the same, and every request is answered |
| `peers` | 1 thread, 2 keys, 2 addresses, 1 network, 3 requests of 8 kinds, four configs, failing commands, refused routes, unreadable configs, reboots | peers agree in kernel, routes, config and tables after a success, kernel and file between scripts; imports are complete; no other block is touched; reports are true |
| `conf` | 2 keys, 2 addresses, 1 network, 5 lines written by hand, in several spellings | parser, grep and awk agree with the blocks of `PeerRegistry`; what is registered can be read, other peers are kept, and why |
| `schema` | 3 threads, 3 databases, 2 restarts | the schema is complete before anybody is served; additive; only races fail, and somebody gets through them |
| `open_chain`, `stale_rules`, `readdress`, `rewrite_race` | one or two threads | violations, see below |

Configurations beside these runs, for `tlc -config <file> <module>`:
`MCConcurrent.cfg` (`MCAcl`) checks `SettledStaysEnforced` for two threads and
two clients and finds no error; the others end in the violations below.

The bounds: two addresses are what a disturbance between clients needs (they
only share the hook chain); two scripts at once are what every race in
`firewall.py` needs, and the theorems cover any number. Two client rows on two
addresses let a client move, be refused an address, and be added again at the
address of one that is gone; two rules let a rule be deleted while another
stays, and let the same rule be there twice; one group besides one destination
makes `resolve_rule_targets` read twice; two services let one be deleted while
the builtin one stays. One refused target is one way to fail in mid-script;
in `local` and `ssh` it is the only target, since chains with accepted targets
are in the other runs. In `peers`, two keys and two addresses let peers
claim each other's address or network, and the four configs are
an administrator's computer with an `#IP:` comment, a block in a foreign
style next to a router, two peers that name the same address, and two routers
of one network; three requests can create a client, change its peer, and meet
with the result. The theorems
about one thread hold for every config to begin with. In `conf`,
five lines by hand are a block with all of its parts, or the borders of three
blocks; the scripts add up to two blocks to them. In `schema`, the databases
are a new one, one of the first version, and one that a killed migration left
with a column missing and somebody's own service by the name of a builtin one;
with three threads, two can fail because of the third.

The names of the bounds: `MaxClients`, `MaxRules` and `MaxServices` are the rows
ever inserted into each table, `MaxRequests` the requests ever begun in
`PeerRegistry`, `MaxLines` the length up to which the administrator writes a
config, `MaxRestarts` the restarts in `Schema`; a matrix change is begun only when the rules it may add have
room (`RoomForRules`). Every other variable is finite by itself. Addresses and
threads are interchangeable, so the runs without a liveness property use
symmetry (`TargetSpec` is a safety property, evaluated on every step TLC takes).

Fairness: `RequestsEnd` assumes that a thread that can go on does (the
operating system schedules it), and that a script that runs is timed out at
the latest (`timeout=15` in `run_on_target`). Nothing is assumed of the
server: a script may stop for ever at any line. `SomebodyGetsThrough` assumes
only that threads go on, not that anybody makes another request.

### Where the code differs from what it says

- `open_chain`: `validate_dest_ip` accepts IPv6 destinations. The `-A` line
  fails, `set -e` ends the script between the flush and the DROP, and the jump
  of an earlier apply sends the client through a chain that ends in nothing.
- `stale_rules`: two requests for one client, both reported as applied, and the
  chain has the rules of neither's tables.
- `readdress`: `set_client_wg_ip` takes the old chain away, then meets the UNIQUE
  column, says that the address exists and returns: the client it has not moved
  is no longer filtered.
- `rewrite_race`: two changes of networks use the same `$CONF.tmp`. One renames
  it to the config right after the other has emptied it: no block is left.

Nine more, each with a configuration of its own that ends in the violation of
the property named:

- `MCLostNetworks.cfg` (`RegisteredAsReported`): two first registrations for a
  platform create its group at once. The loser is told that its client existed
  before (routes/provisioning.py:238-241); it has just created it, and its
  networks are not stored.
- `MCNetworksRace.cfg` (`StoredNetworksAreLive`): two changes of one router's
  networks, both reported as set on the server (routes/networks.py:50); the
  table has the later one, the server the earlier one.
- `MCRefusedRoute.cfg` (`SuccessMeansRouted`): the kernel refuses a route, `|| true`
  passes over it, and the update is reported as done (routes/networks.py:50),
  although the script is to make sure of a route for every network
  (wireguard.py:285-286).
- `MCMovedAlone.cfg` (`NoPeerToMove`): a config that cannot be read counts as one
  without the client's peer. The row moves, the peer keeps its old address, and
  the answer is a success that says that there was no such peer
  (routes/permissions.py:292-295).
- `MCSuggest.cfg` (`SuggestionAvoidsPeers`): the config is read for the subnet
  and again for the peers. If only the second read fails, taken addresses are
  suggested, which provisioning.py:25-27 says it excludes.
- `MCStrayRewrite.cfg` (`OtherPeersKept`): awk resets its state at `[Peer]` only.
  The AllowedIPs of a block that begins with `[peer]`, which wg-quick and the
  app's parser accept, are replaced together with those of the block before it,
  although the line is replaced "ohne andere Peers oder Zeilen zu beruehren"
  (wireguard.py:318-319).
- `MCCommentedOut.cfg` (`RegisteredSurvives`): grep takes a commented-out key for
  a registered peer, and the peer that is registered live has no block for the
  next start (provisioning.py:476-478).
- `MCDoubleRule.cfg` (`MatrixTogglesAccess`): the same rule added twice, then
  taken away in the matrix. One of the two stays, and the answer counts the
  destination as removed (routes/permissions.py:442, :452; README.md:219-222).
- `MCMigrationRace.cfg` (`MigrationsRepeatable`): two first requests after an
  update both find a column missing; one of them is answered 500, although
  migrations are "gefahrlos wiederholt ausfuehrbar" (db.py:108-109).

Not counted as a difference, though near one: a new restricted client has no
chain until something applies it (README.md:193-195 can be read either way); a
delete ignores whether its remove script succeeded; a block in a foreign style
is left alone by a change of networks that reports success.

## Proofs

For any number of addresses, targets, groups, threads, late scripts, rows, keys,
configs and lines in them, with or without Docker and persistence, in local and
in ssh mode (finite or infinite; the destinations of the matrix, the addresses in
`PeerRegistry` and the networks in `PeerConf` are finitely many, since the ids of
the rows count them and a line of the config lists them):

| Theorem | States | Module |
|---|---|---|
| `TargetTypes` | `TargetSpec => []TargetTypeOK` | `TargetProofs` |
| `EstablishedStaysFirst` | `TargetSpec => []EstablishedFirst` | `TargetProofs` |
| `JumpsStayBeforeMesh` | `TargetSpec => []JumpsBeforeMesh` | `TargetProofs` |
| `DropIsNeverLost` | `TargetSpec => []DropNeverLost` | `TargetProofs` |
| `TargetImplementsClientFilter` | `TargetSpec => ScriptsKeepToTheirClient` | `TargetProofs` |
| `AppTypes` | `Spec => []TypeOK` | `AppProofs` |
| `AppImplementsTarget` | `Spec => TargetSpec` | `AppProofs` |
| `AppKeepsToItsClients` | the app keeps `ScriptsKeepToTheirClient` and the invariants of `Target` | `AppProofs` |
| `RulesGoOnlyIfMeant` | `Spec => RulesGoByRequest` | `AppProofs` |
| `AddressesStayUnique` | `Spec => []UniqueAddresses` | `SettledProofs` |
| `SettledClientsStayEnforced` | `Spec => []SettledStaysEnforced` | `SettledProofs` |
| `PlanShowsWhatPacketsMeet` | `Spec => []PlanShowsChains` | `SettledProofs` |
| `FullAccessIsAsChosen` | `Spec => []FullAccessAsChosen` | `MatrixProofs` |
| `AloneLeavesNoResidue` | `Spec => []NoResidue` for one thread, no faults, no refused targets | `ResidueProofs` |
| `PeerTypes` | `Spec => []TypeOK` | `PeerProofs` |
| `AloneRegisteredAsReported` | `Spec => []RegisteredAsReported` for one thread | `PeerProofs` |
| `AloneSuccessMeansPersisted` | `Spec => []SuccessMeansPersisted` for one thread | `PeerProofs` |
| `AloneImportComplete` | `Spec => []ImportComplete` for one thread | `PeerProofs` |
| `AloneKernelMatchesFile` | `Spec => []KernelMatchesFile` for one thread | `PeerProofs` |
| `AloneOthersUntouched` | `Spec => OthersUntouched` for one thread | `PeerProofs` |
| `ConfTypes` | `Spec => []TypeOK` | `ConfProofs` |
| `ParserAlwaysReadsBlocks` | `Spec => []ParserReadsBlocks` | `ConfProofs` |
| `InStyleText` | `Spec => []TextInv` under `AppStyle` | `ConfProofs` |
| `InStyleRewriteActsOnBlocks` | `Spec => []RewriteActsOnBlocks` under `AppStyle` | `ConfProofs` |
| `InStyleRegisterActsOnBlocks` | `Spec => []RegisterActsOnBlocks` under `AppStyle` | `ConfProofs` |
| `InStyleRegisteredSurvives` | `Spec => []RegisteredSurvives` under `AppStyle` | `ConfProofs` |
| `InStyleOtherPeersKept` | `Spec => []OtherPeersKept` under `AppStyle` | `ConfProofs` |
| `SchemaTypes` | `Spec => []TypeOK` | `SchemaProofs` |
| `ServedAreMigrated` | `Spec => []ServedMeansMigrated` | `SchemaProofs` |
| `MigrationsOnlyAdd` | `Spec => OnlyAdds` | `SchemaProofs` |
| `OnlyRacersFail` | `Spec => OnlyRacesFail` | `SchemaProofs` |
| `AloneMigrationsRepeat` | `Spec => []MigrationsRepeatable` for one thread | `SchemaProofs` |

**`Target`.** The three invariants are not inductive; `TargetInv` strengthens
them:

- `HooksInv`: both the live and the saved hook chains satisfy `HookOK`, which
  also says that an established rule anywhere means one at position 1 (two
  scripts can both insert it), and a script that is past its established line
  finds that rule in its hook. Without the second part `InsertJump` could put
  a jump at position 2 behind a foreign rule.
- `DropInv`: every address that is hooked, *or that a script is about to hook*,
  has its DROP or an explanation. Without "about to", the step that inserts
  the jump would have to know what happened to the chain since.

Each conjunct has a step lemma (`TypeStep`, `HooksStep`, `DropStep`) with one
case per action; `InsertEstablishedOK`, `InsertJumpOK` and `RemoveJumpOK` say
what the three edits do to a hook chain that satisfies `HookOK`, over the
lemmas `InsertAtProperties` and `RemoveAtProperties` about sequences.

The refinement of `ClientFilter` needs `JumpInv` besides: no jump, live or
saved, leads to a chain that is not there, because `-X` refuses to delete it.
With `HookOK` no foreign rule stands before a jump, so what a client meets is
its chain if it is hooked and nothing otherwise (`MeetsIs`); the `...Effect`
lemmas say which clients the three edits hook and unhook, and each command is
then shown to be a step of `ClientFilter` (`...Refines`): mostly `Schedule`,
for `Flush`, `AppendAccept`, `AppendDrop` and `InsertJump` an `Apply`, for
`Unhook` and `Clear` a `Remove`.

**The app.** That a step of the app is a step of `Target` hangs on the scripts
it starts being scripts, so on what its threads have read. `AppInv` says that:

- every request is a `SoundRequest`: what its next step uses has been read and
  is of the right kind (`RequestOK`), and the hook it has detected is one the
  server has;
- `ReferencesInv`: no rule names a service that is gone (the cascade), and the
  builtin one stays, so every rule that is read has a line (`Filter`).

There is a lemma per action; `AppStep` gives `AppInv'` and `[TargetNext]_tvars`
at once, because each needs the other's unprimed half. From there `TargetInv`
and the refinement of `ClientFilter` carry over to the app without looking at a
script again. `RulesGoByRequest` needs `RuleIdsInv` on top: ids are given out
once (AUTOINCREMENT), so an id that the matrix or `delete_service` holds still
names the rule it was read for, or none. The bounds on rows play no part in
these proofs.

**Settled clients.** `SettledStaysEnforced` speaks of what is on the server long
after a request has answered, so `SettledInv` has to follow the request from
what it reads to what its script leaves behind:

- `UniqueAddresses` (the UNIQUE column): scripts for two clients never share a
  chain. `PhaseInv` says which steps belong to which request, `OwnersInv` that a
  running script works on the client its thread has in hand, and that of a
  cleanup on no address the cleanup knew to be a client's.
- `CourseInv`: an undisturbed request is `OnCourse` for each client it is about:
  the client is still before it, or in hand as the tables have it, with lines
  that add up to its policy (`Resolved`) and a script that will get there
  (`Applies`, `Clears`), or enforced behind it.
- `StandingInv`: a client whose last answer was a success is enforced, or
  another request about it is on its way, which then answers for it.

The proof has a lemma per command for a script that keeps its course
(`AppliesStep`, `ClearsStep`), one for scripts on other addresses
(`CommandElsewhere`, which rests on `TargetInv`: other scripts share only the
hook chain), and then one per action of the app. Whatever could break the
invariant is, by the definition of `disturbed`, somebody meddling; what is
proved is that nothing else can, with any number of threads.
`PlanShowsWhatPacketsMeet` follows with `RulesHaveClients` (the cascade: no
rule outlives its client), since an edge is drawn only for a rule with a client.

**The matrix.** `AccessInv`: what an undisturbed change has read (`Granted`) is
what there is until it writes, and what it has written is as chosen
(`AsChosen`) until it answers. The pending changes have room for the rules they
may add (`RoomInv`), so `Grant` never meets the bound; this is where
`RoomForRules` has to be an invariant and is not a guess.

**No residue.** `NoResidue` speaks of the moments between requests, so
`ResidueInv` has to say what a request owes while it runs. An address that is
not `Tidy` is `Unsettled`: the script that is on it will see to it, or the
toggle of its client will. `Tidies` says of each line of a script what is there
by then and that the last one leaves the address bare, or filtered for a
restricted client that exists; `HandOK` that the row a request has in hand is
the one in the table, and that a client is erased or moved only when its old
address is bare. `OneJump` is what makes `iptables -D` enough: there is at most
one jump to a chain, and it is in the hook chain that the probe finds
(`SingleInsert`, `SingleRemove`). Three hypotheses are needed and named in the
theorem. With a second thread, an apply that has read a row may run after the
deletion of its client; with faults, a probe that fails looks for the jump in
FORWARD, and a script that breaks off leaves what it had done; a refused target
breaks a script off as well. TLC finds residue in each of the three cases.

**Peers.** `PeerInv` is `TypeOK` with the ids of rows (`RowsInv`: 1, 2, ... without
a gap, so there is one for the next), and says what each step of a request may
rely on (`RequestOK`); it holds for any number of threads, even those that race
for `$CONF.tmp`. The safety properties are those of a single thread:
with two, `rewrite_race` and `MCLostNetworks.cfg` are counterexamples, and
waitress serves more than one. So the theorems say that the sequence of
commands, transactions and failures is right, and that only interleaving can
spoil it. `AloneInv` follows the one request: what it has recorded
(`RecordOK`), what it knows of its client (`ChangeOK`), what its script has done
and will leave behind (`ScriptOK`: the temporary file is the config rewritten),
what an import has read (`ImportOK`). Commands may fail, routes may be refused,
reads may fail, and the server may reboot between any two steps.

`KernelMatchesFile` compares all peers at once, so it needs more than the one
request's own (`AgreeInv`): unless something is astray, the kernel is the loaded
file, or, while a script is on its way from `wg set` to the file, what `wg set` has
made of it (`AgreeOK`). Two lemmas close the gap when the file follows:
`LoadedExtended` (an appended block takes its addresses from every other peer, as
`wg set` does, since the last block wins) and `LoadedReplaced` (a rewritten block
keeps its place, so it does what `wg set` does only where nobody else claims the
addresses; hence the exception for contested ones).

**The config.** The parser is a fold over the lines, so what it returns for every
config is an induction over their number. The induction theorems of the library
cannot be used (they take an operator); what can be used is that `<` on the
numbers is well-founded, hence that a set of numbers that is not empty has a
least element (`LeastNat`): if some number of lines were read wrongly, take the
least, and the line before it was read rightly. `FoldExists` and `ReadingByLine`
say so that `FoldLeft` reads line by line. `ReadUpTo` is the invariant of the
parser: of the first n lines it has the blocks in their order, the last one in
`current`, each as `Written` up to line n, and `first` exactly right under a header.
`HeaderRead` and `OtherRead` carry it over a line, `ReadAll` is the induction, and
`ParserAlwaysReadsBlocks` the result, for any administrator.

grep and awk look at the text, and are right about the blocks only where
`TextInv` holds. It is inductive under `AppStyle`, which the passing instance
satisfies; that it is needed is what `MCStrayRewrite.cfg` and `MCCommentedOut.cfg`
show, each of which breaks one half of it. `KeysInv` makes the key of a block
the only one (`OneKey`); `InPeerIs` is what awk knows when it comes to AllowedIPs
of a block, `MentionedIs` what grep's answer means. A rewriting keeps every line
but the values of AllowedIPs (`Retold`), an append keeps every line
(`Continues`); so `BlockRewritten` and `BlockAppended` say block by block what
becomes of the config, and the theorems on what the parser reads then follow
place by place (`EveryPlace`, `PeerByPeer`).

The attempt to prove `ParserReadsBlocks` found the model at fault:
`peer_managed_networks` left in a peer's own address, if only the `#IP:` comment
tells that it is its own, and host routes inside of the mesh
(wireguard.py:256-259). In `PeerBlocks` it now takes both out.

**`Schema`.** `MigrationInv`: a thread's position implies the tables, columns
and services of the steps behind it, `_db_ready` implies all of them, and what
a thread has seen of the columns is still there. Everything follows from one
fact, that no step removes anything (`Grows`), which also gives
`MigrationsOnlyAdd`. `RaceInv`, for `OnlyRacesFail`: a thread is `Late` if a column
it has yet to add, and has not seen, is there by now. Nobody is late but behind
somebody who is not, and a late thread meets a column that is there before it
meets one it would add, so it cannot make the leader late. For one thread `AloneInv` adds that what it has seen of
the columns it has yet to add is what is there.

The assumptions are those of the modules: `FirewallAssumption` (the established
rule, foreign rules and jumps are told apart; a refused target is a target; the
hook chains of a fresh server hold foreign rules only), `TargetAssumption`
(threads and late scripts have slots of their own), `ScriptAssumption` and
`WorkAssumption` (the marker of an empty slot is no script and no work),
`AclAssumption` (destinations and addresses of members with
their filters are targets, groups are no addresses, bounds are numbers, and in
local mode no script outlives its caller), `PeerAssumption` (configs are
sequences of blocks, markers are no keys, addresses or rows),
`ConfAssumption`
(addresses, networks and markers are told apart, there are finitely many
networks, and the administrator writes lines), `SchemaAssumption` (old
databases have no column without its table). TLC evaluates them on every run.

Only model-checked is liveness: `RequestsEnd` and `SomebodyGetsThrough` are out
of the prover's reach. Every other property of a passing run is stated by one
of the theorems, those of `PeerRegistry` and `NoResidue` for one request at a time.

## Modelling decisions

- An iptables command is atomic and fails only for the reasons `Abort` names.
  The scripts do not pass `-w`, and the loss of the race for the xtables lock is not
  modelled. In an apply script it would look like a rejected line. In a remove
  script `|| true` (firewall.py:142-144) would swallow it, and the script would
  report success with the jump or the chain still there.
- When bash is killed, the iptables command it runs counts as done or as not
  started.
- Tunnel addresses are IPv4, so `chain_name` is injective and names the chain.
- The order of ACCEPT lines in a chain is left open (the SELECT has no
  ORDER BY, and the verdict does not depend on it). So is the order in which
  the matrix inserts its rules.
- A service is its protocol and port; a tcp or udp service without a port gives
  a line that accepts every protocol, as the code does (`Filter`).
- `apply_log` is written and shown, never read for a decision; it is left out.
- `build_netzplan_data` reads the clients and the rules in two SELECTs; the
  model reads them at one instant.
- In `PeerRegistry`: rows are not deleted, a script does not outlive its caller,
  and a route is named by its network, whatever peer it was added for. Any of a
  script's routes may be refused, in any combination. A
  leftover `$CONF.tmp` counts as none, because the next script empties it
  before anything reads it.
- A restart over SSH leaves at most one script running on.
- In `suggest_free_ip` the range of a client's kind is the set of addresses, and
  which of the free ones is the lowest is left open.
- In `PeerConf` lines that neither parser nor grep nor awk looks at are left
  out, and so is `AllowedIPs` with text that is no network.
- In `Schema` SQLite's locks never time out: a writer waits for the other
  (5 s by default) and the migration of a small file is shorter.

## Not modelled

- The client scripts and configs that provisioning renders: text for machines
  outside the system.
- `set_client_system`: a label that only selects which text is rendered.
- `parse_iptables_rules`, `annotate_ips`, `check_ip_forward`,
  `build_rules_context`, `build_ip_label_map`, `peer_lookup_maps`, dashboard and
  maintenance page: they read and format.
- Positions, labels and tunnel edges of the network plan: layout.
- Configuration and authentication: constants and a stateless check.

## Plan

Open: scripts of `PeerRegistry` that outlive an SSH timeout, as `Target` has them;
the deletion of a client that has a peer; and the step from the blocks of
`PeerConf` to those of `PeerRegistry` as a refinement, with its commands one by
one.
