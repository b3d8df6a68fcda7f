# middleWHERE in TLA+

middleWHERE is a database access broker. A daemon, `mwsqld`, holds the real
backend credentials in a sealed file, opens SSH tunnels to bastions, and serves
one MySQL or PostgreSQL listener per *env*; a client authenticates with the
env's token and every statement passes a firewall. An administrator changes the
configuration with `mwsqlctl`, through the daemon's control channel or, when no
daemon answers, by editing the sealed file directly.

This directory models the parts of that system whose correctness depends on the
order of steps, failures and concurrent requests; checks them with TLC on small
instances; and proves the main invariants with TLAPS for every instance. Paths
below are relative to `src/crates/`.

## Inventory

| Component | State | Operations | What makes it correct |
| --- | --- | --- | --- |
| Configuration (`mw-core/src/config.rs`, `mutate.rs`) | bastions, credentials, envs | eleven transforms, `validate` | every reference resolves, ports are unique, auth kind fits the engine |
| Sealed store (`mw-core/src/state.rs`, `seal.rs`) | `config.sealed`, `.bak`, `.tmp`, master key | `init`, `load_config`, `save_config`, `with_config` | no acknowledged edit is lost, readers see whole and current configurations |
| Env table (`mwsqld/src/lib.rs`) | handle and published runtime per env, `config_write` | `bind`, `apply_*`, `accept_loop` | memory follows disk or the operator is told |
| Control handlers (`mwsqld/src/control/handlers.rs`) | none of their own | persist, re-read, apply, reply | re-pinning fails closed, tokens are fresh, every request is answered unless a connect hangs |
| Bastion registry (`mw-net/src/ssh.rs`) | cached SSH session per bastion, forwards | `get_or_open`, `evict`, `start_local_forward` | no session outlives the pin it was checked against, none is cut while it is used |
| Backend pools and reaper (`mw-net/src/engine/*`, `mysql_client.rs`, `idle.rs`, `reap_loop`) | pooled connections, last-use times, the next deadline | checkout, recycle, create, sweep | idle connections go in time, busy ones never do |
| Control channel (`mwsqld/src/control/mod.rs`, `unix.rs`, `windows.rs`, `peercred.rs`, `mw-core/src/control.rs`) | connection permits | `serve_loop`, `handle_conn` | permits come back, only authorised peers, decisions are logged, refusals can be read |
| MySQL sessions (`mw-net/src/router.rs`, `mysql_server.rs`, `framing.rs`, `wire.rs`) | handshake and command phase, packet counter | `handshake`, `serve_session`, `handle_com_query` | nothing reaches the backend that the firewall denied, what ran is logged, answers are framed |
| PostgreSQL sessions (`mw-net/src/engine/postgres/`) | prepared statements, portals, skip flag | `handshake`, `serve`, `inline_params` | the same over the extended protocol; binding leaves the rest of a text as it was read |
| Firewall (`mw-core/src/policy.rs`) | none | `evaluate` | verdicts compose over statements and policies |
| Audit (`mw-core/src/audit.rs`) | log file | `emit` | complete |
| `mwsqlctl` deployment (`init.rs`, `uninstall.rs`, `service.rs`, routing in `control_client.rs`, targets in `state.rs`) | state directories, key stores, unit, account | `init`, `uninstall`, edits by channel or file | a started unit has what it needs, an edit reaches what it names, uninstall deletes what was confirmed |
| `mwsqlctl` commands (`main.rs`, `wizard.rs`, `probe.rs`) | the dialogue | wizard, `env add`, `env test` | one-time tokens are shown, verdicts are true |
| `mwsql`, installers, `claude-bundle` | none | | |

The components meet in four places. The **sealed config** is written by one
handler at a time (under `Daemon::config_write`) or by the CLI, and read without
a lock by list and probe requests and by a starting daemon. The **env table**
is changed by the handler that holds `config_write` and read by the reaper; an
accept loop never looks at it, it takes one snapshot per connection from its own
handle and runs until its abort takes effect. The **bastion
registry** is filled by whoever builds a runtime and emptied by re-pinning and by
the removal of a bastion, the latter *outside* `config_write`. **Runtimes** are
shared between the table and the sessions that were accepted with them, and with
them the pools and forwards: the last one to drop a runtime closes them.

What is hard here: a change is made on disk first and in memory after it, and
the second half may fail, for one env of several; a connection keeps the runtime
it was accepted with; an aborted task goes on for a while; a cached SSH session is never checked again; the process
may die between any two steps; the save is a sequence of file-system calls; a
session logs after it has run and answered; a client may stall, leave or
pipeline; a command makes several calls and its answers may be lost.
`PROJECT.json` lists these hazards with the line where each one bites.

## Modules

| Module | Models |
| --- | --- |
| `Config` | `config.rs` and `mutate.rs`: the configuration, `validate`, and each transform as a pair `X_ok` (it does not bail) and `X` (what it returns) |
| `ConfigEdits` | every sequence of transforms, without the validation of the save |
| `Commands` | the wizard, `env add`, `env test` and their probes, among everybody's edits; extends `ConfigEdits` |
| `Daemon` | the env table, the handlers, the bastion registry and client connections; extends `Config` |
| `ConfigRegister` | what a configuration store promises: one value, changed by whole updates |
| `SealedStore` | the file-system steps of `init` and `save_config`, crashes and lock-free readers; implements `ConfigRegister` |
| `Gateway` | what a client connection promises, whatever protocol it speaks |
| `Session` | what both engines' sessions share: accepting, the firewall before the backend, audit events |
| `PgSession`, `MySqlSession` | the two protocols, message by message; extend `Session` |
| `Sessions` | a connection of any engine; implements `Gateway` |
| `Firewall` | `policy.rs`: the verdict on a text |
| `InlineParams` | rendering parameters and substituting them into a prepared text (`postgres/server.rs`) |
| `Statements` | a machine that computes one verdict or one binding; extends both |
| `Control` | the control channel with its clients |
| `Backend` | SSH sessions, forwards, pools, the reaper |
| `Deployment` | `init`, `uninstall`, service and edits over the state directories of a machine |
| `MC*` | instances for TLC |
| `Config_proofs` | lemmas on `validate` and every transform, used by the next two |
| `Commands_proofs` | theorems on `ConfigEdits` and `Commands` |
| `Daemon_proofs` | theorems on `Daemon`: connections and tokens, then the env table |
| `SealedStore_proofs`, `Control_proofs`, `Backend_proofs`, `Deployment_proofs` | theorems on the module of that name |
| `Sessions_proofs` | theorems on `Sessions`, then on the functions of `Statements` |

A definition whose comment begins with *Mutant* is a plausible wrong version of
the one that follows it. No specification uses it; replacing the original by it
makes TLC report the property that guards against it.

### Config

A map of the code is a function that is `Absent` where the map has no entry.
Env names are numbers because the code's maps are ordered and loops over envs
walk them in that order. A token is a number, the n-th one minted, so that older
and newer make sense; of the auth record the model keeps the kind and the token
whose hash it holds. Hosts of databases, users and pool sizes are dropped.

### Daemon

| Variable | Code |
| --- | --- |
| `disk` | the sealed config, as `with_config` leaves it |
| `config_write` | the handler that holds `Daemon::config_write` |
| `job[r]` | where handler `r` is: about to evict, about to re-read the config, or in its loop over the affected envs |
| `live[e]` | the runtime published for `e` (`EnvHandle::current`): password, policy, client auth, tunnel, idle timeout |
| `slots[b]` | the cached session of `BastionRegistry` |
| `stopping[e]` | the last runtimes of accept loops of `e` that were aborted and have not stopped |
| `conn[c]` | a client connection, its runtime snapshot, and whether its accept loop is the one in the table (`owned`) |
| `status` | down, up, or failed (the last start was refused) |
| `minted` | tokens minted so far |
| `granted`, `reported`, `advice` | history: the newest token a reply handed out, envs a reply named as not applied, whether a reply advised a restart |

A handler is one action for the part up to and including `with_config` (named
after the request: `SetFingerprint`, `AddEnv`, ...), one for re-reading the config
(`Reload`, `ReloadFails`), and one per env of its loop (`SetFingerprintApply`,
...). A request that is refused before the save changes nothing and has no
action. `with_config` is one step because it runs under `config_write` and
`SealedStore` looks inside it. Building a runtime and publishing it is one step:
only the holder of `config_write` does either, and the one thing that may run in
between, the unlocked evict of a removed bastion, has the same outcome before or
after. `Start` is `Daemon::bind`: all envs come up or none does. `Stop` is a
shutdown or a crash at any point of any handler.

`apply_rm_env` takes the handle out of the table and aborts its accept loop; the
loop stops in a step of its own (`LoopStops`), and until then `Accept` may still
take connections on the runtime the handle was dropped with, next to a loop of
the same env that was added again. An imported env's token is minted by the CLI
before it sends the fragment; it is numbered at the merge, which puts it in force.

The outside world is nondeterministic: an SSH endpoint presents any key of
`Presents[host]`; with `Faults` a connect or a listener bind may fail; with
`StoreFaults` re-reading the sealed config may fail.

### SealedStore

One action per file-system call: remove the backup, rename the config to the
backup, open the temporary file, write and sync it, rename it into place; and
for `init`, store the key before that. `Crash` ends the writer between any two of
them. A reader takes two steps (read the file, then load the key), with no lock.
A configuration is the set of edits that went into it. There is one writer:
handlers hold `config_write`, and the CLI edits the file itself only when no
daemon answers. A completed call survives a crash; in which order directory
entries reach the disk is not modelled.

### Commands

`op` is the dialogue of one operator: where the command is, the lists the wizard
fetched, the token it has yet to show. Every step of `ConfigEdits` may happen in
between, by somebody else. `mode` is how the commands reach the configuration:
over the channel the change may be made and its answer lost, and the two modes
probe in different ways (`mwsqld test` and its exit status, or the daemon's
results), which `validate_direct` and `render_probe_results` model. `shown` and
`lost` are history: the tokens an operator saw, and those of commands that ended
with an error.

### Gateway, Session, PgSession, MySqlSession, Sessions

A session is one task that reads a message, handles it to the end and reads the
next, so a step is a message. `ran` is what was handed to the database and `audit`
the connection's events; `reply` the answer to the last message, a sequence of
message tags (PostgreSQL) or of kinds and sequence numbers (MySQL, `seq`
counting modulo `SeqNums`). PostgreSQL adds `prepared`, `portals`, the skip flag and
`failed`. A statement is a member of `Texts`; `Denied` are those that the policy
refuses, `Wide` those that cannot be sliced at byte 64 (`Panic`: a release build
aborts, `Cargo.toml:63`, so `pc` is `"aborted"` and the daemon with all its sessions
is gone), and `Inlined` says which
text a text and a parameter make. The pool may be empty, a statement may fail,
rows may stop coming, and the client may be gone at each write: the order of
running, writing and logging is kept in each handler, and it differs between
the two engines and between refusals and results.

### Firewall, InlineParams, Statements

`Firewall` translates `evaluate` over an abstract statement tree (external:
`sqlparser`): a query has a body (select, parentheses, set operation, an INSERT or
UPDATE, VALUES), the bodies of its WITHs, and a select may hold another one in its
FROM or in an expression; functions that are called and functions that a FROM
names as a table are kept apart, because `DangerVisitor` sees only the former.
Kinds that `check_statement` treats alike are one kind. `InlineParams`
has the scanner of `inline_params` as a recursive function over a sequence of
symbols, one for each character class that the scanner or `is_safe_numeric` tells
apart, and `render_param` by what it writes for each class of value. Which dollar
quotes and which placeholders there are is a parameter (`DollarTags`,
`Placeholder`: the number that `$n` asks for, 0 for a `$0`, which is copied).
`is_safe_numeric` accepts what the code accepts: blanks around the number, which
are copied with it, a sign, an exponent with a sign, `NaN` and `Infinity`.
`Statements` is a machine that takes one job (`JobInit`) and answers it: a verdict
(`Evaluate`), a rendering (`Render`) or a Bind (`BindParams`). The code's scanner
(`scan`) is judged by another one, `lex`, which reads as PostgreSQL does (external):
two minus signs are a comment wherever they come from, and comments nest.
`BindKeepsStructure` runs `lex` over the prepared text and over the inlined text and
compares the states in which each symbol of the former is read.

### Control

Each connection has a client (`cl`, its frames in `inbox`), a task (`srv`), the
reply the task is about to write (`say`) and the one it wrote (`out`); `loop`
is the accept loop, which may hold one connection while it waits for a permit.
Large frames block their writer until the other side reads or closes. Clients
differ by profile: what they send, how much, whether they read, who they are.
Unix and Windows differ in how a connection is accepted, how a peer is resolved
and in the client's retries on a busy pipe. `Profiles` is a set of functions, the
combinations of clients that are looked at. `Outcome` lists which answer goes with
which event: a request that mints a token answers with it and logs an error when
the env is not live, a second Hello is an error without an event.

### Backend

`pools` holds every pool somebody still holds, with its connections, their ages
and the SSH session of its forward; `Held` is the reference count. Clients wait
for a permit, have a connection recycled or created, run a statement and return
it. The daemon starts by binding its envs one by one (`bind_env`), each of which
serves at once, and then begins to reap (`run`). A pool's timeout is `Override` when
bind built it and the sealed config's, `IdleTimeout`, when an add or a rebuild did.
The clock ticks in half seconds, so that half of an odd timeout is a time. The
reaper has a deadline and a pending wake-up; time passes only when it has nothing
to do. `unseen` is history: the pool was published without a word to the reaper
(by bind, or by a rebuild that shortens the timeout) and not swept since.
`deadpool`, `russh` and the database are external.

### Deployment

Four state directories (the system's, one that is named, the operator's and
root's), keys in them or in keychains, the unit, the service account, the admin
group, and one command at a time, one step for each thing it does to the machine.
A command may fail before any step and is run again as root when it elevates
itself. The service starts and stops on its own. On Linux a directory is readable
to the service when it owns it (`chown_state_dir`), on Windows when the install
script has set its ACL (`LockDir`). `reused` records what `init` found and took over
without looking into it: a config (`SeedReuse`), a Windows service, for which no
script is run (`ReuseService`).

## Runs

| Run | Question | Result |
| --- | --- | --- |
| `commands` | do edits keep a configuration valid; is an env ever kept whose token nobody saw; do both ways of probing judge alike? | `ConfigValid`, `KeptIsShown`, `VerdictIsTrue` hold |
| `daemon_serial` | one handler, all requests, faults, a changing host key, restarts: does memory follow the disk, does re-pinning fail closed, is a live env ever added again? | `LiveMatchesConfig`, `RepinFailsClosed`, `NoHandleReplaced` hold |
| `daemon_sessions` | connections and aborted accept loops against grants, rotations, removals, re-pins, restarts, failed connects and re-reads: old tokens, connections that stay, handlers that never reply? | `SessionTokenFresh` holds; `StoppedEnvDrains`, `HandlersFinish` under fairness |
| `sealed_store` | crashes anywhere, two lock-free readers | `SavedIsRecoverable`, `ReadsAreFresh`, refinement of `ConfigRegister` hold |
| `sessions` | a connection of each engine: is anything denied run, is what ran logged, is anything but a Close done after an error before Sync, can the client follow each answer? | refinement of `Gateway` (`GatewaySpec`), `ExecutedIsAudited`, `PipelineStops`, `MySqlAnswerIsFramed` hold |
| `statements` | every text of up to two statements under every policy; every short template with every kind of value | `PolicyMonotone`, `EachStandsAlone`, `RenderedIsOperand`, `BindKeepsStructure` hold |
| `control` | clients that stall, send much, never read, are strangers; shutdown | `ReplyNotMasked`, `AdminAudit` hold; `CooperativeAnswered` under fairness |
| `backend` | a start with an override, adds, rebuilds, re-pins, removals, dying connections and time | `IdleClosedInTime`, `NoMidSessionBreak` hold |
| `deployment` | three commands in a row, with failures, elevation and a deployment of an older version | `StartedUnitIsReady`, `EditLandsWhereNamed`, `UninstallDeletesConfirmed` hold |
| `daemon_tunnel_race` | a removed bastion's tunnel is not inherited by the next bastion of that name | violated: the evict runs after the lock is released |
| `session_audit` | every query decision is in the log | violated: a PostgreSQL statement that finds no pooled connection has no event |
| `statements_into` | the walk for `INTO` is complete | violated: it does not enter a WITH, a FROM or an expression |

The three violated ones state what the repository's own text says;
`PROJECT.json` quotes the lines.

### Observations

What the code does otherwise than its text says, or than one would expect, seen
while modelling. Those of the table are definitions of the modules that TLC
violates when they are put in place of the properties of the run that is named,
with the constants given. Several of them are a property of a passing run without
the exception that the property states.

| Definition | To see it | What the code does | What the text says |
| --- | --- | --- | --- |
| `Daemon!RepinFailsClosed` | `DaemonSerial.cfg`, `StoreFaults = TRUE` | `handlers.rs:197`: a re-pin returns when the config cannot be read again; every env stays on the old tunnel | `handlers.rs:173` "A rebuild that FAILS must fail closed." |
| `Daemon!RestartBindsReported` | `DaemonSerial.cfg` | `mwsqld/src/lib.rs:147`: one env that cannot be built keeps the daemon from starting | `handlers.rs:310` "a restart binds the env" |
| `Daemon!OverrideHonoured` | `DaemonSerial.cfg`, `IdleOverride = TRUE` | `mwsqld/src/main.rs:145`: envs built after the start do not have the override | `README.md:458` "Override every env's idle backend timeout." |
| `Daemon!PostgresOnLoopbackOnly` | `DaemonSerial.cfg`, `Loopback = FALSE` | `mwsqld/src/lib.rs:251`: a live add does not check the listen host | `README.md:456` "is refused for PostgreSQL unless you set ..." |
| `SealedStore!SaveIsAtomic` | `SealedStore.cfg` | `state.rs:354`: between two renames there is no `config.sealed`, for good after a crash | `state.rs:340` "Atomic sealed-config save with one backup level." |
| `SealedStore!ReInitKeepsConfig` | `SealedStore.cfg`, `ReInit = TRUE` | `state.rs:320`: `init` after that crash makes a new key; the backup no longer unseals | `init.rs:120` "Re-running init is fine: reuse the existing config" |
| `Backend!PublishedTunnelWorks` | `Backend.cfg` | `ssh.rs:166`: the slot is used if it is occupied, whether or not the session in it still works | `ssh.rs:163` "Fast path: existing live slot." |
| `Session!OthersGoOn` | `Sessions.cfg` | `router.rs:112`: a refused statement is sliced at byte 64 for the log; inside a character that is a panic (as is a Bind that is too short), on which a release build aborts (`Cargo.toml:63`), with the sessions of all clients | `mwsqld/src/lib.rs:246` "an in-flight session keeps the runtime snapshot it started with" |
| `PgSession!NothingUntilSync` | `Sessions.cfg` | `server.rs:1012`: a Close is answered and acted on while the series is skipped | `server.rs:817` "suppresses further work until the next Sync (matches PG skip-until-Sync rule)" |
| `Statements!WritesNeedDml` | `Statements.cfg` | `policy.rs:278`: an INSERT or UPDATE that is the body of a query, or sits in a WITH, is passed under a policy without `dml` | `README.md:428` "Under read-only policy a write comes back denied, not executed" |
| `Statements!NoDangerousCall` | `Statements.cfg` | `policy.rs:330`: the visitor looks at call expressions; a function that a FROM names as a table is none | `policy.rs:161` "no dangerous function call may appear anywhere in any allowed statement" |
| `Statements!WordsAreQuoted` | `Statements.cfg` | `server.rs:184`: NaN and Infinity sent as text of a numeric type are inlined without quotes | `server.rs:225` "a bare `NaN`/`inf` token is invalid" |
| `Statements!BindKeepsAll` | `Statements.cfg` | `server.rs:440`: a minus sign directly before a negative value becomes a comment, and a comment inside a comment ends both for the scanner, which then replaces placeholders in what is still a comment | `server.rs:438` "so we never rewrite a `$n` that is actually data" |
| `Backend!RebuiltClosedInTime` | `Backend.cfg` | `mwsqld/src/lib.rs:302`: a rebuild takes the sealed config's timeout where the override said never, and does not wake the reaper: the first sweep comes when the fallback interval is over | `idle.rs:22` "closes a stale connection within ~1.5x its timeout" |
| `Deployment!StartedUnitServes` | `Deployment.cfg` | `init.rs:119`: a config that is there is reused whatever key seals it; `service.rs:603`: a Windows service that is there keeps its directory and no ACL is set | `state.rs:179` "adopting it would register a service that fails every start" |
| `Deployment!KeyOutlivesConfig` | `Deployment.cfg` | `uninstall.rs:163`: a file key is one of the entries of the directory and may go before the config when the removal stops half way | `uninstall.rs:118` "never destroy the master key while the sealed config it protects still exists" |

Smaller ones, part of the models and without a definition: a rotation that fails
on one env does not try or name the ones behind it (`handlers.rs:259`); a failed
re-read makes `add_env` and `grant` lose the token they saved (`handlers.rs:300`);
a connection accepted before a grant may finish its handshake with the old token
(`lib.rs:594`); a portal is described by the statement that has its name now
(`server.rs:970`); a Query is handled while a series is skipped (`server.rs:829`);
an env serves while `bind` still builds the ones behind it, before the reaper and
the control channel run (`lib.rs:113`); an accept loop of a removed env may accept
until its abort takes effect, on the old token (`lib.rs:274`); a simple query without rows is answered with NoData
(`server.rs:600`); a PostgreSQL backend error is logged as a denial, a MySQL one
as an error; a successful audit tail is not logged and
its reply may be larger than a frame; the wizard edits a file without looking for
a daemon (`EditResolve`); it removes a discarded env by name, whoever added it;
`run_config` reports no change when only a pin was set; `env add --url`, run again
after the env was refused, fails on the credential of the first attempt; a
keychain entry is shared by all of an account's deployments (`state.rs:29`); a
pool that was swapped out is swept no more while a session holds it
(`lib.rs:539`); the Windows install script does not look at what `sc.exe` and
`icacls` return.

### Bounds

- `commands`: two envs, one bastion, one credential (with the name of an env,
  for `--url`), two ports of which one is in the client range (so that automatic
  choice runs out and meets a port that was asked for), two tokens, three
  fragments of which two are inconsistent.
- Daemon runs: at most two envs (one that fails and one behind it), one bastion
  name (what matters is reuse of a name), two endpoints and two keys, two
  passwords where rotation matters, two or three tokens (old, new, and one of a
  re-added env), one or two handlers, one connection. `config_write` admits one
  handler; the only step outside it is the evict, so a second handler is enough
  to meet it. Deadlock is checked in every run: a daemon can always be stopped.
  `daemon_serial` has no connections and leaves aborted loops out of what makes two
  states different (`VIEW LoopsAside`): only connections could tell them apart.
- Two handlers at once are only in `daemon_tunnel_race`: every other request is
  under `config_write` from its load to its last apply, and the proofs are for any
  number of handlers.
- `sealed_store`: three edits (a backup that is two saves old), two keys (an
  `init` that crashed and one that worked), two readers.
- `sessions`: one text of each kind the handlers tell apart and a template that
  becomes either; two statements run (one before and one after an error); two
  statement names and one portal; answers of three rows with a counter that
  wraps at four, so that an answer crosses the wrap as one of 256 packets does.
- `statements`, `statements_into`: query bodies two levels deep, with one select
  inside another or in a WITH, all pairs of flat statements, templates of three
  symbols (a placeholder with whatever can stand on its two sides) and of five
  where comments nest, one or two parameters, numbers with blanks and exponents
  among them. The theorems lift the bounds on texts, templates and parameters; the
  depth of the bodies is part of the model, and the bodies that the walk meets at
  depth three are met by the same equations.
- `control`: three connections on two permits, of which one stalls or is another
  operator's and one never reads; with as many clients that never read as there are permits nobody else
  is answered (the premise of `CooperativeAnswered`).
- `backend`: a tunnelled env with a timeout of three seconds (odd, so that half of
  it is no whole second) and one that is never reaped, an override of 0 (so that
  adds and rebuilds bring a shorter timeout than bind), a ceiling of five seconds
  in place of sixty, two clients on pools of one connection, two builds (bind's or
  an add's, and one after it), one fault.
- `deployment`: three commands, two keys, Linux and Windows.

`CHECK_DEADLOCK FALSE` stands where the system ends: a session that is closed, a
statement that is decided, connections that are answered, bounded commands.
No symmetry is declared: the instances are small and env names are ordered.

### Fairness

Daemon's `FairSpec` is weak fairness of each handler's own remaining steps
(`Finish`), except where its next step opens an SSH session (`Connecting`): the code
puts no timeout on the connect (`ssh.rs:103`), so nothing is assumed of it, and
`HandlersFinish` says that a handler replies or waits for its host for ever.
A handler is a spawned task that, once it has the lock and has saved, waits for
nothing else. An accept loop that was aborted stops and its sessions are dropped
(`LoopStops`, `Close` of what is aborting): the runtime drops an aborted task when it
next yields, and every loop here awaits. Nothing is assumed of operators, clients,
starts or stops.

Control's `FairSpec` is weak fairness of the accept loop, of each connection's
task (its read timeout included: the runtime fires timers) and of the calls a
client has begun. Nothing makes a client that does not read go away, and nothing
stops the service.

## Theorems

There are 32, and each invariant and action property that a passing run checks is
stated by one of them. They hold for every value of the constants, under the
assumptions the modules name: env names and ports are numbers and `Absent` is none
of the values it stands in for (`NamesAssumption`, `AbsentAssumption`); `None` is
no client, key, directory or pool; a fragment that is imported has no token of a
later mint (`ImportsAssumption`); the symbols of `InlineParams` are distinct
(`SymbolsAssumption`); a query's body is one of `SetExpr` and the integer a
parameter is read as is formatted as one (`ParsedAssumption`, `ParamsAssumption`);
limits such as `MaxInflight`, `Backlog`, `MaxSize`, `Ceiling` and `MaxKeys` are not 0;
the other inputs have their types.

**Configuration and commands** (`Commands_proofs`)

- `EditsAlwaysValid`: edits keep a configuration well typed and valid. The
  invariant is inductive as it stands; each transform has lemmas in
  `Config_proofs` (its type, that it keeps `validate`, which envs it touches) that
  the daemon's proofs use as well.
- `CommandsTypes`, `KeptTokensAreShown`, `VerdictsAreTrue`: the argument follows
  the tokens. Every token that is configured was minted here or imported, and
  the one a wizard still holds is on no env but the one it just added
  (`TokensInv`), so a wizard that removes that env may forget the token, whatever
  others edited in between.

**Daemon** (`Daemon_proofs`)

- `DaemonTypeOK`, `TokensStayFresh`, `HandlesAreNeverReplaced`: with every fault switched on or off, any number of
  handlers, envs and connections. They share one inductive invariant, `IndInv`.
  Besides the types it says that `config_write` is held by exactly the handlers
  that are past their save, so that no two handlers are there at once; that the
  envs a handler still has to touch are in the sealed config (or no longer in it,
  for a removal); that for each env the newest token handed out is at most the
  one on disk and the one being served, and the one on disk at most the last one
  minted; that an env is live only if it is configured or just being removed;
  that a daemon that is not up has no handler, env or connection.
  `SessionTokenFresh` alone is not inductive: it needs the order token handed
  out <= token published, which needs that a grant publishes before it replies.
- `RepinningFailsClosed`, `TableMatchesConfig`: `TableInv` adds that every env that
  differs from the sealed config is on the list of the handler that holds the
  lock, and that a cached session fits its bastion's entry or has its evict still
  to come. Two hypotheses, both needed. `NoEvictRace`: no `rm_bastion` runs beside
  another request, for its evict comes after the lock is released
  (`daemon_tunnel_race` is the counterexample). `~StoreFaults`: the config can be
  read back after a save (the first observation is the counterexample).

**Store** (`SealedStore_proofs`)

- `StoreTypes`: without hypothesis; `config.sealed` is never torn.
- `SavedStaysRecoverable`, `ReadersNeverStale`, `StoreImplementsRegister`: if `init`
  is never run over a backup (`~ReInit`), no acknowledged edit is lost, readers are
  never stale, and the store implements `ConfigRegister` with the refinement mapping
  `value <- Recoverable`. The inductive invariant says, for each place of the
  writer, what each of the three files holds. The hypothesis is needed:
  `ReInitKeepsConfig` (under *Observations*) is the counterexample without it.

**Connections and statements** (`Sessions_proofs`)

- `SessionTypes`, `AuditMatchesDatabase`, `MySqlFraming`, `PipelineSafe`,
  `SessionsImplementGateway`: whatever the protocol, a step does one of four
  things to database and log (`GateStep`): nothing; a statement that is logged and
  not run; one that is run and logged; one that is run and ends the connection.
  The refinement and the agreement of log and database follow from that; each
  engine adds its own state (the skip flag is set whenever an error was answered,
  and a Close, which does not look at it, only forgets a statement or a portal; a
  packet's number is its predecessor's plus one, modulo `SeqNums`).
- `WideningKeepsAllowed`, `StatementsStandAlone`: `evaluate` for every text and
  policy.
- `ParametersAreOperands`, `BindingKeepsStructure`: for templates and values of any
  length, judged by `lex`. `Operand` says of a text that PostgreSQL, entering it in
  state normal, leaves it in state normal without a sign pending; every literal has
  it, by concatenation (`SpanConcat`) and, for a quoted value, because it is in quotes
  after each symbol or pair of quotes. Up to the first joined minus sign or nested
  comment the code's scanner and PostgreSQL agree on the template (`ScanAgrees`), so
  placeholders are replaced only where PostgreSQL reads one; then by induction over
  the pieces it is at the end of each piece of the inlined text where it is after
  the symbol that piece came from (`InlinedIsRead`). The two exceptions are needed
  (`BindKeepsAll`), and so is the one for NaN and Infinity (`WordsAreQuoted`).

**Control channel** (`Control_proofs`)

- `ControlTypes`, `NoReplyIsMasked`, `AdminIsAudited`: how many frames a client has
  sent and how many are unread fixes how far its task can be (`Row`), so a task
  that replies has read all its client will send; a connection is in the queue
  once and has no task before it is let in (`QueueInv`).

**Pools and reaper** (`Backend_proofs`)

- `BackendTypes`, `IdleIsClosed`, `SessionsAreNotBroken`: a client holds its pool and
  with it the SSH session under it, so a rebuild or an evict only takes them out
  of the table; while the reaper runs, the next sweep is at most one cadence of
  each published env that it has planned for away, and what a sweep leaves has
  rested for less than its timeout, so rest + due stays below the deadline. A wake
  or a sweep plans for all that is published (`Planned`); the override may be any.

**Deployment** (`Deployment_proofs`)

- `DeploymentTypes`, `ServiceIsReady`, `EditsLand`, `UninstallIsConfirmed`: one
  command at a time, and the invariant says for each of its places what the
  earlier steps left behind. The hard place is the elevation: root resolves the
  flags again, and finds the target that was confirmed because `forwarded_args`
  named it. `ServiceIsReady` requires the key of a config that `init` seeded and, on
  Windows, the ACL and the directory of a service it installed; what it reused is
  excepted by name (`StartedUnitServes` is the counterexample without).

Induction over data. The library's induction theorems take an operator, which the
provers cannot instantiate. Where a recursion matters (`retain` of `Backend`, `scan`,
`FlattenSeq`), the proofs use the least-number principle for *sets* of numbers
instead (`Least` from `WFMin`, then `Upto`), show that the recursion has a solution
(`RecursionHasSolution`, `RetainDefined`), and reason about that.

What the proofs changed in the models: `Afterwards` of `Control` and the three
`render_*` of `InlineParams` had `CASE` arms that overlapped, whose value TLA+ leaves
open although TLC takes the first; they are disjoint now, in the order in which
the code tests.

Only model-checked: the liveness properties `HandlersFinish`, `StoppedEnvDrains` and
`CooperativeAnswered`, which are out of the prover's reach, and the three properties
that are violated.

## Not modelled

Cryptography and password hashing; SSH and TLS themselves; byte layouts of
packets and messages; the SQL parser (a library); of ACLs all but whether the
install script set one; failures of `sc.exe` and `icacls` inside that script; in
prepared texts `E''` strings and identifiers with a dollar sign; edits of idle
timeouts while the daemon runs; the audit file and its
rotation; argument and URL parsing, prompts and printing; the text of service
unit files and installers, macOS's services (the commands only print what to do
there); parsing of the old configuration format; `mwsql`, which sends one
statement and prints rows. Two direct edits at the same time are not modelled:
`SealedStore` has one writer, and `Deployment` one command.

## Plan

What could be added, in this order:

1. Query bodies of any depth: a body as a function from paths to nodes, so that
   what the walk does find can be proved by induction over the length of a path.
2. The audit log's file and its rotation, which `Control` and `Session` take as a
   set and a sequence.
