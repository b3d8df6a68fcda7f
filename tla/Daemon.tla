------------------------------- MODULE Daemon -------------------------------
(***************************************************************************)
(* The running daemon: the live env table and its apply_* surface          *)
(* (mwsqld/src/lib.rs), the control handlers that persist a change and     *)
(* then apply it (mwsqld/src/control/handlers.rs), the bastion session     *)
(* registry (mw-net/src/ssh.rs), and the client connections that run on a  *)
(* snapshot of their env's runtime.                                        *)
(*                                                                         *)
(* Grain of atomicity.  A handler is one step per stretch in which nothing *)
(* another task does can matter.  with_config is one step: its load,       *)
(* mutate and save run under config_write, and SealedStore looks inside    *)
(* the save.  Building one env's runtime and publishing it is one step:    *)
(* only the holder of config_write publishes or opens bastion sessions,    *)
(* and RmBastion's unlocked evict commutes with the half it could fall     *)
(* into.  A request whose transform bails, or that is denied, changes no   *)
(* state and has no action.                                                *)
(*                                                                         *)
(* Left out: queries (a connection is served until it ends), list, probe   *)
(* and audit_tail requests (they change nothing here; a probe opens its    *)
(* own throw-away registry), the reaper, and edits by another process.     *)
(***************************************************************************)
EXTENDS Config

CONSTANTS
    Handlers,       \* control requests that may be in flight at once
    Conns,          \* client connections
    Ops,            \* the request kinds the operators issue
    BastionInputs,  \* Bastion entries AddBastion may carry
    EnvInputs,      \* env descriptions AddEnv may carry
    Fragments,      \* configurations Import may carry
    MaxToken,       \* bound on the number of tokens minted
    Presents,       \* Presents[h]: the host keys endpoint h may present
    AllowTofu,      \* mwsqld run --allow-tofu
    Loopback,       \* the listen host is loopback (or cleartext is allowed)
    IdleOverride,   \* mwsqld run --idle-timeout-secs was given
    Faults,         \* SSH connects and listener binds may fail
    StoreFaults     \* re-reading the sealed config may fail

AllOps == {"add_bastion", "rm_bastion", "set_fingerprint", "add_cred",
           "rotate_cred", "rm_cred", "add_env", "rm_env", "grant",
           "set_policy", "import"}

EnvInput == [bastion    : BastionNames \union {Absent},
             credential : CredNames,
             policy     : Policies,
             engine     : Engines,
             port       : ListenPorts \union {Absent}]

Session == [host : Hosts, key : Keys]

Runtime == [password    : Passwords,
            policy      : Policies,
            client_auth : ClientAuth,
            tunnel      : Session \union {Absent},
            idle        : {"configured", "overridden"}]

Job == [pc      : {"idle", "evict", "reload", "apply"},
        op      : AllOps,
        bastion : BastionNames \union {Absent},
        todo    : SUBSET EnvNames]

\* owned: the accept loop the connection belongs to is the one in the table.
Connection == [st    : {"idle", "handshake", "serving", "aborting"},
               env   : EnvNames \union {Absent},
               rt    : Runtime \union {Absent},
               floor : Nat,
               owned : BOOLEAN]

ASSUME DaemonAssumption ==
    /\ Ops \subseteq AllOps
    /\ BastionInputs \subseteq Bastion
    /\ EnvInputs \subseteq EnvInput
    /\ Fragments \subseteq Configs
    /\ MaxToken \in Nat
    /\ Presents \in [Hosts -> SUBSET Keys]
    /\ {AllowTofu, Loopback, IdleOverride, Faults, StoreFaults} \subseteq BOOLEAN

ASSUME NoneAssumption ==
    /\ Absent \notin Session
    /\ Absent \notin Runtime
    /\ Absent \notin EnvNames
    /\ Absent \notin Handlers

VARIABLES
    disk,          \* the sealed config, as with_config leaves it
    minted,        \* the number of client tokens minted so far
    status,        \* "down", "up", or "failed": the last start was refused
    config_write,  \* the handler that holds Daemon::config_write, or Absent
    job,           \* job[r]: what handler r has left to do
    live,          \* live[e]: the runtime published for env e (EnvHandle::current)
    slots,         \* slots[b]: the cached SSH session (BastionRegistry)
    conn,          \* conn[c]: a client connection and its runtime snapshot
    stopping,      \* stopping[e]: the runtimes of e's accept loops that were
                   \* aborted and have not stopped yet
    \* history, read by properties only
    granted,       \* granted[e]: the newest token a reply handed out for e
    reported,      \* envs that replies have named as not applied
    advice         \* some reply since the last start advised a restart

daemonVars  == <<status, config_write, job, live, slots>>
clientVars  == <<conn, stopping>>
historyVars == <<granted, reported, advice>>
vars == <<disk, minted, daemonVars, clientVars, historyVars>>

IdleJob  == [pc |-> "idle", op |-> "add_bastion", bastion |-> Absent, todo |-> {}]
IdleConn == [st |-> "idle", env |-> Absent, rt |-> Absent, floor |-> 0, owned |-> TRUE]

TypeOK ==
    /\ disk \in Configs
    /\ minted \in 0..MaxToken
    /\ status \in {"down", "up", "failed"}
    /\ config_write \in Handlers \union {Absent}
    /\ job \in [Handlers -> Job]
    /\ live \in [EnvNames -> Runtime \union {Absent}]
    /\ slots \in [BastionNames -> Session \union {Absent}]
    /\ conn \in [Conns -> Connection]
    /\ stopping \in [EnvNames -> SUBSET Runtime]
    /\ granted \in [EnvNames -> Nat]
    /\ reported \subseteq EnvNames
    /\ advice \in BOOLEAN

Init ==
    /\ disk = DefaultConfig
    /\ minted = 0
    /\ status = "down"
    /\ config_write = Absent
    /\ job = [r \in Handlers |-> IdleJob]
    /\ live = [e \in EnvNames |-> Absent]
    /\ slots = [b \in BastionNames |-> Absent]
    /\ conn = [c \in Conns |-> IdleConn]
    /\ stopping = [e \in EnvNames |-> {}]
    /\ granted = [e \in EnvNames |-> 0]
    /\ reported = {}
    /\ advice = FALSE

(***************************************************************************)
(* Bastion sessions and env runtimes                                       *)
(***************************************************************************)

check_server_key(bastion, key) ==
    IF bastion.pinned = {} THEN AllowTofu ELSE key \in bastion.pinned

\* The sessions BastionSession::open may return for a bastion.
Open(bastion) ==
    {s \in Session : /\ s.host = bastion.host
                     /\ s.key \in Presents[bastion.host]
                     /\ check_server_key(bastion, s.key)}

OpenMayBeRefused(bastion) ==
    \E k \in Presents[bastion.host] : ~check_server_key(bastion, k)

\* A cached session is returned as it is: no pin is looked at again.
get_or_open(b) == IF slots[b] # Absent THEN {slots[b]} ELSE Open(disk.bastions[b])

\* The tunnels establish_backend may end up with for an env.
TunnelsFor(env) ==
    IF env.bastion = Absent THEN {Absent} ELSE get_or_open(env.bastion)

build_env_runtime(env, tunnel) ==
    [password    |-> disk.credentials[env.credential].password,
     policy      |-> env.policy,
     client_auth |-> env.client_auth,
     tunnel      |-> tunnel,
     idle        |-> "configured"]

SlotsWith(env, tunnel) ==
    IF env.bastion = Absent THEN slots ELSE [slots EXCEPT ![env.bastion] = tunnel]

\* build_env_runtime returns: the bastion's slot is filled.
BuildSucceeds(env, tunnel) ==
    /\ env.engine # "mssql"
    /\ tunnel \in TunnelsFor(env)
    /\ slots' = SlotsWith(env, tunnel)

\* build_env_runtime errs, before or after it opened the bastion session.
BuildFails(env) ==
    \/ /\ env.bastion # Absent
       /\ slots[env.bastion] = Absent
       /\ Faults \/ OpenMayBeRefused(disk.bastions[env.bastion])
       /\ UNCHANGED slots
    \/ /\ Faults \/ env.engine = "mssql"
       /\ \E tunnel \in TunnelsFor(env) : slots' = SlotsWith(env, tunnel)

(***************************************************************************)
(* Handlers                                                                *)
(***************************************************************************)

\* A request of kind op gets config_write.
Enter(r, op) ==
    /\ op \in Ops
    /\ status = "up"
    /\ job[r].pc = "idle"
    /\ config_write = Absent

\* with_config: save_config validates what the transform returned.
with_config(new) == validate(new) /\ disk' = new

\* Handler r keeps config_write and goes on with the envs in todo.
Proceed(r, pc, op, b, todo) ==
    /\ job' = [job EXCEPT ![r] = [pc |-> pc, op |-> op, bastion |-> b, todo |-> todo]]
    /\ config_write' = r

\* Handler r replies and drops its guard.
Reply(r) ==
    /\ job' = [job EXCEPT ![r] = IdleJob]
    /\ config_write' = Absent

\* The loop over the affected envs: rest is what is left of it.
Continue(r, rest) ==
    IF rest = {} THEN Reply(r)
                 ELSE /\ job' = [job EXCEPT ![r].pc = "apply", ![r].todo = rest]
                      /\ UNCHANGED config_write

Mint == minted < MaxToken /\ minted' = minted + 1

\* A mutation with no live effect: simple_mutation and add_bastion_req.
SimpleMutation(r, op, new) ==
    /\ Enter(r, op)
    /\ with_config(new)
    /\ UNCHANGED <<minted, daemonVars, clientVars, historyVars>>

AddBastion(r, b) ==
    \E in \in BastionInputs :
        /\ add_bastion_ok(disk, b)
        /\ SimpleMutation(r, "add_bastion", add_bastion(disk, b, in.host, in.pinned))

AddCred(r, c) ==
    \E pw \in Passwords :
        /\ add_cred_ok(disk, c)
        /\ SimpleMutation(r, "add_cred", add_cred(disk, c, pw))

RmCred(r, c) ==
    /\ rm_cred_ok(disk, c)
    /\ SimpleMutation(r, "rm_cred", rm_cred(disk, c))

\* simple_mutation has released config_write by the time the evict runs.
RmBastion(r, b) ==
    /\ Enter(r, "rm_bastion")
    /\ rm_bastion_ok(disk, b)
    /\ with_config(rm_bastion(disk, b))
    /\ job' = [job EXCEPT ![r] = [pc |-> "evict", op |-> "rm_bastion",
                                  bastion |-> b, todo |-> {}]]
    /\ UNCHANGED <<minted, status, config_write, live, slots, clientVars, historyVars>>

RmBastionEvict(r) ==
    /\ job[r].pc = "evict"
    /\ slots' = [slots EXCEPT ![job[r].bastion] = Absent]
    /\ job' = [job EXCEPT ![r] = IdleJob]
    /\ UNCHANGED <<disk, minted, status, config_write, live, clientVars, historyVars>>

\* The handlers below persist first; the envs they then have to touch are
\* read off the configuration they just saved.

Persist(r, op, new, b, todo) ==
    /\ Enter(r, op)
    /\ with_config(new)
    /\ Proceed(r, "reload", op, b, todo)
    /\ UNCHANGED <<status, live, slots, clientVars, historyVars>>

SetFingerprint(r, b) ==
    \E k \in Keys :
        LET new == set_fingerprint(disk, b, k)
        IN /\ set_fingerprint_ok(disk, b)
           /\ Persist(r, "set_fingerprint", new, b, UsersOfBastion(new, b))
           /\ UNCHANGED minted

RotateCred(r, c) ==
    \E pw \in Passwords :
        LET new == rotate_cred(disk, c, pw)
        IN /\ rotate_cred_ok(disk, c)
           /\ Persist(r, "rotate_cred", new, Absent, UsersOfCred(new, c))
           /\ UNCHANGED minted

AddEnv(r, e) ==
    \E in \in EnvInputs, p \in ListenPorts :
        /\ add_env_ok(disk, e, in.bastion, in.credential, in.engine)
        /\ PortFor(disk, in.port, p)
        /\ Mint
        /\ Persist(r, "add_env",
                   add_env(disk, e, in.bastion, in.credential, in.policy,
                           in.engine, p, minted'), Absent, {e})

Grant(r, e) ==
    /\ grant_env_ok(disk, e)
    /\ Mint
    /\ Persist(r, "grant", grant_env(disk, e, minted'), Absent, {e})

\* Read-write needs confirm_unsafe; without it the request is denied before
\* the lock is taken.
SetPolicy(r, e) ==
    \E policy \in Policies, confirm_unsafe \in BOOLEAN :
        /\ policy = "read_write" => confirm_unsafe
        /\ set_policy_ok(disk, e)
        /\ Persist(r, "set_policy", set_policy(disk, e, policy), Absent, {e})
        /\ UNCHANGED minted

\* The importing CLI has minted a fresh token for every env of the fragment; it
\* counts from the merge on, which puts it in force.
Import(r) ==
    \E f \in Fragments :
        LET stamped == [f EXCEPT !.envs = [e \in EnvNames |->
                          IF f.envs[e] = Absent THEN Absent
                          ELSE [f.envs[e] EXCEPT !.client_auth.token = minted']]]
        IN /\ Mint
           /\ merge_import_ok(disk, stamped)
           /\ Persist(r, "import", merge_import(disk, stamped), Absent, EnvsOf(f))

\* rm_env_req applies without re-reading the config.
RmEnv(r, e) ==
    /\ Enter(r, "rm_env")
    /\ rm_env_ok(disk, e)
    /\ with_config(rm_env(disk, e))
    /\ Proceed(r, "apply", "rm_env", Absent, {e})
    /\ UNCHANGED <<minted, status, live, slots, clientVars, historyVars>>

\* Mutant: the re-pin keeps the cached session.
EvictOnRepin_kept(r) == slots' = slots

\* set_fingerprint_req forgets the cached session before it re-reads.
EvictOnRepin(r) ==
    slots' = IF job[r].op = "set_fingerprint"
             THEN [slots EXCEPT ![job[r].bastion] = Absent]
             ELSE slots

Reload(r) ==
    /\ job[r].pc = "reload"
    /\ EvictOnRepin(r)
    /\ Continue(r, job[r].todo)
    /\ UNCHANGED <<disk, minted, status, live, clientVars, historyVars>>

\* load_config fails after the save: the handler returns a plain error.
ReloadFails(r) ==
    /\ StoreFaults
    /\ job[r].pc = "reload"
    /\ EvictOnRepin(r)
    /\ Reply(r)
    /\ UNCHANGED <<disk, minted, status, live, clientVars, historyVars>>

\* The env the loop is at: maps are walked in name order.
Working(r, op, e) ==
    /\ job[r].pc = "apply"
    /\ job[r].op = op
    /\ e \in job[r].todo
    /\ \A f \in job[r].todo : e <= f

Rest(r, e) == job[r].todo \ {e}

\* What an abort of e's accept loop sets off: the loop stops at its next await,
\* and until then it belongs to nobody.
Orphan(e) ==
    /\ stopping' = [stopping EXCEPT ![e] = @ \union ({live[e]} \ {Absent})]
    /\ conn' = [c \in Conns |->
                  IF conn[c].env = e THEN [conn[c] EXCEPT !.owned = FALSE] ELSE conn[c]]

\* Mutant: the accept loop is aborted but its handle stays in the table.
apply_rm_env_kept(e) == Orphan(e) /\ UNCHANGED live

\* Mutant: the handle is dropped and the loop is not aborted.
apply_rm_env_detached(e) ==
    /\ live' = [live EXCEPT ![e] = Absent]
    /\ conn' = [c \in Conns |->
                  IF conn[c].env = e THEN [conn[c] EXCEPT !.owned = FALSE] ELSE conn[c]]
    /\ UNCHANGED stopping

\* apply_rm_env: the env leaves the table and its accept loop is asked to stop.
apply_rm_env(e) ==
    /\ live' = [live EXCEPT ![e] = Absent]
    /\ Orphan(e)

RmEnvApply(r, e) ==
    /\ Working(r, "rm_env", e)
    /\ apply_rm_env(e)
    /\ Continue(r, Rest(r, e))
    /\ reported' = reported \ {e}
    /\ UNCHANGED <<disk, minted, status, slots, granted, advice>>

\* build_env_runtime, then publish: apply_add_env and apply_rebuild_backend.
Publish(e, tunnel) ==
    /\ BuildSucceeds(disk.envs[e], tunnel)
    /\ live' = [live EXCEPT ![e] = build_env_runtime(disk.envs[e], tunnel)]
    /\ reported' = reported \ {e}
    /\ UNCHANGED advice

\* Mutant: a failed apply is answered like a success.
ReportFailure_silent(e) == UNCHANGED <<reported, advice>>

\* A reply that names e as persisted but not applied.
ReportFailure(e) ==
    /\ reported' = reported \union {e}
    /\ advice' = TRUE

\* The fingerprint loop goes on after a failure, and takes the env offline.
SetFingerprintApply(r, e) ==
    /\ Working(r, "set_fingerprint", e)
    /\ \/ /\ live[e] = Absent
          /\ UNCHANGED <<live, slots, clientVars, reported, advice>>
       \/ /\ live[e] # Absent
          /\ \E tunnel \in Session \union {Absent} : Publish(e, tunnel)
          /\ UNCHANGED clientVars
       \/ /\ live[e] # Absent
          /\ BuildFails(disk.envs[e])
          /\ apply_rm_env(e)
          /\ ReportFailure(e)
    /\ Continue(r, Rest(r, e))
    /\ UNCHANGED <<disk, minted, status, granted>>

\* The credential loop stops at the first env that cannot be rebuilt, an env
\* that is configured but not served included.
RotateCredApply(r, e) ==
    /\ Working(r, "rotate_cred", e)
    /\ \/ /\ live[e] # Absent
          /\ \E tunnel \in Session \union {Absent} : Publish(e, tunnel)
          /\ Continue(r, Rest(r, e))
       \/ /\ \/ BuildFails(disk.envs[e])
             \/ /\ live[e] = Absent
                /\ \E tunnel \in Session \union {Absent} : BuildSucceeds(disk.envs[e], tunnel)
          /\ ReportFailure(e)
          /\ Reply(r)
          /\ UNCHANGED live
    /\ UNCHANGED <<disk, minted, status, clientVars, granted>>

\* apply_add_env builds, binds the listener, spawns the loop and inserts the
\* handle.
AddFails(e) ==
    /\ \/ BuildFails(disk.envs[e])
       \/ Faults /\ \E tunnel \in Session \union {Absent} : BuildSucceeds(disk.envs[e], tunnel)
    /\ ReportFailure(e)
    /\ UNCHANGED live

\* The token is returned whether or not the env came up.
AddEnvApply(r, e) ==
    /\ Working(r, "add_env", e)
    /\ \/ \E tunnel \in Session \union {Absent} : Publish(e, tunnel)
       \/ AddFails(e)
    /\ granted' = [granted EXCEPT ![e] = disk.envs[e].client_auth.token]
    /\ Reply(r)
    /\ UNCHANGED <<disk, minted, status, clientVars>>

ImportApply(r, e) ==
    /\ Working(r, "import", e)
    /\ \/ /\ \E tunnel \in Session \union {Absent} : Publish(e, tunnel)
          /\ Continue(r, Rest(r, e))
       \/ /\ AddFails(e)
          /\ Reply(r)
    /\ UNCHANGED <<disk, minted, status, clientVars, granted>>

\* Mutant: the changed clone is never published.
SwapRuntime_unpublished(e, rt) == UNCHANGED <<live, reported, advice>>

\* swap_runtime: clone what is published, change one field, publish.
SwapRuntime(e, rt) ==
    \/ /\ live[e] # Absent
       /\ live' = [live EXCEPT ![e] = rt]
       /\ UNCHANGED <<reported, advice>>
    \/ /\ live[e] = Absent
       /\ ReportFailure(e)
       /\ UNCHANGED live

\* Mutant: the apply takes config_write again, which its handler still holds.
GrantApply_relocks(r, e) ==
    /\ Working(r, "grant", e)
    /\ config_write = Absent
    /\ SwapRuntime(e, [live[e] EXCEPT !.client_auth = disk.envs[e].client_auth])
    /\ granted' = [granted EXCEPT ![e] = disk.envs[e].client_auth.token]
    /\ Reply(r)
    /\ UNCHANGED <<disk, minted, status, slots, clientVars>>

GrantApply(r, e) ==
    /\ Working(r, "grant", e)
    /\ SwapRuntime(e, [live[e] EXCEPT !.client_auth = disk.envs[e].client_auth])
    /\ granted' = [granted EXCEPT ![e] = disk.envs[e].client_auth.token]
    /\ Reply(r)
    /\ UNCHANGED <<disk, minted, status, slots, clientVars>>

SetPolicyApply(r, e) ==
    /\ Working(r, "set_policy", e)
    /\ SwapRuntime(e, [live[e] EXCEPT !.policy = disk.envs[e].policy])
    /\ Reply(r)
    /\ UNCHANGED <<disk, minted, status, slots, clientVars, granted>>

(***************************************************************************)
(* Start and stop                                                          *)
(***************************************************************************)

Served == {e \in EnvsOf(disk) : disk.envs[e].engine # "mssql"}

BastionsInUse == {disk.envs[e].bastion : e \in Served} \ {Absent}

CleartextRefused == ~Loopback /\ \E e \in Served : disk.envs[e].engine = "postgres"

\* mwsqld run: every env of the config comes up, or none does.  The idle
\* override is applied to this in-memory copy of the config only.
Start ==
    /\ status # "up"
    /\ ~CleartextRefused
    /\ \E opened \in [BastionNames -> Session \union {Absent}] :
          /\ \A b \in BastionNames :
                IF b \in BastionsInUse THEN opened[b] \in Open(disk.bastions[b])
                                       ELSE opened[b] = Absent
          /\ slots' = opened
          /\ live' = [e \in EnvNames |->
                IF e \notin Served THEN Absent
                ELSE [build_env_runtime(disk.envs[e],
                        IF disk.envs[e].bastion = Absent THEN Absent
                        ELSE opened[disk.envs[e].bastion])
                      EXCEPT !.idle = IF IdleOverride THEN "overridden" ELSE "configured"]]
    /\ status' = "up"
    /\ reported' = {}
    /\ advice' = FALSE
    /\ UNCHANGED <<disk, minted, config_write, job, clientVars, granted>>

\* Any env that cannot be built or bound makes bind return an error.
StartFails ==
    /\ status # "up"
    /\ \/ CleartextRefused
       \/ Faults /\ Served # {}
       \/ \E b \in BastionsInUse : OpenMayBeRefused(disk.bastions[b])
    /\ status' = "failed"
    /\ UNCHANGED <<disk, minted, config_write, job, live, slots, clientVars, historyVars>>

\* Shutdown or crash, at any point of any handler: the sealed config is all
\* that survives.
Stop ==
    /\ status = "up"
    /\ status' = "down"
    /\ config_write' = Absent
    /\ job' = [r \in Handlers |-> IdleJob]
    /\ live' = [e \in EnvNames |-> Absent]
    /\ slots' = [b \in BastionNames |-> Absent]
    /\ conn' = [c \in Conns |-> IdleConn]
    /\ stopping' = [e \in EnvNames |-> {}]
    /\ UNCHANGED <<disk, minted, historyVars>>

(***************************************************************************)
(* Client connections                                                      *)
(***************************************************************************)

\* A connection gets the runtime its loop's handle holds at that moment, for good.
Snapshot(c, e, rt, owned) ==
    conn' = [conn EXCEPT ![c] = [st |-> "handshake", env |-> e, rt |-> rt,
                                 floor |-> granted[e], owned |-> owned]]

\* accept_loop never looks at the table: a loop that was aborted may still
\* accept until it stops, on the runtime its handle was dropped with.
Accept(c, e) ==
    /\ conn[c].st = "idle"
    /\ \/ live[e] # Absent /\ Snapshot(c, e, live[e], TRUE)
       \/ \E rt \in stopping[e] : Snapshot(c, e, rt, FALSE)
    /\ UNCHANGED <<disk, minted, daemonVars, stopping, historyVars>>

\* The aborted loops of e are dropped, and with each its JoinSet of sessions.
\* (Loops that stop one after the other are loops that accept no more.)
LoopStops(e) ==
    /\ stopping[e] # {}
    /\ stopping' = [stopping EXCEPT ![e] = {}]
    /\ conn' = [c \in Conns |->
                  IF conn[c].env = e /\ ~conn[c].owned
                  THEN [conn[c] EXCEPT !.st = "aborting"] ELSE conn[c]]
    /\ UNCHANGED <<disk, minted, daemonVars, historyVars>>

\* The client presented the token of the snapshot's client_auth.
Authenticate(c) ==
    /\ conn[c].st = "handshake"
    /\ conn' = [conn EXCEPT ![c].st = "serving"]
    /\ UNCHANGED <<disk, minted, daemonVars, stopping, historyVars>>

\* A failed handshake, the end of a session, or an abort taking effect.
Close(c) ==
    /\ conn[c].st # "idle"
    /\ conn' = [conn EXCEPT ![c] = IdleConn]
    /\ UNCHANGED <<disk, minted, daemonVars, stopping, historyVars>>

-----------------------------------------------------------------------------

ApplyStep(r) ==
    \E e \in EnvNames :
        \/ SetFingerprintApply(r, e)
        \/ RotateCredApply(r, e)
        \/ AddEnvApply(r, e)
        \/ RmEnvApply(r, e)
        \/ GrantApply(r, e)
        \/ SetPolicyApply(r, e)
        \/ ImportApply(r, e)

\* What handler r does on its own once it has persisted its change.
Finish(r) == RmBastionEvict(r) \/ Reload(r) \/ ReloadFails(r) \/ ApplyStep(r)

Submit(r) ==
    \/ \E b \in BastionNames : AddBastion(r, b) \/ RmBastion(r, b) \/ SetFingerprint(r, b)
    \/ \E c \in CredNames : AddCred(r, c) \/ RotateCred(r, c) \/ RmCred(r, c)
    \/ \E e \in EnvNames : AddEnv(r, e) \/ RmEnv(r, e) \/ Grant(r, e) \/ SetPolicy(r, e)
    \/ Import(r)

Next ==
    \/ \E r \in Handlers : Submit(r) \/ Finish(r)
    \/ Start
    \/ StartFails
    \/ Stop
    \/ \E c \in Conns : Authenticate(c) \/ Close(c) \/ \E e \in EnvNames : Accept(c, e)
    \/ \E e \in EnvNames : LoopStops(e)

Spec == Init /\ [][Next]_vars

\* The next step of handler r has to open an SSH session: it waits for a host
\* outside, and the code sets no timeout on the connect.
Connecting(r) ==
    \E op \in {"set_fingerprint", "rotate_cred", "add_env", "import"}, e \in EnvsOf(disk) :
        /\ Working(r, op, e)
        /\ disk.envs[e].bastion # Absent
        /\ slots[disk.envs[e].bastion] = Absent
        /\ op = "set_fingerprint" => live[e] # Absent

\* A handler is a spawned task: it goes on by itself wherever it does not wait
\* for an SSH host.  An aborted task is dropped when it next yields.
FairSpec ==
    /\ Spec
    /\ \A r \in Handlers : WF_vars(~Connecting(r) /\ Finish(r))
    /\ \A e \in EnvNames : WF_vars(LoopStops(e))
    /\ \A c \in Conns : WF_vars(conn[c].st = "aborting" /\ Close(c))

-----------------------------------------------------------------------------
(* Properties *)

\* No handler holds config_write: every change that was persisted has been
\* applied, or its reply has been sent.
Quiescent == status = "up" /\ config_write = Absent

\* Env e is served exactly as the sealed config says, or not at all if the
\* config does not have it.
Applied(e) ==
    IF e \notin Served
    THEN live[e] = Absent
    ELSE /\ live[e] # Absent
         /\ live[e].password = disk.credentials[disk.envs[e].credential].password
         /\ live[e].policy = disk.envs[e].policy
         /\ live[e].client_auth = disk.envs[e].client_auth
         /\ IF disk.envs[e].bastion = Absent
            THEN live[e].tunnel = Absent
            ELSE /\ live[e].tunnel # Absent
                 /\ live[e].tunnel.host = disk.bastions[disk.envs[e].bastion].host

\* Disk and memory never disagree behind the operator's back: whenever no
\* request is being applied and no reply since the start has advised a restart,
\* the env table is what bind would build from the sealed config (the
\* persist-then-apply rule of handlers.rs).
LiveMatchesConfig == Quiescent /\ ~advice => \A e \in EnvNames : Applied(e)

\* Re-pinning fails closed: once a request is over, no env accepts connections
\* over a tunnel whose host key the bastion's current pins refuse, whether the
\* rebuild under the new pin worked, failed, or was cut short by a restart.
RepinFailsClosed ==
    Quiescent =>
        \A e \in EnvNames :
            live[e] # Absent /\ live[e].tunnel # Absent =>
                check_server_key(disk.bastions[disk.envs[e].bastion], live[e].tunnel.key)

\* apply_add_env inserts into the table without looking for an old handle, whose
\* accept loop would go on running unowned: no add ever meets a live env.
NoHandleReplaced ==
    \A r \in Handlers, e \in EnvNames :
        /\ job[r].pc \in {"reload", "apply"}
        /\ job[r].op \in {"add_env", "import"}
        /\ e \in job[r].todo
        => live[e] = Absent

\* A connection accepted after a token was handed out never authenticates with
\* an older one, through any mix of grants, rotations, re-adds and restarts.
\* Only a connection of an accept loop that has left the table is exempt: such a
\* loop may still be accepting when the env is added again, with the old token.
SessionTokenFresh ==
    \A c \in Conns :
        conn[c].st # "idle" /\ conn[c].owned => conn[c].rt.client_auth.token >= conn[c].floor

\* Taking an env offline (rm_env, or a failed re-pin) ends every connection of
\* it, the ones its accept loop still took in after the abort included.
StoppedEnvDrains ==
    \A c \in Conns : ~conn[c].owned ~> conn[c].st = "idle"

\* Every handler that persisted a change gets to its reply, however many envs
\* it has to walk and whichever of them fail, unless it waits for an SSH host
\* for ever (the connect of ssh.rs has no timeout).
HandlersFinish ==
    \A r \in Handlers :
        job[r].pc # "idle" ~> (job[r].pc = "idle" \/ []Connecting(r))

(* What the repository's own text says and the code does not do. *)

\* handlers.rs: a later bastion of the same name cannot inherit the removed
\* one's tunnel (looked at once the removal's own evict is over too).
TunnelNotInherited ==
    Quiescent /\ (\A r \in Handlers : job[r].pc # "evict") =>
        \A e \in EnvNames :
            live[e] # Absent /\ live[e].tunnel # Absent =>
                live[e].tunnel.host = disk.bastions[disk.envs[e].bastion].host

\* handlers.rs: an env that was saved but could not be brought up is bound by a
\* restart.
RestartBindsReported == status = "failed" => reported = {}

\* README: --idle-timeout-secs overrides every env.
OverrideHonoured ==
    IdleOverride => \A e \in EnvNames : live[e] # Absent => live[e].idle = "overridden"

\* README: a non-loopback bind is refused for PostgreSQL.
PostgresOnLoopbackOnly ==
    \A e \in EnvNames :
        Quiescent /\ live[e] # Absent /\ disk.envs[e].engine = "postgres" => Loopback
=============================================================================
