-------------------------------- MODULE Backend --------------------------------
(***************************************************************************)
(* What stands between a session and its database: the SSH session cached  *)
(* by BastionRegistry and the forwards opened over it (mw-net/src/ssh.rs), *)
(* the pool of each published EnvRuntime (mw-net/src/mysql_client.rs,      *)
(* engine/postgres/client.rs) and the reaper of idle connections           *)
(* (mwsqld/src/lib.rs, mw-net/src/idle.rs).                                *)
(*                                                                         *)
(* There is one bastion.  A pool and its forwards live in an Arc that the  *)
(* env table and the sessions share, so a pool is in the domain of pools   *)
(* for as long as somebody holds it; an authz or policy swap publishes the *)
(* same pool again and is not a step here.  deadpool, tokio and russh are  *)
(* external: a pool hands out at most MaxSize connections, oldest first,   *)
(* recycles an idle one before it hands it out and creates one when none   *)
(* is idle.  A step of the clock is half a second, so that half of a       *)
(* timeout is a whole number of them, and the reaper's task runs within    *)
(* the one in which it becomes ready.                                      *)
(*                                                                         *)
(* Left out: an open that fails (nothing changes, or the daemon does not   *)
(* start), probes (they use a registry of their own and drop everything),  *)
(* and an edit of the timeouts in the sealed config.                       *)
(***************************************************************************)
EXTENDS Integers, Sequences, FiniteSets, SequencesExt, FiniteSetsExt, Functions

CONSTANTS
    Envs,           \* the envs a client may add
    Tunnelled,      \* the ones that have a bastion
    Clients,        \* client connections
    IdleTimeout,    \* pool.idle_timeout_secs of each env in the sealed config;
                    \* 0 disables reaping
    Override,       \* --idle-timeout-secs of the run, or None
    MaxSize,        \* pool.max_size
    Ceiling,        \* longest cadence of the reaper, in seconds (60 in the code)
    Dials,          \* the envs each client connects to
    MaxBuilds,      \* bound on the pools that are built
    MaxFaults,      \* bound on the failures of the database and of SSH
    None

ASSUME BackendAssumption ==
    /\ Tunnelled \subseteq Envs
    /\ IdleTimeout \in [Envs -> Nat] /\ Override \in Nat \cup {None}
    /\ MaxSize \in Nat \ {0}
    /\ Ceiling \in Nat \ {0}
    /\ Dials \in [Clients -> SUBSET Envs]
    /\ MaxBuilds \in Nat /\ MaxFaults \in Nat
    /\ IsFiniteSet(Envs) /\ IsFiniteSet(Clients)
    /\ None \notin Nat

(* Pools, and the SSH sessions opened for them, are numbered as they are   *)
(* built.                                                                  *)
Ids == 1..MaxBuilds

VARIABLES
    running,    \* bind has returned: the reaper and the control channel are there
    slot,       \* BastionRegistry: the cached SSH session
    ssh,        \* the SSH sessions that work
    pools,      \* the pools somebody holds, with their forwards
    current,    \* the pool each live env publishes
    client,     \* what each client connection is doing
    due,        \* half-seconds to the next sweep
    woken,      \* reap_wake has a permit
    builds,     \* pools built so far
    faults      \* failures so far

vars == <<running, slot, ssh, pools, current, client, due, woken, builds, faults>>

(* age is Metrics::last_used, the half-seconds since the last checkout;    *)
(* rest (history) those since the connection was handed back.  Both are    *)
(* counted as far as they make a difference for the connection's pool.     *)
Conn == [age : Nat, rest : Nat, up : BOOLEAN]

(* timeout is EnvRuntime::idle_timeout, in seconds.  unseen (history): the *)
(* sweep that comes next was not scheduled with this timeout in view, or   *)
(* connections were already idle when it was.                              *)
Pool == [env : Envs, via : Ids \cup {None}, timeout : Nat, unseen : BOOLEAN, idle : Seq(Conn)]

(* A client waits for a permit, then its connection is being recycled or   *)
(* created, then it runs its statement on it.                              *)
Gone == [at |-> "gone", pool |-> None, conn |-> None]
ClientStates ==
    {Gone}
    \cup [at : {"ready", "waiting", "creating"}, pool : Ids, conn : {None}]
    \cup [at : {"recycling", "busy"}, pool : Ids, conn : Conn]

TypeOK ==
    /\ running \in BOOLEAN
    /\ slot \in Ids \cup {None}
    /\ ssh \subseteq Ids
    /\ DOMAIN pools \subseteq Ids
    /\ \A p \in DOMAIN pools : pools[p] \in Pool
    /\ current \in [Envs -> DOMAIN pools \cup {None}]
    /\ client \in [Clients -> ClientStates]
    /\ \A c \in Clients : client[c].pool \in DOMAIN pools \cup {None}
    /\ due \in 0..(2 * Ceiling)
    /\ woken \in BOOLEAN
    /\ builds \in 0..MaxBuilds /\ faults \in 0..MaxFaults

-----------------------------------------------------------------------------
(* The reaper's arithmetic. *)

should_retain(last_used, timeout) == timeout = 0 \/ last_used < 2 * timeout

(* Half of the timeout, between a second and the ceiling: min seconds are  *)
(* twice min half-seconds, and half of that is min.                        *)
reaper_interval(min) == Max({2, Min({min, 2 * Ceiling})})

(* How long a connection may lie idle in a pool with this timeout. *)
Deadline(timeout) == 2 * timeout + reaper_interval(timeout)

(* current_reap_interval, for the published pools that cur names. *)
current_reap_interval(cur, ps) ==
    LET timeouts == {ps[cur[e]].timeout : e \in {f \in Envs : cur[f] # None}} \ {0}
    IN IF timeouts = {} THEN 2 * Ceiling ELSE reaper_interval(Min(timeouts))

-----------------------------------------------------------------------------
(* Reference counts: what is still held when the env table is cur and the  *)
(* clients are cl.                                                         *)

(* Mutant: a session does not keep the runtime it was accepted with. *)
Held_published(cur, cl) == {cur[e] : e \in Envs} \ {None}

Held(cur, cl) ==
    ({cur[e] : e \in Envs} \cup {cl[c].pool : c \in Clients}) \ {None}

(* Dropping the last reference to a pool closes its connections and aborts *)
(* its forwards, and dropping the last reference to an SSH session closes  *)
(* it.                                                                     *)
Publish(cur, cl, ps, sl, up) ==
    LET held == Held(cur, cl)
    IN /\ current' = cur
       /\ client' = cl
       /\ pools' = Restrict(ps, held)
       /\ slot' = sl
       /\ ssh' = up \cap ({sl} \cup {ps[p].via : p \in held})

(* The steps of one client, which leave the env table alone. *)
Session(cl, ps) ==
    /\ Publish(current, cl, ps, slot, ssh)
    /\ UNCHANGED <<running, due, woken, builds>>

-----------------------------------------------------------------------------
(* The env table. *)

(* get_or_open: the slot is used if it is occupied, whether or not the     *)
(* session in it still works.                                              *)
get_or_open == IF slot # None THEN slot ELSE builds + 1

(* build_env_runtime: the bastion's session, a forward over it and a pool  *)
(* that has no connection yet.                                             *)
build_env_runtime(e, sl, timeout, unseen) ==
    [env |-> e, via |-> IF e \in Tunnelled THEN sl ELSE None,
     timeout |-> timeout, unseen |-> unseen, idle |-> <<>>]

PublishNew(e, timeout, unseen) ==
    LET sl == IF e \in Tunnelled THEN get_or_open ELSE slot
        opened == IF sl # slot THEN {sl} ELSE {}
        new == build_env_runtime(e, sl, timeout, unseen)
    IN /\ builds < MaxBuilds
       /\ builds' = builds + 1
       /\ Publish([current EXCEPT ![e] = builds'], client,
                  [p \in DOMAIN pools \cup {builds'} |->
                      IF p = builds' THEN new ELSE pools[p]],
                  sl, ssh \cup opened)

(* Daemon::bind, one env of the config it was given: its listener serves   *)
(* clients at once, while the next env is built.  The run's override       *)
(* counts here and nowhere else.                                           *)
bind_env(e) ==
    /\ ~running /\ current[e] = None
    /\ PublishNew(e, IF Override = None THEN IdleTimeout[e] ELSE Override, TRUE)
    /\ UNCHANGED <<running, due, woken, faults>>

(* Daemon::run: the reaper is spawned, and the control channel. *)
run ==
    /\ ~running /\ running' = TRUE
    /\ due' = current_reap_interval(current, pools)
    /\ UNCHANGED <<slot, ssh, pools, current, client, woken, builds, faults>>

(* Mutant: the reaper is not told of the new env. *)
apply_add_env_unannounced(e) ==
    /\ running /\ current[e] = None
    /\ PublishNew(e, IdleTimeout[e], FALSE)
    /\ UNCHANGED <<running, due, woken, faults>>

apply_add_env(e) ==
    /\ running /\ current[e] = None
    /\ PublishNew(e, IdleTimeout[e], FALSE)
    /\ woken' = TRUE
    /\ UNCHANGED <<running, due, faults>>

Shortens(old, new) == new > 0 /\ (old = 0 \/ new < old)

(* A rotated credential or a new pin.  The timeout is the sealed config's, *)
(* whatever the run's override was, and the reaper is not told.            *)
apply_rebuild_backend(e) ==
    /\ running /\ current[e] # None
    /\ LET old == pools[current[e]]
       IN PublishNew(e, IdleTimeout[e],
                     old.unseen \/ Shortens(old.timeout, IdleTimeout[e]))
    /\ UNCHANGED <<running, due, woken, faults>>

(* The accept loop is aborted and its sessions with it (that this takes a  *)
(* while is in Daemon).                                                    *)
apply_rm_env(e) ==
    /\ running /\ current[e] # None
    /\ Publish([current EXCEPT ![e] = None],
               [c \in Clients |->
                   IF client[c] # Gone /\ pools[client[c].pool].env = e
                   THEN Gone ELSE client[c]],
               pools, slot, ssh)
    /\ UNCHANGED <<running, due, woken, builds, faults>>

(* Mutant: the evicted session is closed under those who use it. *)
evict_closing ==
    /\ running /\ slot # None
    /\ Publish(current, client, pools, None, ssh \ {slot})
    /\ UNCHANGED <<running, due, woken, builds, faults>>

evict ==
    /\ running /\ slot # None
    /\ Publish(current, client, pools, None, ssh)
    /\ UNCHANGED <<running, due, woken, builds, faults>>

-----------------------------------------------------------------------------
(* Sessions. *)

Goto(c, at, conn) == [client EXCEPT ![c].at = at, ![c].conn = conn]

PoolOf(c) == pools[client[c].pool]

Reaches(p) == p.via = None \/ p.via \in ssh

(* What the client's statement sees of the connection it runs on. *)
Works(c) == client[c].conn.up /\ Reaches(PoolOf(c))

(* accept_loop: the connection keeps the runtime it was accepted with. *)
accept(c, e) ==
    /\ client[c] = Gone
    /\ current[e] # None
    /\ Session([client EXCEPT ![c] = [at |-> "ready", pool |-> current[e], conn |-> None]],
               pools)
    /\ UNCHANGED faults

Ask(c) ==
    /\ client[c].at = "ready"
    /\ Session(Goto(c, "waiting", None), pools)
    /\ UNCHANGED faults

Permits(p) ==
    MaxSize - Cardinality({c \in Clients :
        client[c].pool = p /\ client[c].at \in {"recycling", "creating", "busy"}})

(* Pool::get once it has its permit: the oldest idle connection, or a new  *)
(* one.                                                                    *)
Take(c) ==
    LET idle == PoolOf(c).idle
    IN IF idle = <<>>
       THEN Session(Goto(c, "creating", None), pools)
       ELSE Session(Goto(c, "recycling", [Head(idle) EXCEPT !.age = 0, !.rest = 0]),
                    [pools EXCEPT ![client[c].pool].idle = Tail(idle)])

GetPermit(c) ==
    /\ client[c].at = "waiting"
    /\ Permits(client[c].pool) > 0
    /\ Take(c)
    /\ UNCHANGED faults

wait_timeout(c) ==
    /\ client[c].at = "waiting"
    /\ Session(Goto(c, "ready", None), pools)
    /\ UNCHANGED faults

(* recycle: SELECT 1 on the idle connection.  One that does not answer is  *)
(* dropped and the next one is taken.                                      *)
recycle(c) ==
    /\ client[c].at = "recycling"
    /\ IF Works(c)
       THEN Session(Goto(c, "busy", client[c].conn), pools)
       ELSE Take(c)
    /\ UNCHANGED faults

(* create: through the forward when the env has one.  Over an SSH session  *)
(* that no longer works the forward drops the socket.                      *)
create(c) ==
    /\ client[c].at = "creating"
    /\ IF Reaches(PoolOf(c))
       THEN Session(Goto(c, "busy", [age |-> 0, rest |-> 0, up |-> TRUE]), pools)
       ELSE Session(Goto(c, "ready", None), pools)
    /\ UNCHANGED faults

(* The statement is done and the connection goes back to its pool, in      *)
(* whatever state it is in.                                                *)
Return(c, to) ==
    Session(to, [pools EXCEPT ![client[c].pool].idle = Append(@, client[c].conn)])

Done(c) ==
    /\ client[c].at = "busy"
    /\ Return(c, Goto(c, "ready", None))
    /\ UNCHANGED faults

(* The session ends: a connection it was using goes back, one that was     *)
(* being recycled is dropped.                                              *)
Leave(c) ==
    /\ client[c] # Gone
    /\ IF client[c].at = "busy"
       THEN Return(c, [client EXCEPT ![c] = Gone])
       ELSE Session([client EXCEPT ![c] = Gone], pools)
    /\ UNCHANGED faults

-----------------------------------------------------------------------------
(* Failures. *)

Fault == faults < MaxFaults /\ faults' = faults + 1

(* The bastion drops the SSH session: the forwards over it stay, and so    *)
(* does the slot.                                                          *)
SshDies(k) ==
    /\ k \in ssh
    /\ Fault
    /\ ssh' = ssh \ {k}
    /\ UNCHANGED <<running, slot, pools, current, client, due, woken, builds>>

(* The database closes a connection that is idle, or in use. *)
IdleConnDies(p, i) ==
    /\ p \in DOMAIN pools /\ i \in DOMAIN pools[p].idle
    /\ pools[p].idle[i].up
    /\ Fault
    /\ pools' = [pools EXCEPT ![p].idle[i].up = FALSE]
    /\ UNCHANGED <<running, slot, ssh, current, client, due, woken, builds>>

BusyConnDies(c) ==
    /\ client[c].at = "busy" /\ client[c].conn.up
    /\ Fault
    /\ client' = [client EXCEPT ![c].conn.up = FALSE]
    /\ UNCHANGED <<running, slot, ssh, pools, current, due, woken, builds>>

-----------------------------------------------------------------------------
(* reap_loop. *)

(* Pool::retain: the connections that stay, in their order. *)
retain(idle, timeout) ==
    LET kept[n \in 0..Len(idle)] ==
          IF n = 0 THEN <<>>
          ELSE IF should_retain(idle[n].age, timeout) THEN Append(kept[n - 1], idle[n])
          ELSE kept[n - 1]
    IN  kept[Len(idle)]

reap_idle(p) == retain(pools[p].idle, pools[p].timeout)

(* The sweep looks at the published pools only. *)
Sweep ==
    /\ running /\ due = 0 /\ ~woken
    /\ LET swept == {current[e] : e \in Envs} \ {None}
       IN pools' = [p \in DOMAIN pools |->
                       IF p \in swept
                       THEN [pools[p] EXCEPT !.idle = reap_idle(p), !.unseen = FALSE]
                       ELSE pools[p]]
    /\ due' = current_reap_interval(current, pools)
    /\ UNCHANGED <<running, slot, ssh, current, client, woken, builds, faults>>

(* wake.notified(): the deadline is pulled earlier or stays. *)
Retuned == Min({due, current_reap_interval(current, pools)})

Wake ==
    /\ running /\ woken
    /\ due' = Retuned
    /\ woken' = FALSE
    /\ UNCHANGED <<running, slot, ssh, pools, current, client, builds, faults>>

Older(k, timeout) == [k EXCEPT !.age = Min({@ + 1, 2 * timeout})]

Rested(k, timeout) ==
    [Older(k, timeout) EXCEPT
        !.rest = IF timeout = 0 THEN 0 ELSE Min({@ + 1, Deadline(timeout)})]

(* Half a second passes: last_used counts from the last checkout, also     *)
(* while the connection is in use.                                         *)
Pass ==
    /\ pools' = [p \in DOMAIN pools |->
                    [pools[p] EXCEPT !.idle =
                        [i \in DOMAIN @ |-> Rested(@[i], pools[p].timeout)]]]
    /\ client' = [c \in Clients |->
                     IF client[c].at # "busy" THEN client[c]
                     ELSE [client[c] EXCEPT !.conn = Older(@, PoolOf(c).timeout)]]
    /\ UNCHANGED <<running, slot, ssh, current, woken, builds, faults>>

Tick ==
    /\ running /\ due > 0 /\ ~woken
    /\ due' = due - 1
    /\ Pass

(* Before run nobody waits for a deadline. *)
Starting ==
    /\ ~running
    /\ Pass
    /\ UNCHANGED due

-----------------------------------------------------------------------------
Init ==
    /\ running = FALSE
    /\ slot = None /\ ssh = {}
    /\ pools = <<>>
    /\ current = [e \in Envs |-> None]
    /\ client = [c \in Clients |-> Gone]
    /\ due = 0
    /\ woken = FALSE
    /\ builds = 0 /\ faults = 0

Table == \/ \E e \in Envs : apply_add_env(e) \/ apply_rebuild_backend(e) \/ apply_rm_env(e)
         \/ evict

Checkout(c) == GetPermit(c) \/ wait_timeout(c) \/ recycle(c) \/ create(c)

Failure == \/ \E k \in ssh : SshDies(k)
           \/ \E p \in DOMAIN pools : \E i \in DOMAIN pools[p].idle : IdleConnDies(p, i)
           \/ \E c \in Clients : BusyConnDies(c)

Start == (\E e \in Envs : bind_env(e)) \/ run \/ Starting

Next ==
    \/ Start \/ Table
    \/ \E c \in Clients : \/ \E e \in Dials[c] : accept(c, e)
                          \/ Ask(c) \/ Checkout(c) \/ Done(c) \/ Leave(c)
    \/ Failure
    \/ Sweep \/ Wake \/ Tick

Spec == Init /\ [][Next]_vars

-----------------------------------------------------------------------------
(* Properties. *)

(* "No mid-session break": a client whose statement runs on a working      *)
(* connection keeps it, whatever is rebuilt, re-pinned, removed elsewhere  *)
(* or swept meanwhile, until it is done, unless the database or the        *)
(* bastion fails or the session is ended.                                  *)
NoMidSessionBreak ==
    [][\A c \in Clients :
          (client[c].at = "busy" /\ Works(c) /\ faults' = faults /\ client'[c].at = "busy")
             => Works(c)']_vars

(* reaper_interval's promise, for every published env and however often    *)
(* envs are added, removed and rebuilt: a connection is closed before it   *)
(* has lain idle for its timeout and one cadence of its own more.  What    *)
(* bind publishes, and a rebuild that drops the override for a shorter     *)
(* timeout, without a word to the reaper, has the promise from the next    *)
(* sweep on.                                                               *)
IdleClosedInTime ==
    \A e \in Envs : current[e] # None =>
        LET p == pools[current[e]]
        IN p.timeout > 0 /\ ~p.unseen =>
              \A i \in DOMAIN p.idle : p.idle[i].rest < Deadline(p.timeout)

(* Observation: without the exception a rebuild breaks it. *)
RebuiltClosedInTime ==
    \A e \in Envs : running /\ current[e] # None =>
        LET p == pools[current[e]]
        IN p.timeout > 0 => \A i \in DOMAIN p.idle : p.idle[i].rest < Deadline(p.timeout)

(* "Existing live slot": an env that is published with a bastion gets a    *)
(* forward over an SSH session that works.                                 *)
PublishedTunnelWorks ==
    [][\A e \in Tunnelled :
          (current'[e] # current[e] /\ current'[e] # None)
             => pools'[current'[e]].via \in ssh']_vars
=============================================================================
