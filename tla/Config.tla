------------------------------- MODULE Config -------------------------------
(***************************************************************************)
(* The sealed configuration of middleWHERE and the transforms on it:       *)
(* mw-core/src/config.rs (Config, validate) and mw-core/src/mutate.rs.     *)
(*                                                                         *)
(* A map of the code is a total function that is Absent where the map has  *)
(* no entry.  A transform that can bail is a pair: the condition under     *)
(* which it succeeds (X_ok) and the configuration it returns (X).          *)
(*                                                                         *)
(* Abstractions.  A secret is a model value (passwords) or a number        *)
(* (client tokens: the n-th token to be put in force, so that "older" and  *)
(* "newer" make sense; one the CLI mints for an import gets its number     *)
(* when the import is merged).  ClientAuth keeps its kind and the token    *)
(* its hash was computed from.  Hosts, users, databases and pool sizes     *)
(* that no property tells apart are dropped; schema_version is dropped     *)
(* because load_config migrates it before anything else sees it.           *)
(***************************************************************************)
EXTENDS Naturals

CONSTANTS
    EnvNames,      \* env names; numbers, because a BTreeMap is walked in name order
    BastionNames,
    CredNames,
    Hosts,         \* SSH endpoints a bastion entry may name
    Keys,          \* host keys (their fingerprints)
    Passwords,     \* backend passwords
    ListenPorts,   \* every port an env may listen on
    ClientPorts,   \* CLIENT_PORT_BASE..CLIENT_PORT_END
    Absent         \* no entry in a map, None in an Option

Engines   == {"mysql", "postgres", "mssql"}
Policies  == {"read_only", "read_write"}
AuthKinds == {"native_password", "pg_cleartext"}

ClientAuth == [kind : AuthKinds, token : Nat]
Bastion    == [host : Hosts, pinned : SUBSET Keys]
Credential == [password : Passwords]
Env == [bastion     : BastionNames \union {Absent},
        credential  : CredNames,
        policy      : Policies,
        client_auth : ClientAuth,
        listen_port : ListenPorts,
        engine      : Engines]

Configs == [bastions    : [BastionNames -> Bastion \union {Absent}],
            credentials : [CredNames -> Credential \union {Absent}],
            envs        : [EnvNames -> Env \union {Absent}]]

ASSUME NamesAssumption ==
    /\ EnvNames \subseteq Nat
    /\ ListenPorts \subseteq Nat
    /\ ClientPorts \subseteq ListenPorts

ASSUME AbsentAssumption ==
    /\ Absent \notin Bastion
    /\ Absent \notin Credential
    /\ Absent \notin Env
    /\ Absent \notin BastionNames
    /\ Absent \notin ListenPorts

(***************************************************************************)
(* Config::default and Config::validate                                    *)
(***************************************************************************)

DefaultConfig ==
    [bastions    |-> [b \in BastionNames |-> Absent],
     credentials |-> [c \in CredNames |-> Absent],
     envs        |-> [e \in EnvNames |-> Absent]]

EnvsOf(cfg) == {e \in EnvNames : cfg.envs[e] # Absent}

AuthMatchesEngine(env) ==
    \/ env.engine = "mysql"    /\ env.client_auth.kind = "native_password"
    \/ env.engine = "postgres" /\ env.client_auth.kind = "pg_cleartext"
    \/ env.engine = "mssql"

RefsResolve(cfg) ==
    \A e \in EnvsOf(cfg) :
        /\ cfg.envs[e].bastion # Absent =>
               cfg.bastions[cfg.envs[e].bastion] # Absent
        /\ cfg.credentials[cfg.envs[e].credential] # Absent

PortsUnique(cfg) ==
    \A e, f \in EnvsOf(cfg) :
        cfg.envs[e].listen_port = cfg.envs[f].listen_port => e = f

validate(cfg) ==
    /\ RefsResolve(cfg)
    /\ \A e \in EnvsOf(cfg) : AuthMatchesEngine(cfg.envs[e])
    /\ PortsUnique(cfg)

(***************************************************************************)
(* Bastions                                                                *)
(***************************************************************************)

add_bastion_ok(cfg, b) == cfg.bastions[b] = Absent

\* Mutant: the name is stored where the host goes (both are strings).
add_bastion_misnamed(cfg, b, host, pins) ==
    [cfg EXCEPT !.bastions[b] = [host |-> b, pinned |-> pins]]

add_bastion(cfg, b, host, pins) ==
    [cfg EXCEPT !.bastions[b] = [host |-> host, pinned |-> pins]]

set_fingerprint_ok(cfg, b) == cfg.bastions[b] # Absent

\* The pin list is replaced, not extended.
set_fingerprint(cfg, b, key) ==
    [cfg EXCEPT !.bastions[b] = [host |-> cfg.bastions[b].host, pinned |-> {key}]]

UsersOfBastion(cfg, b) == {e \in EnvsOf(cfg) : cfg.envs[e].bastion = b}

rm_bastion_ok(cfg, b) == UsersOfBastion(cfg, b) = {} /\ cfg.bastions[b] # Absent

rm_bastion(cfg, b) == [cfg EXCEPT !.bastions[b] = Absent]

(***************************************************************************)
(* Credentials                                                             *)
(***************************************************************************)

add_cred_ok(cfg, c) == cfg.credentials[c] = Absent

add_cred(cfg, c, pw) == [cfg EXCEPT !.credentials[c] = [password |-> pw]]

rotate_cred_ok(cfg, c) == cfg.credentials[c] # Absent

rotate_cred(cfg, c, pw) == [cfg EXCEPT !.credentials[c] = [password |-> pw]]

UsersOfCred(cfg, c) == {e \in EnvsOf(cfg) : cfg.envs[e].credential = c}

\* Mutant: rm_cred without the check that no env uses the credential.
rm_cred_unchecked(cfg, c) == cfg.credentials[c] # Absent

rm_cred_ok(cfg, c) == UsersOfCred(cfg, c) = {} /\ cfg.credentials[c] # Absent

rm_cred(cfg, c) == [cfg EXCEPT !.credentials[c] = Absent]

(***************************************************************************)
(* Envs and their client tokens                                            *)
(***************************************************************************)

client_auth_for(engine, token) ==
    [kind  |-> IF engine = "postgres" THEN "pg_cleartext" ELSE "native_password",
     token |-> token]

UsedPorts(cfg) == {cfg.envs[e].listen_port : e \in EnvsOf(cfg)}

\* pick_free_port returns the smallest free client port; IsFreePort(cfg, p)
\* says that p is the one it returns.
IsFreePort(cfg, p) ==
    /\ p \in ClientPorts \ UsedPorts(cfg)
    /\ \A q \in ClientPorts \ UsedPorts(cfg) : p <= q

\* The port an env ends up with, for the port the request asked for.
PortFor(cfg, asked, p) ==
    IF asked = Absent THEN IsFreePort(cfg, p)
                      ELSE p = asked /\ asked \notin UsedPorts(cfg)

add_env_ok(cfg, e, b, c, engine) ==
    /\ engine # "mssql"
    /\ cfg.envs[e] = Absent
    /\ cfg.credentials[c] # Absent
    /\ b # Absent => cfg.bastions[b] # Absent

add_env(cfg, e, b, c, policy, engine, port, token) ==
    [cfg EXCEPT !.envs[e] = [bastion     |-> b,
                             credential  |-> c,
                             policy      |-> policy,
                             client_auth |-> client_auth_for(engine, token),
                             listen_port |-> port,
                             engine      |-> engine]]

rm_env_ok(cfg, e) == cfg.envs[e] # Absent

rm_env(cfg, e) == [cfg EXCEPT !.envs[e] = Absent]

grant_env_ok(cfg, e) == cfg.envs[e] # Absent

grant_env(cfg, e, token) ==
    [cfg EXCEPT !.envs[e] =
        [cfg.envs[e] EXCEPT !.client_auth = client_auth_for(cfg.envs[e].engine, token)]]

set_policy_ok(cfg, e) == cfg.envs[e] # Absent

set_policy(cfg, e, policy) ==
    [cfg EXCEPT !.envs[e] = [cfg.envs[e] EXCEPT !.policy = policy]]

(***************************************************************************)
(* Import                                                                  *)
(***************************************************************************)

Overlay(old, new) == [n \in DOMAIN old |-> IF new[n] # Absent THEN new[n] ELSE old[n]]

Disjoint(old, new) == \A n \in DOMAIN old : new[n] # Absent => old[n] = Absent

\* Collisions are looked for against the existing configuration only: two envs
\* of the fragment on one port, or a reference that does not resolve, are left
\* to the validation that precedes the save.
merge_import_ok(cfg, fragment) ==
    /\ Disjoint(cfg.bastions, fragment.bastions)
    /\ Disjoint(cfg.credentials, fragment.credentials)
    /\ Disjoint(cfg.envs, fragment.envs)
    /\ UsedPorts(cfg) \intersect UsedPorts(fragment) = {}

merge_import(cfg, fragment) ==
    [bastions    |-> Overlay(cfg.bastions, fragment.bastions),
     credentials |-> Overlay(cfg.credentials, fragment.credentials),
     envs        |-> Overlay(cfg.envs, fragment.envs)]
=============================================================================
