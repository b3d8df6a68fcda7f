---------------------------- MODULE Config_proofs ----------------------------
(***************************************************************************)
(* What each transform of Config preserves, for every value of the         *)
(* constants: the type of a configuration and its validity.                *)
(***************************************************************************)
EXTENDS Config, TLAPS

\* A fresh configuration is one, and Config::validate accepts it.
LEMMA DefaultConfigOK == DefaultConfig \in Configs /\ validate(DefaultConfig)
  BY DEF DefaultConfig, Configs, validate, RefsResolve, PortsUnique, EnvsOf

-----------------------------------------------------------------------------
(* Types *)

\* add_bastion returns a configuration.
LEMMA add_bastion_type ==
    ASSUME NEW cfg \in Configs, NEW b \in BastionNames, NEW h \in Hosts, NEW pins \in SUBSET Keys
    PROVE  add_bastion(cfg, b, h, pins) \in Configs
  BY DEF add_bastion, Configs, Bastion

\* set_fingerprint on an existing bastion returns a configuration.
LEMMA set_fingerprint_type ==
    ASSUME NEW cfg \in Configs, NEW b \in BastionNames, NEW k \in Keys,
           set_fingerprint_ok(cfg, b)
    PROVE  set_fingerprint(cfg, b, k) \in Configs
  BY DEF set_fingerprint, set_fingerprint_ok, Configs, Bastion

\* rm_bastion returns a configuration.
LEMMA rm_bastion_type ==
    ASSUME NEW cfg \in Configs, NEW b \in BastionNames
    PROVE  rm_bastion(cfg, b) \in Configs
  BY DEF rm_bastion, Configs

\* add_cred returns a configuration.
LEMMA add_cred_type ==
    ASSUME NEW cfg \in Configs, NEW c \in CredNames, NEW pw \in Passwords
    PROVE  add_cred(cfg, c, pw) \in Configs
  BY DEF add_cred, Configs, Credential

\* rotate_cred returns a configuration.
LEMMA rotate_cred_type ==
    ASSUME NEW cfg \in Configs, NEW c \in CredNames, NEW pw \in Passwords
    PROVE  rotate_cred(cfg, c, pw) \in Configs
  BY DEF rotate_cred, Configs, Credential

\* rm_cred returns a configuration.
LEMMA rm_cred_type ==
    ASSUME NEW cfg \in Configs, NEW c \in CredNames
    PROVE  rm_cred(cfg, c) \in Configs
  BY DEF rm_cred, Configs

\* client_auth_for builds a ClientAuth.
LEMMA client_auth_for_type ==
    ASSUME NEW engine \in Engines, NEW token \in Nat
    PROVE  client_auth_for(engine, token) \in ClientAuth
  BY DEF client_auth_for, ClientAuth, AuthKinds, Engines

\* add_env returns a configuration.
LEMMA add_env_type ==
    ASSUME NEW cfg \in Configs, NEW e \in EnvNames, NEW b \in BastionNames \union {Absent},
           NEW c \in CredNames, NEW policy \in Policies, NEW engine \in Engines,
           NEW port \in ListenPorts, NEW token \in Nat
    PROVE  add_env(cfg, e, b, c, policy, engine, port, token) \in Configs
  BY client_auth_for_type DEF add_env, Configs, Env

\* rm_env returns a configuration.
LEMMA rm_env_type ==
    ASSUME NEW cfg \in Configs, NEW e \in EnvNames
    PROVE  rm_env(cfg, e) \in Configs
  BY DEF rm_env, Configs

\* grant_env on an existing env returns a configuration.
LEMMA grant_env_type ==
    ASSUME NEW cfg \in Configs, NEW e \in EnvNames, NEW token \in Nat,
           grant_env_ok(cfg, e)
    PROVE  grant_env(cfg, e, token) \in Configs
<1>1. cfg.envs[e] \in Env
  BY DEF grant_env_ok, Configs
<1>2. client_auth_for(cfg.envs[e].engine, token) \in ClientAuth
  BY <1>1, client_auth_for_type DEF Env
<1> QED
  BY <1>1, <1>2 DEF grant_env, Configs, Env

\* set_policy on an existing env returns a configuration.
LEMMA set_policy_type ==
    ASSUME NEW cfg \in Configs, NEW e \in EnvNames, NEW policy \in Policies,
           set_policy_ok(cfg, e)
    PROVE  set_policy(cfg, e, policy) \in Configs
  BY DEF set_policy, set_policy_ok, Configs, Env

\* merge_import returns a configuration.
LEMMA merge_import_type ==
    ASSUME NEW cfg \in Configs, NEW f \in Configs
    PROVE  merge_import(cfg, f) \in Configs
<1>1. Overlay(cfg.bastions, f.bastions) \in [BastionNames -> Bastion \union {Absent}]
  BY DEF Overlay, Configs
<1>2. Overlay(cfg.credentials, f.credentials) \in [CredNames -> Credential \union {Absent}]
  BY DEF Overlay, Configs
<1>3. Overlay(cfg.envs, f.envs) \in [EnvNames -> Env \union {Absent}]
  BY DEF Overlay, Configs
<1> QED
  BY <1>1, <1>2, <1>3 DEF merge_import, Configs

-----------------------------------------------------------------------------
(* Validity: no transform but import needs the validation save_config runs *)

\* Adding, or re-pinning, a bastion leaves the configuration valid: a bastion
\* that was there still is.
LEMMA bastion_set_valid ==
    ASSUME NEW cfg \in Configs, validate(cfg), NEW b \in BastionNames, NEW x \in Bastion
    PROVE  validate([cfg EXCEPT !.bastions[b] = x])
<1> DEFINE new == [cfg EXCEPT !.bastions[b] = x]
<1>1. new.envs = cfg.envs /\ new.credentials = cfg.credentials
  BY DEF Configs
<1>2. \A d \in BastionNames : cfg.bastions[d] # Absent => new.bastions[d] # Absent
  BY AbsentAssumption DEF Configs
<1>3. \A e \in EnvsOf(cfg) : cfg.envs[e] \in Env
  BY DEF EnvsOf, Configs
<1> QED
  BY <1>1, <1>2, <1>3 DEF validate, RefsResolve, PortsUnique, EnvsOf, Env

\* rm_bastion refuses a bastion that an env names, so references still resolve.
LEMMA rm_bastion_valid ==
    ASSUME NEW cfg \in Configs, validate(cfg), NEW b \in BastionNames, rm_bastion_ok(cfg, b)
    PROVE  validate(rm_bastion(cfg, b))
<1> DEFINE new == rm_bastion(cfg, b)
<1>1. new.envs = cfg.envs /\ new.credentials = cfg.credentials
  BY DEF rm_bastion, Configs
<1>2. \A d \in BastionNames \ {b} : new.bastions[d] = cfg.bastions[d]
  BY DEF rm_bastion, Configs
<1>3. \A e \in EnvsOf(cfg) : cfg.envs[e] \in Env /\ cfg.envs[e].bastion # b
  BY DEF rm_bastion_ok, UsersOfBastion, EnvsOf, Configs
<1> QED
  BY <1>1, <1>2, <1>3 DEF validate, RefsResolve, PortsUnique, EnvsOf, Env

\* Adding, or rotating, a credential leaves the configuration valid.
LEMMA cred_set_valid ==
    ASSUME NEW cfg \in Configs, validate(cfg), NEW c \in CredNames, NEW x \in Credential
    PROVE  validate([cfg EXCEPT !.credentials[c] = x])
<1> DEFINE new == [cfg EXCEPT !.credentials[c] = x]
<1>1. new.envs = cfg.envs /\ new.bastions = cfg.bastions
  BY DEF Configs
<1>2. \A d \in CredNames : cfg.credentials[d] # Absent => new.credentials[d] # Absent
  BY AbsentAssumption DEF Configs
<1>3. \A e \in EnvsOf(cfg) : cfg.envs[e] \in Env
  BY DEF EnvsOf, Configs
<1> QED
  BY <1>1, <1>2, <1>3 DEF validate, RefsResolve, PortsUnique, EnvsOf, Env

\* rm_cred refuses a credential that an env names, so references still resolve.
LEMMA rm_cred_valid ==
    ASSUME NEW cfg \in Configs, validate(cfg), NEW c \in CredNames, rm_cred_ok(cfg, c)
    PROVE  validate(rm_cred(cfg, c))
<1> DEFINE new == rm_cred(cfg, c)
<1>1. new.envs = cfg.envs /\ new.bastions = cfg.bastions
  BY DEF rm_cred, Configs
<1>2. \A d \in CredNames \ {c} : new.credentials[d] = cfg.credentials[d]
  BY DEF rm_cred, Configs
<1>3. \A e \in EnvsOf(cfg) : cfg.envs[e] \in Env /\ cfg.envs[e].credential # c
  BY DEF rm_cred_ok, UsersOfCred, EnvsOf, Configs
<1> QED
  BY <1>1, <1>2, <1>3 DEF validate, RefsResolve, PortsUnique, EnvsOf, Env

\* The port pick_free_port or the request settles on is used by no env.
LEMMA PortForFree ==
    ASSUME NEW cfg \in Configs, NEW asked, NEW p, PortFor(cfg, asked, p)
    PROVE  p \notin UsedPorts(cfg)
  BY DEF PortFor, IsFreePort

\* add_env checks its references and its port, and derives the auth kind from
\* the engine: the configuration it returns is valid.
LEMMA add_env_valid ==
    ASSUME NEW cfg \in Configs, validate(cfg), NEW e \in EnvNames,
           NEW b \in BastionNames \union {Absent}, NEW c \in CredNames,
           NEW policy \in Policies, NEW engine \in Engines,
           NEW port \in ListenPorts, NEW token \in Nat,
           add_env_ok(cfg, e, b, c, engine), port \notin UsedPorts(cfg)
    PROVE  validate(add_env(cfg, e, b, c, policy, engine, port, token))
<1> DEFINE env == [bastion |-> b, credential |-> c, policy |-> policy,
                   client_auth |-> client_auth_for(engine, token),
                   listen_port |-> port, engine |-> engine]
           new == [bastions    |-> cfg.bastions,
                   credentials |-> cfg.credentials,
                   envs        |-> [cfg.envs EXCEPT ![e] = env]]
<1>1. add_env(cfg, e, b, c, policy, engine, port, token) = new
  BY DEF add_env, Configs
<1>2. env \in Env
  BY client_auth_for_type DEF Env
<1>3. new.envs[e] = env /\ \A f \in EnvNames \ {e} : new.envs[f] = cfg.envs[f]
  BY DEF Configs
<1>4. EnvsOf(new) = EnvsOf(cfg) \union {e}
  BY <1>2, <1>3, AbsentAssumption DEF EnvsOf
<1>5. e \notin EnvsOf(cfg)
  BY DEF add_env_ok, EnvsOf
<1>6. RefsResolve(new)
  BY <1>3, <1>4, <1>5 DEF validate, RefsResolve, add_env_ok, EnvsOf
<1>7. \A f \in EnvsOf(new) : AuthMatchesEngine(new.envs[f])
  <2>1. AuthMatchesEngine(env)
    BY DEF AuthMatchesEngine, client_auth_for, Engines
  <2> QED
    BY <1>3, <1>4, <1>5, <2>1 DEF validate, EnvsOf
<1>8. PortsUnique(new)
  <2>1. \A f \in EnvsOf(cfg) : cfg.envs[f].listen_port # port
    BY DEF UsedPorts
  <2>2. PortsUnique(cfg)
    BY DEF validate
  <2>3. env.listen_port = port
    OBVIOUS
  <2>4. \A f \in EnvsOf(cfg) : new.envs[f] = cfg.envs[f]
    BY <1>3, <1>5 DEF EnvsOf
  <2> HIDE DEF new, env
  <2> QED
    BY <1>3, <1>4, <2>1, <2>2, <2>3, <2>4 DEF PortsUnique
<1> HIDE DEF new
<1> QED
  BY <1>1, <1>6, <1>7, <1>8 DEF validate

\* Removing an env takes away obligations and adds none.
LEMMA rm_env_valid ==
    ASSUME NEW cfg \in Configs, validate(cfg), NEW e \in EnvNames
    PROVE  validate(rm_env(cfg, e))
<1> DEFINE new == [bastions    |-> cfg.bastions,
                   credentials |-> cfg.credentials,
                   envs        |-> [cfg.envs EXCEPT ![e] = Absent]]
<1>1. rm_env(cfg, e) = new
  BY DEF rm_env, Configs
<1>2. new.envs[e] = Absent /\ \A f \in EnvNames \ {e} : new.envs[f] = cfg.envs[f]
  BY DEF Configs
<1>3. EnvsOf(new) = EnvsOf(cfg) \ {e}
  BY <1>2 DEF EnvsOf
<1> QED
  BY <1>1, <1>2, <1>3 DEF validate, RefsResolve, PortsUnique, EnvsOf

\* An edit that keeps an env's references and port, and a matching auth kind,
\* leaves the configuration valid.
LEMMA env_edit_valid ==
    ASSUME NEW cfg \in Configs, validate(cfg), NEW e \in EnvsOf(cfg), NEW env \in Env,
           env.bastion = cfg.envs[e].bastion, env.credential = cfg.envs[e].credential,
           env.listen_port = cfg.envs[e].listen_port, AuthMatchesEngine(env)
    PROVE  validate([cfg EXCEPT !.envs[e] = env])
<1> DEFINE new == [bastions    |-> cfg.bastions,
                   credentials |-> cfg.credentials,
                   envs        |-> [cfg.envs EXCEPT ![e] = env]]
<1>1. [cfg EXCEPT !.envs[e] = env] = new
  BY DEF Configs, EnvsOf
<1>2. new.envs[e] = env /\ \A f \in EnvNames \ {e} : new.envs[f] = cfg.envs[f]
  BY DEF Configs, EnvsOf
<1>3. EnvsOf(new) = EnvsOf(cfg)
  BY <1>2, AbsentAssumption DEF EnvsOf
<1>4. new.bastions = cfg.bastions /\ new.credentials = cfg.credentials
  OBVIOUS
<1>5. e \in EnvNames
  BY DEF EnvsOf
<1> HIDE DEF new
<1>6. RefsResolve(new)
  BY <1>2, <1>3, <1>4, <1>5 DEF validate, RefsResolve, EnvsOf
<1>7. \A f \in EnvsOf(new) : AuthMatchesEngine(new.envs[f])
  BY <1>2, <1>3, <1>5 DEF validate, EnvsOf
<1>8. PortsUnique(new)
  BY <1>2, <1>3, <1>5 DEF validate, PortsUnique, EnvsOf
<1> QED
  BY <1>1, <1>6, <1>7, <1>8 DEF validate

\* A new token keeps the kind of auth that the engine asks for.
LEMMA grant_env_valid ==
    ASSUME NEW cfg \in Configs, validate(cfg), NEW e \in EnvNames, NEW token \in Nat,
           grant_env_ok(cfg, e)
    PROVE  validate(grant_env(cfg, e, token))
<1> DEFINE auth == client_auth_for(cfg.envs[e].engine, token)
           env  == [cfg.envs[e] EXCEPT !.client_auth = auth]
<1>1. cfg.envs[e] \in Env /\ e \in EnvsOf(cfg)
  BY DEF grant_env_ok, Configs, EnvsOf
<1>2. auth \in ClientAuth
  BY <1>1, client_auth_for_type DEF Env
<1>3. /\ env \in Env
      /\ env.bastion = cfg.envs[e].bastion /\ env.credential = cfg.envs[e].credential
      /\ env.listen_port = cfg.envs[e].listen_port
      /\ env.engine = cfg.envs[e].engine /\ env.client_auth = auth
  BY <1>1, <1>2 DEF Env
<1>4. AuthMatchesEngine(env)
  BY <1>1, <1>3 DEF AuthMatchesEngine, client_auth_for, Env, Engines
<1> QED
  BY <1>1, <1>3, <1>4, env_edit_valid DEF grant_env

\* A new policy touches nothing that validate looks at.
LEMMA set_policy_valid ==
    ASSUME NEW cfg \in Configs, validate(cfg), NEW e \in EnvNames, NEW policy \in Policies,
           set_policy_ok(cfg, e)
    PROVE  validate(set_policy(cfg, e, policy))
<1> DEFINE env == [cfg.envs[e] EXCEPT !.policy = policy]
<1>1. cfg.envs[e] \in Env /\ e \in EnvsOf(cfg)
  BY DEF set_policy_ok, Configs, EnvsOf
<1>2. /\ env \in Env
      /\ env.bastion = cfg.envs[e].bastion /\ env.credential = cfg.envs[e].credential
      /\ env.listen_port = cfg.envs[e].listen_port
      /\ env.engine = cfg.envs[e].engine /\ env.client_auth = cfg.envs[e].client_auth
  BY <1>1 DEF Env
<1>3. AuthMatchesEngine(env)
  BY <1>1, <1>2 DEF AuthMatchesEngine, validate
<1> QED
  BY <1>1, <1>2, <1>3, env_edit_valid DEF set_policy

-----------------------------------------------------------------------------
(* Envs and tokens: which envs a transform adds or removes, and which tokens *)
(* it writes                                                                 *)

\* add_env adds one env, with the token it was given.
LEMMA add_env_envs ==
    ASSUME NEW cfg \in Configs, NEW e \in EnvNames, NEW b \in BastionNames \union {Absent},
           NEW c \in CredNames, NEW policy \in Policies, NEW engine \in Engines,
           NEW port \in ListenPorts, NEW token \in Nat
    PROVE  LET new == add_env(cfg, e, b, c, policy, engine, port, token)
           IN /\ EnvsOf(new) = EnvsOf(cfg) \union {e}
              /\ new.envs[e].client_auth.token = token
              /\ \A f \in EnvNames \ {e} : new.envs[f] = cfg.envs[f]
<1> DEFINE env == [bastion |-> b, credential |-> c, policy |-> policy,
                   client_auth |-> client_auth_for(engine, token),
                   listen_port |-> port, engine |-> engine]
           new == add_env(cfg, e, b, c, policy, engine, port, token)
<1>1. new.envs[e] = env /\ \A f \in EnvNames \ {e} : new.envs[f] = cfg.envs[f]
  BY DEF add_env, Configs
<1>2. env \in Env /\ env.client_auth.token = token
  BY client_auth_for_type DEF Env, client_auth_for
<1>3. EnvsOf(new) = EnvsOf(cfg) \union {e}
  BY <1>1, <1>2, AbsentAssumption DEF EnvsOf
<1> QED
  BY <1>1, <1>2, <1>3

\* grant_env keeps the envs and writes one token.
LEMMA grant_env_envs ==
    ASSUME NEW cfg \in Configs, NEW e \in EnvNames, NEW token \in Nat, grant_env_ok(cfg, e)
    PROVE  LET new == grant_env(cfg, e, token)
           IN /\ EnvsOf(new) = EnvsOf(cfg)
              /\ new.envs[e].client_auth.token = token
              /\ \A f \in EnvNames \ {e} : new.envs[f] = cfg.envs[f]
<1> DEFINE auth == client_auth_for(cfg.envs[e].engine, token)
           env  == [cfg.envs[e] EXCEPT !.client_auth = auth]
           new  == grant_env(cfg, e, token)
<1>1. new.envs[e] = env /\ \A f \in EnvNames \ {e} : new.envs[f] = cfg.envs[f]
  BY DEF grant_env, Configs
<1>2. cfg.envs[e] \in Env
  BY DEF grant_env_ok, Configs
<1>3. auth \in ClientAuth /\ auth.token = token
  BY <1>2, client_auth_for_type DEF Env, client_auth_for
<1>4. env \in Env /\ env.client_auth = auth
  BY <1>2, <1>3 DEF Env
<1>5. EnvsOf(new) = EnvsOf(cfg)
  BY <1>1, <1>2, <1>4, AbsentAssumption DEF EnvsOf
<1> QED
  BY <1>1, <1>3, <1>4, <1>5

\* set_policy keeps the envs and every token.
LEMMA set_policy_envs ==
    ASSUME NEW cfg \in Configs, NEW e \in EnvNames, NEW policy \in Policies,
           set_policy_ok(cfg, e)
    PROVE  LET new == set_policy(cfg, e, policy)
           IN /\ EnvsOf(new) = EnvsOf(cfg)
              /\ \A f \in EnvsOf(cfg) : new.envs[f].client_auth = cfg.envs[f].client_auth
<1> DEFINE env == [cfg.envs[e] EXCEPT !.policy = policy]
           new == set_policy(cfg, e, policy)
<1>1. new.envs[e] = env /\ \A f \in EnvNames \ {e} : new.envs[f] = cfg.envs[f]
  BY DEF set_policy, Configs
<1>2. cfg.envs[e] \in Env
  BY DEF set_policy_ok, Configs
<1>3. env \in Env /\ env.client_auth = cfg.envs[e].client_auth
  BY <1>2 DEF Env
<1> QED
  BY <1>1, <1>2, <1>3, AbsentAssumption DEF EnvsOf

\* rm_env removes one env and keeps the others.
LEMMA rm_env_envs ==
    ASSUME NEW cfg \in Configs, NEW e \in EnvNames
    PROVE  LET new == rm_env(cfg, e)
           IN /\ EnvsOf(new) = EnvsOf(cfg) \ {e}
              /\ \A f \in EnvNames \ {e} : new.envs[f] = cfg.envs[f]
<1> DEFINE new == rm_env(cfg, e)
<1>1. new.envs[e] = Absent /\ \A f \in EnvNames \ {e} : new.envs[f] = cfg.envs[f]
  BY DEF rm_env, Configs
<1> QED
  BY <1>1 DEF EnvsOf

\* merge_import adds the fragment's envs, which were not there before.
LEMMA merge_import_envs ==
    ASSUME NEW cfg \in Configs, NEW f \in Configs, merge_import_ok(cfg, f)
    PROVE  LET new == merge_import(cfg, f)
           IN /\ EnvsOf(new) = EnvsOf(cfg) \union EnvsOf(f)
              /\ EnvsOf(cfg) \intersect EnvsOf(f) = {}
              /\ \A e \in EnvsOf(f) : new.envs[e] = f.envs[e]
              /\ \A e \in EnvsOf(cfg) : new.envs[e] = cfg.envs[e]
<1> DEFINE new == merge_import(cfg, f)
<1>1. \A e \in EnvNames :
         /\ new.envs[e] = IF f.envs[e] # Absent THEN f.envs[e] ELSE cfg.envs[e]
         /\ f.envs[e] # Absent => cfg.envs[e] = Absent
  BY DEF merge_import, merge_import_ok, Disjoint, Overlay, Configs
<1> QED
  BY <1>1 DEF EnvsOf
=============================================================================
