------------------------------ MODULE MCDaemon ------------------------------
(***************************************************************************)
(* Instances of Daemon: up to two envs, one bastion name, one credential,  *)
(* two SSH endpoints.                                                      *)
(***************************************************************************)
EXTENDS Daemon

OneEnv  == {1}
TwoEnvs == {1, 2}
MCPorts == {1, 2}

\* h1 presents k1 and h2 presents k2.
HonestHosts == [h \in Hosts |-> IF h = "h1" THEN {"k1"} ELSE {"k2"}]
\* h1 may present either key: its key changed, or it is impersonated.
ShiftyHost  == [h \in Hosts |-> IF h = "h1" THEN {"k1", "k2"} ELSE {"k2"}]

BastionsH1   == {[host |-> "h1", pinned |-> {}], [host |-> "h1", pinned |-> {"k1"}]}
BastionsEither == BastionsH1 \union {[host |-> "h2", pinned |-> {"k2"}]}
PinnedEither == {[host |-> "h1", pinned |-> {"k1"}], [host |-> "h2", pinned |-> {"k2"}]}

EnvVia(b, engine) ==
    [bastion |-> b, credential |-> "c1", policy |-> "read_only",
     engine |-> engine, port |-> Absent]

Tunnelled == {EnvVia("b1", "mysql")}
Mixed     == {EnvVia("b1", "mysql"), EnvVia(Absent, "postgres")}

\* An import of both envs: a tunnelled one and an mssql one, which is saved but
\* can never be served.
ImportedEnv(b, engine, port) ==
    [bastion |-> b, credential |-> "c1", policy |-> "read_only",
     client_auth |-> client_auth_for(engine, 0), listen_port |-> port, engine |-> engine]

ImportBoth ==
    {[DefaultConfig EXCEPT
        !.envs = [e \in EnvNames |-> IF e = 1 THEN ImportedEnv("b1", "mysql", 1)
                                              ELSE ImportedEnv(Absent, "mssql", 2)]]}
NoImport == {}

\* All but stopping: without connections nothing looks at the loops that were
\* aborted, so states that differ in them only are alike.
LoopsAside ==
    <<disk, minted, status, config_write, job, live, slots, conn, granted, reported, advice>>

EveryOp     == AllOps
SessionOps  == {"add_bastion", "add_cred", "add_env", "rm_env", "grant",
                "set_fingerprint", "rotate_cred"}
AddOps      == {"add_bastion", "add_cred", "add_env"}
BastionOps  == AddOps \union {"rm_env", "rm_bastion"}
=============================================================================
