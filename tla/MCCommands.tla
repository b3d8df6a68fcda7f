----------------------------- MODULE MCCommands -----------------------------
(***************************************************************************)
(* Commands on two envs, one bastion, one credential (with the name of the *)
(* first env), one client port and one port outside the client range.      *)
(***************************************************************************)
EXTENDS Commands

MCEnvNames    == 1..2
MCListenPorts == 1..2
MCClientPorts == {1}

ImportedEnv(port, engine) ==
    [bastion |-> Absent, credential |-> 1, policy |-> "read_only",
     client_auth |-> client_auth_for(engine, 0),
     listen_port |-> port, engine |-> engine]

\* One consistent fragment, with an env whose engine has no probe; one with two
\* envs on a single port, and one whose env names a credential it does not bring
\* along.
MCFragments ==
    LET WithCred(envs) == [DefaultConfig EXCEPT
                             !.credentials = [c \in CredNames |-> [password |-> "p1"]],
                             !.envs = envs]
    IN {WithCred([e \in EnvNames |-> ImportedEnv(e, IF e = 1 THEN "mysql" ELSE "mssql")]),
        WithCred([e \in EnvNames |-> ImportedEnv(1, "mysql")]),
        [DefaultConfig EXCEPT !.envs[1] = ImportedEnv(2, "mysql")]}
=============================================================================
