------------------------------- MODULE Sessions -------------------------------
(***************************************************************************)
(* A client connection to an env of either engine (engine_for and the      *)
(* Engine implementations of mw-net/src/engine), and the promise both keep *)
(* (Gateway).                                                              *)
(***************************************************************************)
EXTENDS PgSession, MySqlSession

CONSTANT Engines    \* the engines of the envs clients connect to

ASSUME EngineAssumption == Engines \subseteq {"postgres", "mysql", "mssql"}

VARIABLE engine     \* the engine of the connection's env

vars == <<engine, auth, pc, reply, gate, pgVars, failed, myVars>>

TypeOK ==
    /\ engine \in Engines
    /\ auth \in {"PgCleartext", "NativePassword"}
    /\ pc \in {"accepted", "startup", "password", "greeting", "switch",
               "switch_stranger", "ready", "closed", "aborted"}
    /\ reply \in Seq(IF engine = "mysql" THEN Packet ELSE Tags)
    /\ seq \in 0..(SeqNums - 1)
    /\ sent \in 0..(SeqNums - 1)
    /\ GateTypeOK
    /\ PgTypeOK

Init ==
    /\ engine \in Engines
    /\ auth \in {"PgCleartext", "NativePassword"}
    /\ pc = "accepted"
    /\ reply = <<>>
    /\ ran = <<>>
    /\ audit = <<>>
    /\ asked = 0
    /\ PgInit
    /\ seq = 0
    /\ sent = 0

Postgres ==
    /\ engine = "postgres"
    /\ \/ handle_one("startup") /\ UNCHANGED <<reply, pgVars, failed>>
       \/ PgNext
    /\ UNCHANGED <<engine, auth, myVars>>

MySql ==
    /\ engine = "mysql"
    /\ MySqlNext
    /\ UNCHANGED <<engine, auth, pgVars, failed>>

(* The reserved engine refuses every connection. *)
Mssql ==
    /\ engine = "mssql"
    /\ handle_one("closed")
    /\ UNCHANGED <<engine, auth, reply, pgVars, failed, myVars>>

Next == Postgres \/ MySql \/ Mssql

Spec == Init /\ [][Next]_vars

-----------------------------------------------------------------------------
Phase ==
    CASE Ended        -> "gone"
      [] pc = "ready" -> "inside"
      [] OTHER        -> "outside"

Promise == INSTANCE Gateway WITH phase <- Phase

(* A connection of either engine keeps the gateway's promise: nothing is   *)
(* run before the login, nothing denied is run even when it comes from     *)
(* binding parameters to an allowed text, and what is run or refused is    *)
(* logged before the next message is read.                                 *)
GatewaySpec == Promise!Spec

(* A MySQL client can follow every answer it gets: the packets are         *)
(* numbered without a gap from the one it sent on, also where the counter  *)
(* wraps, and exactly one ends the answer (AnswerIsFramed).                *)
MySqlAnswerIsFramed == engine = "mysql" => AnswerIsFramed
=============================================================================
