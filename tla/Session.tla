------------------------------- MODULE Session -------------------------------
(***************************************************************************)
(* What the PostgreSQL and the MySQL session have in common: the           *)
(* connection accepted by accept_loop and handle_one (mwsqld/src/lib.rs),  *)
(* the statements handed to the database and the audit events of           *)
(* mw-core/src/audit.rs.                                                   *)
(*                                                                         *)
(* A session is one task that reads a message, handles it to the end and   *)
(* reads the next one, so one step is one message.  The policy is the      *)
(* snapshot the connection was accepted with (Daemon models its            *)
(* replacement), so Denied is a constant; Firewall models the verdict.     *)
(* The database is external: a pool checkout may fail, a statement may     *)
(* fail or return rows.  The client may be gone at any moment: the handler *)
(* then stops at the write that fails.                                     *)
(***************************************************************************)
EXTENDS Naturals, Sequences, SequencesExt

CONSTANTS
    Texts,      \* the statements clients send
    Denied,     \* the ones the env's policy denies
    MaxAsked,   \* bound on the statements put to the firewall
    MaxRows     \* bound on the rows of a result

ASSUME SessionAssumption ==
    Denied \subseteq Texts /\ MaxAsked \in Nat /\ MaxRows \in Nat

VARIABLES
    auth,      \* ClientAuth: the kind of token the env stores
    pc,        \* where the session's task is
    reply,     \* what the last message was answered with
    ran,       \* history: the statements handed to the database
    audit,     \* history: the audit events of this connection
    asked      \* history: how many statements the firewall was asked to run

gate == <<ran, audit, asked>>

Decisions == {"Allow", "Deny", "Error"}
Reasons   == {"none", "policy", "pool", "backend"}
AuditEvent == [stmt : Texts, decision : Decisions, why : Reasons]

Event(t, decision, why) == [stmt |-> t, decision |-> decision, why |-> why]

GateTypeOK ==
    /\ ran \in Seq(Texts)
    /\ audit \in Seq(AuditEvent)
    /\ asked \in 0..MaxAsked

Serving == pc = "ready"

emit(e) == audit' = Append(audit, e)

(* handle_one: the socket has been accepted, nothing has been said yet. *)
handle_one(greeted) ==
    /\ pc = "accepted"
    /\ pc' = greeted
    /\ UNCHANGED gate

(* The handler's last write: the client gets frames, or is gone and the    *)
(* error ends the session.                                                 *)
Answer(frames, gone) ==
    /\ reply' = IF gone THEN <<>> ELSE frames
    /\ pc' = IF gone THEN "closed" ELSE pc

(* Every way in which a session ends without a statement being looked at. *)
Hangup(frames) ==
    /\ reply' = frames
    /\ pc' = "closed"
    /\ UNCHANGED gate

(* A panic.  The release profile aborts on one (Cargo.toml), so it is not  *)
(* this session's task alone that ends but the daemon, with every session  *)
(* it has: "aborted".  (Tests, which unwind, see the task end.)            *)
Panic ==
    /\ reply' = <<>>
    /\ pc' = "aborted"

Ended == pc \in {"closed", "aborted"}

(* The firewall is asked to run t: every session handler that runs         *)
(* statements starts so.                                                   *)
Asks(t) ==
    /\ asked < MaxAsked
    /\ asked' = asked + 1
    /\ t \in Texts

Refused(t) ==
    /\ t \in Denied
    /\ emit(Event(t, "Deny", "policy"))
    /\ UNCHANGED ran

(* The statement was run to its end.  The event is emitted after the       *)
(* result was written, so a client that is gone may cost the event.        *)
Done(t, gone) ==
    /\ t \notin Denied
    /\ ran' = Append(ran, t)
    /\ \/ emit(Event(t, "Allow", "none"))
       \/ gone /\ UNCHANGED audit

(* Mutant: a statement that failed is not logged. *)
Failed_unlogged(t, event) ==
    /\ t \notin Denied
    /\ ran' = Append(ran, t)
    /\ UNCHANGED audit

Failed(t, event) ==
    /\ t \notin Denied
    /\ ran' = Append(ran, t)
    /\ emit(event)

(* The events about statements that reached the database. *)
RunEvents == {i \in DOMAIN audit : audit[i].why \notin {"policy", "pool"}}

(* The log says that stmts were run: its events about runs are those of    *)
(* stmts, in that order.                                                   *)
LoggedAs(stmts) ==
    \E at \in [DOMAIN stmts -> RunEvents] :
        /\ \A i, j \in DOMAIN stmts : i < j => at[i] < at[j]
        /\ \A k \in RunEvents : \E i \in DOMAIN stmts : at[i] = k
        /\ \A i \in DOMAIN stmts : audit[at[i]].stmt = stmts[i]

(* The audit log and the database agree: while a session is open the       *)
(* events of its log are exactly the statements its database ran, in that  *)
(* order; when it has ended at most the statement it ended with is missing *)
(* (exec_rows_only, firewalled_exec, handle_com_query).                    *)
ExecutedIsAudited ==
    \/ LoggedAs(ran)
    \/ pc = "closed" /\ ran # <<>> /\ LoggedAs(Front(ran))

(* "Every query decision [...] is one JSON line" (README.md:325): as long  *)
(* as the session is open, each statement the firewall was asked about has *)
(* its event.                                                              *)
EveryDecisionAudited == ~Ended => Len(audit) = asked

(* What no session of this code should be able to do to the others: end    *)
(* the daemon (Bind and handle_com_query can, by a panic).                 *)
OthersGoOn == pc # "aborted"
=============================================================================
