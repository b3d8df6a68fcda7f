--------------------------- MODULE Sessions_proofs ---------------------------
(***************************************************************************)
(* What a client connection guarantees, for every set of texts, every      *)
(* policy, every prepared statement and every size of the counters.        *)
(*                                                                         *)
(* The argument.  Whatever the protocol, a step does one of four things to *)
(* the database and the audit log (GateStep): nothing; a statement that is *)
(* logged and not run; one that is run and logged; one that is run and     *)
(* ends the connection.  The refinement of Gateway, the agreement of log   *)
(* and database and the types of both follow from that alone.  What is     *)
(* left to each engine is its own state: PostgreSQL's flag is set whenever *)
(* an error has been answered (FailedSkips), and a MySQL answer is         *)
(* numbered from the packet before it, modulo the number of sequence       *)
(* numbers.                                                                *)
(*                                                                         *)
(* The second half is about the two functions that every statement goes    *)
(* through, for every text and every parameter.  A parameter is rendered   *)
(* as an operand (Operand): a text that PostgreSQL leaves in the state in  *)
(* which it entered it.  The scanner of inline_params reads a text as      *)
(* PostgreSQL does up to the first comment in a comment (ScanAgrees), so a *)
(* text with operands for placeholders is read, that far and up to the     *)
(* first "--" that a value completes, symbol by symbol as the text without *)
(* (InlinedIsRead).  Recursions are shown to have solutions, and their     *)
(* values compared, by the principle of the least number (Least, Upto).    *)
(***************************************************************************)
EXTENDS Sessions, Statements, SequenceTheorems, WellFoundedInduction, TLAPS

Stages == {"accepted", "startup", "password", "greeting", "switch",
           "switch_stranger", "ready", "closed", "aborted"}

\* A statement is logged and not run: it is refused, or has no connection.
Noted(t, e) ==
    /\ ran' = ran
    /\ audit' = Append(audit, e)
    /\ e.why \in {"policy", "pool"}
    /\ \/ t \in Denied /\ e.decision = "Deny"
       \/ t \notin Denied /\ e.decision = "Error"

\* A statement is run and logged.
RunAndLogged(t, e) ==
    /\ t \notin Denied
    /\ ran' = Append(ran, t)
    /\ audit' = Append(audit, e)
    /\ e.why \notin {"policy", "pool"}

\* A statement is run, and the connection ends before its event.
RunUnlogged(t) ==
    /\ t \notin Denied
    /\ ran' = Append(ran, t)
    /\ audit' = audit
    /\ pc' = "closed"

\* What a step does to the statements run and to the log.
GateStep ==
    /\ ~Ended
    /\ asked' \in 0..MaxAsked
    /\ \/ /\ UNCHANGED <<ran, audit>>
          /\ pc' \in Stages
          /\ pc = "ready" => pc' \in {"ready", "closed", "aborted"}
       \/ /\ pc = "ready"
          /\ pc' \in {"ready", "closed"}
          /\ \E t \in Texts : \E e \in AuditEvent :
                e.stmt = t /\ (Noted(t, e) \/ RunAndLogged(t, e) \/ RunUnlogged(t))

\* Once an extended message was refused, serve skips.
FailedSkips == failed => skip

SessionInv ==
    /\ TypeOK
    /\ FailedSkips
    /\ ExecutedIsAudited
    /\ MySqlAnswerIsFramed

-----------------------------------------------------------------------------
(* Log and database. *)

\* The log's events about runs keep their places when an event is appended.
LEMMA RunEventsAppend ==
    ASSUME NEW e \in AuditEvent, audit \in Seq(AuditEvent), audit' = Append(audit, e)
    PROVE  /\ RunEvents \subseteq 1..Len(audit)
           /\ \A k \in 1..Len(audit) : audit'[k] = audit[k]
           /\ audit'[Len(audit) + 1] = e
           /\ RunEvents' = IF e.why \in {"policy", "pool"} THEN RunEvents
                           ELSE RunEvents \union {Len(audit) + 1}
BY DEF RunEvents

\* An event about a statement that was not run leaves what the log says was run.
LEMMA LoggedAsKept ==
    ASSUME NEW e \in AuditEvent, audit \in Seq(AuditEvent), audit' = Append(audit, e),
           e.why \in {"policy", "pool"},
           ran \in Seq(Texts), ran' = ran, LoggedAs(ran)
    PROVE  LoggedAs(ran)'
<1>1. PICK at \in [DOMAIN ran -> RunEvents] :
          /\ \A i, j \in DOMAIN ran : i < j => at[i] < at[j]
          /\ \A k \in RunEvents : \E i \in DOMAIN ran : at[i] = k
          /\ \A i \in DOMAIN ran : audit[at[i]].stmt = ran[i]
  BY DEF LoggedAs
<1>2. RunEvents' = RunEvents /\ \A k \in RunEvents : audit'[k] = audit[k]
  BY RunEventsAppend
<1>3. at \in [DOMAIN ran' -> RunEvents']
  BY <1>1, <1>2
<1>4. \A i, j \in DOMAIN ran' : i < j => at[i] < at[j]
  BY <1>1
<1>5. \A k \in RunEvents' : \E i \in DOMAIN ran' : at[i] = k
  BY <1>1, <1>2
<1>6. ASSUME NEW i \in DOMAIN ran PROVE audit'[at[i]].stmt = ran[i]
  <2>1. at[i] \in RunEvents /\ audit[at[i]].stmt = ran[i]
    BY <1>1
  <2>2. audit'[at[i]] = audit[at[i]]
    BY <1>2, <2>1
  <2> QED
    BY <2>1, <2>2
<1> QED
  BY <1>3, <1>4, <1>5, <1>6 DEF LoggedAs

\* A statement that was run and logged is the last one of both.
LEMMA LoggedAsGrows ==
    ASSUME NEW t \in Texts, NEW e \in AuditEvent, audit \in Seq(AuditEvent),
           audit' = Append(audit, e), e.why \notin {"policy", "pool"}, e.stmt = t,
           ran \in Seq(Texts), ran' = Append(ran, t), LoggedAs(ran)
    PROVE  LoggedAs(ran)'
<1>1. PICK at \in [DOMAIN ran -> RunEvents] :
          /\ \A i, j \in DOMAIN ran : i < j => at[i] < at[j]
          /\ \A k \in RunEvents : \E i \in DOMAIN ran : at[i] = k
          /\ \A i \in DOMAIN ran : audit[at[i]].stmt = ran[i]
  BY DEF LoggedAs
<1> DEFINE n == Len(ran)
           m == Len(audit)
           more == [i \in 1..(n + 1) |-> IF i = n + 1 THEN m + 1 ELSE at[i]]
<1>2. /\ n \in Nat /\ m \in Nat
      /\ DOMAIN ran = 1..n
      /\ DOMAIN ran' = 1..(n + 1)
      /\ \A i \in 1..n : ran'[i] = ran[i]
      /\ ran'[n + 1] = t
  BY LenProperties, AppendProperties
<1>3. /\ RunEvents \subseteq 1..m
      /\ RunEvents' = RunEvents \union {m + 1}
      /\ \A k \in 1..m : audit'[k] = audit[k]
      /\ audit'[m + 1] = e
  BY RunEventsAppend
<1> HIDE DEF n, m
<1>n. n \in Nat /\ m \in Nat
  BY <1>2
<1>d. \A i \in 1..(n + 1) : i = n + 1 \/ i \in 1..n
  BY <1>n
<1>4. /\ \A i \in 1..n : more[i] = at[i] /\ at[i] \in RunEvents
      /\ more[n + 1] = m + 1
  BY <1>1, <1>2
<1>5. more \in [DOMAIN ran' -> RunEvents']
  BY <1>2, <1>3, <1>4
<1> HIDE DEF more
<1>6. \A i, j \in DOMAIN ran' : i < j => more[i] < more[j]
  <2> SUFFICES ASSUME NEW i \in 1..(n + 1), NEW j \in 1..(n + 1), i < j
               PROVE  more[i] < more[j]
    BY <1>2
  <2>0. i \in 1..n
    BY <1>n
  <2>1. i \in DOMAIN ran /\ more[i] = at[i] /\ at[i] \in 1..m
    BY <1>2, <1>3, <1>4, <2>0
  <2>2. CASE j = n + 1
    BY <1>n, <1>4, <2>1, <2>2
  <2>3. CASE j \in 1..n
    BY <1>1, <1>2, <1>4, <2>1, <2>3
  <2> QED
    BY <1>d, <2>2, <2>3
<1>7. \A k \in RunEvents' : \E i \in DOMAIN ran' : more[i] = k
  <2> SUFFICES ASSUME NEW k \in RunEvents' PROVE \E i \in DOMAIN ran' : more[i] = k
    OBVIOUS
  <2>1. CASE k = m + 1
    BY <1>2, <1>4, <2>1
  <2>2. CASE k \in RunEvents
    <3>1. PICK i \in DOMAIN ran : at[i] = k
      BY <1>1, <2>2
    <3> QED
      BY <1>2, <1>4, <3>1
  <2> QED
    BY <1>3, <2>1, <2>2
<1>8. \A i \in DOMAIN ran' : audit'[more[i]].stmt = ran'[i]
  <2> SUFFICES ASSUME NEW i \in 1..(n + 1) PROVE audit'[more[i]].stmt = ran'[i]
    BY <1>2
  <2>1. CASE i = n + 1
    BY <1>2, <1>3, <1>4, <2>1
  <2>2. CASE i \in 1..n
    <3>1. more[i] = at[i] /\ at[i] \in 1..m /\ ran'[i] = ran[i]
      BY <1>2, <1>3, <1>4, <2>2
    <3>2. audit'[at[i]] = audit[at[i]]
      BY <1>3, <3>1
    <3>3. audit[at[i]].stmt = ran[i]
      BY <1>1, <1>2, <2>2
    <3> QED
      BY <3>1, <3>2, <3>3
  <2> QED
    BY <1>d, <2>1, <2>2
<1> QED
  BY <1>5, <1>6, <1>7, <1>8 DEF LoggedAs

\* Front undoes Append.
LEMMA FrontOfAppend ==
    ASSUME NEW s \in Seq(Texts), NEW t \in Texts
    PROVE  Front(Append(s, t)) = s /\ Append(s, t) # <<>>
BY DEF Front

\* A step keeps the log and the database in agreement, and their types.
LEMMA GateStepKeeps ==
    ASSUME GateTypeOK, ExecutedIsAudited, GateStep
    PROVE  GateTypeOK' /\ ExecutedIsAudited'
<1>1. LoggedAs(ran)
  BY DEF ExecutedIsAudited, GateStep, Ended
<1>2. CASE UNCHANGED <<ran, audit>>
  <2>1. LoggedAs(ran)'
    BY <1>1, <1>2 DEF LoggedAs, RunEvents
  <2>2. GateTypeOK'
    BY <1>2 DEF GateStep, GateTypeOK
  <2> QED
    BY <2>1, <2>2 DEF ExecutedIsAudited
<1>3. ASSUME NEW t \in Texts, NEW e \in AuditEvent, Noted(t, e)
      PROVE  GateTypeOK' /\ ExecutedIsAudited'
  <2>1. LoggedAs(ran)'
    BY <1>1, <1>3, LoggedAsKept DEF Noted, GateTypeOK
  <2> QED
    BY <1>3, <2>1 DEF Noted, GateTypeOK, GateStep, ExecutedIsAudited
<1>4. ASSUME NEW t \in Texts, NEW e \in AuditEvent, e.stmt = t, RunAndLogged(t, e)
      PROVE  GateTypeOK' /\ ExecutedIsAudited'
  <2>1. LoggedAs(ran)'
    BY <1>1, <1>4, LoggedAsGrows DEF RunAndLogged, GateTypeOK
  <2> QED
    BY <1>4, <2>1 DEF RunAndLogged, GateTypeOK, GateStep, ExecutedIsAudited
<1>5. ASSUME NEW t \in Texts, RunUnlogged(t)
      PROVE  GateTypeOK' /\ ExecutedIsAudited'
  <2>1. Front(ran') = ran /\ ran' # <<>> /\ audit' = audit
    BY <1>5, FrontOfAppend DEF RunUnlogged, GateTypeOK
  <2>2. LoggedAs(Front(ran))'
    BY <1>1, <2>1 DEF LoggedAs, RunEvents
  <2>3. ExecutedIsAudited'
    BY <1>5, <2>1, <2>2 DEF ExecutedIsAudited, RunUnlogged
  <2> QED
    BY <1>5, <2>3 DEF RunUnlogged, GateTypeOK, GateStep
<1> QED
  BY <1>2, <1>3, <1>4, <1>5 DEF GateStep

\* A step of the log and the database is a step of the gateway.
LEMMA GateStepIsPromised ==
    ASSUME pc \in Stages, GateStep
    PROVE  [Promise!Next]_Promise!vars
<1>1. CASE UNCHANGED <<ran, audit>>
  <2>1. Phase' = Phase \/ (Phase = "outside" /\ Phase' = "inside") \/ Phase' = "gone"
    BY <1>1 DEF GateStep, Phase, Ended, Stages
  <2> QED
    BY <1>1, <2>1 DEF Promise!Next, Promise!Login, Promise!Leave, Promise!vars
<1>2. ASSUME NEW t \in Texts, NEW e \in AuditEvent, e.stmt = t, pc = "ready",
             pc' \in {"ready", "closed"},
             Noted(t, e) \/ RunAndLogged(t, e) \/ RunUnlogged(t)
      PROVE  Promise!Next
  <2>1. Phase = "inside" /\ Phase' = (IF pc' = "closed" THEN "gone" ELSE "inside")
    BY <1>2 DEF Phase, Ended
  <2>2. e \in [stmt : {t}, decision : {"Allow", "Deny", "Error"},
               why : {"none", "policy", "pool", "backend"}]
    BY <1>2 DEF AuditEvent, Decisions, Reasons
  <2>3. CASE Noted(t, e) /\ t \in Denied
    <3>1. e \in [stmt : {t}, decision : {"Deny"}, why : {"none", "policy", "pool", "backend"}]
      BY <2>2, <2>3 DEF Noted
    <3>2. Promise!Refuse(t)
      BY <2>1, <2>3, <3>1 DEF Promise!Refuse, Promise!Stay, Promise!Logged, Noted
    <3> QED
      BY <3>2 DEF Promise!Next
  <2>4. CASE Noted(t, e) /\ t \notin Denied
    <3>1. e \in [stmt : {t}, decision : {"Error"}, why : {"none", "policy", "pool", "backend"}]
      BY <2>2, <2>4 DEF Noted
    <3>2. Promise!Fail(t)
      BY <2>1, <2>4, <3>1 DEF Promise!Fail, Promise!Stay, Promise!Logged, Noted
    <3> QED
      BY <3>2 DEF Promise!Next
  <2>5. CASE RunAndLogged(t, e)
    <3>1. Promise!Run(t)
      BY <2>1, <2>2, <2>5 DEF Promise!Run, Promise!Stay, Promise!Logged, RunAndLogged
    <3> QED
      BY <3>1 DEF Promise!Next
  <2>6. CASE RunUnlogged(t)
    <3>1. Promise!Run(t)
      BY <2>1, <2>6 DEF Promise!Run, Promise!Stay, RunUnlogged
    <3> QED
      BY <3>1 DEF Promise!Next
  <2> QED
    BY <1>2, <2>3, <2>4, <2>5, <2>6
<1> QED
  BY <1>1, <1>2 DEF GateStep

-----------------------------------------------------------------------------
(* The pieces of a handler that both engines use. *)

Asked == pc = "ready" /\ pc' \in {"ready", "closed"} /\ asked' \in 0..MaxAsked

\* A refusal is logged, not run.
LEMMA RefusedSteps == ASSUME NEW t \in Texts, Asked, Refused(t) PROVE GateStep
<1> DEFINE e == Event(t, "Deny", "policy")
<1>1. e \in AuditEvent /\ e.stmt = t /\ e.why = "policy" /\ e.decision = "Deny"
  BY DEF Event, AuditEvent, Decisions, Reasons
<1>2. ran' = ran /\ audit' = Append(audit, e) /\ t \in Denied
  BY DEF Refused, emit
<1> HIDE DEF e
<1> QED
  BY <1>1, <1>2 DEF GateStep, Noted, Asked, Ended

\* A statement that the database refused was run and is logged.
LEMMA FailedSteps ==
    ASSUME NEW t \in Texts, NEW d \in Decisions, Asked, Failed(t, Event(t, d, "backend"))
    PROVE  GateStep
<1> DEFINE e == Event(t, d, "backend")
<1>1. e \in AuditEvent /\ e.stmt = t /\ e.why = "backend"
  BY DEF Event, AuditEvent, Reasons
<1>2. ran' = Append(ran, t) /\ audit' = Append(audit, e) /\ t \notin Denied
  BY DEF Failed, emit
<1> HIDE DEF e
<1> QED
  BY <1>1, <1>2 DEF GateStep, RunAndLogged, Asked, Ended

\* A statement that ran is logged, unless its client is gone.
LEMMA DoneSteps ==
    ASSUME NEW t \in Texts, NEW gone \in BOOLEAN, Asked, gone => pc' = "closed", Done(t, gone)
    PROVE  GateStep
<1> DEFINE e == Event(t, "Allow", "none")
<1>1. e \in AuditEvent /\ e.stmt = t /\ e.why = "none"
  BY DEF Event, AuditEvent, Decisions, Reasons
<1>2. ran' = Append(ran, t) /\ t \notin Denied
  BY DEF Done
<1>3. audit' = Append(audit, e) \/ (gone /\ audit' = audit)
  BY DEF Done, emit
<1> HIDE DEF e
<1>4. RunAndLogged(t, e) \/ RunUnlogged(t)
  BY <1>1, <1>2, <1>3 DEF RunAndLogged, RunUnlogged
<1> QED
  BY <1>1, <1>4 DEF GateStep, Asked, Ended

\* A message that is not put to the database.
LEMMA QuietSteps ==
    ASSUME GateTypeOK, pc \notin {"closed", "aborted"}, pc' \in Stages,
           pc = "ready" => pc' \in {"ready", "closed", "aborted"}, UNCHANGED gate
    PROVE  GateStep
BY DEF GateStep, GateTypeOK, gate, Ended

-----------------------------------------------------------------------------
(* PostgreSQL. *)

\* What every step of a PostgreSQL session does to its own state.
PgStep ==
    /\ GateStep
    /\ reply' \in Seq(Tags)
    /\ prepared' \in [Stmts -> Texts \union {Absent}]
    /\ portals' \in [Portals -> Portal \union {NoPortal}]
    /\ skip' \in BOOLEAN

\* The rows of a result and its frame, for exec_rows_only and write_result_set.
LEMMA ResultFrames ==
    ASSUME NEW n \in 0..MaxRows
    PROVE  /\ (Rows(n) \o <<"C">>) \o <<>> \in Seq(Tags \ {"E"})
           /\ write_result_set[n] \o <<"Z">> \in Seq(Tags)
<1>1. n \in Nat /\ Rows(n) \in Seq(Tags \ {"E"})
  BY SessionAssumption DEF Rows, Tags
<1>2. /\ <<"C">> \in Seq(Tags \ {"E"})
      /\ <<"T">> \in Seq(Tags)
      /\ <<"Z">> \in Seq(Tags)
      /\ <<"n", "C">> \in Seq(Tags)
  BY DEF Tags
<1>3. Rows(n) \in Seq(Tags) /\ <<"C">> \in Seq(Tags)
  BY <1>1, <1>2, SeqMonotonic
<1>4. (<<"T">> \o Rows(n)) \o <<"C">> \in Seq(Tags)
  BY <1>2, <1>3, ConcatProperties
<1>5. write_result_set[n] \in Seq(Tags)
  BY <1>2, <1>4 DEF write_result_set
<1>6. Rows(n) \o <<"C">> \in Seq(Tags \ {"E"})
  BY <1>1, <1>2, ConcatProperties
<1>7. (Rows(n) \o <<"C">>) \o <<>> \in Seq(Tags \ {"E"})
  BY <1>6, ConcatEmptySeq
<1> QED
  BY <1>2, <1>5, <1>7, ConcatProperties

\* Running a text, whichever frames the result has.
LEMMA PgExecSteps ==
    ASSUME NEW t \in Texts, NEW ok \in BOOLEAN, NEW gone \in BOOLEAN,
           NEW frames, NEW after, after \in Seq(Tags),
           \A n \in 0..MaxRows : frames[n] \o after \in Seq(Tags),
           GateTypeOK, Serving, pg_exec(t, ok, frames, after, gone)
    PROVE  GateStep /\ reply' \in Seq(Tags)
<1>1. /\ pc = "ready" /\ pc' = IF gone THEN "closed" ELSE "ready"
      /\ asked' \in 0..MaxAsked
  BY SessionAssumption DEF Serving, pg_exec, Asks, Answer, GateTypeOK
<1>2. reply' \in Seq(Tags)
  <2>1. <<"E">> \o after \in Seq(Tags) /\ <<>> \in Seq(Tags)
    BY ConcatProperties, <<"E">> \in Seq(Tags) DEF Tags
  <2>2. \/ reply' = <<"E">> \o after
        \/ reply' = <<>>
        \/ \E n \in 0..MaxRows : reply' = frames[n] \o after
    BY DEF pg_exec, Answer
  <2> QED
    BY <2>1, <2>2
<1>3. \/ Refused(t) \/ Unavailable(t) \/ Failed(t, Event(t, "Deny", "backend"))
      \/ Done(t, gone)
  BY DEF pg_exec
<1>4. Asked
  BY <1>1 DEF Asked
<1>5. CASE Refused(t)
  BY <1>2, <1>4, <1>5, RefusedSteps
<1>6. CASE Unavailable(t)
  BY <1>1, <1>2, <1>6 DEF GateStep, Unavailable, Stages, Ended
<1>7. CASE Failed(t, Event(t, "Deny", "backend"))
  <2>1. "Deny" \in Decisions
    BY DEF Decisions
  <2> QED
    BY <1>2, <1>4, <1>7, <2>1, FailedSteps
<1>8. CASE Done(t, gone)
  BY <1>1, <1>2, <1>4, <1>8, DoneSteps
<1> QED
  BY <1>3, <1>5, <1>6, <1>7, <1>8

\* The handlers of extended messages that refuse, skip or answer without running.
LEMMA QuietTags ==
    /\ <<>> \in Seq(Tags)
    /\ \A a \in Tags : <<a>> \in Seq(Tags) /\ (a # "E" => "E" \notin Range(<<a>>))
    /\ \A a, b \in Tags : /\ <<a, b>> \in Seq(Tags)
                         /\ a # "E" /\ b # "E" => "E" \notin Range(<<a, b>>)
    /\ "E" \notin Range(<<>>)
BY DEF Range

\* ... and of an extended message: an error that it answers sets the flag.
Extends == PgStep /\ ("E" \in Range(reply') => skip')

\* After an error an extended message does nothing.
LEMMA SkippedSteps ==
    ASSUME TypeOK, Serving, Skipped
    PROVE  Extends
<1>1. GateStep
  BY QuietSteps DEF TypeOK, Serving, Skipped, Stages
<1> QED
  BY <1>1, QuietTags DEF Extends, PgStep, TypeOK, PgTypeOK, Skipped, pgVars, NoPortal

\* A refused extended message sets the flag.
LEMMA RejectedSteps ==
    ASSUME TypeOK, Serving, GateStep, Rejected
    PROVE  Extends
BY QuietTags DEF Extends, PgStep, TypeOK, PgTypeOK, Rejected, Answer, NoPortal, Tags

\* Parse prepares a text, or refuses.
LEMMA ParseSteps ==
    ASSUME TypeOK, NEW s \in Stmts, NEW t \in Texts, Parse(s, t)
    PROVE  Extends
<1>1. CASE Skipped
  BY <1>1, SkippedSteps DEF Parse
<1>2. CASE Asks(t) /\ Refused(t) /\ Rejected
  <2>1. Asked
    BY <1>2, SessionAssumption DEF Asked, Asks, Rejected, Answer, Serving, Parse, TypeOK, GateTypeOK
  <2> QED
    BY <1>2, <2>1, RefusedSteps, RejectedSteps DEF Parse
<1>3. CASE Rejected /\ UNCHANGED gate
  <2>1. GateStep
    BY <1>3, QuietSteps DEF Rejected, Answer, Serving, Parse, TypeOK, Stages
  <2> QED
    BY <1>3, <2>1, RejectedSteps DEF Parse
<1>4. CASE /\ prepared' = [prepared EXCEPT ![s] = t]
           /\ Answer(<<"1">>, FALSE)
           /\ UNCHANGED <<gate, portals, skip>>
  <2>1. GateStep
    BY <1>4, QuietSteps DEF Answer, Serving, Parse, TypeOK, Stages
  <2> QED
    BY <1>4, <2>1, QuietTags DEF Extends, PgStep, TypeOK, PgTypeOK, Answer, NoPortal, Tags
<1> QED
  BY <1>1, <1>2, <1>3, <1>4 DEF Parse

\* Bind defines a portal with an inlined text, refuses, or panics.
LEMMA BindSteps ==
    ASSUME TypeOK, NEW p \in Portals, NEW s \in Stmts, NEW v \in Params, NEW w,
           Bind(p, s, v, w)
    PROVE  Extends
<1>0. pc = "ready" /\ UNCHANGED gate
  BY DEF Bind, Serving
<1>1. CASE Skipped
  BY <1>1, SkippedSteps DEF Bind
<1>2. CASE Panic /\ UNCHANGED pgVars
  <2>1. GateStep
    BY <1>0, <1>2, QuietSteps DEF Panic, TypeOK, Stages
  <2> QED
    BY <1>2, <2>1, QuietTags
    DEF Extends, PgStep, TypeOK, PgTypeOK, Panic, pgVars, NoPortal
<1>3. CASE Rejected
  <2>1. GateStep
    BY <1>0, <1>3, QuietSteps DEF Rejected, Answer, TypeOK, Stages
  <2> QED
    BY <1>3, <2>1, RejectedSteps DEF Bind
<1>4. CASE /\ prepared[s] # Absent
           /\ portals' = [portals EXCEPT ![p] = [stmt |-> s, sql |-> Inlined[<<prepared[s], v>>]]]
           /\ Answer(<<"2">>, FALSE)
           /\ UNCHANGED <<prepared, skip>>
  <2>1. GateStep
    BY <1>0, <1>4, QuietSteps DEF Answer, TypeOK, Stages
  <2>2. Inlined[<<prepared[s], v>>] \in Texts
    BY <1>4, PgAssumption DEF TypeOK, PgTypeOK
  <2>3. portals' \in [Portals -> Portal \union {NoPortal}]
    BY <1>4, <2>2 DEF TypeOK, PgTypeOK, Portal, NoPortal
  <2> QED
    BY <1>4, <2>1, <2>3, QuietTags DEF Extends, PgStep, TypeOK, PgTypeOK, Answer, Tags
<1> QED
  BY <1>1, <1>2, <1>3, <1>4 DEF Bind

\* Describe answers with columns, or with the lack of them.
LEMMA DescribeSteps ==
    ASSUME TypeOK,
           \/ \E s \in Stmts : DescribeStatement(s)
           \/ \E p \in Portals : DescribePortal(p)
    PROVE  Extends
<1>1. pc = "ready" /\ UNCHANGED <<gate, pgVars>>
  BY DEF DescribeStatement, DescribePortal, Serving
<1>2. CASE Skipped
  BY <1>1, <1>2, SkippedSteps DEF Serving
<1>3. CASE \E c \in {"n", "T"} : Answer(<<c>>, FALSE) \/ Answer(<<"t", c>>, FALSE)
  <2>1. GateStep
    BY <1>1, <1>3, QuietSteps DEF Answer, TypeOK, Stages
  <2>2. reply' \in Seq(Tags) /\ "E" \notin Range(reply')
    <3>1. PICK c \in {"n", "T"} : reply' = <<c>> \/ reply' = <<"t", c>>
      BY <1>3 DEF Answer
    <3>2. c \in Tags \ {"E"} /\ "t" \in Tags \ {"E"}
      BY DEF Tags
    <3>3. reply' \in Seq(Tags \ {"E"})
      <4>1. <<c>> \in Seq(Tags \ {"E"})
        BY <3>2
      <4>2. <<"t", c>> \in Seq(Tags \ {"E"})
        BY <3>2
      <4> QED
        BY <3>1, <4>1, <4>2
    <3>4. "E" \notin Range(reply')
      BY <3>3, RangeOfSeq
    <3> QED
      BY <3>3, <3>4, SeqMonotonic
  <2> QED
    BY <1>1, <2>1, <2>2 DEF Extends, PgStep, TypeOK, PgTypeOK, pgVars, NoPortal
<1> QED
  BY <1>2, <1>3 DEF DescribeStatement, DescribePortal, Columns

\* Execute runs a portal's text; an error sets the flag, unless the client is gone.
LEMMA ExecuteSteps ==
    ASSUME TypeOK, NEW p \in Portals, NEW gone \in BOOLEAN, Execute(p, gone)
    PROVE  Extends
<1>0. Serving
  BY DEF Execute
<1>1. CASE Skipped
  BY <1>0, <1>1, SkippedSteps
<1>2. CASE Rejected /\ UNCHANGED gate
  <2>1. GateStep
    BY <1>0, <1>2, QuietSteps DEF Rejected, Answer, Serving, TypeOK, Stages
  <2> QED
    BY <1>0, <1>2, <2>1, RejectedSteps
<1>3. CASE /\ portals[p] # NoPortal
           /\ \E ok \in BOOLEAN : /\ exec_rows_only(portals[p].sql, ok, gone)
                                 /\ skip' = IF gone THEN skip ELSE ~ok
           /\ UNCHANGED <<prepared, portals>>
  <2> DEFINE t == portals[p].sql
             frames == [n \in 0..MaxRows |-> Rows(n) \o <<"C">>]
  <2>1. t \in Texts
    BY <1>3 DEF TypeOK, PgTypeOK, Portal, NoPortal
  <2>2. PICK ok \in BOOLEAN : /\ pg_exec(t, ok, frames, <<>>, gone)
                             /\ skip' = IF gone THEN skip ELSE ~ok
    BY <1>3 DEF exec_rows_only
  <2>3. \A n \in 0..MaxRows : frames[n] \o <<>> \in Seq(Tags \ {"E"})
    BY ResultFrames
  <2> HIDE DEF t, frames
  <2>4. \A n \in 0..MaxRows : frames[n] \o <<>> \in Seq(Tags)
    BY <2>3, SeqMonotonic
  <2>5. GateStep /\ reply' \in Seq(Tags)
    BY <1>0, <2>1, <2>2, <2>4, QuietTags, PgExecSteps DEF TypeOK
  <2>6. "E" \in Range(reply') => skip'
    <3>1. CASE gone
      BY <2>2, <3>1, QuietTags DEF pg_exec, Answer
    <3>2. CASE ~gone /\ ~ok
      BY <2>2, <3>2
    <3>3. CASE ~gone /\ ok
      <4>1. reply' \in Seq(Tags \ {"E"})
        BY <2>2, <2>3, <3>3 DEF pg_exec, Answer
      <4> QED
        BY <4>1, RangeOfSeq
    <3> QED
      BY <3>1, <3>2, <3>3
  <2>7. skip' \in BOOLEAN
    BY <2>2 DEF TypeOK, PgTypeOK
  <2> QED
    BY <1>3, <2>5, <2>6, <2>7 DEF Extends, PgStep, TypeOK, PgTypeOK, NoPortal
<1> QED
  BY <1>1, <1>2, <1>3 DEF Execute

\* Every extended message.
LEMMA ExtendedSteps == ASSUME TypeOK, Extended PROVE Extends
BY ParseSteps, BindSteps, DescribeSteps, ExecuteSteps DEF Extended

\* Startup, login and the end of the session.
LEMMA LoginSteps ==
    ASSUME TypeOK,
           \/ \E k : read_startup(k)
           \/ \E tag, user_ok, token_ok : password(tag, user_ok, token_ok)
           \/ PgLeave
    PROVE  PgStep /\ UNCHANGED skip
<1>1. UNCHANGED <<gate, pgVars>>
  BY DEF read_startup, password, PgLeave, Hangup
<1>2. /\ pc \notin {"closed", "aborted"} /\ pc' \in Stages
      /\ pc = "ready" => pc' \in {"ready", "closed"}
  BY DEF read_startup, password, PgLeave, Hangup, Stages
<1>3. reply' \in {<<>>, <<"N">>, <<"R">>, <<"E">>, <<"R", "Z">>}
  BY DEF read_startup, password, PgLeave, Hangup
<1>4. GateStep
  BY <1>1, <1>2, QuietSteps DEF TypeOK
<1>5. reply' \in Seq(Tags)
  <2>1. /\ <<>> \in Seq(Tags) /\ <<"N">> \in Seq(Tags) /\ <<"R">> \in Seq(Tags)
        /\ <<"E">> \in Seq(Tags) /\ <<"R", "Z">> \in Seq(Tags)
    BY DEF Tags
  <2> QED
    BY <1>3, <2>1
<1> QED
  BY <1>1, <1>4, <1>5 DEF PgStep, TypeOK, PgTypeOK, pgVars, NoPortal

\* The simple query runs its text.
LEMMA QuerySteps ==
    ASSUME TypeOK, NEW t \in Texts, NEW gone \in BOOLEAN, Query(t, gone)
    PROVE  PgStep /\ UNCHANGED skip
<1>1. PICK ok \in BOOLEAN : pg_exec(t, ok, write_result_set, <<"Z">>, gone)
  BY DEF Query, firewalled_exec
<1>2. \A n \in 0..MaxRows : write_result_set[n] \o <<"Z">> \in Seq(Tags)
  BY ResultFrames
<1>3. <<"Z">> \in Seq(Tags)
  BY DEF Tags
<1>4. GateStep /\ reply' \in Seq(Tags)
  BY <1>1, <1>2, <1>3, PgExecSteps DEF Query, TypeOK
<1> QED
  BY <1>4 DEF Query, PgStep, TypeOK, PgTypeOK, pgVars, NoPortal

\* The messages that are answered at once.
LEMMA OtherSteps ==
    ASSUME TypeOK,
           \/ EmptyQuery \/ Flush \/ Unsupported
           \/ \E s \in Stmts : CloseStatement(s)
           \/ \E p \in Portals : ClosePortal(p)
    PROVE  PgStep /\ UNCHANGED skip
<1>1. UNCHANGED gate /\ pc = "ready" /\ pc' = "ready"
  BY DEF EmptyQuery, Flush, Unsupported, CloseStatement, ClosePortal, Answer, Serving
<1>2. GateStep
  BY <1>1, QuietSteps DEF TypeOK, Stages
<1>3. reply' \in {<<"I", "Z">>, <<"3">>, <<>>, <<"E", "Z">>}
  BY DEF EmptyQuery, Flush, Unsupported, CloseStatement, ClosePortal, Answer
<1>4. reply' \in Seq(Tags)
  <2>1. /\ <<"I", "Z">> \in Seq(Tags) /\ <<"3">> \in Seq(Tags)
        /\ <<>> \in Seq(Tags) /\ <<"E", "Z">> \in Seq(Tags)
    BY DEF Tags
  <2> QED
    BY <1>3, <2>1
<1>5. /\ prepared' \in [Stmts -> Texts \union {Absent}]
      /\ portals' \in [Portals -> Portal \union {NoPortal}]
      /\ UNCHANGED skip
  BY DEF EmptyQuery, Flush, Unsupported, CloseStatement, ClosePortal, TypeOK, PgTypeOK,
     pgVars, NoPortal
<1> QED
  BY <1>2, <1>4, <1>5 DEF PgStep, TypeOK, PgTypeOK

\* A step of a PostgreSQL session keeps its types, and the flag is set as long as
\* an error is outstanding.
LEMMA PgNextKeeps ==
    ASSUME TypeOK, FailedSkips, PgNext
    PROVE  PgStep /\ FailedSkips' /\ failed' \in BOOLEAN
<1>1. CASE Extended /\ failed' = (failed \/ "E" \in Range(reply'))
  <2>1. PgStep /\ ("E" \in Range(reply') => skip')
    BY <1>1, ExtendedSteps DEF Extends
  <2>2. failed => skip'
    <3>1. failed /\ Extended => Skipped
      BY DEF Extended, Parse, Bind, DescribeStatement, DescribePortal, Execute, FailedSkips
    <3> QED
      BY <1>1, <3>1 DEF Skipped, pgVars, FailedSkips
  <2> QED
    BY <1>1, <2>1, <2>2 DEF FailedSkips
<1>2. CASE Sync /\ failed' = FALSE
  <2>1. GateStep
    BY <1>2, QuietSteps DEF Sync, Answer, Serving, TypeOK, Stages
  <2> QED
    BY <1>2, <2>1, QuietTags
    DEF Sync, Answer, PgStep, FailedSkips, TypeOK, PgTypeOK, NoPortal, Tags
<1>3. CASE PgStep /\ UNCHANGED skip /\ UNCHANGED failed
  BY <1>3 DEF FailedSkips, TypeOK, PgTypeOK
<1> QED
  BY <1>1, <1>2, <1>3, LoginSteps, QuerySteps, OtherSteps DEF PgNext

-----------------------------------------------------------------------------
(* MySQL. *)

\* A remainder is determined by its equation.
LEMMA ModUnique ==
    \A n \in Nat \ {0}, q \in Nat, r \in Nat, a \in Nat :
        r < n /\ a = n * q + r => a % n = r
OBVIOUS

\* The counter's arithmetic: wrapping before the increment changes nothing.
LEMMA ModSucc ==
    ASSUME NEW n \in Nat \ {0}, NEW a \in Nat
    PROVE  a % n \in 0..(n - 1) /\ ((a % n) + 1) % n = (a + 1) % n
<1>1. a = n * (a \div n) + (a % n) /\ a % n \in 0..(n - 1) /\ a \div n \in Nat
  OBVIOUS
<1>2. ASSUME NEW q \in Nat, NEW r \in Nat, r < n, a = n * q + r
      PROVE  (r + 1) % n = (a + 1) % n
  <2>1. CASE r + 1 < n
    <3>1. a + 1 = n * q + (r + 1) /\ r + 1 = n * 0 + (r + 1)
      BY <1>2
    <3>2. r + 1 \in Nat /\ a + 1 \in Nat /\ 0 \in Nat
      OBVIOUS
    <3>3. (a + 1) % n = r + 1
      BY <2>1, <3>1, <3>2, ModUnique, Zenon
    <3>4. (r + 1) % n = r + 1
      BY <2>1, <3>1, <3>2, ModUnique, Zenon
    <3> QED
      BY <3>3, <3>4, Zenon
  <2>2. CASE r + 1 = n
    <3>1. a + 1 = n * (q + 1) + 0 /\ r + 1 = n * 1 + 0
      BY <1>2, <2>2
    <3>2. /\ r + 1 \in Nat /\ a + 1 \in Nat /\ q + 1 \in Nat
          /\ 1 \in Nat /\ 0 \in Nat /\ 0 < n
      OBVIOUS
    <3>3. (a + 1) % n = 0
      BY <3>1, <3>2, ModUnique, Zenon
    <3>4. (r + 1) % n = 0
      BY <3>1, <3>2, ModUnique, Zenon
    <3> QED
      BY <3>3, <3>4, Zenon
  <2> QED
    BY <1>2, <2>1, <2>2
<1>3. a % n \in Nat /\ a % n < n
  BY <1>1
<1>4. ((a % n) + 1) % n = (a + 1) % n
  BY <1>1, <1>2, <1>3, Zenon
<1> QED
  BY <1>1, <1>4, Zenon

\* Kinds of which the last is the only terminator.
Terminated(kinds) ==
    \A i \in 1..Len(kinds) : kinds[i] \in Terminators <=> i = Len(kinds)

\* The two halves of AnswerIsFramed, of an answer r to the packet numbered sn.
InOrder(r, sn) ==
    \A i \in DOMAIN r : r[i].seq = (IF i = 1 THEN sn + 1 ELSE r[i - 1].seq + 1) % SeqNums

EndsOnce(r) == \A i \in DOMAIN r : r[i].kind \in Terminators <=> i = Len(r)

\* AnswerIsFramed in terms of them.
LEMMA FramedHalves ==
    AnswerIsFramed <=> (pc # "greeting" => InOrder(reply, sent) /\ (pc = "ready" => EndsOnce(reply)))
BY DEF AnswerIsFramed, InOrder, EndsOnce, Serving

\* The packets of an answer are numbered one by one from the first number on.
LEMMA NumberedPackets ==
    ASSUME NEW kinds \in Seq(Kinds), NEW sn \in Nat, NEW r, r = Numbered(kinds, sn + 1)
    PROVE  r \in Seq(Packet) /\ InOrder(r, sn) /\ (Terminated(kinds) => EndsOnce(r))
<1> DEFINE from == sn + 1
           num(i) == (from + i - 1) % SeqNums
<1>1. Len(kinds) \in Nat /\ \A i \in 1..Len(kinds) : kinds[i] \in Kinds
  BY LenProperties, ElementOfSeq
<1>2. \A i \in 1..Len(kinds) : num(i) \in 0..(SeqNums - 1)
  <2>1. \A i \in 1..Len(kinds) : from + i - 1 \in Nat
    BY <1>1
  <2> QED
    BY <2>1, ModSucc, MySqlAssumption
<1>3. \A i \in 1..Len(kinds) : i # 1 => num(i) = (num(i - 1) + 1) % SeqNums
  <2> SUFFICES ASSUME NEW i \in 1..Len(kinds), i # 1
               PROVE  num(i) = (num(i - 1) + 1) % SeqNums
    OBVIOUS
  <2>1. from + (i - 1) - 1 \in Nat /\ (from + (i - 1) - 1) + 1 = from + i - 1
    BY <1>1
  <2> QED
    BY <2>1, ModSucc, MySqlAssumption
<1>4. num(1) = (sn + 1) % SeqNums
  OBVIOUS
<1>5. r = [i \in 1..Len(kinds) |-> [kind |-> kinds[i], seq |-> num(i)]]
  BY DEF Numbered
<1> HIDE DEF num
<1>6. \A i \in 1..Len(kinds) : [kind |-> kinds[i], seq |-> num(i)] \in Packet
  BY <1>1, <1>2 DEF Packet
<1>7. r \in Seq(Packet) /\ Len(r) = Len(kinds)
  BY <1>1, <1>5, <1>6
<1>8. DOMAIN r = 1..Len(kinds)
  BY <1>5
<1>9. InOrder(r, sn)
  <2> SUFFICES ASSUME NEW i \in 1..Len(kinds)
               PROVE  r[i].seq = (IF i = 1 THEN sn + 1 ELSE r[i - 1].seq + 1) % SeqNums
    BY <1>8 DEF InOrder
  <2>1. r[i].seq = num(i)
    BY <1>5
  <2>2. CASE i = 1
    BY <1>4, <2>1, <2>2
  <2>3. CASE i # 1
    <3>1. i - 1 \in 1..Len(kinds)
      BY <1>1, <2>3
    <3>2. r[i - 1].seq = num(i - 1)
      BY <1>5, <3>1
    <3> QED
      BY <1>3, <2>1, <2>3, <3>2
  <2> QED
    BY <2>2, <2>3
<1>10. Terminated(kinds) => EndsOnce(r)
  BY <1>5, <1>7, <1>8 DEF Terminated, EndsOnce
<1> QED
  BY <1>7, <1>9, <1>10

\* One packet ends its answer.
LEMMA OnePacket ==
    \A k \in {"ok", "err", "greeting", "switch"} :
        <<k>> \in Seq(Kinds) /\ Len(<<k>>) = 1 /\ (k \in {"ok", "err"} => Terminated(<<k>>))
BY DEF Kinds, Terminated, Terminators

\* Two runs of packets, one after the other.
LEMMA Joined ==
    ASSUME NEW a \in Seq(Kinds), NEW b \in Seq(Kinds)
    PROVE  /\ a \o b \in Seq(Kinds)
           /\ Len(a \o b) = Len(a) + Len(b)
           /\ \A i \in 1..Len(a) : (a \o b)[i] = a[i]
           /\ \A i \in 1..Len(b) : (a \o b)[Len(a) + i] = b[i]
<1>1. Len(a) \in Nat /\ Len(b) \in Nat
  BY LenProperties
<1> QED
  BY <1>1, ConcatProperties, SMTT(30)

\* So does the end packet of a result.
LEMMA ResultPackets ==
    ASSUME NEW cols \in 0..1, NEW n \in 0..MaxRows
    PROVE  result_packets(cols, n) \in Seq(Kinds) /\ Terminated(result_packets(cols, n))
<1>0. n \in Nat
  BY SessionAssumption
<1>1. CASE cols = 0
  BY <1>1, OnePacket DEF result_packets
<1>2. CASE cols = 1
  <2> DEFINE r == result_packets(cols, n)
             c == <<"columns">> \o [i \in 1..cols |-> "column"]
             w == [i \in 1..n |-> "row"]
  <2>1. r = (c \o w) \o <<"eof">>
    BY <1>2 DEF result_packets
  <2>2. c \in Seq(Kinds) /\ Len(c) = 2 /\ c[1] = "columns" /\ c[2] = "column"
    BY <1>2 DEF Kinds
  <2>3. w \in Seq(Kinds) /\ Len(w) = n /\ \A i \in 1..n : w[i] = "row"
    BY <1>0 DEF Kinds
  <2>4. <<"eof">> \in Seq(Kinds) /\ Len(<<"eof">>) = 1 /\ <<"eof">>[1] = "eof"
    BY DEF Kinds
  <2> HIDE DEF c, w, r
  <2>5. /\ c \o w \in Seq(Kinds) /\ Len(c \o w) = n + 2
        /\ \A i \in 1..(n + 2) : (c \o w)[i] \in {"columns", "column", "row"}
    <3>1. /\ c \o w \in Seq(Kinds) /\ Len(c \o w) = Len(c) + Len(w)
          /\ \A i \in 1..Len(c) : (c \o w)[i] = c[i]
          /\ \A i \in 1..Len(w) : (c \o w)[Len(c) + i] = w[i]
      BY <2>2, <2>3, Joined
    <3>2. Len(c \o w) = n + 2
      BY <1>0, <2>2, <2>3, <3>1
    <3>3. ASSUME NEW i \in 1..(n + 2) PROVE (c \o w)[i] \in {"columns", "column", "row"}
      <4>1. CASE i \in 1..2
        BY <2>2, <3>1, <4>1
      <4>2. CASE i \notin 1..2
        <5>1. i - 2 \in 1..n /\ i = 2 + (i - 2)
          BY <1>0, <4>2
        <5> QED
          BY <2>2, <2>3, <3>1, <5>1
      <4> QED
        BY <4>1, <4>2
    <3> QED
      BY <3>1, <3>2, <3>3
  <2>6. /\ r \in Seq(Kinds) /\ Len(r) = n + 3
        /\ r[n + 3] = "eof"
        /\ \A i \in 1..(n + 2) : r[i] \in {"columns", "column", "row"}
    <3> DEFINE f == c \o w
    <3>1. f \in Seq(Kinds) /\ Len(f) = n + 2
      BY <2>5
    <3>2. \A i \in 1..(n + 2) : f[i] \in {"columns", "column", "row"}
      BY <2>5
    <3>3. r = f \o <<"eof">>
      BY <2>1
    <3> HIDE DEF f
    <3>4. /\ r \in Seq(Kinds) /\ Len(r) = (n + 2) + 1
          /\ \A i \in 1..(n + 2) : r[i] = f[i]
          /\ \A i \in 1..1 : r[(n + 2) + i] = <<"eof">>[i]
      BY <2>4, <3>1, <3>3, Joined
    <3>5. 1 \in 1..1 /\ (n + 2) + 1 = n + 3
      BY <1>0
    <3> QED
      BY <2>4, <3>2, <3>4, <3>5
  <2>7. Terminated(r)
    BY <1>0, <2>6 DEF Terminated, Terminators
  <2> QED
    BY <2>6, <2>7 DEF r
<1> QED
  BY <1>1, <1>2

\* ... and are packets whatever the first number is.
LEMMA NumberedFrom ==
    ASSUME NEW kinds \in Seq(Kinds), NEW from \in Nat
    PROVE  Numbered(kinds, from) \in Seq(Packet)
<1>1. Len(kinds) \in Nat /\ \A i \in 1..Len(kinds) : kinds[i] \in Kinds
  BY LenProperties, ElementOfSeq
<1>2. \A i \in 1..Len(kinds) : from + i - 1 \in Nat
  BY <1>1
<1>3. \A i \in 1..Len(kinds) : (from + i - 1) % SeqNums \in 0..(SeqNums - 1)
  BY <1>2, ModSucc, MySqlAssumption
<1>4. \A i \in 1..Len(kinds) : [kind |-> kinds[i], seq |-> (from + i - 1) % SeqNums] \in Packet
  BY <1>1, <1>3 DEF Packet
<1> QED
  BY <1>1, <1>4 DEF Numbered

\* What every step of a MySQL session does to its own state.
MySqlStep ==
    /\ GateStep
    /\ reply' \in Seq(Packet)
    /\ seq' \in 0..(SeqNums - 1)
    /\ sent' \in 0..(SeqNums - 1)
    /\ AnswerIsFramed'

\* An answer numbered from the packet after the client's is framed.
LEMMA FramedAnswer ==
    ASSUME NEW kinds \in Seq(Kinds), NEW sn \in Nat, sent' = sn,
           reply' = Numbered(kinds, sn + 1),
           pc' = "ready" => Terminated(kinds)
    PROVE  reply' \in Seq(Packet) /\ AnswerIsFramed'
<1>1. reply' \in Seq(Packet) /\ InOrder(reply', sn) /\ (Terminated(kinds) => EndsOnce(reply'))
  BY NumberedPackets, Zenon
<1>2. (AnswerIsFramed <=> (pc # "greeting" =>
                              InOrder(reply, sent) /\ (pc = "ready" => EndsOnce(reply))))'
  BY FramedHalves, PTL
<1> QED
  BY <1>1, <1>2

\* No answer is framed.
LEMMA NoAnswer ==
    ASSUME reply' = <<>>
    PROVE  reply' \in Seq(Packet) /\ AnswerIsFramed'
BY DEF AnswerIsFramed

\* The counter after an answer.
LEMMA CounterWraps == \A a \in Nat : a % SeqNums \in 0..(SeqNums - 1)
BY ModSucc, MySqlAssumption

\* The greeting is the first packet; no client's packet precedes it.
LEMMA GreetSteps ==
    ASSUME TypeOK, greet
    PROVE  MySqlStep
<1>1. pc = "accepted" /\ pc' = "greeting" /\ UNCHANGED gate /\ sent' = sent
  BY DEF greet, handle_one
<1>2. GateStep
  BY <1>1, QuietSteps DEF TypeOK, Stages
<1>3. <<"greeting">> \in Seq(Kinds) /\ Len(<<"greeting">>) = 1
  BY OnePacket
<1>4. reply' = Numbered(<<"greeting">>, 0) /\ seq' = 1 % SeqNums
  BY <1>3 DEF greet, write_packets
<1>5. reply' \in Seq(Packet)
  BY <1>3, <1>4, NumberedFrom
<1>6. seq' \in 0..(SeqNums - 1)
  BY <1>4, CounterWraps
<1> QED
  BY <1>1, <1>2, <1>5, <1>6 DEF MySqlStep, AnswerIsFramed, TypeOK

\* The answer to a handshake packet is one packet, the one after the client's.
LEMMA HandshakeAnswer ==
    ASSUME TypeOK, NEW k \in {"ok", "err", "switch"},
           pc \in {"greeting", "switch", "switch_stranger"}, pc' \in Stages,
           sent' = seq, UNCHANGED gate,
           reply' = Numbered(<<k>>, seq + 1),
           seq' = seq \/ seq' = (seq + 1 + 1) % SeqNums,
           pc' = "ready" => k = "ok"
    PROVE  MySqlStep
<1>1. GateStep
  BY QuietSteps DEF TypeOK
<1>2. <<k>> \in Seq(Kinds) /\ (k # "switch" => Terminated(<<k>>))
  BY OnePacket
<1>3. seq \in Nat /\ seq + 1 \in Nat /\ seq + 1 + 1 \in Nat
  BY MySqlAssumption DEF TypeOK
<1>4. reply' \in Seq(Packet) /\ AnswerIsFramed'
  <2>1. pc' = "ready" => Terminated(<<k>>)
    BY <1>2
  <2> QED
    BY <1>2, <1>3, <2>1, FramedAnswer, Zenon
<1>5. seq' \in 0..(SeqNums - 1)
  BY <1>3, CounterWraps DEF TypeOK
<1> QED
  BY <1>1, <1>4, <1>5 DEF MySqlStep, TypeOK

\* The login's verdict, from the handshake response or the switched one.
LEMMA VerdictSteps ==
    ASSUME TypeOK, NEW u, NEW t, Verdict(u, t), sent' = seq,
           pc \in {"greeting", "switch", "switch_stranger"}
    PROVE  MySqlStep
<1>1. CASE Verified(u, t)
  <2>1. /\ reply' = Numbered(<<"ok">>, seq + 1) /\ pc' = "ready" /\ UNCHANGED gate
        /\ seq' = (seq + 1 + 1) % SeqNums
    BY <1>1, OnePacket DEF Verdict, write_packets
  <2> QED
    BY <2>1, HandshakeAnswer DEF Stages
<1>2. CASE ~Verified(u, t)
  <2>1. /\ reply' = Numbered(<<"err">>, seq + 1) /\ pc' = "closed" /\ UNCHANGED gate
        /\ seq' = seq
    BY <1>2 DEF Verdict, Hangup
  <2> QED
    BY <2>1, HandshakeAnswer DEF Stages
<1> QED
  BY <1>1, <1>2

\* The two packets that a client may send before it is logged in.
LEMMA HandshakeSteps ==
    ASSUME TypeOK, NEW got,
           \/ \E kind, user_ok, token_ok : handshake_response(got, kind, user_ok, token_ok)
           \/ \E token_ok : switch_response(got, token_ok)
    PROVE  MySqlStep
<1>1. pc \in {"greeting", "switch", "switch_stranger"} /\ sent' = seq
  BY DEF handshake_response, switch_response, read_packet
<1>2. ASSUME NEW u, NEW t, Verdict(u, t) PROVE MySqlStep
  BY <1>1, <1>2, VerdictSteps
<1>3. CASE /\ write_packets(<<"switch">>, seq + 1)
           /\ pc' \in {"switch", "switch_stranger"}
           /\ UNCHANGED gate
  <2>1. reply' = Numbered(<<"switch">>, seq + 1) /\ seq' = (seq + 1 + 1) % SeqNums
    BY <1>3, OnePacket DEF write_packets
  <2> QED
    BY <1>1, <1>3, <2>1, HandshakeAnswer DEF Stages
<1>4. CASE Hangup(Numbered(<<"err">>, seq + 1)) /\ UNCHANGED seq
  BY <1>1, <1>4, HandshakeAnswer DEF Hangup, Stages
<1> QED
  BY <1>2, <1>3, <1>4 DEF handshake_response, switch_response

\* The answer to a command is numbered from 1 and ends with its only terminator.
LEMMA CommandAnswer ==
    ASSUME TypeOK, NEW kinds \in Seq(Kinds), Terminated(kinds), NEW gone \in BOOLEAN,
           read_command(0), AnswerPackets(kinds, gone)
    PROVE  /\ pc = "ready" /\ pc' = IF gone THEN "closed" ELSE "ready"
           /\ reply' \in Seq(Packet) /\ AnswerIsFramed'
           /\ seq' \in 0..(SeqNums - 1) /\ sent' \in 0..(SeqNums - 1)
<1>1. /\ pc = "ready" /\ pc' = (IF gone THEN "closed" ELSE "ready") /\ sent' = 0
      /\ reply' = IF gone THEN <<>> ELSE Numbered(kinds, 1)
      /\ seq' = IF gone THEN 1 ELSE (1 + Len(kinds)) % SeqNums
  BY DEF read_command, read_packet, AnswerPackets, Answer, Serving
<1>2. 1 + Len(kinds) \in Nat
  BY LenProperties
<1>3. seq' \in 0..(SeqNums - 1) /\ sent' \in 0..(SeqNums - 1)
  <2>1. (1 + Len(kinds)) % SeqNums \in 0..(SeqNums - 1)
    BY <1>2, CounterWraps, Zenon
  <2>2. 0 \in 0..(SeqNums - 1) /\ 1 \in 0..(SeqNums - 1)
    BY MySqlAssumption
  <2> QED
    BY <1>1, <2>1, <2>2, Zenon
<1>4. CASE gone
  BY <1>1, <1>3, <1>4, NoAnswer
<1>5. CASE ~gone
  <2>1. reply' = Numbered(kinds, 0 + 1) /\ 0 \in Nat
    BY <1>1, <1>5
  <2> QED
    BY <1>1, <1>3, <1>5, <2>1, FramedAnswer
<1> QED
  BY <1>4, <1>5

\* A query is answered, or ends the session, and at most runs its statement.
LEMMA ComQuerySteps ==
    ASSUME TypeOK, NEW t \in Texts, NEW cols \in 0..1, NEW n \in 0..MaxRows,
           NEW gone \in BOOLEAN, handle_com_query(t, cols, n, gone)
    PROVE  MySqlStep
<1>1. read_command(0) /\ pc = "ready" /\ sent' = 0 /\ asked' \in 0..MaxAsked
  BY SessionAssumption DEF handle_com_query, Asks, TypeOK, GateTypeOK, read_command,
     read_packet, Serving
<1>2. <<"err">> \in Seq(Kinds) /\ Terminated(<<"err">>)
  BY OnePacket
<1>3. ASSUME NEW kinds \in Seq(Kinds), Terminated(kinds), AnswerPackets(kinds, gone),
             Asked => GateStep
      PROVE  MySqlStep
  <2>1. Asked
    BY <1>1, <1>3, CommandAnswer DEF Asked
  <2> QED
    BY <1>1, <1>3, <2>1, CommandAnswer DEF MySqlStep
<1>4. CASE Panic /\ UNCHANGED <<ran, audit, seq>>
  <2>3. ~Ended /\ pc' = "aborted" /\ pc' \in Stages
    BY <1>1, <1>4 DEF Stages, Panic, Ended
  <2>4. UNCHANGED <<ran, audit>>
    BY <1>4
  <2>1. GateStep
    BY <1>1, <2>3, <2>4 DEF GateStep
  <2>2. sent' \in 0..(SeqNums - 1)
    BY <1>1, MySqlAssumption
  <2> QED
    BY <1>4, <2>1, <2>2, NoAnswer DEF MySqlStep, TypeOK, Panic
<1>5. CASE Refused(t) /\ AnswerPackets(<<"err">>, gone)
  BY <1>2, <1>3, <1>5, RefusedSteps
<1>6. CASE /\ t \notin Denied /\ emit(Event(t, "Error", "pool")) /\ UNCHANGED ran
           /\ AnswerPackets(<<"err">>, gone)
  <2> DEFINE e == Event(t, "Error", "pool")
  <2>1. e \in AuditEvent /\ e.stmt = t /\ e.why = "pool" /\ e.decision = "Error"
    BY DEF Event, AuditEvent, Decisions, Reasons
  <2>2. ran' = ran /\ audit' = Append(audit, e) /\ t \notin Denied
    BY <1>6 DEF emit
  <2> HIDE DEF e
  <2>4. Noted(t, e)
    BY <2>1, <2>2 DEF Noted
  <2>3. Asked => GateStep
    BY <2>1, <2>4 DEF GateStep, Asked, Ended
  <2> QED
    BY <1>2, <1>3, <1>6, <2>3
<1>7. CASE Failed(t, Event(t, "Error", "backend")) /\ AnswerPackets(<<"err">>, gone)
  <2>1. "Error" \in Decisions
    BY DEF Decisions
  <2> QED
    BY <1>2, <1>3, <1>7, <2>1, FailedSteps
<1>8. CASE Done(t, gone) /\ AnswerPackets(result_packets(cols, n), gone)
  <2>1. gone => pc' = "closed"
    BY <1>8 DEF AnswerPackets, Answer
  <2> QED
    BY <1>3, <1>8, <2>1, ResultPackets, DoneSteps
<1> QED
  BY <1>4, <1>5, <1>6, <1>7, <1>8 DEF handle_com_query

\* A step of a MySQL session.
LEMMA MySqlNextKeeps == ASSUME TypeOK, MySqlNext PROVE MySqlStep
<1>1. ASSUME NEW gone \in BOOLEAN, Ping(gone) \/ OtherCommand(gone)
      PROVE  MySqlStep
  <2>1. PICK k \in {"ok", "err"} : AnswerPackets(<<k>>, gone)
    BY <1>1 DEF Ping, OtherCommand
  <2>2. read_command(0) /\ UNCHANGED gate
    BY <1>1 DEF Ping, OtherCommand
  <2>3. /\ pc = "ready" /\ pc' = (IF gone THEN "closed" ELSE "ready")
        /\ reply' \in Seq(Packet) /\ AnswerIsFramed'
        /\ seq' \in 0..(SeqNums - 1) /\ sent' \in 0..(SeqNums - 1)
    BY <2>1, <2>2, OnePacket, CommandAnswer
  <2>4. GateStep
    BY <2>2, <2>3, QuietSteps DEF TypeOK, Stages
  <2> QED
    BY <2>3, <2>4 DEF MySqlStep
<1>2. CASE MySqlLeave
  <2>1. GateStep
    BY <1>2, QuietSteps DEF MySqlLeave, Hangup, TypeOK, Stages
  <2> QED
    BY <1>2, <2>1, NoAnswer DEF MySqlLeave, Hangup, myVars, MySqlStep, TypeOK
<1> QED
  BY <1>1, <1>2, GreetSteps, HandshakeSteps, ComQuerySteps DEF MySqlNext

-----------------------------------------------------------------------------
(* Every engine. *)

\* A connection starts with nothing run and nothing logged.
LEMMA SessionStart == ASSUME Init PROVE SessionInv /\ Promise!Init
<1>1. TypeOK
  <2>1. PgTypeOK
    BY DEF Init, PgInit, PgTypeOK, NoPortal
  <2>2. GateTypeOK
    BY SessionAssumption DEF Init, GateTypeOK
  <2>3. seq \in 0..(SeqNums - 1) /\ sent \in 0..(SeqNums - 1)
    BY MySqlAssumption DEF Init
  <2>4. reply \in Seq(IF engine = "mysql" THEN Packet ELSE Tags)
    BY DEF Init
  <2> QED
    BY <2>1, <2>2, <2>3, <2>4 DEF Init, TypeOK
<1>2. ExecutedIsAudited
  <2>1. ran = <<>> /\ audit = <<>> /\ RunEvents = {}
    BY DEF Init, RunEvents
  <2>2. LoggedAs(ran)
    <3> DEFINE at == [i \in {} |-> 0]
    <3>1. DOMAIN ran = {} /\ at \in [DOMAIN ran -> RunEvents]
      BY <2>1
    <3> QED
      BY <2>1, <3>1 DEF LoggedAs
  <2> QED
    BY <2>2 DEF ExecutedIsAudited
<1>3. FailedSkips /\ MySqlAnswerIsFramed
  BY DEF Init, PgInit, FailedSkips, MySqlAnswerIsFramed, AnswerIsFramed
<1>4. Promise!Init
  BY DEF Init, Promise!Init, Phase, Ended
<1> QED
  BY <1>1, <1>2, <1>3, <1>4 DEF SessionInv

\* A step of a connection, whatever its engine.
LEMMA SessionNext ==
    ASSUME SessionInv, Next
    PROVE  SessionInv' /\ GateStep
<1>1. TypeOK /\ FailedSkips /\ ExecutedIsAudited /\ MySqlAnswerIsFramed
  BY DEF SessionInv
<1>2. /\ engine' = engine /\ auth' = auth
      /\ GateStep
      /\ reply' \in Seq(IF engine = "mysql" THEN Packet ELSE Tags)
      /\ seq' \in 0..(SeqNums - 1) /\ sent' \in 0..(SeqNums - 1)
      /\ PgTypeOK' /\ FailedSkips'
      /\ MySqlAnswerIsFramed'
  <2>1. CASE Postgres
    <3>1. /\ engine = "postgres" /\ engine' = engine /\ auth' = auth
          /\ seq' = seq /\ sent' = sent
      BY <2>1 DEF Postgres, myVars
    <3>2. CASE handle_one("startup") /\ UNCHANGED <<reply, pgVars, failed>>
      <4>1. GateStep
        BY <1>1, <3>2, QuietSteps DEF handle_one, TypeOK, Stages
      <4> QED
        BY <1>1, <3>1, <3>2, <4>1
        DEF TypeOK, PgTypeOK, pgVars, FailedSkips, MySqlAnswerIsFramed
    <3>3. CASE PgNext
      <4>1. PgStep /\ FailedSkips' /\ failed' \in BOOLEAN
        BY <1>1, <3>3, PgNextKeeps
      <4> QED
        BY <1>1, <3>1, <4>1 DEF PgStep, TypeOK, PgTypeOK, NoPortal, MySqlAnswerIsFramed
    <3> QED
      BY <2>1, <3>2, <3>3 DEF Postgres
  <2>2. CASE MySql
    <3>1. /\ engine = "mysql" /\ engine' = engine /\ auth' = auth
          /\ UNCHANGED <<prepared, portals, skip, failed>>
      BY <2>2 DEF MySql, pgVars
    <3>2. MySqlStep
      BY <1>1, <2>2, MySqlNextKeeps DEF MySql
    <3>3. PgTypeOK' /\ FailedSkips'
      BY <1>1, <3>1 DEF TypeOK, PgTypeOK, FailedSkips
    <3> QED
      BY <3>1, <3>2, <3>3 DEF MySqlStep, MySqlAnswerIsFramed
  <2>3. CASE Mssql
    <3>1. GateStep
      BY <1>1, <2>3, QuietSteps DEF Mssql, handle_one, TypeOK, Stages
    <3> QED
      BY <1>1, <2>3, <3>1
      DEF Mssql, TypeOK, PgTypeOK, pgVars, myVars, FailedSkips, MySqlAnswerIsFramed
  <2> QED
    BY <2>1, <2>2, <2>3 DEF Next
<1>3. GateTypeOK' /\ ExecutedIsAudited'
  BY <1>1, <1>2, GateStepKeeps DEF TypeOK
<1>4. pc' \in Stages
  BY <1>2 DEF GateStep, Stages
<1>5. TypeOK'
  BY <1>1, <1>2, <1>3, <1>4 DEF TypeOK, Stages
<1> QED
  BY <1>2, <1>3, <1>5 DEF SessionInv

\* The invariant is inductive.
LEMMA SessionStep == ASSUME SessionInv, [Next]_vars PROVE SessionInv'
<1>1. CASE UNCHANGED vars
  <2>1. /\ UNCHANGED <<engine, auth, pc, reply, ran, audit, asked>>
        /\ UNCHANGED <<prepared, portals, skip, failed, seq, sent>>
    BY <1>1 DEF vars, gate, pgVars, myVars
  <2>2. TypeOK' /\ FailedSkips' /\ MySqlAnswerIsFramed'
    BY <2>1 DEF SessionInv, TypeOK, GateTypeOK, PgTypeOK, FailedSkips, MySqlAnswerIsFramed,
       AnswerIsFramed, Serving
  <2>3. ExecutedIsAudited'
    BY <2>1 DEF SessionInv, ExecutedIsAudited, LoggedAs, RunEvents
  <2> QED
    BY <2>2, <2>3 DEF SessionInv
<1> QED
  BY <1>1, SessionNext

\* Every reachable state of a connection satisfies the invariant.
LEMMA SessionSafe == Spec => []SessionInv
BY SessionStart, SessionStep, PTL DEF Spec

-----------------------------------------------------------------------------
(* Theorems *)

\* Every variable of a connection keeps its type: the sequence counter stays a
\* byte, an answer consists of packets of the engine's protocol.
THEOREM SessionTypes == Spec => []TypeOK
BY SessionSafe, PTL DEF SessionInv

\* The audit log and the database of a connection agree, in order; only the
\* statement a connection ended with may be missing from the log.
THEOREM AuditMatchesDatabase == Spec => []ExecutedIsAudited
BY SessionSafe, PTL DEF SessionInv

\* A MySQL client can follow every answer, for every size of the sequence counter
\* and every number of rows.
THEOREM MySqlFraming == Spec => []MySqlAnswerIsFramed
BY SessionSafe, PTL DEF SessionInv

\* After an error in a series of extended messages nothing of the series is
\* prepared, bound, run or logged until Sync; a Close, which is still answered,
\* only forgets.
THEOREM PipelineSafe == Spec => PipelineStops
<1> DEFINE Quiet == reply' = <<>> /\ UNCHANGED <<prepared, portals>>
           Forgets == /\ reply' = <<"3">>
                      /\ \A s \in Stmts : prepared'[s] \in {prepared[s], Absent}
                      /\ \A p \in Portals : portals'[p] \in {portals[p], NoPortal}
<1>1. ASSUME SessionInv, failed, Extended
      PROVE  UNCHANGED <<pc, gate>> /\ Quiet
  <2>1. Skipped
    BY <1>1
    DEF SessionInv, FailedSkips, Extended, Parse, Bind, DescribeStatement, DescribePortal, Execute
  <2> QED
    BY <2>1 DEF Skipped, pgVars
<1>2. ASSUME SessionInv, CloseOne
      PROVE  UNCHANGED <<pc, gate>> /\ Forgets
  <2>1. prepared = [s \in Stmts |-> prepared[s]] /\ portals = [p \in Portals |-> portals[p]]
    BY <1>2 DEF SessionInv, TypeOK, PgTypeOK
  <2>2. CASE \E s \in Stmts : CloseStatement(s)
    BY <2>1, <2>2 DEF CloseStatement, Answer
  <2>3. CASE \E p \in Portals : ClosePortal(p)
    BY <2>1, <2>3 DEF ClosePortal, Answer
  <2> QED
    BY <1>2, <2>2, <2>3 DEF CloseOne
<1>3. ASSUME Flush PROVE UNCHANGED <<pc, gate>> /\ Quiet
  BY <1>3 DEF Flush, Answer, pgVars
<1>4. SessionInv /\ [Next]_vars =>
          [failed /\ Series => UNCHANGED <<pc, gate>> /\ (Quiet \/ Forgets)
          ]_<<pc, reply, gate, pgVars>>
  BY <1>1, <1>2, <1>3 DEF Series
<1> QED
  BY <1>4, SessionSafe, PTL DEF Spec, PipelineStops

\* A connection of either engine implements the gateway: nothing is run before the
\* login, nothing denied is run, and what is run or refused is logged.
THEOREM SessionsImplementGateway == Spec => GatewaySpec
<1>1. Init => Promise!Init
  BY SessionStart
<1>2. SessionInv /\ [Next]_vars => [Promise!Next]_Promise!vars
  <2>1. ASSUME SessionInv, Next PROVE [Promise!Next]_Promise!vars
    BY <2>1, SessionNext, GateStepIsPromised DEF SessionInv, TypeOK, Stages
  <2>2. ASSUME UNCHANGED vars PROVE UNCHANGED Promise!vars
    BY <2>2 DEF vars, gate, Promise!vars, Phase, Ended
  <2> QED
    BY <2>1, <2>2
<1> QED
  BY <1>1, <1>2, SessionSafe, PTL DEF Spec, GatewaySpec, Promise!Spec

-----------------------------------------------------------------------------
(* Induction *)

\* The least-number principle.
LEMMA Least ==
    ASSUME NEW T \in SUBSET Nat, T # {}
    PROVE  \E x \in T : \A y \in T : ~(y < x)
<1> DEFINE R == OpToRel(<, Nat)
<1>1. IsWellFoundedOn(R, Nat)
  BY NatLessThanWellFounded, Zenon
<1>2. \A x, y \in Nat : <<y, x>> \in R <=> y < x
  BY DEF OpToRel
<1> HIDE DEF R
<1>3. \E x \in T : \A y \in T : ~(<<y, x>> \in R)
  BY <1>1, WFMin
<1> QED
  BY <1>2, <1>3

\* Induction up to a number, for membership in a set.
LEMMA Upto ==
    ASSUME NEW n \in Nat, NEW G, 0 \in G, \A m \in 1..n : m - 1 \in G => m \in G
    PROVE  \A m \in 0..n : m \in G
<1> DEFINE T == {m \in 0..n : m \notin G}
<1> SUFFICES ASSUME T # {} PROVE FALSE
  OBVIOUS
<1>1. T \in SUBSET Nat
  OBVIOUS
<1> HIDE DEF T
<1>2. PICK m \in T : \A k \in T : ~(k < m)
  BY <1>1, Least
<1> USE DEF T
<1>3. m # 0 /\ m - 1 \notin T
  BY <1>2
<1> QED
  BY <1>2, <1>3


\* A recursion over 0..n that begins with a and goes on with F[1], ..., F[n].
Steps(n, S) == [1..n -> [S -> S]]

Solves(f, n, S, a, F) ==
    f \in [0..n -> S] /\ f[0] = a /\ \A i \in 1..n : f[i] = F[i][f[i - 1]]

\* It has a solution.
LEMMA RecursionHasSolution ==
    ASSUME NEW n \in Nat, NEW S, NEW a \in S, NEW F \in Steps(n, S)
    PROVE  \E f : Solves(f, n, S, a, F)
<1> USE DEF Steps, Solves
<1> DEFINE Good(m) == \E f \in [0..m -> S] : f[0] = a /\ \A i \in 1..m : f[i] = F[i][f[i - 1]]
           G == {m \in 0..n : Good(m)}
<1>1. Good(0)
  <2> DEFINE f == [m \in 0..0 |-> a]
  <2>1. f \in [0..0 -> S] /\ f[0] = a /\ \A i \in 1..0 : f[i] = F[i][f[i - 1]]
    OBVIOUS
  <2> QED
    BY <2>1
<1>2. ASSUME NEW m \in 1..n, Good(m - 1) PROVE Good(m)
  <2>1. PICK f \in [0..(m - 1) -> S] : f[0] = a /\ \A i \in 1..(m - 1) : f[i] = F[i][f[i - 1]]
    BY <1>2
  <2> DEFINE x == F[m][f[m - 1]]
             g == [i \in 0..m |-> IF i = m THEN x ELSE f[i]]
  <2>2. f[m - 1] \in S /\ F[m] \in [S -> S]
    OBVIOUS
  <2>2a. x \in S
    BY <2>2
  <2> HIDE DEF x
  <2>3. g \in [0..m -> S] /\ g[m] = x /\ \A i \in 0..(m - 1) : g[i] = f[i]
    BY <2>2a
  <2> HIDE DEF g
  <2>4. ASSUME NEW i \in 1..m PROVE g[i] = F[i][g[i - 1]]
    <3>1. g[i - 1] = f[i - 1]
      BY <2>3
    <3>2. CASE i = m
      BY <2>3, <3>1, <3>2 DEF x
    <3>3. CASE i # m
      <4>1. i \in 1..(m - 1) /\ i \in 0..(m - 1)
        BY <3>3
      <4> QED
        BY <2>1, <2>3, <3>1, <4>1
    <3> QED
      BY <3>2, <3>3
  <2> QED
    BY <2>1, <2>3, <2>4
<1> HIDE DEF Good
<1>3. 0 \in G /\ \A m \in 1..n : m - 1 \in G => m \in G
  BY <1>1, <1>2
<1>4. n \in 0..n
  OBVIOUS
<1>5. n \in G
  <2> HIDE DEF G
  <2> QED
    BY <1>3, <1>4, Upto, Zenon
<1> QED
  BY <1>5 DEF Good

-----------------------------------------------------------------------------
(* Concatenation *)

\* Each element of a concatenation is one of its parts'.
LEMMA ConcatFacts ==
    ASSUME NEW S, NEW s \in Seq(S), NEW t \in Seq(S)
    PROVE  /\ s \o t \in Seq(S) /\ Len(s \o t) = Len(s) + Len(t)
           /\ \A i \in 1..Len(s) : (s \o t)[i] = s[i]
           /\ \A i \in 1..Len(t) : (s \o t)[Len(s) + i] = t[i]
  OBVIOUS

\* What FlattenSeq computes: f[i] is the concatenation of the first i pieces.
LEMMA FlattenFacts ==
    ASSUME NEW S, NEW P \in Seq(Seq(S))
    PROVE  \E f \in [0..Len(P) -> Seq(S)] :
              /\ f[0] = <<>> /\ \A i \in 1..Len(P) : f[i] = f[i - 1] \o P[i]
              /\ FlattenSeq(P) = f[Len(P)]
<1> DEFINE n == Len(P)
           T == Seq(S)
           e == <<>>
           F == [i \in 1..n |-> [s \in T |-> s \o P[i]]]
           Def(f, i) == IF i = 1 THEN P[i] ELSE f[i - 1] \o P[i]
<1>1. n \in Nat /\ e \in T /\ \A i \in 1..n : P[i] \in T
  OBVIOUS
<1>2. F \in Steps(n, T)
  BY <1>1 DEF Steps
<1>2a. ASSUME NEW i \in 1..n, NEW s \in T PROVE F[i][s] = s \o P[i]
  OBVIOUS
<1>2b. (n = 0 => FlattenSeq(P) = P /\ P = e) /\ (n # 0 =>
         FlattenSeq(P) = (CHOOSE h : h = [i \in 1..n |-> Def(h, i)])[n])
  BY DEF FlattenSeq
<1>2c. e \o P[1] = P[1] \/ n = 0
  BY <1>1
<1> HIDE DEF F, n, T, e
<1>3. PICK f \in [0..n -> T] : f[0] = e /\ \A i \in 1..n : f[i] = F[i][f[i - 1]]
  <2>1. \E h : Solves(h, n, T, e, F)
    BY <1>1, <1>2, RecursionHasSolution
  <2> QED
    BY <2>1 DEF Solves
<1>4. ASSUME NEW i \in 1..n PROVE f[i] = f[i - 1] \o P[i]
  <2>1. i - 1 \in 0..n
    BY <1>1
  <2>2. f[i - 1] \in T /\ f[i] = F[i][f[i - 1]]
    BY <1>3, <2>1
  <2> QED
    BY <1>2a, <2>2
<1>5. CASE n = 0
  BY <1>2b, <1>3, <1>4, <1>5 DEF n, T, e
<1>6. CASE n # 0
  <2> DEFINE g == [i \in 1..n |-> f[i]]
  <2>1. f[1] = P[1]
    <3>1. 1 \in 1..n /\ 1 - 1 = 0
      BY <1>1, <1>6
    <3>2. f[1] = f[1 - 1] \o P[1]
      BY <1>4, <3>1
    <3> QED
      BY <1>2c, <1>3, <1>6, <3>1, <3>2
  <2>2. g = [i \in 1..n |-> Def(g, i)]
    <3>1. ASSUME NEW i \in 1..n PROVE f[i] = Def(g, i)
      <4>1. CASE i = 1
        BY <2>1, <4>1
      <4>2. CASE i # 1
        <5>1. i - 1 \in 1..n
          BY <1>1, <4>2
        <5>2. g[i - 1] = f[i - 1]
          BY <5>1
        <5> QED
          BY <1>4, <4>2, <5>2
      <4> QED
        BY <4>1, <4>2
    <3> HIDE DEF Def
    <3> QED
      BY <3>1
  <2>3. \E h : h = [i \in 1..n |-> Def(h, i)]
    <3> HIDE DEF g, Def
    <3> QED
      BY <2>2
  <2> DEFINE flatten == CHOOSE h : h = [i \in 1..n |-> Def(h, i)]
  <2>4. flatten = [i \in 1..n |-> Def(flatten, i)]
    <3> HIDE DEF Def
    <3> QED
      BY <2>3, Zenon
  <2>5. FlattenSeq(P) = flatten[n]
    BY <1>2b, <1>6
  <2> HIDE DEF flatten
  <2>6. \A i \in 1..n : flatten[i] = Def(flatten, i)
    BY <2>4
  <2> DEFINE G == {i \in 0..n : i = 0 \/ flatten[i] = f[i]}
  <2>7. 0 \in G /\ \A i \in 1..n : i - 1 \in G => i \in G
    <3>1. ASSUME NEW i \in 1..n, i - 1 \in G PROVE flatten[i] = f[i]
      <4>1. CASE i = 1
        BY <2>1, <2>6, <4>1
      <4>2. CASE i # 1
        <5>1. flatten[i - 1] = f[i - 1]
          BY <1>1, <3>1, <4>2
        <5> QED
          BY <1>4, <2>6, <4>2, <5>1
      <4> QED
        BY <4>1, <4>2
    <3> QED
      BY <1>1, <3>1
  <2>8. n \in 0..n
    BY <1>1
  <2>9. n \in G
    <3> HIDE DEF G
    <3> QED
      BY <1>1, <2>7, <2>8, Upto, Zenon
  <2> QED
    BY <1>3, <1>4, <1>6, <2>5, <2>9 DEF n, T, e
<1> QED
  BY <1>5, <1>6

-----------------------------------------------------------------------------
(* Reading a text *)

\* r is what PostgreSQL goes through when it reads s, beginning at p.
Run(r, p, s) == r[0] = p /\ \A i \in 1..Len(s) : r[i] = LexStep(r[i - 1], s[i])

\* What may stand outside quotes in an operand, and in a number that is a word.
Strict == Blanks \union {"x", "9", "e", "-", "'"}

Bare == Blanks \union {"x", "9", "e", "nan", "inf", "-", "'"}

\* c, read at p, is in quotes or one of B.
Fits(B, p, c) == p.st \in {"normal", "squote"} /\ (p.st = "normal" => c \in B)

\* Reading s leads from p to q, with nothing but B outside quotes.
Span(B, p, q, s) ==
    \E r : /\ Run(r, p, s) /\ r[Len(s)] = q
           /\ \A i \in 1..Len(s) : Fits(B, r[i - 1], s[i])

Normal(d) == [st |-> "normal", dash |-> d, depth |-> 0]
Quoted == [st |-> "squote", dash |-> FALSE, depth |-> 0]

\* The reading is always somewhere.
LEMMA LexStepType ==
    ASSUME NEW p \in Lexing, NEW c \in Symbols
    PROVE  LexStep(p, c) \in Lexing
<1>1. After(p.st, c) \in States
  BY DEF After, Lexing, States, Places
<1> QED
  BY <1>1 DEF LexStep, Lexing, States, Places

\* What lex computes.
LEMMA LexFacts ==
    ASSUME NEW s \in Seq(Symbols)
    PROVE  \E r : Run(r, LexBegin, s) /\ lex(s) = [i \in 1..Len(s) |-> r[i - 1].st]
<1> DEFINE n == Len(s)
           F == [i \in 1..n |-> [p \in Lexing |-> LexStep(p, s[i])]]
           Def(f, i) == IF i = 0 THEN LexBegin ELSE LexStep(f[i - 1], s[i])
<1>1. n \in Nat /\ LexBegin \in Lexing /\ \A i \in 1..n : s[i] \in Symbols
  BY DEF LexBegin, Lexing, States, Places
<1>2. F \in Steps(n, Lexing)
  BY <1>1, LexStepType DEF Steps
<1>3. ASSUME NEW i \in 1..n, NEW p \in Lexing PROVE F[i][p] = LexStep(p, s[i])
  OBVIOUS
<1>4. lex(s) = LET at == CHOOSE h : h = [i \in 0..n |-> Def(h, i)]
                IN  [i \in 1..n |-> at[i - 1].st]
  BY DEF lex
<1> HIDE DEF F, n
<1>5. PICK f : Solves(f, n, Lexing, LexBegin, F)
  BY <1>1, <1>2, RecursionHasSolution
<1>6. f = [i \in 0..n |-> Def(f, i)]
  <2>1. f \in [0..n -> Lexing] /\ f[0] = LexBegin /\ \A i \in 1..n : f[i] = F[i][f[i - 1]]
    BY <1>5 DEF Solves
  <2>2. ASSUME NEW i \in 0..n PROVE f[i] = Def(f, i)
    <3>1. CASE i = 0
      BY <2>1, <3>1
    <3>2. CASE i # 0
      <4>1. i \in 1..n /\ i - 1 \in 0..n
        BY <1>1, <3>2
      <4> QED
        BY <1>3, <2>1, <3>2, <4>1
    <3> QED
      BY <3>1, <3>2
  <2> HIDE DEF Def
  <2> QED
    BY <2>1, <2>2
<1> DEFINE at == CHOOSE h : h = [i \in 0..n |-> Def(h, i)]
<1>7. at = [i \in 0..n |-> Def(at, i)]
  <2> HIDE DEF Def
  <2> QED
    BY <1>6, Zenon
<1>8. lex(s) = [i \in 1..n |-> at[i - 1].st]
  BY <1>4
<1> HIDE DEF at
<1>9. \A i \in 0..n : at[i] = Def(at, i)
  BY <1>7
<1>10. Run(at, LexBegin, s)
  BY <1>1, <1>9 DEF Run, n
<1> QED
  BY <1>8, <1>10 DEF n

\* The same for the scanner of inline_params.
Scans(r, p, s) == r[0] = p /\ \A i \in 1..Len(s) : r[i] = Step(r[i - 1], s[i])

\* Its state is always one of its states.
LEMMA StepType ==
    ASSUME NEW p \in Reading, NEW c \in Symbols
    PROVE  Step(p, c) \in Reading
<1>1. After(p.st, c) \in States
  BY DEF After, Reading, States, Places
<1> QED
  BY <1>1 DEF Step, Reading, States, Places

\* What scan computes.
LEMMA ScanFacts ==
    ASSUME NEW s \in Seq(Symbols)
    PROVE  \E r : Scans(r, Begin, s) /\ scan(s) = [i \in 1..Len(s) |-> r[i - 1].st]
<1> DEFINE n == Len(s)
           F == [i \in 1..n |-> [p \in Reading |-> Step(p, s[i])]]
           Def(f, i) == IF i = 0 THEN Begin ELSE Step(f[i - 1], s[i])
<1>1. n \in Nat /\ Begin \in Reading /\ \A i \in 1..n : s[i] \in Symbols
  BY DEF Begin, Reading, States, Places
<1>2. F \in Steps(n, Reading)
  BY <1>1, StepType DEF Steps
<1>3. ASSUME NEW i \in 1..n, NEW p \in Reading PROVE F[i][p] = Step(p, s[i])
  OBVIOUS
<1>4. scan(s) = LET at == CHOOSE h : h = [i \in 0..n |-> Def(h, i)]
                IN  [i \in 1..n |-> at[i - 1].st]
  BY DEF scan
<1> HIDE DEF F, n
<1>5. PICK f : Solves(f, n, Reading, Begin, F)
  BY <1>1, <1>2, RecursionHasSolution
<1>6. f = [i \in 0..n |-> Def(f, i)]
  <2>1. f \in [0..n -> Reading] /\ f[0] = Begin /\ \A i \in 1..n : f[i] = F[i][f[i - 1]]
    BY <1>5 DEF Solves
  <2>2. ASSUME NEW i \in 0..n PROVE f[i] = Def(f, i)
    <3>1. CASE i = 0
      BY <2>1, <3>1
    <3>2. CASE i # 0
      <4>1. i \in 1..n /\ i - 1 \in 0..n
        BY <1>1, <3>2
      <4> QED
        BY <1>3, <2>1, <3>2, <4>1
    <3> QED
      BY <3>1, <3>2
  <2> HIDE DEF Def
  <2> QED
    BY <2>1, <2>2
<1> DEFINE at == CHOOSE h : h = [i \in 0..n |-> Def(h, i)]
<1>7. at = [i \in 0..n |-> Def(at, i)]
  <2> HIDE DEF Def
  <2> QED
    BY <1>6, Zenon
<1>8. scan(s) = [i \in 1..n |-> at[i - 1].st]
  BY <1>4
<1> HIDE DEF at
<1>9. \A i \in 0..n : at[i] = Def(at, i)
  BY <1>7
<1>10. Scans(at, Begin, s)
  BY <1>1, <1>9 DEF Scans, n
<1> QED
  BY <1>8, <1>10 DEF n

\* A step outside of comments in brackets, and one inside.
LEMMA LexOutside ==
    ASSUME NEW p, NEW c, p.st # "block"
    PROVE  LET open == p.st = "normal" /\ p.dash /\ c = "-"
           IN  LexStep(p, c) =
                   [st    |-> IF open THEN "line" ELSE After(p.st, c),
                    dash  |-> p.st = "normal" /\ c = "-" /\ ~open,
                    depth |-> IF p.st = "normal" /\ c = "/*" THEN 1 ELSE 0]
  BY DEF LexStep

\* The depth decides whether it is over.
LEMMA LexInside ==
    ASSUME NEW p, NEW c, p.st = "block", NEW d,
           d = p.depth + (IF c = "/*" THEN 1 ELSE IF c = "*/" THEN -1 ELSE 0)
    PROVE  LexStep(p, c) =
               [st |-> IF d = 0 THEN "normal" ELSE "block", dash |-> FALSE, depth |-> d]
  BY DEF LexStep

\* Up to the first comment in a comment, the scanner and PostgreSQL agree.
Alike(p, q) ==
    /\ p.st = q.st /\ p.dash = q.dash /\ q.st \in States
    /\ q.depth = IF q.st = "block" THEN 1 ELSE 0

\* One symbol further.
LEMMA AlikeStep ==
    ASSUME NEW p, NEW q, NEW c, Alike(p, q), ~(p.st = "block" /\ c = "/*")
    PROVE  Alike(Step(p, c), LexStep(q, c))
<1>1. "block" \notin DollarTags /\ "normal" \notin DollarTags /\ "/*" \notin DollarTags
  BY SymbolsAssumption DEF Places, Marks
<1>2. CASE q.st = "block"
  <2>1. /\ p.st = "block" /\ q.depth = 1 /\ c # "/*"
    BY <1>2 DEF Alike
  <2>2. After("block", c) = IF c = "*/" THEN "normal" ELSE "block"
    BY <1>1 DEF After
  <2>3. /\ Step(p, c).st = (IF c = "*/" THEN "normal" ELSE "block") /\ Step(p, c).dash = FALSE
    BY <2>1, <2>2 DEF Step
  <2>4. /\ LexStep(q, c).depth = (IF c = "*/" THEN 0 ELSE 1) /\ LexStep(q, c).dash = FALSE
        /\ LexStep(q, c).st = (IF c = "*/" THEN "normal" ELSE "block")
    <3> DEFINE d == q.depth + (IF c = "/*" THEN 1 ELSE IF c = "*/" THEN -1 ELSE 0)
    <3>1. d = IF c = "*/" THEN 0 ELSE 1
      BY <2>1
    <3> HIDE DEF d
    <3>2. LexStep(q, c) = [st |-> IF d = 0 THEN "normal" ELSE "block", dash |-> FALSE, depth |-> d]
      BY <1>2, LexInside DEF d
    <3> QED
      BY <3>1, <3>2
  <2> QED
    BY <2>3, <2>4 DEF Alike, States, Places
<1>3. CASE q.st # "block"
  <2>1. p.st = q.st /\ p.dash = q.dash /\ q.st \in States
    BY DEF Alike
  <2>2. /\ Step(p, c).st = LexStep(q, c).st /\ Step(p, c).dash = LexStep(q, c).dash
    BY <1>3, <2>1 DEF Step, LexStep
  <2>3. LexStep(q, c).st \in States
    BY <1>3, <2>1 DEF LexStep, After, States, Places
  <2>4. LexStep(q, c).depth = IF q.st = "normal" /\ c = "/*" THEN 1 ELSE 0
    BY <1>3 DEF LexStep
  <2>5. LexStep(q, c).st = "block" <=> q.st = "normal" /\ c = "/*"
    BY <1>1, <1>3, <2>1 DEF LexStep, After, States, Places
  <2> QED
    BY <2>2, <2>3, <2>4, <2>5 DEF Alike
<1> QED
  BY <1>2, <1>3

\* Every symbol up to there is read alike.
LEMMA ScanAgrees ==
    ASSUME NEW s \in Seq(Symbols), NEW i \in 1..Len(s), \A j \in 1..(i - 1) : ~Nests(s, j)
    PROVE  scan(s)[i] = lex(s)[i]
<1> DEFINE n == Len(s)
           h == i - 1
<1>1. n \in Nat /\ h \in Nat /\ h < n /\ i = h + 1
  OBVIOUS
<1>2. PICK a : Scans(a, Begin, s) /\ scan(s) = [j \in 1..n |-> a[j - 1].st]
  BY ScanFacts
<1>3. PICK b : Run(b, LexBegin, s) /\ lex(s) = [j \in 1..n |-> b[j - 1].st]
  BY LexFacts
<1>4. /\ a[0] = Begin /\ \A j \in 1..n : a[j] = Step(a[j - 1], s[j])
      /\ b[0] = LexBegin /\ \A j \in 1..n : b[j] = LexStep(b[j - 1], s[j])
  BY <1>2, <1>3 DEF Scans, Run
<1>5. \A j \in 1..h : ~(a[j - 1].st = "block" /\ s[j] = "/*")
  <2> SUFFICES ASSUME NEW j \in 1..h PROVE ~(a[j - 1].st = "block" /\ s[j] = "/*")
    OBVIOUS
  <2>1. ~Nests(s, j) /\ j \in 1..n
    OBVIOUS
  <2>2. scan(s)[j] = a[j - 1].st
    BY <1>2, <2>1
  <2> QED
    BY <2>1, <2>2 DEF Nests
<1>6. scan(s)[i] = a[h].st /\ lex(s)[i] = b[h].st
  BY <1>2, <1>3
<1> HIDE DEF n, h
<1> DEFINE G == {j \in 0..h : Alike(a[j], b[j])}
<1>7. 0 \in G
  <2>1. Alike(Begin, LexBegin)
    BY DEF Alike, Begin, LexBegin, States, Places
  <2> QED
    BY <1>1, <1>4, <2>1
<1>8. ASSUME NEW j \in 1..h, j - 1 \in G PROVE j \in G
  <2> DEFINE p == a[j - 1]
             q == b[j - 1]
             c == s[j]
  <2>1. Alike(p, q) /\ ~(p.st = "block" /\ c = "/*") /\ j \in 0..h /\ j \in 1..n
    BY <1>1, <1>5, <1>8
  <2>2. a[j] = Step(p, c) /\ b[j] = LexStep(q, c)
    BY <1>4, <2>1
  <2> HIDE DEF p, q, c
  <2>3. Alike(Step(p, c), LexStep(q, c))
    BY <2>1, AlikeStep
  <2> QED
    BY <2>1, <2>2, <2>3
<1>9. h \in G
  <2>1. h \in 0..h
    BY <1>1
  <2> HIDE DEF G
  <2> QED
    BY <1>1, <1>7, <1>8, <2>1, Upto
<1> QED
  BY <1>6, <1>9 DEF Alike

\* Reading nothing.
LEMMA SpanEmpty == \A B, p : Span(B, p, p, <<>>)
<1> SUFFICES ASSUME NEW B, NEW p PROVE Span(B, p, p, <<>>)
  OBVIOUS
<1> DEFINE r == [i \in {0} |-> p]
<1>1. r[0] = p /\ Len(<<>>) = 0
  OBVIOUS
<1> HIDE DEF r
<1> QED
  BY <1>1 DEF Span, Run

\* Reading one symbol.
LEMMA SpanOne ==
    ASSUME NEW B, NEW p, NEW c, Fits(B, p, c)
    PROVE  Span(B, p, LexStep(p, c), <<c>>)
<1> DEFINE q == LexStep(p, c)
           r == [i \in {0, 1} |-> IF i = 0 THEN p ELSE q]
<1> HIDE DEF q
<1>1. r[0] = p /\ r[1] = q
  OBVIOUS
<1> HIDE DEF r
<1>2. Len(<<c>>) = 1 /\ <<c>>[1] = c /\ 1..1 = {1} /\ 1 - 1 = 0
  OBVIOUS
<1>3. Run(r, p, <<c>>)
  BY <1>1, <1>2 DEF Run, q
<1> QED
  BY <1>1, <1>2, <1>3 DEF Span, q

\* Reading one text after the other.
LEMMA SpanConcat ==
    ASSUME NEW B, NEW s \in Seq(Symbols), NEW t \in Seq(Symbols), NEW p, NEW q, NEW u,
           Span(B, p, q, s), Span(B, q, u, t)
    PROVE  Span(B, p, u, s \o t)
<1> DEFINE m == Len(s)
           n == Len(t)
           w == s \o t
<1>1. /\ m \in Nat /\ n \in Nat /\ Len(w) = m + n
      /\ \A i \in 1..m : w[i] = s[i]
      /\ \A i \in 1..n : w[m + i] = t[i]
  BY ConcatFacts
<1>2. PICK f : /\ Run(f, p, s) /\ f[m] = q
               /\ \A i \in 1..m : Fits(B, f[i - 1], s[i])
  BY DEF Span
<1>3. PICK g : /\ Run(g, q, t) /\ g[n] = u
               /\ \A i \in 1..n : Fits(B, g[i - 1], t[i])
  BY DEF Span
<1>4. /\ f[0] = p /\ \A i \in 1..m : f[i] = LexStep(f[i - 1], s[i])
      /\ g[0] = q /\ \A i \in 1..n : g[i] = LexStep(g[i - 1], t[i])
  BY <1>2, <1>3 DEF Run
<1> HIDE DEF w, m, n
<1> DEFINE r == [i \in 0..(m + n) |-> IF i <= m THEN f[i] ELSE g[i - m]]
<1>5. /\ \A i \in 0..m : r[i] = f[i]
      /\ \A i \in 0..n : r[m + i] = g[i]
  <2>1. \A i \in 0..m : r[i] = f[i]
    BY <1>1
  <2>2. ASSUME NEW i \in 0..n PROVE r[m + i] = g[i]
    <3>1. CASE i = 0
      BY <1>1, <1>2, <1>4, <3>1
    <3>2. CASE i # 0
      <4>1. m + i \in 0..(m + n) /\ ~(m + i <= m) /\ (m + i) - m = i
        BY <1>1, <3>2
      <4> QED
        BY <4>1
    <3> QED
      BY <3>1, <3>2
  <2> QED
    BY <2>1, <2>2
<1> HIDE DEF r
<1>6. ASSUME NEW i \in 1..(m + n)
      PROVE  r[i] = LexStep(r[i - 1], w[i]) /\ (Fits(B, r[i - 1], w[i]))
  <2>1. CASE i <= m
    <3>1. i \in 1..m /\ i \in 0..m /\ i - 1 \in 0..m
      BY <1>1, <2>1
    <3> QED
      BY <1>1, <1>2, <1>4, <1>5, <3>1
  <2>2. CASE ~(i <= m)
    <3> DEFINE j == i - m
    <3>1. j \in 1..n /\ j \in 0..n /\ j - 1 \in 0..n /\ i = m + j /\ i - 1 = m + (j - 1)
      BY <1>1, <2>2
    <3> HIDE DEF j
    <3>2. r[i] = g[j] /\ r[i - 1] = g[j - 1] /\ w[i] = t[j]
      BY <1>1, <1>5, <3>1
    <3> QED
      BY <1>3, <1>4, <3>1, <3>2
  <2> QED
    BY <2>1, <2>2
<1>7. r[0] = p /\ r[m + n] = u
  <2>1. 0 \in 0..m /\ n \in 0..n
    BY <1>1
  <2> QED
    BY <1>3, <1>4, <1>5, <2>1
<1> QED
  BY <1>1, <1>6, <1>7 DEF Span, Run, w

\* Reading pieces that each leave the scanner where it was.
LEMMA SpanFlatten ==
    ASSUME NEW B, NEW P \in Seq(Seq(Symbols)), NEW p, \A i \in 1..Len(P) : Span(B, p, p, P[i])
    PROVE  FlattenSeq(P) \in Seq(Symbols) /\ Span(B, p, p, FlattenSeq(P))
<1> DEFINE n == Len(P)
<1>1. PICK f \in [0..n -> Seq(Symbols)] :
         /\ f[0] = <<>> /\ \A i \in 1..n : f[i] = f[i - 1] \o P[i]
         /\ FlattenSeq(P) = f[n]
  BY FlattenFacts
<1>2. n \in Nat /\ n \in 0..n /\ \A i \in 1..n : P[i] \in Seq(Symbols) /\ Span(B, p, p, P[i])
  OBVIOUS
<1> HIDE DEF n
<1> DEFINE G == {i \in 0..n : Span(B, p, p, f[i])}
<1>3. 0 \in G
  BY <1>1, <1>2, SpanEmpty
<1>4. ASSUME NEW i \in 1..n, i - 1 \in G PROVE i \in G
  <2>1. f[i - 1] \in Seq(Symbols) /\ Span(B, p, p, f[i - 1]) /\ i \in 0..n
    BY <1>2, <1>4
  <2>2. Span(B, p, p, f[i - 1] \o P[i])
    BY <1>2, <2>1, SpanConcat
  <2> QED
    BY <1>1, <2>1, <2>2
<1>5. n \in G
  <2> HIDE DEF G
  <2> QED
    BY <1>2, <1>3, <1>4, Upto
<1> QED
  BY <1>1, <1>2, <1>5

-----------------------------------------------------------------------------
(* Literals *)

\* A text that the scanner leaves as it entered it, whatever stands before it,
\* unless that makes a comment of two signs.
Operand(B, s) ==
    /\ s \in Seq(Symbols) /\ s # <<>>
    /\ \A d \in BOOLEAN : (d => s[1] # "-") => Span(B, Normal(d), Normal(FALSE), s)

\* The steps a literal makes.
LEMMA StepFacts ==
    /\ \A d \in BOOLEAN : LexStep(Normal(d), "'") = Quoted
    /\ LexStep(Quoted, "'") = Normal(FALSE)
    /\ \A c \in Symbols : c # "'" => LexStep(Quoted, c) = Quoted
    /\ \A d \in BOOLEAN : \A c \in Blanks \union {"x", "9", "e", "nan", "inf"} :
            LexStep(Normal(d), c) = Normal(FALSE)
    /\ LexStep(Normal(FALSE), "-") = Normal(TRUE)
    /\ \A d \in BOOLEAN : \A c \in DOMAIN Placeholder : LexStep(Normal(d), c) = Normal(FALSE)
<1> DEFINE Plain == {"sp", "nl", "x", "9", "e", "nan", "inf"}
<1>0. Plain = Blanks \union {"x", "9", "e", "nan", "inf"}
  BY DEF Blanks
<1>1. ({"'", "-"} \union Plain) \cap DollarTags = {} /\ "squote" \notin DollarTags /\ "normal" \notin DollarTags
  BY SymbolsAssumption DEF Marks, Places, Blanks
<1>2. \A c \in DOMAIN Placeholder : c \notin Marks /\ c \notin DollarTags
  BY SymbolsAssumption
<1>3. /\ After("normal", "'") = "squote" /\ After("squote", "'") = "normal"
      /\ \A c : c # "'" => After("squote", c) = "squote"
      /\ \A c \in Plain \union {"-"} : After("normal", c) = "normal"
      /\ \A c \in DOMAIN Placeholder : After("normal", c) = "normal"
  BY <1>1, <1>2 DEF After, Marks, Blanks
<1>4. \A c \in DOMAIN Placeholder : c # "-"
  BY <1>2 DEF Marks, Blanks
<1>5. /\ \A d \in BOOLEAN : Normal(d).st = "normal" /\ Normal(d).dash = d
      /\ Quoted.st = "squote" /\ Quoted.dash = FALSE
  BY DEF Normal, Quoted
<1>6. \A c \in Plain \union {"'", "-"} \union DOMAIN Placeholder : c # "/*"
  BY <1>2 DEF Marks
<1>7. ASSUME NEW d \in BOOLEAN, NEW c, c # "/*", c = "-" => ~d
      PROVE  LexStep(Normal(d), c) =
                 [st |-> After("normal", c), dash |-> c = "-", depth |-> 0]
  BY <1>5, <1>7, LexOutside
<1>8. ASSUME NEW c PROVE LexStep(Quoted, c) = [st |-> After("squote", c), dash |-> FALSE, depth |-> 0]
  BY <1>5, LexOutside
<1>9. /\ "'" # "/*" /\ "'" # "-" /\ "-" # "/*" /\ "-" \notin Plain
  OBVIOUS
<1>10. \A d \in BOOLEAN : \A c \in Plain \union DOMAIN Placeholder : LexStep(Normal(d), c) = Normal(FALSE)
  <2> SUFFICES ASSUME NEW d \in BOOLEAN, NEW c \in Plain \union DOMAIN Placeholder
               PROVE  LexStep(Normal(d), c) = Normal(FALSE)
    OBVIOUS
  <2>1. c # "-" /\ c # "/*" /\ After("normal", c) = "normal"
    BY <1>3, <1>4, <1>6, <1>9
  <2>2. (c = "-") = FALSE
    BY <2>1
  <2> QED
    BY <1>7, <2>1, <2>2 DEF Normal
<1>11. \A d \in BOOLEAN : LexStep(Normal(d), "'") = Quoted
  <2> SUFFICES ASSUME NEW d \in BOOLEAN PROVE LexStep(Normal(d), "'") = Quoted
    OBVIOUS
  <2> DEFINE c == "'"
  <2>1. (c = "-") = FALSE /\ c # "/*" /\ (c = "-" => ~d) /\ After("normal", c) = "squote"
    BY <1>3
  <2> HIDE DEF c
  <2>2. LexStep(Normal(d), c) = [st |-> After("normal", c), dash |-> c = "-", depth |-> 0]
    BY <1>7, <2>1
  <2> QED
    BY <2>1, <2>2 DEF Quoted, c
<1>12. LexStep(Quoted, "'") = Normal(FALSE) /\ \A c \in Symbols : c # "'" => LexStep(Quoted, c) = Quoted
  BY <1>3, <1>8 DEF Normal, Quoted
<1>13. LexStep(Normal(FALSE), "-") = Normal(TRUE)
  BY <1>3, <1>7, <1>9 DEF Normal
<1> QED
  BY <1>0, <1>10, <1>11, <1>12, <1>13

\* A word is an operand.
LEMMA WordIsOperand ==
    ASSUME NEW B, Strict \subseteq B
    PROVE  Operand(B, <<"x">>)
<1>1. "x" \in B /\ <<"x">> \in Seq(Symbols) /\ <<"x">> # <<>>
  BY DEF Strict, Symbols, Marks
<1>0. \A d \in BOOLEAN : Fits(B, Normal(d), "x")
  BY <1>1 DEF Fits, Normal
<1>2. \A d \in BOOLEAN : Span(B, Normal(d), Normal(FALSE), <<"x">>)
  BY <1>0, SpanOne, StepFacts
<1> QED
  BY <1>1, <1>2 DEF Operand

\* An operand after an operand is one.
LEMMA OperandConcat ==
    ASSUME NEW B, NEW s, NEW t, Operand(B, s), Operand(B, t)
    PROVE  Operand(B, s \o t)
<1>1. s \in Seq(Symbols) /\ t \in Seq(Symbols) /\ s # <<>>
  BY DEF Operand
<1>2. s \o t \in Seq(Symbols) /\ s \o t # <<>> /\ (s \o t)[1] = s[1]
  BY <1>1
<1>3. Span(B, Normal(FALSE), Normal(FALSE), t)
  BY DEF Operand
<1>4. ASSUME NEW d \in BOOLEAN, d => s[1] # "-" PROVE Span(B, Normal(d), Normal(FALSE), s \o t)
  <2>1. Span(B, Normal(d), Normal(FALSE), s)
    BY <1>4 DEF Operand
  <2> QED
    BY <1>1, <1>3, <2>1, SpanConcat
<1> HIDE DEF Operand
<1> QED
  BY <1>2, <1>4 DEF Operand

\* Where a sign stands among digits.
LEMMA DigitsFacts ==
    ASSUME NEW t, NEW i \in Int, NEW j \in Int, Digits(t, i, j), NEW m \in i..j
    PROVE  t[m] \in {"9", "-"} /\ (t[m] = "-" => m < j /\ t[m + 1] = "9")
<1>1. PICK k \in i..j : (k = i \/ (k = i + 1 /\ t[i] = "-")) /\ \A l \in k..j : t[l] = "9"
  BY DEF Digits
<1>2. CASE m \in k..j
  BY <1>1, <1>2
<1>3. CASE m \notin k..j
  <2>1. m = i /\ k = i + 1 /\ t[i] = "-"
    BY <1>1, <1>3
  <2>2. m + 1 \in k..j
    BY <2>1
  <2> QED
    BY <1>1, <2>1, <2>2
<1> QED
  BY <1>2, <1>3

\* A number, or a word where words may be.
Numeric(B, t) == IsNumber(t) \/ (IsWord(t) /\ Bare \subseteq B)

\* A sign in a number stands before something that is no sign.
LEMMA NumberFacts ==
    ASSUME NEW B, Strict \subseteq B, NEW t \in Seq(Symbols), Numeric(B, t), NEW m \in 1..Len(t)
    PROVE  /\ t[m] \in B \intersect (Blanks \union {"9", "e", "nan", "inf", "-"})
           /\ t[m] = "-" => m < Len(t) /\ t[m + 1] # "-"
<1> DEFINE n == Len(t)
<1>1. n \in Nat /\ DOMAIN t = 1..n
  OBVIOUS
<1>2. PICK i \in 1..n, j \in 1..n :
        /\ \A k \in 1..n : k < i \/ j < k => t[k] \in Blanks
        /\ \/ i = j /\ t[j] \in {"nan", "inf"} /\ Bare \subseteq B
           \/ i + 1 = j /\ t[i] = "-" /\ t[j] = "inf" /\ Bare \subseteq B
           \/ Digits(t, i, j)
           \/ \E k \in i..j : t[k] = "e" /\ Digits(t, i, k - 1) /\ Digits(t, k + 1, j)
  BY <1>1 DEF Numeric, IsWord, IsNumber, Trimmed
<1>0. /\ Blanks \union {"9", "e", "-"} \subseteq B
      /\ Bare \subseteq B => {"nan", "inf"} \subseteq B
  BY DEF Strict, Bare
<1> HIDE DEF n
<1>3. m \in 1..n /\ i \in Int /\ j \in Int
  BY <1>1 DEF n
<1>4. CASE m < i \/ j < m
  BY <1>0, <1>2, <1>3, <1>4 DEF Blanks, n
<1>5. CASE m \in i..j
  <2>1. CASE i = j /\ t[j] \in {"nan", "inf"} /\ Bare \subseteq B
    BY <1>0, <1>5, <2>1
  <2>2. CASE i + 1 = j /\ t[i] = "-" /\ t[j] = "inf" /\ Bare \subseteq B
    <3>1. m = i \/ m = j
      BY <1>3, <1>5, <2>2
    <3> QED
      BY <1>0, <1>1, <1>3, <2>2, <3>1 DEF n
  <2>3. CASE Digits(t, i, j)
    BY <1>0, <1>1, <1>3, <1>5, <2>3, DigitsFacts DEF n
  <2>4. ASSUME NEW k \in i..j, t[k] = "e", Digits(t, i, k - 1), Digits(t, k + 1, j)
        PROVE  /\ t[m] \in B \intersect (Blanks \union {"9", "e", "nan", "inf", "-"})
               /\ t[m] = "-" => m < Len(t) /\ t[m + 1] # "-"
    <3> DEFINE a == k - 1
               b == k + 1
    <3>1. a \in Int /\ b \in Int /\ Digits(t, i, a) /\ Digits(t, b, j) /\ m \in Int /\ n \in Int
      BY <1>1, <1>3, <2>4
    <3>2. m = k \/ m \in i..a \/ m \in b..j
      BY <1>3, <1>5
    <3>3. a < n /\ j <= n
      BY <1>1, <1>3
    <3> HIDE DEF a, b
    <3>4. CASE m = k
      BY <1>0, <2>4, <3>4
    <3>5. CASE m \in i..a
      <4>1. t[m] \in {"9", "-"} /\ (t[m] = "-" => m < a /\ t[m + 1] = "9")
        BY <1>3, <3>1, <3>5, DigitsFacts
      <4> QED
        BY <1>0, <3>1, <3>3, <4>1 DEF n
    <3>6. CASE m \in b..j
      <4>1. t[m] \in {"9", "-"} /\ (t[m] = "-" => m < j /\ t[m + 1] = "9")
        BY <1>3, <3>1, <3>6, DigitsFacts
      <4> QED
        BY <1>0, <1>3, <3>1, <3>3, <4>1 DEF n
    <3> QED
      BY <3>2, <3>4, <3>5, <3>6
  <2> QED
    BY <1>2, <2>1, <2>2, <2>3, <2>4
<1> QED
  BY <1>3, <1>4, <1>5

\* A number is an operand, with the blanks around it.
LEMMA NumberIsOperand ==
    ASSUME NEW B, Strict \subseteq B, NEW t \in Seq(Symbols), Numeric(B, t)
    PROVE  Operand(B, t)
<1> DEFINE n == Len(t)
<1>1. n \in Nat /\ n > 0 /\ t # <<>>
  BY DEF Numeric, IsWord, IsNumber
<1>2. \A i \in 1..n : /\ t[i] \in B /\ t[i] \in Blanks \union {"9", "e", "nan", "inf", "-"}
                      /\ t[i] = "-" => i < n /\ t[i + 1] # "-"
  BY NumberFacts
<1> HIDE DEF n
<1>3. ASSUME NEW d \in BOOLEAN, d => t[1] # "-" PROVE Span(B, Normal(d), Normal(FALSE), t)
  <2> DEFINE a == Normal(d)
             b == Normal(TRUE)
             c == Normal(FALSE)
             r == [i \in 0..n |-> IF i = 0 THEN a ELSE IF t[i] = "-" THEN b ELSE c]
  <2>1. /\ 0 \in 0..n /\ n \in 0..n /\ n # 0 /\ t[n] # "-"
    BY <1>1, <1>2
  <2>2. /\ r[0] = Normal(d)
        /\ \A i \in 1..n : /\ t[i] = "-" => r[i] = Normal(TRUE)
                           /\ t[i] # "-" => r[i] = Normal(FALSE)
    <3> HIDE DEF a, b, c
    <3>1. r[0] = a /\ \A i \in 1..n : /\ t[i] = "-" => r[i] = b
                                      /\ t[i] # "-" => r[i] = c
      BY <1>1
    <3> HIDE DEF r
    <3> QED
      BY <3>1, Zenon DEF a, b, c
  <2> HIDE DEF r
  <2>3. r[n] = Normal(FALSE)
    <3>1. n \in 1..n
      BY <1>1
    <3> QED
      BY <2>1, <2>2, <3>1
  <2>4. ASSUME NEW i \in 1..n PROVE r[i] = LexStep(r[i - 1], t[i]) /\ Fits(B, r[i - 1], t[i])
    <3>0. ASSUME NEW y \in BOOLEAN, r[i - 1] = Normal(y) PROVE Fits(B, r[i - 1], t[i])
      BY <1>2, <3>0 DEF Fits, Normal
    <3>2. CASE t[i] = "-"
      <4>1. r[i] = Normal(TRUE)
        BY <2>2, <3>2
      <4>2. r[i - 1] = Normal(FALSE)
        <5>1. CASE i = 1
          <6>1. d = FALSE /\ i - 1 = 0
            BY <1>3, <3>2, <5>1
          <6> QED
            BY <2>2, <6>1
        <5>2. CASE i # 1
          <6>1. i - 1 \in 1..n /\ (i - 1) + 1 = i
            BY <1>1, <5>2
          <6>2. t[i - 1] # "-"
            BY <1>2, <3>2, <6>1
          <6> QED
            BY <2>2, <6>1, <6>2
        <5> QED
          BY <5>1, <5>2
      <4> QED
        BY <3>0, <3>2, <4>1, <4>2, StepFacts
    <3>3. CASE t[i] # "-"
      <4>1. r[i] = Normal(FALSE) /\ t[i] \in Blanks \union {"x", "9", "e", "nan", "inf"}
        BY <1>2, <2>2, <3>3
      <4>2. \E e \in BOOLEAN : r[i - 1] = Normal(e)
        <5>1. CASE i = 1
          BY <2>2, <5>1
        <5>2. CASE i # 1
          <6>1. i - 1 \in 1..n
            BY <1>1, <5>2
          <6> QED
            BY <2>2, <6>1
        <5> QED
          BY <5>1, <5>2
      <4> QED
        BY <3>0, <4>1, <4>2, StepFacts
    <3> QED
      BY <3>2, <3>3
  <2> QED
    BY <2>2, <2>3, <2>4 DEF Span, Run, n
<1> QED
  BY <1>1, <1>3 DEF Operand

\* A quoted value is an operand, whatever it consists of.
LEMMA QuotedIsOperand ==
    ASSUME NEW B, Strict \subseteq B, NEW t \in Seq(Symbols)
    PROVE  Operand(B, quote_lit(t))
<1> DEFINE P == [i \in 1..Len(t) |-> IF t[i] = "'" THEN <<"'", "'">> ELSE <<t[i]>>]
           q == <<"'">>
           w == FlattenSeq(P)
<1>0. quote_lit(t) = q \o w \o q
  BY DEF quote_lit
<1>1. q \in Seq(Symbols) /\ "'" \in Symbols /\ "'" \in B
  <2>1. "'" \in Symbols /\ "'" \in B
    BY DEF Symbols, Marks, Strict
  <2> QED
    BY <2>1
<1>2. P \in Seq(Seq(Symbols)) /\ Len(P) = Len(t)
  <2>1. \A i \in 1..Len(t) : P[i] \in Seq(Symbols)
    BY <1>1
  <2> QED
    BY <2>1
<1>3. (\A c : Fits(B, Quoted, c)) /\ \A d \in BOOLEAN : Fits(B, Normal(d), "'")
  BY <1>1 DEF Quoted, Normal, Fits
<1>4. Span(B, Quoted, Normal(FALSE), q)
  BY <1>1, <1>3, SpanOne, StepFacts
<1>5. \A d \in BOOLEAN : Span(B, Normal(d), Quoted, q)
  BY <1>1, <1>3, SpanOne, StepFacts
<1>6. ASSUME NEW i \in 1..Len(t) PROVE Span(B, Quoted, Quoted, P[i])
  <2>1. CASE t[i] = "'"
    <3>1. P[i] = q \o q
      BY <2>1
    <3> HIDE DEF q, P
    <3>2. Span(B, Quoted, Quoted, q \o q)
      BY <1>1, <1>4, <1>5, SpanConcat
    <3> QED
      BY <3>1, <3>2
  <2>2. CASE t[i] # "'"
    <3>1. P[i] = <<t[i]>> /\ t[i] \in Symbols
      BY <2>2
    <3>2. LexStep(Quoted, t[i]) = Quoted
      BY <2>2, <3>1, StepFacts
    <3>3. Span(B, Quoted, LexStep(Quoted, t[i]), <<t[i]>>)
      BY <1>3, SpanOne
    <3> QED
      BY <3>1, <3>2, <3>3
  <2> QED
    BY <2>1, <2>2
<1> HIDE DEF P, q
<1>7. w \in Seq(Symbols) /\ Span(B, Quoted, Quoted, w)
  BY <1>2, <1>6, SpanFlatten
<1> HIDE DEF w
<1>8. q \o w \in Seq(Symbols) /\ q \o w \o q \in Seq(Symbols) /\ q \o w \o q # <<>>
  BY <1>1, <1>7 DEF q
<1>9. ASSUME NEW d \in BOOLEAN PROVE Span(B, Normal(d), Normal(FALSE), q \o w \o q)
  <2>1. Span(B, Normal(d), Quoted, q)
    BY <1>5
  <2>2. Span(B, Normal(d), Quoted, q \o w)
    BY <1>1, <1>7, <2>1, SpanConcat
  <2> DEFINE qw == q \o w
  <2> HIDE DEF qw
  <2>3. Span(B, Normal(d), Normal(FALSE), qw \o q)
    BY <1>1, <1>4, <1>8, <2>2, SpanConcat DEF qw
  <2> QED
    BY <2>3 DEF qw
<1> QED
  BY <1>0, <1>8, <1>9 DEF Operand

\* From o on, b is what the scanner goes through when it reads s.
Follows(b, o, s) == \A i \in 1..Len(s) : b[o + i] = LexStep(b[o + (i - 1)], s[i])

\* b reads the span s from o on.
Enters(B, p, q, s, b, o) == Span(B, p, q, s) /\ b[o] = p /\ Follows(b, o, s)

\* The reading comes to the same end wherever in a text the span stands.
LEMMA SpanInside ==
    ASSUME NEW s \in Seq(Symbols), NEW o \in Nat, NEW B, NEW p, NEW q, NEW b,
           Enters(B, p, q, s, b, o)
    PROVE  /\ b[o + Len(s)] = q
           /\ \A i \in 1..Len(s) : Fits(B, b[o + (i - 1)], s[i])
<1> DEFINE n == Len(s)
<1>1. n \in Nat
  OBVIOUS
<1>2. PICK r : /\ r[0] = p /\ \A i \in 1..n : r[i] = LexStep(r[i - 1], s[i])
               /\ r[n] = q /\ \A i \in 1..n : Fits(B, r[i - 1], s[i])
  BY DEF Enters, Span, Run
<1> HIDE DEF n
<1> DEFINE G == {i \in 0..n : b[o + i] = r[i]}
<1>3. 0 \in G
  BY <1>1, <1>2 DEF Enters
<1>4. ASSUME NEW i \in 1..n, i - 1 \in G PROVE i \in G
  BY <1>1, <1>2, <1>4 DEF n, Enters, Follows
<1>5. \A i \in 0..n : i \in G
  <2> HIDE DEF G
  <2> QED
    BY <1>1, <1>3, <1>4, Upto
<1>6. \A i \in 1..n : b[o + (i - 1)] = r[i - 1]
  <2> SUFFICES ASSUME NEW i \in 1..n PROVE b[o + (i - 1)] = r[i - 1]
    OBVIOUS
  <2>1. i - 1 \in 0..n
    BY <1>1
  <2> QED
    BY <1>5, <2>1
<1>7. b[o + n] = r[n]
  BY <1>1, <1>5
<1> QED
  BY <1>2, <1>6, <1>7 DEF n

\* What IsClosed asks of a text, and IsOperand.
LEMMA OperandIs ==
    ASSUME NEW B, B \in {Strict, Bare}, NEW t, Operand(B, t)
    PROVE  IsClosed(t) /\ (B = Strict => IsOperand(t))
<1> DEFINE w == t \o <<"x">>
           n == Len(t)
<1>1. t \in Seq(Symbols) /\ <<"x">> \in Seq(Symbols) /\ n \in Nat
  <2>1. "x" \in Symbols
    BY DEF Symbols, Marks
  <2> QED
    BY <2>1 DEF Operand
<1>2. w \in Seq(Symbols) /\ Len(w) = n + 1 /\ \A i \in 1..n : w[i] = t[i]
  BY <1>1
<1>3. PICK r : Run(r, LexBegin, w) /\ lex(w) = [i \in 1..Len(w) |-> r[i - 1].st]
  BY <1>2, LexFacts
<1> DEFINE Ends == lex(w)[n + 1] = "normal"
           Held(i) == lex(w)[i] \in {"normal", "squote"} /\ (lex(w)[i] = "normal" => t[i] \in Bare)
           Sober(i) == lex(w)[i] = "normal" => t[i] \notin {"nan", "inf"}
<1>4. /\ IsClosed(t) <=> Ends /\ \A i \in DOMAIN t : Held(i)
      /\ IsOperand(t) <=> IsClosed(t) /\ \A i \in DOMAIN t : Sober(i)
  BY DEF IsClosed, IsOperand, Bare
<1> HIDE DEF w
<1>5. Span(B, Normal(FALSE), Normal(FALSE), t) /\ LexBegin = Normal(FALSE)
  BY DEF Operand, Normal, LexBegin
<1> DEFINE o == 0
<1>6. /\ o \in Nat /\ r[o] = Normal(FALSE)
      /\ \A i \in 1..n : r[o + i] = LexStep(r[o + (i - 1)], t[i])
  BY <1>1, <1>2, <1>3, <1>5 DEF Run
<1> HIDE DEF o
<1>7. /\ r[o + n] = Normal(FALSE)
      /\ \A i \in 1..n : Fits(B, r[o + (i - 1)], t[i])
  <2> DEFINE a == Normal(FALSE)
  <2>1. Span(B, a, a, t) /\ r[o] = a /\ Follows(r, o, t)
    BY <1>5, <1>6 DEF Follows
  <2> HIDE DEF a
  <2>0. Enters(B, a, a, t, r, o)
    BY <2>1 DEF Enters
  <2>2. /\ r[o + Len(t)] = a
        /\ \A i \in 1..Len(t) : Fits(B, r[o + (i - 1)], t[i])
    BY <1>1, <1>6, <2>0, SpanInside
  <2> QED
    BY <2>2 DEF a
<1>8. r[n].st = "normal" /\ \A i \in 1..n : Fits(B, r[i - 1], t[i])
  BY <1>1, <1>7 DEF Normal, o
<1>9. lex(w)[n + 1] = r[n].st /\ \A i \in 1..n : lex(w)[i] = r[i - 1].st
  BY <1>1, <1>2, <1>3
<1>10. ASSUME NEW i \in 1..n PROVE Held(i) /\ (B = Strict => Sober(i))
  <2>1. Fits(B, r[i - 1], t[i]) /\ lex(w)[i] = r[i - 1].st
    BY <1>8, <1>9
  <2>2. B \subseteq Bare /\ (B = Strict => B \intersect {"nan", "inf"} = {})
    BY DEF Strict, Bare, Blanks
  <2> QED
    BY <2>1, <2>2 DEF Fits
<1>11. DOMAIN t = 1..n /\ Ends
  BY <1>1, <1>8, <1>9
<1> HIDE DEF Ends, Held, Sober
<1> QED
  BY <1>4, <1>10, <1>11

-----------------------------------------------------------------------------
(* Rendering *)

\* A formatted number is an operand.
LEMMA FormattedIsOperand ==
    ASSUME NEW B, Strict \subseteq B, NEW t \in Seq(Symbols), Formatted(t)
    PROVE  Operand(B, t)
<1>1. {"nan", "inf", "-"} \subseteq Symbols
  BY DEF Symbols, Marks
<1>2. {<<"nan">>, <<"inf">>, <<"-", "inf">>} \subseteq Seq(Symbols)
  BY <1>1
<1> QED
  BY <1>2, NumberIsOperand, QuotedIsOperand DEF Formatted, Numeric

\* What render_scalar returns is an operand.
LEMMA ScalarIsOperand ==
    ASSUME NEW B, Strict \subseteq B, NEW v \in Param, Formatted(v.int), render_scalar(v).ok,
           IsBareWord(v) => Bare \subseteq B
    PROVE  Operand(B, render_scalar(v).text)
<1>1. v.text \in Seq(Symbols) /\ v.int \in Seq(Symbols)
  BY DEF Param
<1>2. Operand(B, v.int) /\ Operand(B, quote_lit(v.text)) /\ Operand(B, <<"x">>)
  BY <1>1, FormattedIsOperand, QuotedIsOperand, WordIsOperand
<1>3. Numeric(B, v.text) => Operand(B, v.text)
  BY <1>1, NumberIsOperand
<1>4. \/ render_scalar(v) = Rendered(<<"x">>)
      \/ render_scalar(v) = Rendered(v.int)
      \/ render_scalar(v) = Unrendered
      \/ render_scalar(v) = Rendered(v.text) /\ Numeric(B, v.text)
      \/ render_scalar(v) = Rendered(quote_lit(v.text))
  <2>1. \/ render_scalar(v) \in {Rendered(<<"x">>), Rendered(v.int), Unrendered,
                                Rendered(quote_lit(v.text))}
        \/ /\ render_scalar(v) = Rendered(v.text)
           /\ ~v.null /\ v.fmt = 0 /\ v.oid \in NumericOids /\ is_safe_numeric(v.text)
    BY DEF render_scalar
  <2> QED
    BY <2>1 DEF is_safe_numeric, IsBareWord, Numeric
<1>5. ~Unrendered.ok /\ \A t : Rendered(t).text = t
  BY DEF Unrendered, Rendered
<1> QED
  BY <1>2, <1>3, <1>4, <1>5

\* An array is an operand.
LEMMA ArrayIsOperand ==
    ASSUME NEW B, Strict \subseteq B, NEW v \in Param, Formatted(v.int), render_array(v).ok
    PROVE  Operand(B, render_array(v).text)
<1> DEFINE e == [v EXCEPT !.oid = v.elem, !.width = "own"]
           x == <<"x">>
           R == render_scalar(e)
           P == [i \in 1..v.n |-> R.text \o x]
<1>1. v.n \in Nat /\ v.text \in Seq(Symbols) /\ v.fmt \in {0, 1} /\ v.elem \in Oids
  BY DEF Param
<1>2. e \in Param /\ e.int = v.int /\ e.fmt = v.fmt
  BY <1>1 DEF Param
<1>3. ~Unrendered.ok /\ \A t : Rendered(t).text = t
  BY DEF Unrendered, Rendered
<1>4. \/ v.fmt = 1 /\ render_array(v) = Rendered(x \o FlattenSeq(P)) /\ (v.n > 0 => R.ok)
      \/ render_array(v) = Unrendered
      \/ render_array(v) = Rendered(quote_lit(v.text) \o x)
  <2> DEFINE A == decode_bin_array(v).elems
             Q == [i \in DOMAIN A |-> render_scalar(A[i])]
             W == [i \in DOMAIN Q |-> Q[i].text \o x]
  <2>1. A = [i \in 1..v.n |-> e]
    BY DEF decode_bin_array
  <2>2. \/ v.fmt = 1 /\ render_array(v) = Rendered(x \o FlattenSeq(W)) /\ \A i \in DOMAIN Q : Q[i].ok
        \/ render_array(v) = Unrendered
        \/ render_array(v) = Rendered(quote_lit(v.text) \o x)
    <3>1. CASE v.fmt = 1
      <4>1. render_array(v) = IF decode_bin_array(v).ok /\ \A i \in DOMAIN Q : Q[i].ok
                              THEN Rendered(x \o FlattenSeq(W)) ELSE Unrendered
        BY <3>1 DEF render_array
      <4> HIDE DEF A, Q, W, x
      <4> QED
        BY <3>1, <4>1
    <3>2. CASE v.fmt = 0
      BY <3>2 DEF render_array
    <3> QED
      BY <1>1, <3>1, <3>2
  <2> HIDE DEF A, e
  <2>3. Q = [i \in 1..v.n |-> R]
    BY <2>1
  <2> HIDE DEF Q, R
  <2>4. W = P /\ (v.n > 0 => 1 \in DOMAIN Q /\ Q[1] = R)
    <3>1. DOMAIN Q = 1..v.n /\ \A i \in 1..v.n : Q[i] = R
      BY <2>3
    <3>2. v.n > 0 => 1 \in 1..v.n
      BY <1>1
    <3> HIDE DEF x
    <3> QED
      BY <3>1, <3>2
  <2> HIDE DEF W, P
  <2> QED
    BY <2>2, <2>4
<1>5. Operand(B, x) /\ Operand(B, quote_lit(v.text))
  BY <1>1, QuotedIsOperand, WordIsOperand
<1>6. CASE v.fmt = 1 /\ render_array(v) = Rendered(x \o FlattenSeq(P)) /\ (v.n > 0 => R.ok)
  <2>1. v.n > 0 => Operand(B, R.text)
    <3>1. ~IsBareWord(e)
      BY <1>2, <1>6 DEF IsBareWord
    <3> HIDE DEF e
    <3> QED
      BY <1>2, <1>6, <3>1, ScalarIsOperand
  <2> HIDE DEF R
  <2>2. v.n > 0 => Operand(B, R.text \o x)
    <3> HIDE DEF x
    <3> QED
      BY <1>5, <2>1, OperandConcat
  <2> DEFINE y == R.text \o x
  <2> HIDE DEF y
  <2>3. P = [i \in 1..v.n |-> y] /\ (v.n > 0 => y \in Seq(Symbols) /\ Span(B, Normal(FALSE), Normal(FALSE), y))
    BY <2>2 DEF y, Operand
  <2>4. P \in Seq(Seq(Symbols)) /\ Len(P) = v.n /\ \A i \in 1..v.n : P[i] = y /\ v.n > 0
    <3> DEFINE n == v.n
    <3>1. n \in Nat /\ (\A i \in 1..n : n > 0) /\ P = [i \in 1..n |-> y]
      BY <1>1, <2>3
    <3>2. \A i \in 1..n : y \in Seq(Symbols)
      BY <2>3, <3>1
    <3> HIDE DEF n, P
    <3> QED
      BY <3>1, <3>2 DEF n
  <2> HIDE DEF P
  <2>5. FlattenSeq(P) \in Seq(Symbols) /\ Span(B, Normal(FALSE), Normal(FALSE), FlattenSeq(P))
    BY <2>3, <2>4, SpanFlatten
  <2> DEFINE w == FlattenSeq(P)
  <2> HIDE DEF w
  <2>6. w \in Seq(Symbols) /\ Span(B, Normal(FALSE), Normal(FALSE), w)
    BY <2>5 DEF w
  <2>7. x \in Seq(Symbols) /\ x # <<>> /\ \A d \in BOOLEAN : Span(B, Normal(d), Normal(FALSE), x)
    BY <1>5 DEF Operand
  <2> HIDE DEF x
  <2>8. \A d \in BOOLEAN : Span(B, Normal(d), Normal(FALSE), x \o w)
    BY <2>6, <2>7, SpanConcat
  <2>9. x \o w \in Seq(Symbols) /\ x \o w # <<>>
    BY <2>6, <2>7
  <2> QED
    BY <1>3, <1>6, <2>8, <2>9 DEF Operand, w
<1>7. CASE render_array(v) = Rendered(quote_lit(v.text) \o x)
  <2> HIDE DEF x
  <2>1. Operand(B, quote_lit(v.text) \o x)
    BY <1>5, OperandConcat
  <2> QED
    BY <1>3, <1>7, <2>1
<1> QED
  BY <1>3, <1>4, <1>6, <1>7

\* What render_param returns is an operand, for every parameter.
LEMMA ParamIsOperand ==
    ASSUME NEW B, Strict \subseteq B, NEW v \in Param, Formatted(v.int), render_param(v).ok,
           IsBareWord(v) => Bare \subseteq B
    PROVE  Operand(B, render_param(v).text)
<1>1. \/ render_param(v) = Rendered(<<"x">>)
      \/ render_param(v) = render_array(v)
      \/ render_param(v) = render_scalar(v)
  BY DEF render_param
<1>2. Rendered(<<"x">>).text = <<"x">>
  BY DEF Rendered
<1> QED
  BY <1>1, <1>2, WordIsOperand, ArrayIsOperand, ScalarIsOperand

-----------------------------------------------------------------------------
(* Inlining *)

\* f[i] is the text that the first i pieces make.
Makes(f, P, S) ==
    /\ f \in [0..Len(P) -> Seq(S)]
    /\ f[0] = <<>> /\ \A i \in 1..Len(P) : f[i] = f[i - 1] \o P[i]

\* There is one for every sequence of pieces, and it ends in what FlattenSeq
\* makes of them.
LEMMA FlattenMakes ==
    ASSUME NEW S, NEW P \in Seq(Seq(S))
    PROVE  \E f : Makes(f, P, S) /\ FlattenSeq(P) = f[Len(P)]
  BY FlattenFacts DEF Makes

\* The same for the first pieces.
LEMMA PrefixFlattened ==
    ASSUME NEW S, NEW P \in Seq(Seq(S)), NEW f, Makes(f, P, S), NEW m \in 0..Len(P)
    PROVE  FlattenSeq(SubSeq(P, 1, m)) = f[m]
<1> DEFINE Q == SubSeq(P, 1, m)
<1>1. Q \in Seq(Seq(S)) /\ Len(Q) = m /\ m \in Nat /\ \A i \in 1..m : Q[i] = P[i]
  OBVIOUS
<1> HIDE DEF Q
<1>2. PICK g \in [0..Len(Q) -> Seq(S)] :
         /\ g[0] = <<>> /\ \A i \in 1..Len(Q) : g[i] = g[i - 1] \o Q[i]
         /\ FlattenSeq(Q) = g[Len(Q)]
  BY <1>1, FlattenFacts
<1> DEFINE G == {i \in 0..m : g[i] = f[i]}
<1>3. 0 \in G
  BY <1>1, <1>2 DEF Makes
<1>4. ASSUME NEW i \in 1..m, i - 1 \in G PROVE i \in G
  <2>1. i \in 1..Len(P) /\ i \in 1..Len(Q) /\ i \in 0..m /\ g[i - 1] = f[i - 1]
    BY <1>1, <1>4
  <2> QED
    BY <1>1, <1>2, <2>1 DEF Makes
<1>5. m \in G
  <2>1. m \in 0..m
    BY <1>1
  <2> HIDE DEF G
  <2> QED
    BY <1>1, <1>3, <1>4, <2>1, Upto
<1> QED
  BY <1>1, <1>2, <1>5 DEF Q

\* The j-th piece is in w where the first j - 1 end.
Inside(f, P, j, w) ==
    /\ Len(f[j - 1]) \in Nat /\ Len(P[j]) \in Nat
    /\ Len(f[j]) = Len(f[j - 1]) + Len(P[j]) /\ Len(f[j]) <= Len(w)
    /\ \A k \in 1..Len(P[j]) : w[Len(f[j - 1]) + k] = P[j][k]

\* Where each piece is in the whole.
LEMMA PieceInside ==
    ASSUME NEW S, NEW P \in Seq(Seq(S)), NEW f, Makes(f, P, S), NEW j \in 1..Len(P)
    PROVE  Inside(f, P, j, f[Len(P)])
<1> DEFINE n == Len(P)
<1>1. n \in Nat /\ j \in 0..n /\ j - 1 \in 0..n /\ n \in 0..n /\ P[j] \in Seq(S)
  OBVIOUS
<1>2. /\ \A i \in 0..n : f[i] \in Seq(S) /\ Len(f[i]) \in Nat
      /\ \A i \in 1..n : f[i] = f[i - 1] \o P[i] /\ P[i] \in Seq(S)
  BY DEF Makes
<1> HIDE DEF n
<1> DEFINE Keeps(i) == Len(f[j]) <= Len(f[i]) /\ \A k \in 1..Len(f[j]) : f[i][k] = f[j][k]
           G == {i \in 0..n : j <= i => Keeps(i)}
<1>3. 0 \in G
  BY <1>1
<1>4. ASSUME NEW i \in 1..n, i - 1 \in G PROVE i \in G
  <2>1. CASE j = i
    BY <1>1, <1>2, <2>1
  <2>2. CASE j <= i - 1
    <3>1. i - 1 \in 0..n /\ Keeps(i - 1)
      BY <1>4, <2>2
    <3>2. f[i] = f[i - 1] \o P[i] /\ f[i - 1] \in Seq(S) /\ P[i] \in Seq(S) /\ Len(f[j]) \in Nat
      BY <1>1, <1>2, <3>1
    <3> DEFINE x == f[i - 1]
               y == P[i]
               z == f[i]
               u == f[j]
    <3>3. z = x \o y /\ x \in Seq(S) /\ y \in Seq(S)
      BY <3>2
    <3>4. Len(u) \in Nat /\ Len(u) <= Len(x) /\ \A k \in 1..Len(u) : x[k] = u[k]
      BY <3>1, <3>2
    <3> HIDE DEF x, y, z, u
    <3>5. /\ Len(z) = Len(x) + Len(y) /\ Len(y) \in Nat /\ Len(x) \in Nat
          /\ \A k \in 1..Len(x) : z[k] = x[k]
      BY <3>3, ConcatFacts
    <3>6. Len(u) <= Len(z) /\ \A k \in 1..Len(u) : z[k] = u[k]
      <4> DEFINE lu == Len(u)
                 lx == Len(x)
                 ly == Len(y)
      <4>1. lu \in Nat /\ lx \in Nat /\ ly \in Nat /\ lu <= lx /\ Len(z) = lx + ly
        BY <3>4, <3>5
      <4>2. (\A k \in 1..lu : x[k] = u[k]) /\ (\A k \in 1..lx : z[k] = x[k])
        BY <3>4, <3>5
      <4> HIDE DEF lu, lx, ly
      <4>3. lu <= Len(z) /\ \A k \in 1..lu : z[k] = u[k]
        BY <4>1, <4>2
      <4> QED
        BY <4>3 DEF lu
    <3>7. Keeps(i)
      BY <3>6 DEF z, u
    <3> QED
      BY <1>1, <3>7
  <2>3. CASE ~(j <= i)
    BY <1>1, <2>3
  <2> QED
    BY <1>1, <2>1, <2>2, <2>3
<1>5. n \in G
  <2> HIDE DEF G
  <2> QED
    BY <1>1, <1>3, <1>4, Upto
<1>6. Keeps(n)
  BY <1>1, <1>5 DEF n
<1>7. /\ f[j] = f[j - 1] \o P[j] /\ f[j - 1] \in Seq(S) /\ P[j] \in Seq(S)
  BY <1>1, <1>2 DEF n
<1>8. /\ Len(f[j]) = Len(f[j - 1]) + Len(P[j])
      /\ \A k \in 1..Len(P[j]) : f[j][Len(f[j - 1]) + k] = P[j][k]
  <2> DEFINE x == f[j - 1]
             y == P[j]
             z == f[j]
  <2>1. z = x \o y /\ x \in Seq(S) /\ y \in Seq(S)
    BY <1>7
  <2> HIDE DEF x, y, z
  <2>2. Len(z) = Len(x) + Len(y) /\ \A k \in 1..Len(y) : z[Len(x) + k] = y[k]
    BY <2>1, ConcatFacts
  <2> QED
    BY <2>2 DEF x, y, z
<1>9. Len(f[j - 1]) \in Nat /\ Len(P[j]) \in Nat
  BY <1>7
<1>10. ASSUME NEW k \in 1..Len(P[j]) PROVE f[n][Len(f[j - 1]) + k] = P[j][k]
  <2>1. Len(f[j - 1]) + k \in 1..Len(f[j])
    <3> DEFINE lx == Len(f[j - 1])
               ly == Len(P[j])
               lz == Len(f[j])
    <3>1. lx \in Nat /\ ly \in Nat /\ lz = lx + ly /\ k \in 1..ly
      BY <1>8, <1>9
    <3> HIDE DEF lx, ly, lz
    <3>2. lx + k \in 1..lz
      BY <3>1
    <3> QED
      BY <3>2 DEF lx, lz
  <2> QED
    BY <1>6, <1>8, <2>1
<1> QED
  BY <1>6, <1>8, <1>9, <1>10 DEF n, Inside

\* The reading is in state normal, and a sign may just have been read.
LEMMA NormalStep ==
    ASSUME NEW p, NEW c, LexStep(p, c).st = "normal"
    PROVE  \E d \in BOOLEAN : LexStep(p, c) = Normal(d) /\ (d => c = "-")
<1>1. CASE p.st = "block"
  <2> DEFINE d == p.depth + (IF c = "/*" THEN 1 ELSE IF c = "*/" THEN -1 ELSE 0)
  <2> HIDE DEF d
  <2>1. LexStep(p, c) = [st |-> IF d = 0 THEN "normal" ELSE "block", dash |-> FALSE, depth |-> d]
    BY <1>1, LexInside DEF d
  <2>2. d = 0
    BY <2>1
  <2> QED
    BY <2>1, <2>2 DEF Normal
<1>2. CASE p.st # "block"
  <2> DEFINE open == p.st = "normal" /\ p.dash /\ c = "-"
             d == p.st = "normal" /\ c = "-" /\ ~open
             z == IF p.st = "normal" /\ c = "/*" THEN 1 ELSE 0
             y == IF open THEN "line" ELSE After(p.st, c)
  <2>1. LexStep(p, c) = [st |-> y, dash |-> d, depth |-> z]
    BY <1>2, LexOutside
  <2>2. y = "normal"
    BY <2>1
  <2>3. z = 0
    BY <2>2 DEF After
  <2>4. d \in BOOLEAN /\ (d => c = "-")
    OBVIOUS
  <2> HIDE DEF d, z, y
  <2> QED
    BY <2>1, <2>2, <2>3, <2>4 DEF Normal
<1> QED
  BY <1>1, <1>2

\* PostgreSQL reads the text with the literals in it as it reads the template, up
\* to the first place where it cannot.
LEMMA InlinedIsRead ==
    ASSUME NEW s \in Seq(Symbols), NEW lits \in Seq(Seq(Symbols)),
           \A k \in 1..Len(lits) : Operand(Bare, lits[k]),
           NEW i \in 1..Len(s), \A j \in 1..(i - 1) : ~Joins(s, lits, j) /\ ~Nests(s, j)
    PROVE  ReadAsBefore(s, lits, i)
<1> DEFINE n == Len(s)
           P == Pieces(s, lits)
<1>1. n \in Nat /\ \A j \in 1..n : s[j] \in Symbols
  OBVIOUS
<1>2. ASSUME NEW j \in 1..n, Replaced(s, j, lits)
      PROVE  /\ P[j] = lits[Placeholder[s[j]]] /\ Operand(Bare, P[j])
             /\ scan(s)[j] = "normal" /\ s[j] \in DOMAIN Placeholder
  <2>1. /\ scan(s)[j] = "normal" /\ s[j] \in DOMAIN Placeholder
        /\ Placeholder[s[j]] \in DOMAIN lits
    BY <1>2 DEF Replaced
  <2>2. P[j] = lits[Placeholder[s[j]]]
    BY <1>2 DEF Pieces
  <2>3. DOMAIN lits = 1..Len(lits)
    OBVIOUS
  <2> DEFINE m == Placeholder[s[j]]
  <2> HIDE DEF m, P
  <2>4. m \in 1..Len(lits)
    BY <2>1, <2>3 DEF m
  <2>5. Operand(Bare, lits[m])
    BY <2>4
  <2> QED
    BY <2>1, <2>2, <2>5 DEF m
<1>3. ASSUME NEW j \in 1..n, ~Replaced(s, j, lits) PROVE P[j] = <<s[j]>>
  BY <1>3 DEF Pieces
<1>4. \A j \in 1..n : P[j] \in Seq(Symbols) /\ Len(P[j]) \in Nat /\ Len(P[j]) > 0
  <2> SUFFICES ASSUME NEW j \in 1..n
               PROVE  P[j] \in Seq(Symbols) /\ Len(P[j]) \in Nat /\ Len(P[j]) > 0
    OBVIOUS
  <2>1. P[j] \in Seq(Symbols) /\ P[j] # <<>>
    <3>1. CASE Replaced(s, j, lits)
      BY <1>2, <3>1 DEF Operand
    <3>2. CASE ~Replaced(s, j, lits)
      <4>1. <<s[j]>> \in Seq(Symbols) /\ <<s[j]>> # <<>>
        BY <1>1
      <4> QED
        BY <1>3, <3>2, <4>1
    <3> QED
      BY <3>1, <3>2
  <2> HIDE DEF P
  <2> QED
    BY <2>1
<1>5. P \in Seq(Seq(Symbols)) /\ Len(P) = n
  <2>1. DOMAIN P = 1..n /\ P = [j \in 1..n |-> P[j]]
    BY DEF Pieces
  <2>2. n \in Nat /\ \A j \in 1..n : P[j] \in Seq(Symbols)
    BY <1>1, <1>4
  <2> DEFINE T == Seq(Symbols)
  <2> HIDE DEF P, n, T
  <2>3. P \in [1..n -> T]
    BY <2>1, <2>2 DEF T
  <2> QED
    BY <2>2, <2>3 DEF T
<1> HIDE DEF P
<1>6. PICK f : Makes(f, P, Symbols) /\ FlattenSeq(P) = f[n]
  <2>1. \E f : Makes(f, P, Symbols) /\ FlattenSeq(P) = f[Len(P)]
    BY <1>5, FlattenMakes
  <2> QED
    BY <1>5, <2>1
<1> DEFINE w == f[n]
           L(j) == Len(f[j])
<1>7. /\ inline_params(s, lits) = w /\ w \in Seq(Symbols)
      /\ Offset(s, lits, i) = L(i - 1)
  <2>1. i - 1 \in 0..Len(P)
    BY <1>5
  <2>2. FlattenSeq(SubSeq(P, 1, i - 1)) = f[i - 1]
    <3> DEFINE m == i - 1
    <3>1. m \in 0..Len(P)
      BY <2>1
    <3> HIDE DEF m
    <3>2. FlattenSeq(SubSeq(P, 1, m)) = f[m]
      BY <1>5, <1>6, <3>1, PrefixFlattened
    <3> QED
      BY <3>2 DEF m
  <2>3. w \in Seq(Symbols)
    <3>1. f \in [0..Len(P) -> Seq(Symbols)]
      BY <1>6 DEF Makes
    <3>2. n \in 0..n
      BY <1>1
    <3> HIDE DEF n
    <3> QED
      BY <1>5, <3>1, <3>2
  <2> QED
    BY <1>6, <2>2, <2>3 DEF inline_params, Offset, P
<1>8. ASSUME NEW j \in 1..n
      PROVE  /\ L(j - 1) \in Nat /\ L(j) = L(j - 1) + Len(P[j]) /\ L(j) <= Len(w)
             /\ \A k \in 1..Len(P[j]) : w[L(j - 1) + k] = P[j][k]
  <2>1. j \in 1..Len(P)
    BY <1>5
  <2>2. Inside(f, P, j, f[Len(P)])
    BY <1>5, <1>6, <2>1, PieceInside
  <2> QED
    BY <1>5, <2>2 DEF Inside
<1>9. L(0) = 0
  BY <1>6 DEF Makes
<1> HIDE DEF w, L
<1>10. PICK a : Run(a, LexBegin, s) /\ lex(s) = [j \in 1..n |-> a[j - 1].st]
  BY LexFacts
<1>11. PICK b : Run(b, LexBegin, w) /\ lex(w) = [j \in 1..Len(w) |-> b[j - 1].st]
  BY <1>7, LexFacts
<1>12. /\ a[0] = LexBegin /\ \A j \in 1..n : a[j] = LexStep(a[j - 1], s[j])
       /\ b[0] = LexBegin /\ \A j \in 1..Len(w) : b[j] = LexStep(b[j - 1], w[j])
  BY <1>10, <1>11 DEF Run
<1>13. ASSUME NEW j \in 1..n, NEW k \in 1..Len(P[j])
       PROVE  b[L(j - 1) + k] = LexStep(b[L(j - 1) + (k - 1)], P[j][k])
  <2>1. Len(P[j]) \in Nat /\ Len(w) \in Nat
    BY <1>4, <1>7
  <2>2. /\ L(j - 1) + k \in 1..Len(w) /\ (L(j - 1) + k) - 1 = L(j - 1) + (k - 1)
        /\ w[L(j - 1) + k] = P[j][k]
    <3> DEFINE o == L(j - 1)
               m == Len(P[j])
               z == L(j)
               v == Len(w)
    <3>1. /\ o \in Nat /\ m \in Nat /\ v \in Nat /\ z = o + m /\ z <= v /\ k \in 1..m
          /\ w[o + k] = P[j][k]
      BY <1>8, <2>1
    <3> HIDE DEF o, m, z, v
    <3>2. o + k \in 1..v /\ (o + k) - 1 = o + (k - 1)
      BY <3>1
    <3> QED
      BY <3>1, <3>2 DEF o, v
  <2> QED
    BY <1>12, <2>2
<1> DEFINE h == i - 1
<1>0. h \in Nat /\ h < n /\ \A j \in 1..h : j \in 1..n /\ ~Joins(s, lits, j)
  BY <1>1
<1>20. ASSUME NEW j \in 1..h PROVE scan(s)[j] = lex(s)[j]
  <2>1. j \in 1..Len(s) /\ \A k \in 1..(j - 1) : ~Nests(s, k)
    BY <1>0
  <2> QED
    BY <2>1, ScanAgrees
<1> HIDE DEF h
<1> DEFINE G == {j \in 0..h : b[L(j)] = a[j]}
<1>14. 0 \in G
  BY <1>0, <1>9, <1>12
<1>15. ASSUME NEW j \in 1..h, j - 1 \in G PROVE j \in G
  <2> DEFINE o == L(j - 1)
  <2>0. j \in 1..n /\ ~Joins(s, lits, j)
    BY <1>0
  <2>1. b[o] = a[j - 1] /\ o \in Nat /\ L(j) = o + Len(P[j]) /\ j \in 0..h
    BY <1>8, <1>15, <2>0
  <2>2. \A k \in 1..Len(P[j]) : b[o + k] = LexStep(b[o + (k - 1)], P[j][k])
    BY <1>13, <2>0
  <2> HIDE DEF o
  <2>3. CASE ~Replaced(s, j, lits)
    <3>1. Len(P[j]) = 1 /\ P[j][1] = s[j]
      <4>1. P[j] = <<s[j]>>
        BY <1>3, <2>0, <2>3
      <4>2. \A c : Len(<<c>>) = 1 /\ <<c>>[1] = c
        OBVIOUS
      <4> QED
        BY <4>1, <4>2
    <3>2. b[o + 1] = LexStep(b[o + (1 - 1)], s[j]) /\ o + (1 - 1) = o
      BY <2>1, <2>2, <3>1
    <3> QED
      BY <1>12, <2>0, <2>1, <3>1, <3>2
  <2>4. CASE Replaced(s, j, lits)
    <3>1. P[j] = lits[Placeholder[s[j]]] /\ Operand(Bare, P[j]) /\ s[j] \in DOMAIN Placeholder
      BY <1>2, <2>0, <2>4
    <3>2. a[j - 1].st = "normal"
      <4>1. lex(s)[j] = "normal"
        BY <1>2, <1>20, <2>0, <2>4
      <4> QED
        BY <1>10, <2>0, <4>1
    <3>3. PICK d \in BOOLEAN : a[j - 1] = Normal(d) /\ (d => P[j][1] # "-")
      <4>1. CASE j = 1
        <5>1. a[j - 1] = Normal(FALSE)
          BY <1>12, <4>1 DEF LexBegin, Normal
        <5> QED
          BY <5>1
      <4>2. CASE j # 1
        <5>1. j - 1 \in 1..n /\ j \in 2..n
          BY <1>1, <2>0, <4>2
        <5>2. a[j - 1] = LexStep(a[(j - 1) - 1], s[j - 1])
          BY <1>12, <5>1
        <5>3. PICK d \in BOOLEAN : a[j - 1] = Normal(d) /\ (d => s[j - 1] = "-")
          BY <3>2, <5>2, NormalStep
        <5>4. s[j - 1] = "-" => P[j][1] # "-"
          BY <2>0, <2>4, <3>1, <5>1 DEF Joins
        <5> QED
          BY <5>3, <5>4
      <4> QED
        BY <4>1, <4>2
    <3> DEFINE p == Normal(d)
               q == Normal(FALSE)
    <3>4. Span(Bare, p, q, P[j]) /\ P[j] \in Seq(Symbols)
      BY <3>1, <3>3 DEF Operand
    <3>5. a[j] = q
      <4>1. a[j] = LexStep(Normal(d), s[j])
        BY <1>12, <2>0, <3>3
      <4> QED
        BY <3>1, <4>1, StepFacts
    <3>6. b[o] = p
      BY <2>1, <3>3
    <3> HIDE DEF p, q
    <3>7. b[o + Len(P[j])] = q
      <4> DEFINE x == P[j]
      <4>1. /\ x \in Seq(Symbols) /\ Span(Bare, p, q, x)
            /\ Follows(b, o, x)
        BY <2>2, <3>4 DEF Follows
      <4> HIDE DEF x
      <4>2. Enters(Bare, p, q, x, b, o)
        BY <3>6, <4>1 DEF Enters
      <4>3. b[o + Len(x)] = q
        BY <2>1, <4>1, <4>2, SpanInside
      <4> QED
        BY <4>3 DEF x
    <3> QED
      BY <2>1, <3>5, <3>7
  <2> QED
    BY <2>3, <2>4
<1>16. \A j \in 0..h : j \in G
  <2> HIDE DEF G, n
  <2> QED
    BY <1>0, <1>14, <1>15, Upto
<1>17. b[L(i - 1)] = a[i - 1]
  <2>1. h \in 0..h
    BY <1>0
  <2> QED
    BY <1>16, <2>1 DEF h
<1>18. L(i - 1) + 1 \in 1..Len(w) /\ (L(i - 1) + 1) - 1 = L(i - 1)
  <2>1. Len(P[i]) \in Nat /\ Len(P[i]) > 0 /\ Len(w) \in Nat
    BY <1>4, <1>7
  <2> QED
    BY <1>8, <2>1
<1>19. lex(w)[L(i - 1) + 1] = b[L(i - 1)].st
  BY <1>11, <1>18
<1> QED
  BY <1>7, <1>10, <1>17, <1>19 DEF ReadAsBefore

-----------------------------------------------------------------------------
(* The firewall *)

\* A statement that passes still passes when the policy is widened.
LEMMA CheckIsMonotone ==
    ASSUME NEW s, NEW p, NEW q, p \subseteq q, check_statement(s, p)
    PROVE  check_statement(s, q)
<1>1. ASSUME NEW t, check_plain(t, p) PROVE check_plain(t, q)
  BY <1>1 DEF check_plain, Reads, Gated
<1> QED
  BY <1>1 DEF check_statement

\* So does a text.
LEMMA EvaluateIsMonotone ==
    ASSUME NEW t, NEW p, NEW q, p \subseteq q, evaluate(t, p)
    PROVE  evaluate(t, q)
  BY CheckIsMonotone DEF evaluate

\* Each statement of a text that is allowed is allowed alone.
LEMMA EvaluateEach ==
    ASSUME NEW t, NEW p, evaluate(t, p), NEW i \in DOMAIN t.stmts
    PROVE  evaluate([parsed |-> TRUE, stmts |-> <<t.stmts[i]>>], p)
<1> DEFINE x == t.stmts[i]
           y == <<x>>
           u == [parsed |-> TRUE, stmts |-> y]
<1>1. check_statement(x, p) /\ scan_dangerous(x)
  BY DEF evaluate
<1> HIDE DEF x
<1>2. u.parsed /\ u.stmts = y /\ y # <<>> /\ Len(y) = 1 /\ DOMAIN y = {1} /\ y[1] = x
  OBVIOUS
<1> HIDE DEF y, u
<1>3. evaluate(u, p)
  BY <1>1, <1>2 DEF evaluate
<1> QED
  BY <1>3 DEF u, y, x

-----------------------------------------------------------------------------
(* The machine *)

\* What BindParams answers.
LiteralsOf(params) ==
    LET rendered == [i \in DOMAIN params |-> render_param(params[i])]
    IN  [i \in DOMAIN rendered |-> rendered[i].text]

Bindable(params) == \A i \in DOMAIN params : render_param(params[i]).ok

\* The job is one of the inputs, and its result, once there is one, is the
\* answer to it.
JobInv ==
    \/ /\ job \in [ask : {"evaluate"}, text : ParsedTexts, policy : Custom]
       /\ \/ result = Pending
          \/ result = [done |-> TRUE, allow |-> evaluate(job.text, job.policy)]
    \/ /\ job \in [ask : {"render"}, value : Values]
       /\ \/ result = Pending
          \/ result = [done |-> TRUE, rendered |-> render_param(job.value)]
    \/ /\ job \in [ask : {"bind"}, text : Templates, params : Binds]
       /\ \/ result = Pending
          \/ result = [done |-> TRUE, ok |-> FALSE]
          \/ /\ Bindable(job.params)
             /\ result = [done |-> TRUE, ok |-> TRUE, literals |-> LiteralsOf(job.params),
                          sql |-> inline_params(job.text, LiteralsOf(job.params))]

\* It holds in every state.
LEMMA JobInvariant == JobSpec => []JobInv
<1>1. JobInit => JobInv
  BY DEF JobInit, JobInv
<1>2. JobInv /\ [JobNext]_jobVars => JobInv'
  <2> SUFFICES ASSUME JobInv, [JobNext]_jobVars PROVE JobInv'
    OBVIOUS
  <2>1. CASE UNCHANGED jobVars
    BY <2>1 DEF JobInv, jobVars
  <2>2. CASE JobNext
    <3>1. job' = job
      BY <2>2 DEF JobNext
    <3>2. CASE Evaluate
      BY <3>1, <3>2 DEF JobInv, Evaluate
    <3>3. CASE Render
      BY <3>1, <3>3 DEF JobInv, Render
    <3>4. CASE BindParams
      <4> DEFINE R == [i \in DOMAIN job.params |-> render_param(job.params[i])]
                 T == [i \in DOMAIN R |-> R[i].text]
      <4>1. job.ask = "bind" /\ result' = IF \A i \in DOMAIN R : R[i].ok
                     THEN [done |-> TRUE, ok |-> TRUE, literals |-> T,
                           sql |-> inline_params(job.text, T)]
                     ELSE [done |-> TRUE, ok |-> FALSE]
        BY <3>4 DEF BindParams
      <4>2. T = LiteralsOf(job.params)
        BY DEF LiteralsOf
      <4>3. (\A i \in DOMAIN R : R[i].ok) => Bindable(job.params)
        BY DEF Bindable
      <4> HIDE DEF R, T
      <4>4. job \in [ask : {"bind"}, text : Templates, params : Binds]
        BY <4>1 DEF JobInv
      <4>5. \/ result' = [done |-> TRUE, ok |-> FALSE]
            \/ /\ Bindable(job.params)
               /\ result' = [done |-> TRUE, ok |-> TRUE, literals |-> LiteralsOf(job.params),
                             sql |-> inline_params(job.text, LiteralsOf(job.params))]
        BY <4>1, <4>2, <4>3, Zenon
      <4> QED
        BY <3>1, <4>4, <4>5 DEF JobInv
    <3> QED
      BY <2>2, <3>2, <3>3, <3>4 DEF JobNext
  <2> QED
    BY <2>1, <2>2
<1> QED
  BY <1>1, <1>2, PTL DEF JobSpec

\* What is known when the firewall has allowed a text.
LEMMA AllowedFacts ==
    ASSUME JobInv, Evaluated, result.allow
    PROVE  job.text \in ParsedTexts /\ job.policy \in Custom /\ evaluate(job.text, job.policy)
<1>1. job \in [ask : {"evaluate"}, text : ParsedTexts, policy : Custom]
  BY DEF JobInv, Evaluated
<1>2. result = [done |-> TRUE, allow |-> evaluate(job.text, job.policy)]
  BY DEF JobInv, Evaluated, Pending
<1> DEFINE e == evaluate(job.text, job.policy)
<1> HIDE DEF e
<1>3. result = [done |-> TRUE, allow |-> e]
  BY <1>2 DEF e
<1>4. e
  BY <1>3
<1> QED
  BY <1>1, <1>4 DEF e

\* A text that is allowed stays allowed when the policy is widened, for every
\* statement and every policy (evaluate, check_statement of policy.rs).
THEOREM WideningKeepsAllowed == JobSpec => []PolicyMonotone
<1>1. JobInv => PolicyMonotone
  BY AllowedFacts, EvaluateIsMonotone DEF PolicyMonotone
<1> QED
  BY <1>1, JobInvariant, PTL

\* No statement is allowed for the sake of the ones it comes with (evaluate,
\* scan_dangerous of policy.rs).
THEOREM StatementsStandAlone == JobSpec => []EachStandsAlone
<1>1. JobInv => EachStandsAlone
  BY AllowedFacts, EvaluateEach DEF EachStandsAlone
<1> QED
  BY <1>1, JobInvariant, PTL

\* Whatever a parameter holds, what render_param makes of it is closed: no value
\* ends its own quotes, leaves one open or begins a comment.  It is one operand
\* too, with the one exception that RenderedIsOperand states, NaN and Infinity
\* sent as text (quote_lit, render_array, is_safe_numeric of server.rs).
THEOREM ParametersAreOperands == JobSpec => []RenderedIsOperand
<1>1. ASSUME JobInv PROVE RenderedIsOperand
  <2> SUFFICES ASSUME result.done, job.ask = "render", result.rendered.ok
               PROVE  /\ IsClosed(result.rendered.text)
                      /\ IsBareWord(job.value) \/ IsOperand(result.rendered.text)
    BY DEF RenderedIsOperand
  <2>1. job.value \in Values /\ result = [done |-> TRUE, rendered |-> render_param(job.value)]
    BY <1>1 DEF JobInv, Pending
  <2> DEFINE v == job.value
  <2>2. v \in Param /\ Formatted(v.int)
    BY <2>1, ParamsAssumption
  <2>3. result.rendered = render_param(v)
    BY <2>1
  <2> HIDE DEF v
  <2>4. Strict \subseteq Strict /\ Strict \subseteq Bare /\ Bare \subseteq Bare
    BY DEF Strict, Bare
  <2>5. Operand(Bare, render_param(v).text)
    BY <2>2, <2>3, <2>4, ParamIsOperand
  <2>6. ~IsBareWord(v) => Operand(Strict, render_param(v).text)
    BY <2>2, <2>3, <2>4, ParamIsOperand
  <2> DEFINE u == render_param(v).text
  <2> HIDE DEF u
  <2>7. IsClosed(u) /\ (~IsBareWord(v) => IsOperand(u))
    BY <2>5, <2>6, OperandIs DEF u
  <2> QED
    BY <2>3, <2>7 DEF u, v
<1> QED
  BY <1>1, JobInvariant, PTL

\* Binding values does not change how PostgreSQL reads the rest of a text, for
\* every text and all values, up to and including the first place where a minus
\* sign meets a negative value or a comment is nested in a comment; from there
\* on the code gives no such guarantee (inline_params of server.rs).
THEOREM BindingKeepsStructure == JobSpec => []BindKeepsStructure
<1>1. ASSUME JobInv PROVE BindKeepsStructure
  <2> SUFFICES ASSUME result.done, job.ask = "bind", result.ok
               PROVE  KeepsStructure(job.text, result.literals)
    BY DEF BindKeepsStructure
  <2> DEFINE s == job.text
             q == job.params
             T == LiteralsOf(q)
  <2>1. /\ s \in Templates /\ q \in Binds /\ Bindable(q) /\ result.literals = T
    BY <1>1 DEF JobInv, Pending
  <2>2. s \in Seq(Symbols) /\ q \in Seq(Values)
    BY <2>1, ParamsAssumption
  <2> HIDE DEF s, q
  <2>3. Len(q) \in Nat /\ DOMAIN q = 1..Len(q) /\ \A i \in 1..Len(q) : q[i] \in Values
    BY <2>2
  <2>4. ASSUME NEW i \in 1..Len(q) PROVE Operand(Bare, render_param(q[i]).text)
    <3> DEFINE v == q[i]
    <3>1. v \in Param /\ Formatted(v.int) /\ render_param(v).ok
      BY <2>1, <2>3, ParamsAssumption DEF Bindable
    <3> HIDE DEF v
    <3>2. Strict \subseteq Bare /\ Bare \subseteq Bare
      BY DEF Strict, Bare
    <3>3. Operand(Bare, render_param(v).text)
      BY <3>1, <3>2, ParamIsOperand
    <3> QED
      BY <3>3 DEF v
  <2>5. DOMAIN T = 1..Len(q) /\ \A i \in 1..Len(q) : T[i] = render_param(q[i]).text
    BY <2>3 DEF LiteralsOf
  <2>6. T = [i \in 1..Len(q) |-> T[i]]
    BY <2>3 DEF LiteralsOf
  <2> HIDE DEF T
  <2>7. \A i \in 1..Len(q) : Operand(Bare, T[i])
    BY <2>4, <2>5
  <2> DEFINE m == Len(q)
             V == Seq(Symbols)
  <2>8. m \in Nat /\ \A i \in 1..m : T[i] \in V
    BY <2>3, <2>7 DEF Operand
  <2>9. T = [i \in 1..m |-> T[i]] /\ \A i \in 1..m : Operand(Bare, T[i])
    BY <2>6, <2>7
  <2> HIDE DEF m, V
  <2>10. T \in Seq(V) /\ Len(T) = m
    <3>1. T \in [1..m -> V]
      BY <2>8, <2>9
    <3> QED
      BY <2>8, <3>1
  <2>11. T \in Seq(Seq(Symbols)) /\ \A i \in 1..Len(T) : Operand(Bare, T[i])
    BY <2>9, <2>10 DEF V
  <2>12. KeepsStructure(s, T)
    BY <2>2, <2>11, InlinedIsRead DEF KeepsStructure
  <2> QED
    BY <2>1, <2>12 DEF s
<1> QED
  BY <1>1, JobInvariant, PTL
=============================================================================
