--------------------------- MODULE Control_proofs ---------------------------
(***************************************************************************)
(* Safety of the control channel for any number of connections, permits    *)
(* and waiting connections, and for clients of every profile.              *)
(*                                                                         *)
(* The argument.  What the two ends of one connection know of each other   *)
(* is a matter of counting frames: how many the client has sent, and how   *)
(* many of them are still unread, fixes how far its task can have got      *)
(* (RowInv).  A task that is about to reply has read everything its client *)
(* will send, so a reply never meets a client that is still writing.       *)
(* Between connections there is only the queue: a connection waits in it   *)
(* once, and has no task before it is let in (QueueInv).                   *)
(***************************************************************************)
EXTENDS Control, SequenceTheorems, TLAPS

CallState == [st : {"out", "open", "blocked", "answered", "broken",
                    "busy", "unreachable", "away"},
              sent : 0..2, tries : 0..MaxTries]

TaskState == Running \union {"none", "done"}

ReplyOrNone == Replies \union {NoReply}

\* The frames of the script p that are still unread: the last ones sent.
Unread(p, k, q) ==
    /\ q \in Seq({p.hello, "request"})
    /\ Len(q) <= k.sent /\ k.sent <= Len(exchange(p))
    /\ \A i \in 1..Len(q) : q[i] = exchange(p)[k.sent - Len(q) + i]

\* How far the task can be, for a client that is at k with q unread.
TaskAt(p, k, q, s) ==
    /\ s \in {"none", "hello"} => Len(q) = k.sent
    /\ s \in {"request", "drain"} => Len(q) + 1 = k.sent
    /\ s \in {"dispatch", "write"} =>
          Len(q) = 0 /\ k.sent > 0 /\ (k.sent = Len(exchange(p)) \/ k.st = "away")
    /\ k.st = "out" => s = "none" /\ k.sent = 0 /\ k.tries < MaxTries

\* What the client can be at, given the reply o that was written.
ReplyAt(p, k, q, s, o) ==
    /\ s # "done" => o = NoReply
    /\ o # NoReply => k.sent = Len(exchange(p)) \/ k.st = "away"
    /\ k.st = "blocked" => Len(q) > 0 /\ o = NoReply
    /\ k.st = "broken" => s = "done" /\ o = NoReply

\* The reply y to c has left the event it must leave.
Audited(c, p, y, log) ==
    /\ y.kind = "Answer" => \/ p.request = "audit_tail"
                            \/ <<c, "Allow">> \in log
                            \/ p.request = "mint" /\ <<c, "Error">> \in log
    /\ y.kind \in {"Denied", "Error"} /\ p.hello = "hello" =>
          \/ p.request = "hello"
          \/ <<c, "Deny">> \in log \/ <<c, "Error">> \in log

\* What is in the log of connection c, of a peer that is authorized if ok.
LoggedAt(c, p, ok, k, q, s, y, log) ==
    /\ s \in {"request", "dispatch"} \/ y.kind = "Answer" =>
          p.hello = "hello" /\ Len(q) < k.sent /\ ok /\ s # "none"
    /\ Len(q) < k.sent /\ p.hello = "hello" /\ ~ok => <<c, "Deny">> \in log
    /\ Audited(c, p, y, log)

RowInv(c, p, ok, k, q, s, y, o, log) ==
    /\ k \in CallState /\ s \in TaskState /\ y \in ReplyOrNone /\ o \in ReplyOrNone
    /\ Unread(p, k, q)
    /\ TaskAt(p, k, q, s)
    /\ ReplyAt(p, k, q, s, o)
    /\ LoggedAt(c, p, ok, k, q, s, y, log)

Row(c) == RowInv(c, who[c], Authorized(c), cl[c], inbox[c], srv[c], say[c], out[c], audit)

\* A connection waits once, without a task, in the queue or for a permit.
Waiting(c) == srv[c] = "none" /\ cl[c].st # "out"

QueueInv ==
    /\ queue \in Seq(Clients) /\ Len(queue) <= Backlog
    /\ \A i \in 1..Len(queue) : Waiting(queue[i])
    /\ \A i, j \in 1..Len(queue) : queue[i] = queue[j] => i = j
    /\ loop \in {"select", "await", "stopped"} /\ held \in Clients \union {None}
    /\ loop = "await" => /\ held \in Clients /\ Waiting(held)
                         /\ \A i \in 1..Len(queue) : queue[i] # held

PerClient(f) == f = [c \in Clients |-> f[c]]

Tables == PerClient(cl) /\ PerClient(inbox) /\ PerClient(srv) /\ PerClient(say) /\ PerClient(out)

ControlInv ==
    /\ Tables
    /\ audit \subseteq Clients \X {"Allow", "Deny", "Error"}
    /\ QueueInv
    /\ \A c \in Clients : Row(c)

-----------------------------------------------------------------------------
(* One connection *)

\* A script has at most two frames; a Hello comes first and a request last.
LEMMA ExchangeFacts ==
    ASSUME NEW p
    PROVE  /\ Len(exchange(p)) \in 0..2
           /\ \A i \in 1..Len(exchange(p)) : exchange(p)[i] \in {p.hello, "request"}
           /\ Len(exchange(p)) > 0 => (exchange(p)[1] = "hello" <=> p.hello = "hello")
           /\ Len(exchange(p)) = 2 => exchange(p)[2] = "request"
<1>1. CASE p.hello = "none" /\ p.request = "none"
  <2>1. exchange(p) = <<>>
    BY <1>1 DEF exchange
  <2> QED
    BY <2>1
<1>2. CASE p.hello = "none" /\ p.request # "none"
  <2>1. exchange(p) = <<"request">>
    BY <1>2 DEF exchange
  <2> QED
    BY <1>2, <2>1
<1>3. CASE p.hello # "none" /\ p.request = "none"
  <2>1. exchange(p) = <<p.hello>>
    BY <1>3 DEF exchange
  <2> QED
    BY <2>1
<1>4. CASE p.hello # "none" /\ p.request # "none"
  <2> DEFINE S == {p.hello, "request"}
  <2>1. <<p.hello>> \in Seq(S) /\ <<"request">> \in Seq(S)
    OBVIOUS
  <2>2. exchange(p) = <<p.hello>> \o <<"request">>
    BY <1>4 DEF exchange
  <2>3. /\ Len(exchange(p)) = 2 /\ exchange(p)[1] = p.hello /\ exchange(p)[2] = "request"
    BY <2>1, <2>2, ConcatProperties
  <2> QED
    BY <2>3
<1> QED
  BY <1>1, <1>2, <1>3, <1>4

\* The kinds of a reply tell it from none.
LEMMA ReplyKinds ==
    /\ NoReply.kind \notin {"Answer", "Denied", "Error"} /\ NoReply \in ReplyOrNone
    /\ \A kind \in {"Denied", "Error"} : /\ Refusal(kind) \in ReplyOrNone
                                         /\ Refusal(kind).kind # "Answer"
    /\ \A size \in {"small", "large", "oversize"} :
          [kind |-> "Answer", size |-> size] \in ReplyOrNone
  BY ControlAssumption DEF NoReply, ReplyOrNone, Refusal, Replies

\* An event in the log stays there.
LEMMA RowMonotone ==
    ASSUME NEW c, NEW p, NEW ok, NEW k, NEW q, NEW s, NEW y, NEW o, NEW log, NEW more,
           RowInv(c, p, ok, k, q, s, y, o, log), log \subseteq more
    PROVE  RowInv(c, p, ok, k, q, s, y, o, more)
  BY DEF RowInv, LoggedAt, Audited

\* The client's state changes, with the same frames sent and unread.
LEMMA BecomeRow ==
    ASSUME NEW c, NEW p, NEW ok, NEW k, NEW q, NEW s, NEW y, NEW o, NEW log,
           RowInv(c, p, ok, k, q, s, y, o, log),
           NEW j \in CallState, j.sent = k.sent,
           j.st = "out" => k.st = "out" /\ j.tries < MaxTries,
           j.st = "blocked" => k.st = "blocked",
           j.st = "broken" => s = "done" /\ o = NoReply,
           k.st # "away"
    PROVE  RowInv(c, p, ok, j, q, s, y, o, log)
<1>1. Unread(p, j, q)
  BY DEF RowInv, Unread
<1>2. TaskAt(p, j, q, s)
  BY DEF RowInv, TaskAt
<1>3. ReplyAt(p, j, q, s, o)
  BY DEF RowInv, ReplyAt
<1>4. LoggedAt(c, p, ok, j, q, s, y, log)
  BY DEF RowInv, LoggedAt, Audited
<1> QED
  BY <1>1, <1>2, <1>3, <1>4 DEF RowInv

\* The client sends its next frame.
LEMMA SendRow ==
    ASSUME NEW c, NEW p, NEW ok, NEW k, NEW q, NEW s, NEW y, NEW o, NEW log,
           RowInv(c, p, ok, k, q, s, y, o, log),
           k.st = "open", k.sent # Len(exchange(p)), s # "done",
           NEW j \in CallState, j.sent = k.sent + 1, j.st \in {"open", "blocked"}
    PROVE  RowInv(c, p, ok, j, Append(q, exchange(p)[k.sent + 1]), s, y, o, log)
<1> DEFINE f == exchange(p)[k.sent + 1]
           r == Append(q, f)
<1>1. /\ q \in Seq({p.hello, "request"}) /\ Len(q) <= k.sent /\ k.sent < Len(exchange(p))
      /\ k.sent \in 0..2 /\ Len(exchange(p)) \in 0..2 /\ Len(q) \in Nat
  BY ExchangeFacts DEF RowInv, Unread, CallState
<1>2. f \in {p.hello, "request"}
  BY <1>1, ExchangeFacts
<1>3. /\ r \in Seq({p.hello, "request"}) /\ Len(r) = Len(q) + 1
      /\ \A i \in 1..Len(q) : r[i] = q[i]
      /\ r[Len(q) + 1] = f
  BY <1>1, <1>2, AppendProperties
<1> HIDE DEF r, f
<1>4. Unread(p, j, r)
  <2>1. ASSUME NEW i \in 1..Len(r)
        PROVE  r[i] = exchange(p)[j.sent - Len(r) + i]
    <3>1. j.sent - Len(r) + i = k.sent - Len(q) + i
      BY <1>1, <1>3
    <3>2. CASE i \in 1..Len(q)
      BY <1>3, <3>1, <3>2 DEF RowInv, Unread
    <3>3. CASE i = Len(q) + 1
      <4>1. k.sent - Len(q) + i = k.sent + 1
        BY <1>1, <3>3
      <4> QED
        BY <1>3, <3>1, <3>3, <4>1 DEF f
    <3> QED
      BY <1>1, <1>3, <3>2, <3>3
  <2> QED
    BY <1>1, <1>3, <2>1 DEF Unread
<1>5. s \notin {"dispatch", "write"} /\ o = NoReply
  BY <1>1 DEF RowInv, TaskAt, ReplyAt
<1>6. TaskAt(p, j, r, s)
  BY <1>1, <1>3, <1>5 DEF RowInv, TaskAt
<1>7. ReplyAt(p, j, r, s, o)
  BY <1>1, <1>3, <1>5 DEF RowInv, ReplyAt
<1>8. LoggedAt(c, p, ok, j, r, s, y, log)
  BY <1>1, <1>3 DEF RowInv, LoggedAt, Audited
<1> QED
  BY <1>4, <1>6, <1>7, <1>8 DEF RowInv, r, f

\* The client of a task that reads the first frame of q.
Unblocked(k, q) == IF k.st = "blocked" /\ Len(q) = 1 THEN [k EXCEPT !.st = "open"] ELSE k

\* What follows from reading the frame f: r stays unread, the client is at j.
FrameRead(p, k, q, o, j, r, f) ==
    /\ j \in CallState /\ j.sent = k.sent /\ j.st # "out"
    /\ Len(q) \in 1..2 /\ Len(r) = Len(q) - 1 /\ k.sent \in 1..2
    /\ Unread(p, j, r)
    /\ \A t \in Running : ReplyAt(p, j, r, t, o)
    /\ f = exchange(p)[k.sent - Len(q) + 1]

\* The task reads a frame; a client that was blocked on it goes on.
LEMMA ReadFrame ==
    ASSUME NEW c, NEW p, NEW ok, NEW k, NEW q, NEW s, NEW y, NEW o, NEW log,
           RowInv(c, p, ok, k, q, s, y, o, log), q # <<>>, s \in Reading
    PROVE  FrameRead(p, k, q, o, Unblocked(k, q), Tail(q), Head(q))
<1> DEFINE S == {p.hello, "request"}
           r == Tail(q)
           j == Unblocked(k, q)
<1>1. /\ q \in Seq(S) /\ Len(q) <= k.sent /\ k.sent <= Len(exchange(p))
      /\ k.sent \in 0..2 /\ Len(exchange(p)) \in 0..2 /\ Len(q) \in Nat
      /\ k \in CallState
  BY ExchangeFacts DEF RowInv, Unread, CallState
<1>2. /\ r \in Seq(S) /\ Len(r) = Len(q) - 1 /\ Len(q) > 0
      /\ \A i \in 1..Len(r) : r[i] = q[i + 1]
      /\ Head(q) = q[1]
  <2>1. Len(q) # 0
    BY <1>1, EmptySeq
  <2> QED
    BY <1>1, <2>1, HeadTailProperties
<1>3. j \in CallState /\ j.sent = k.sent /\ (j.st = k.st \/ (j.st = "open" /\ k.st = "blocked"))
      /\ (j.st = "blocked" => Len(q) # 1)
  BY <1>1 DEF CallState, Unblocked
<1> HIDE DEF r, S, j
<1>4. Unread(p, j, r)
  <2>1. ASSUME NEW i \in 1..Len(r)
        PROVE  r[i] = exchange(p)[j.sent - Len(r) + i]
    <3>1. i + 1 \in 1..Len(q) /\ r[i] = q[i + 1]
      BY <1>1, <1>2
    <3>2. q[i + 1] = exchange(p)[k.sent - Len(q) + (i + 1)]
      BY <3>1 DEF RowInv, Unread
    <3>3. k.sent - Len(q) + (i + 1) = j.sent - Len(r) + i
      BY <1>1, <1>2, <1>3
    <3> QED
      BY <3>1, <3>2, <3>3
  <2> QED
    BY <1>1, <1>2, <1>3, <2>1 DEF Unread, S
<1>5. o = NoReply /\ k.st # "broken"
  BY DEF RowInv, ReplyAt, Reading
<1>6. k.st # "out"
  BY DEF RowInv, TaskAt, Reading
<1>7. ASSUME NEW t \in Running
      PROVE  ReplyAt(p, j, r, t, o)
  BY <1>1, <1>2, <1>3, <1>5 DEF ReplyAt, Running, Reading
<1>8. Head(q) = exchange(p)[k.sent - Len(q) + 1]
  <2>1. 1 \in 1..Len(q)
    BY <1>1, <1>2
  <2> QED
    BY <1>2, <2>1 DEF RowInv, Unread
<1> QED
  <2>1. /\ Len(q) \in 1..2 /\ k.sent \in 1..2 /\ j.st # "out"
    BY <1>1, <1>2, <1>3, <1>6
  <2>2. FrameRead(p, k, q, o, j, r, Head(q))
    BY <1>2, <1>3, <1>4, <1>7, <1>8, <2>1 DEF FrameRead
  <2> QED
    BY <2>2 DEF r, j

\* A Hello is read of a peer that is let on, or refused with an event.
LEMMA HelloOkRow ==
    ASSUME NEW c, NEW p, NEW ok, NEW k, NEW q, NEW y, NEW o, NEW log, NEW more,
           RowInv(c, p, ok, k, q, "hello", y, o, log), log \subseteq more,
           NEW j, NEW r, NEW f, FrameRead(p, k, q, o, j, r, f),
           f = "hello"
    PROVE  /\ ok => RowInv(c, p, ok, j, r, "request", y, o, more)
           /\ ~ok /\ <<c, "Deny">> \in more =>
                 RowInv(c, p, ok, j, r, "drain", Refusal("Denied"), o, more)
<1>1. /\ j \in CallState /\ j.sent = k.sent
      /\ Len(q) \in 1..2 /\ Len(r) = Len(q) - 1 /\ k.sent \in 1..2
      /\ Unread(p, j, r)
      /\ ReplyAt(p, j, r, "request", o) /\ ReplyAt(p, j, r, "drain", o)
      /\ j.st # "out"
      /\ f = exchange(p)[k.sent - Len(q) + 1]
  BY DEF FrameRead, Running, Reading
<1>2. Len(q) = k.sent /\ y.kind # "Answer" /\ k.sent <= Len(exchange(p))
  BY <1>1 DEF RowInv, TaskAt, LoggedAt, Audited, Unread
<1>3. p.hello = "hello"
  <2>1. k.sent - Len(q) + 1 = 1 /\ Len(exchange(p)) > 0
    BY <1>1, <1>2, ExchangeFacts
  <2>2. exchange(p)[1] = f
    BY <1>1, <2>1
  <2> QED
    BY <2>1, <2>2, ExchangeFacts
<1>4. /\ TaskAt(p, j, r, "request") /\ TaskAt(p, j, r, "drain")
  BY <1>1, <1>2 DEF TaskAt
<1>5. ok => LoggedAt(c, p, ok, j, r, "request", y, more)
  <2>1. Audited(c, p, y, more)
    BY DEF RowInv, LoggedAt, Audited
  <2> QED
    BY <1>1, <1>2, <1>3, <2>1 DEF LoggedAt
<1>6. ~ok /\ <<c, "Deny">> \in more => LoggedAt(c, p, ok, j, r, "drain", Refusal("Denied"), more)
  BY <1>1, <1>2, <1>3, ReplyKinds DEF LoggedAt, Audited
<1> QED
  BY <1>1, <1>4, <1>5, <1>6, ReplyKinds DEF RowInv, TaskState, Running, Reading

\* Something else than a Hello is read first, and refused.
LEMMA HelloBadRow ==
    ASSUME NEW c, NEW p, NEW ok, NEW k, NEW q, NEW y, NEW o, NEW log,
           RowInv(c, p, ok, k, q, "hello", y, o, log),
           NEW j, NEW r, NEW f, FrameRead(p, k, q, o, j, r, f),
           f # "hello"
    PROVE  RowInv(c, p, ok, j, r, "drain", Refusal("Error"), o, log)
<1>1. /\ j \in CallState /\ j.sent = k.sent
      /\ Len(q) \in 1..2 /\ Len(r) = Len(q) - 1 /\ k.sent \in 1..2
      /\ Unread(p, j, r)
      /\ ReplyAt(p, j, r, "drain", o)
      /\ j.st # "out"
      /\ f = exchange(p)[k.sent - Len(q) + 1]
  BY DEF FrameRead, Running, Reading
<1>2. Len(q) = k.sent /\ k.sent <= Len(exchange(p))
  BY <1>1 DEF RowInv, TaskAt, Unread
<1>3. p.hello # "hello"
  <2>1. k.sent - Len(q) + 1 = 1 /\ Len(exchange(p)) > 0
    BY <1>1, <1>2, ExchangeFacts
  <2>2. exchange(p)[1] = f
    BY <1>1, <2>1
  <2> QED
    BY <2>1, <2>2, ExchangeFacts
<1>4. TaskAt(p, j, r, "drain")
  BY <1>1, <1>2 DEF TaskAt
<1>5. LoggedAt(c, p, ok, j, r, "drain", Refusal("Error"), log)
  BY <1>3, ReplyKinds DEF LoggedAt, Audited
<1> QED
  BY <1>1, <1>4, <1>5, ReplyKinds DEF RowInv, TaskState, Running, Reading

\* The second frame is read: the request of a peer that was let on, or the
\* one that a refused client is drained of.
LEMMA SecondRow ==
    ASSUME NEW c, NEW p, NEW ok, NEW k, NEW q, NEW s, NEW y, NEW o, NEW log,
           RowInv(c, p, ok, k, q, s, y, o, log),
           NEW j, NEW r, NEW f, FrameRead(p, k, q, o, j, r, f),
           NEW t, \/ s = "request" /\ t = "dispatch"
                  \/ s = "drain" /\ t = "write"
    PROVE  RowInv(c, p, ok, j, r, t, y, o, log)
<1>1. /\ j \in CallState /\ j.sent = k.sent
      /\ Len(q) \in 1..2 /\ Len(r) = Len(q) - 1 /\ k.sent \in 1..2
      /\ Unread(p, j, r)
      /\ ReplyAt(p, j, r, t, o)
      /\ j.st # "out"
  BY DEF FrameRead, Running, Reading
<1>2. Len(q) + 1 = k.sent /\ k.sent <= Len(exchange(p)) /\ Len(exchange(p)) \in 0..2
  BY ExchangeFacts DEF RowInv, TaskAt, Unread
<1>3. TaskAt(p, j, r, t)
  <2>1. Len(q) = 1 /\ k.sent = 2
    BY <1>1, <1>2
  <2>2. Len(r) = 0 /\ j.sent = 2
    BY <1>1, <2>1
  <2>3. Len(exchange(p)) = 2
    BY <1>2, <2>1
  <2> QED
    BY <1>1, <2>2, <2>3 DEF TaskAt
<1>4. LoggedAt(c, p, ok, j, r, t, y, log)
  BY <1>1, <1>2 DEF RowInv, LoggedAt, Audited
<1> QED
  BY <1>1, <1>3, <1>4 DEF RowInv, TaskState, Running, Reading

\* Nothing more will come: the connection ends, or the refusal is written.
LEMMA TimeoutRow ==
    ASSUME NEW c, NEW p, NEW ok, NEW k, NEW q, NEW s, NEW y, NEW o, NEW log,
           RowInv(c, p, ok, k, q, s, y, o, log), s \in Reading,
           q = <<>>, k.st = "away" \/ k.sent = Len(exchange(p))
    PROVE  RowInv(c, p, ok, k, q, IF s = "drain" THEN "write" ELSE "done", y, o, log)
<1> DEFINE t == IF s = "drain" THEN "write" ELSE "done"
<1>1. /\ k \in CallState /\ Len(q) = 0 /\ k.sent \in 0..2
      /\ t \in TaskState /\ t \in {"write", "done"}
  BY DEF RowInv, CallState, TaskState, Running, Reading
<1>2. t = "write" => s = "drain"
  OBVIOUS
<1> HIDE DEF t
<1>3. TaskAt(p, k, q, t)
  BY <1>1, <1>2 DEF RowInv, TaskAt, Reading
<1>4. ReplyAt(p, k, q, t, o)
  BY <1>1 DEF RowInv, ReplyAt, Reading
<1>5. LoggedAt(c, p, ok, k, q, t, y, log)
  BY <1>1 DEF RowInv, LoggedAt, Audited
<1> QED
  BY <1>1, <1>3, <1>4, <1>5 DEF RowInv, t

\* A request is dispatched: its reply and its event.
LEMMA DispatchRow ==
    ASSUME NEW c, NEW p, NEW ok, NEW k, NEW q, NEW y, NEW o, NEW log, NEW more,
           RowInv(c, p, ok, k, q, "dispatch", y, o, log), log \subseteq more,
           NEW z \in ReplyOrNone, Audited(c, p, z, more)
    PROVE  RowInv(c, p, ok, k, q, "write", z, o, more)
<1>1. TaskAt(p, k, q, "write")
  BY DEF RowInv, TaskAt
<1>2. ReplyAt(p, k, q, "write", o)
  BY DEF RowInv, ReplyAt
<1>3. LoggedAt(c, p, ok, k, q, "write", z, more)
  BY DEF RowInv, LoggedAt, Audited
<1> QED
  BY <1>1, <1>2, <1>3 DEF RowInv, TaskState, Running, Reading

\* A reply is written, or dropped because no frame holds it: everything the
\* client will send has been read.
LEMMA WriteRow ==
    ASSUME NEW c, NEW p, NEW ok, NEW k, NEW q, NEW y, NEW o, NEW log,
           RowInv(c, p, ok, k, q, "write", y, o, log),
           NEW a, a = o \/ a = y
    PROVE  RowInv(c, p, ok, k, q, "done", y, a, log)
<1>1. TaskAt(p, k, q, "done")
  BY DEF RowInv, TaskAt
<1>2. ReplyAt(p, k, q, "done", a)
  BY DEF RowInv, ReplyAt, TaskAt
<1>3. LoggedAt(c, p, ok, k, q, "done", y, log)
  BY DEF RowInv, LoggedAt, Audited
<1> QED
  BY <1>1, <1>2, <1>3 DEF RowInv, TaskState

\* A waiting connection gets its task, or is dropped.
LEMMA LetInRow ==
    ASSUME NEW c, NEW p, NEW ok, NEW k, NEW q, NEW y, NEW o, NEW log,
           RowInv(c, p, ok, k, q, "none", y, o, log), k.st # "out",
           NEW t \in {"hello", "done"}
    PROVE  RowInv(c, p, ok, k, q, t, y, o, log)
<1>1. TaskAt(p, k, q, t)
  BY DEF RowInv, TaskAt
<1>2. ReplyAt(p, k, q, t, o)
  BY DEF RowInv, ReplyAt
<1>3. LoggedAt(c, p, ok, k, q, t, y, log)
  BY DEF RowInv, LoggedAt, Audited
<1> QED
  BY <1>1, <1>2, <1>3 DEF RowInv, TaskState, Running, Reading

\* The service stops: the task ends where it is, and the client finds out.
LEMMA StopRow ==
    ASSUME NEW c, NEW p, NEW ok, NEW k, NEW q, NEW s, NEW y, NEW o, NEW log,
           RowInv(c, p, ok, k, q, s, y, o, log),
           NEW j \in CallState, j.sent = k.sent, j.st \notin {"out", "blocked"},
           j.st = "broken" => k.st = "broken" \/ o = NoReply,
           k.st = "away" => j.st = "away"
    PROVE  RowInv(c, p, ok, j, q, "done", y, o, log)
<1>1. Unread(p, j, q)
  BY DEF RowInv, Unread
<1>2. TaskAt(p, j, q, "done")
  BY DEF TaskAt
<1>3. ReplyAt(p, j, q, "done", o)
  BY DEF RowInv, ReplyAt
<1>4. LoggedAt(c, p, ok, j, q, "done", y, log)
  BY DEF RowInv, LoggedAt, Audited
<1> QED
  BY <1>1, <1>2, <1>3, <1>4 DEF RowInv, TaskState

-----------------------------------------------------------------------------
(* All connections *)

\* A step of connection c leaves the rows of the others as they are.
LEMMA OneRow ==
    ASSUME ControlInv, NEW c \in Clients, UNCHANGED setting, Tables',
           \A d \in Clients \ {c} : /\ cl'[d] = cl[d] /\ inbox'[d] = inbox[d]
                                    /\ srv'[d] = srv[d] /\ say'[d] = say[d]
                                    /\ out'[d] = out[d],
           audit \subseteq audit', audit' \subseteq Clients \X {"Allow", "Deny", "Error"},
           QueueInv',
           RowInv(c, who[c], Authorized(c), cl'[c], inbox'[c], srv'[c], say'[c], out'[c], audit')
    PROVE  ControlInv'
<1>1. \A d \in Clients : Authorized(d)' = Authorized(d) /\ who'[d] = who[d]
  BY DEF setting, Authorized, resolve_peer, authorize_unix, authorize_windows
<1>2. Row(c)'
  BY <1>1 DEF Row
<1>3. ASSUME NEW d \in Clients \ {c}
      PROVE  Row(d)'
  <2>1. RowInv(d, who[d], Authorized(d), cl[d], inbox[d], srv[d], say[d], out[d], audit)
    BY DEF ControlInv, Row
  <2>2. RowInv(d, who[d], Authorized(d), cl[d], inbox[d], srv[d], say[d], out[d], audit')
    BY <2>1, RowMonotone
  <2> QED
    BY <1>1, <2>2 DEF Row
<1> QED
  BY <1>2, <1>3 DEF ControlInv

\* The queue is sound as long as nobody in it gets a task.
LEMMA QueueKept ==
    ASSUME QueueInv, UNCHANGED <<queue, loop, held>>,
           \A d \in Clients : Waiting(d) => Waiting(d)'
    PROVE  QueueInv'
<1>1. \A i \in 1..Len(queue) : queue[i] \in Clients
  BY DEF QueueInv
<1> QED
  BY <1>1 DEF QueueInv

\* A step of the client of c that changes its call alone.
LEMMA CallStep ==
    ASSUME ControlInv, NEW c \in Clients, NEW j, cl' = [cl EXCEPT ![c] = j],
           UNCHANGED <<setting, inbox, server>>,
           cl[c].st # "out" => j.st # "out",
           RowInv(c, who[c], Authorized(c), j, inbox[c], srv[c], say[c], out[c], audit)
    PROVE  ControlInv'
<1>1. cl'[c] = j /\ \A d \in Clients \ {c} : cl'[d] = cl[d]
  BY DEF ControlInv, Tables, PerClient
<1>2. QueueInv'
  <2>1. \A d \in Clients : Waiting(d) => Waiting(d)'
    BY <1>1 DEF Waiting, server
  <2> QED
    BY <2>1, QueueKept DEF ControlInv, server
<1>3. Tables'
  BY DEF ControlInv, Tables, PerClient, server
<1> QED
  BY <1>1, <1>2, <1>3, OneRow DEF ControlInv, server

\* A step of the task of c.
LEMMA TaskStep ==
    ASSUME ControlInv, NEW c \in Clients, srv[c] # "none", UNCHANGED <<setting, queue, loop, held>>,
           NEW j, cl' = [cl EXCEPT ![c] = j], cl[c].st # "out" => j.st # "out",
           NEW q, inbox' = [inbox EXCEPT ![c] = q],
           NEW t, srv' = [srv EXCEPT ![c] = t],
           NEW y, say' = [say EXCEPT ![c] = y],
           NEW o, out' = [out EXCEPT ![c] = o],
           audit \subseteq audit', audit' \subseteq Clients \X {"Allow", "Deny", "Error"},
           RowInv(c, who[c], Authorized(c), j, q, t, y, o, audit')
    PROVE  ControlInv'
<1>1. /\ cl'[c] = j /\ inbox'[c] = q /\ srv'[c] = t /\ say'[c] = y /\ out'[c] = o
      /\ \A d \in Clients \ {c} : /\ cl'[d] = cl[d] /\ inbox'[d] = inbox[d]
                                  /\ srv'[d] = srv[d] /\ say'[d] = say[d]
                                  /\ out'[d] = out[d]
  BY DEF ControlInv, Tables, PerClient
<1>2. QueueInv'
  <2>1. \A d \in Clients : Waiting(d) => Waiting(d)'
    BY <1>1 DEF Waiting
  <2> QED
    BY <2>1, QueueKept DEF ControlInv
<1>3. Tables'
  BY DEF ControlInv, Tables, PerClient
<1> QED
  BY <1>1, <1>2, <1>3, OneRow

\* Before anything happens.
LEMMA ControlInit == Init => ControlInv
<1> SUFFICES ASSUME Init
             PROVE  ControlInv
  OBVIOUS
<1>1. Tables
  BY DEF Init, Tables, PerClient
<1>2. QueueInv
  BY ControlAssumption DEF Init, QueueInv
<1>3. ASSUME NEW c \in Clients
      PROVE  Row(c)
  <2>1. /\ cl[c] = [st |-> "out", sent |-> 0, tries |-> 0] /\ inbox[c] = <<>>
        /\ srv[c] = "none" /\ say[c] = NoReply /\ out[c] = NoReply
    BY <1>3 DEF Init
  <2>2. cl[c] \in CallState
    BY <2>1, ControlAssumption DEF CallState
  <2>3. Unread(who[c], cl[c], inbox[c])
    BY <2>1, ExchangeFacts DEF Unread
  <2>4. TaskAt(who[c], cl[c], inbox[c], srv[c])
    BY <2>1, ControlAssumption DEF TaskAt
  <2>5. ReplyAt(who[c], cl[c], inbox[c], srv[c], out[c])
    BY <2>1 DEF ReplyAt
  <2>6. LoggedAt(c, who[c], Authorized(c), cl[c], inbox[c], srv[c], say[c], audit)
    BY <2>1, ReplyKinds DEF LoggedAt, Audited
  <2> QED
    BY <2>1, <2>2, <2>3, <2>4, <2>5, <2>6, ReplyKinds DEF Row, RowInv, TaskState
<1>4. audit \subseteq Clients \X {"Allow", "Deny", "Error"}
  BY DEF Init
<1> QED
  BY <1>1, <1>2, <1>3, <1>4 DEF ControlInv

-----------------------------------------------------------------------------
(* The client's steps *)

\* What the invariant says of one connection.
LEMMA RowOf ==
    ASSUME ControlInv, NEW c \in Clients
    PROVE  /\ RowInv(c, who[c], Authorized(c), cl[c], inbox[c], srv[c], say[c], out[c], audit)
           /\ cl[c] \in CallState
  BY DEF ControlInv, Row, RowInv

\* The steps in which a call only changes its state.
LEMMA BecomeStep ==
    ASSUME ControlInv, NEW c \in Clients, NEW st \in {"broken", "answered", "away"},
           Become(c, st), UNCHANGED <<setting, inbox, server>>,
           cl[c].st \in {"open", "blocked"},
           st = "broken" => srv[c] = "done" /\ out[c] = NoReply
    PROVE  ControlInv'
<1> DEFINE j == [cl[c] EXCEPT !.st = st]
<1>1. cl' = [cl EXCEPT ![c] = j]
  BY DEF Become
<1>2. j \in CallState /\ j.sent = cl[c].sent /\ j.st = st
  BY RowOf DEF CallState
<1> HIDE DEF j
<1>3. RowInv(c, who[c], Authorized(c), j, inbox[c], srv[c], say[c], out[c], audit)
  BY <1>2, RowOf, BecomeRow
<1> QED
  BY <1>1, <1>2, <1>3, CallStep

\* A call fails: its connection was closed without a reply.
LEMMA BreakStep ==
    ASSUME ControlInv, NEW c \in Clients, Break(c)
    PROVE  ControlInv'
<1>1. srv[c] = "done" /\ out[c] = NoReply
  BY RowOf DEF Break, Open, RowInv, ReplyAt, SentAll, Script
<1> QED
  BY <1>1, BecomeStep DEF Break

\* A call gets its reply.
LEMMA ReceiveStep ==
    ASSUME ControlInv, NEW c \in Clients, Receive(c)
    PROVE  ControlInv'
  BY BecomeStep DEF Receive

\* A client goes away.
LEMMA GoAwayStep ==
    ASSUME ControlInv, NEW c \in Clients, GoAway(c)
    PROVE  ControlInv'
  BY BecomeStep DEF GoAway

\* Two fields of a client's state are changed at once.
LEMMA TwoFields ==
    ASSUME NEW f, f = [d \in Clients |-> f[d]], NEW c \in Clients, NEW n, NEW st
    PROVE  /\ [f EXCEPT ![c].tries = n, ![c].st = st]
                = [f EXCEPT ![c] = [f[c] EXCEPT !.tries = n, !.st = st]]
           /\ [f EXCEPT ![c].sent = n, ![c].st = st]
                = [f EXCEPT ![c] = [f[c] EXCEPT !.sent = n, !.st = st]]
  OBVIOUS

\* A client finds every pipe instance in use.
LEMMA PipeBusyStep ==
    ASSUME ControlInv, NEW c \in Clients, PipeBusy(c)
    PROVE  ControlInv'
<1> DEFINE st == IF cl[c].tries + 1 = MaxTries THEN "busy" ELSE "out"
           j == [cl[c] EXCEPT !.tries = cl[c].tries + 1, !.st = st]
<1>1. cl[c] \in CallState /\ cl[c].st = "out" /\ cl[c].tries < MaxTries
  BY RowOf DEF RowInv, TaskAt, PipeBusy
<1>2. cl' = [cl EXCEPT ![c] = j]
  <2>1. cl' = [cl EXCEPT ![c].tries = cl[c].tries + 1, ![c].st = st]
    BY DEF PipeBusy
  <2> QED
    BY <1>1, <2>1, TwoFields DEF ControlInv, Tables, PerClient
<1>3. /\ j \in CallState /\ j.sent = cl[c].sent /\ j.st = st
      /\ j.st \in {"busy", "out"} /\ (j.st = "out" => j.tries < MaxTries)
  <2> DEFINE n == cl[c].tries + 1
  <2>1. n \in 0..MaxTries /\ st \in {"busy", "out"} /\ (st = "out" => n < MaxTries)
    BY <1>1, ControlAssumption DEF CallState
  <2> HIDE DEF n, st
  <2>2. /\ j \in CallState /\ j.sent = cl[c].sent /\ j.st = st /\ j.tries = n
    BY <1>1, <2>1 DEF CallState, n
  <2> QED
    BY <2>1, <2>2
<1> HIDE DEF j, st
<1>4. RowInv(c, who[c], Authorized(c), j, inbox[c], srv[c], say[c], out[c], audit)
  BY <1>1, <1>3, RowOf, BecomeRow
<1> QED
  BY <1>1, <1>2, <1>4, CallStep DEF PipeBusy

\* A client sends a frame.
LEMMA SendStep ==
    ASSUME ControlInv, NEW c \in Clients, Send(c)
    PROVE  ControlInv'
<1> DEFINE f == Script(c)[cl[c].sent + 1]
           st == IF f = "request" /\ who[c].big THEN "blocked" ELSE "open"
           j == [cl[c] EXCEPT !.sent = cl[c].sent + 1, !.st = st]
           q == Append(inbox[c], f)
<1>1. /\ cl[c] \in CallState /\ cl[c].st = "open" /\ cl[c].sent # Len(exchange(who[c]))
      /\ cl[c].sent <= Len(exchange(who[c])) /\ srv[c] # "done"
  BY RowOf DEF RowInv, Unread, Send, SentAll, Script, Open
<1>2. cl' = [cl EXCEPT ![c] = j]
  <2>1. cl' = [cl EXCEPT ![c].sent = cl[c].sent + 1, ![c].st = st]
    BY DEF Send
  <2> QED
    BY <1>1, <2>1, TwoFields DEF ControlInv, Tables, PerClient
<1>3. inbox' = [inbox EXCEPT ![c] = q]
  BY DEF Send
<1>4. /\ j \in CallState /\ j.sent = cl[c].sent + 1 /\ j.st \in {"open", "blocked"}
  <2> DEFINE n == cl[c].sent + 1
  <2>1. n \in 0..2 /\ st \in {"open", "blocked"}
    BY <1>1, ExchangeFacts DEF CallState
  <2> HIDE DEF n, st
  <2>2. j \in CallState /\ j.sent = n /\ j.st = st
    BY <1>1, <2>1 DEF CallState, n
  <2> QED
    BY <2>1, <2>2 DEF n
<1>5. q = Append(inbox[c], exchange(who[c])[cl[c].sent + 1])
  BY DEF Script
<1> HIDE DEF j, st, f, q
<1>6. RowInv(c, who[c], Authorized(c), j, q, srv[c], say[c], out[c], audit)
  BY <1>1, <1>4, <1>5, RowOf, SendRow
<1>7. /\ cl'[c] = j /\ inbox'[c] = q
      /\ \A d \in Clients \ {c} : cl'[d] = cl[d] /\ inbox'[d] = inbox[d]
  BY <1>2, <1>3 DEF ControlInv, Tables, PerClient
<1>8. Tables'
  BY <1>2, <1>3 DEF ControlInv, Tables, PerClient, Send, server
<1>9. QueueInv'
  <2>1. \A d \in Clients : Waiting(d) => Waiting(d)'
    BY <1>4, <1>7 DEF Waiting, Send, server
  <2> QED
    BY <2>1, QueueKept DEF ControlInv, Send, server
<1> QED
  BY <1>6, <1>7, <1>8, <1>9, OneRow DEF ControlInv, Send, server

\* A connection is made and waits in the queue.
LEMMA ConnectStep ==
    ASSUME ControlInv, NEW c \in Clients, Connect(c)
    PROVE  ControlInv'
<1> DEFINE j == [cl[c] EXCEPT !.st = "open"]
<1>1. cl[c] \in CallState /\ cl[c].st = "out" /\ srv[c] = "none"
  BY RowOf DEF RowInv, TaskAt, Connect
<1>2. cl' = [cl EXCEPT ![c] = j] /\ srv' = srv
  BY <1>1 DEF Connect, Become, ControlInv, Tables, PerClient
<1>3. j \in CallState /\ j.sent = cl[c].sent /\ j.st = "open"
  BY <1>1 DEF CallState
<1> HIDE DEF j
<1>4. RowInv(c, who[c], Authorized(c), j, inbox[c], srv[c], say[c], out[c], audit)
  BY <1>1, <1>3, RowOf, BecomeRow
<1>5. cl'[c] = j /\ \A d \in Clients \ {c} : cl'[d] = cl[d]
  BY <1>2 DEF ControlInv, Tables, PerClient
<1>6. QueueInv'
  <2>1. /\ queue \in Seq(Clients) /\ Len(queue) \in Nat /\ Len(queue) < Backlog
        /\ queue' = Append(queue, c) /\ Backlog \in Nat
    BY ControlAssumption DEF Connect, ControlInv, QueueInv
  <2>2. /\ queue' \in Seq(Clients) /\ Len(queue') = Len(queue) + 1
        /\ \A i \in 1..Len(queue) : queue'[i] = queue[i]
        /\ queue'[Len(queue) + 1] = c
    BY <2>1, AppendProperties
  <2>3. \A i \in 1..Len(queue') : i \in 1..Len(queue) \/ i = Len(queue) + 1
    BY <2>1, <2>2
  <2>4. /\ \A i \in 1..Len(queue) : queue[i] \in Clients /\ queue[i] # c
        /\ \A d \in Clients : Waiting(d) => Waiting(d)' /\ d # c
        /\ Waiting(c)'
        /\ loop = "await" => held # c
    BY <1>1, <1>2, <1>3, <1>5, <2>1 DEF ControlInv, QueueInv, Waiting
  <2>5. \A i \in 1..Len(queue') : srv'[queue'[i]] = "none" /\ cl'[queue'[i]].st # "out"
    BY <2>2, <2>3, <2>4 DEF ControlInv, QueueInv, Waiting
  <2>6. \A i, k \in 1..Len(queue') : queue'[i] = queue'[k] => i = k
    BY <2>2, <2>3, <2>4 DEF ControlInv, QueueInv
  <2>7. Len(queue') <= Backlog
    BY <2>1, <2>2
  <2>8. loop = "await" => /\ held \in Clients
                          /\ srv'[held] = "none" /\ cl'[held].st # "out"
                          /\ \A i \in 1..Len(queue') : queue'[i] # held
    BY <2>2, <2>3, <2>4 DEF ControlInv, QueueInv, Waiting
  <2>9. loop' = loop /\ held' = held
    BY DEF Connect
  <2>10. /\ loop' \in {"select", "await", "stopped"} /\ held' \in Clients \union {None}
    BY <2>9 DEF ControlInv, QueueInv
  <2> QED
    BY <2>2, <2>5, <2>6, <2>7, <2>8, <2>9, <2>10 DEF QueueInv, Waiting
<1>7. Tables'
  BY <1>2 DEF ControlInv, Tables, PerClient, Connect
<1> QED
  BY <1>2, <1>4, <1>5, <1>6, <1>7, OneRow DEF ControlInv, Connect

-----------------------------------------------------------------------------
(* The accept loop *)

\* A connection is accepted and awaits a permit.
LEMMA AcceptStep ==
    ASSUME ControlInv, Accept
    PROVE  ControlInv'
<1> DEFINE c == Head(queue)
<1>1. /\ queue \in Seq(Clients) /\ Len(queue) \in Nat /\ queue # <<>>
  BY DEF Accept, ControlInv, QueueInv
<1>2. /\ Len(queue) > 0
      /\ queue' \in Seq(Clients) /\ Len(queue') = Len(queue) - 1
      /\ \A i \in 1..Len(queue') : queue'[i] = queue[i + 1] /\ i + 1 \in 1..Len(queue)
      /\ c = queue[1] /\ 1 \in 1..Len(queue) /\ c \in Clients
  <2>1. Len(queue) # 0
    BY <1>1, EmptySeq
  <2>2. queue' = Tail(queue)
    BY DEF Accept
  <2> QED
    BY <1>1, <2>1, <2>2, HeadTailProperties
<1> HIDE DEF c
<1>3. QueueInv'
  <2>1. held' = c /\ loop' = "await" /\ srv' = srv /\ cl' = cl
    BY DEF Accept, c
  <2>2. \A i \in 1..Len(queue') : srv[queue'[i]] = "none" /\ cl[queue'[i]].st # "out"
    BY <1>2 DEF ControlInv, QueueInv, Waiting
  <2>3. \A i, j \in 1..Len(queue') : queue'[i] = queue'[j] => i = j
    <3>1. ASSUME NEW i \in 1..Len(queue'), NEW j \in 1..Len(queue'), queue'[i] = queue'[j]
          PROVE  i = j
      <4>1. i + 1 = j + 1
        BY <1>2, <3>1 DEF ControlInv, QueueInv
      <4> QED
        BY <4>1
    <3> QED
      BY <3>1
  <2>4. \A i \in 1..Len(queue') : queue'[i] # c
    <3>1. ASSUME NEW i \in 1..Len(queue'), queue'[i] = c
          PROVE  FALSE
      <4>1. i + 1 = 1
        BY <1>2, <3>1 DEF ControlInv, QueueInv
      <4> QED
        BY <4>1
    <3> QED
      BY <3>1
  <2>5. srv[c] = "none" /\ cl[c].st # "out"
    BY <1>2 DEF ControlInv, QueueInv, Waiting
  <2>6. Len(queue') <= Backlog
    BY <1>1, <1>2, ControlAssumption DEF ControlInv, QueueInv
  <2> QED
    BY <1>2, <2>1, <2>2, <2>3, <2>4, <2>5, <2>6 DEF QueueInv, Waiting
<1>4. Tables'
  BY DEF Accept, ControlInv, Tables, PerClient
<1> QED
  BY <1>2, <1>3, <1>4, RowOf, OneRow DEF Accept, ControlInv

\* The connection that is awaited gets its task, or is dropped.
LEMMA LetIn ==
    ASSUME ControlInv, loop = "await", NEW t \in {"hello", "done"},
           srv' = [srv EXCEPT ![held] = t], loop' = "select", held' = None,
           UNCHANGED <<setting, cl, inbox, say, out, queue, audit>>
    PROVE  ControlInv'
<1> DEFINE c == held
<1>1. c \in Clients /\ srv[c] = "none" /\ cl[c].st # "out"
  BY DEF ControlInv, QueueInv, Waiting
<1>2. srv'[c] = t /\ \A d \in Clients \ {c} : srv'[d] = srv[d]
  BY <1>1 DEF ControlInv, Tables, PerClient
<1>3. QueueInv'
  <2>1. \A i \in 1..Len(queue) : queue[i] \in Clients /\ queue[i] # c /\ Waiting(queue[i])
    BY DEF ControlInv, QueueInv
  <2>2. \A i \in 1..Len(queue) : srv'[queue[i]] = "none" /\ cl[queue[i]].st # "out"
    BY <1>2, <2>1 DEF Waiting
  <2> QED
    BY <2>2 DEF ControlInv, QueueInv, Waiting
<1>4. Tables'
  BY DEF ControlInv, Tables, PerClient
<1>5. RowInv(c, who[c], Authorized(c), cl[c], inbox[c], t, say[c], out[c], audit)
  BY <1>1, RowOf, LetInRow
<1> QED
  BY <1>1, <1>2, <1>3, <1>4, <1>5, OneRow DEF ControlInv

\* The service stops.
LEMMA ShutdownStep ==
    ASSUME ControlInv, Shutdown
    PROVE  ControlInv'
<1>1. Tables'
  BY DEF Shutdown, ControlInv, Tables, PerClient
<1>2. QueueInv'
  BY ControlAssumption DEF Shutdown, QueueInv
<1>3. ASSUME NEW c \in Clients
      PROVE  Row(c)'
  <2> DEFINE j == [cl[c] EXCEPT !.st = Afterwards(c)]
  <2>1. cl'[c] = j /\ srv'[c] = "done"
    BY <1>3 DEF Shutdown
  <2>2. RowInv(c, who[c], Authorized(c), cl[c], inbox[c], srv[c], say[c], out[c], audit)
        /\ cl[c] \in CallState
    BY <1>3, RowOf
  <2>3. /\ Afterwards(c) \in {"answered", "broken", "busy", "unreachable", "away"}
        /\ Afterwards(c) = "broken" => cl[c].st = "broken" \/ out[c] = NoReply
        /\ cl[c].st = "away" => Afterwards(c) = "away"
    <3>1. CASE cl[c].st = "out"
      BY <3>1 DEF Afterwards
    <3>2. CASE cl[c].st = "open" /\ SentAll(c) /\ out[c] # NoReply
      <4>1. Afterwards(c) = IF who[c].reads THEN "answered" ELSE "away"
        BY <3>2 DEF Afterwards
      <4> QED
        BY <3>2, <4>1
    <3>3. CASE cl[c].st \in {"open", "blocked"} /\ ~(cl[c].st = "open" /\ SentAll(c) /\ out[c] # NoReply)
      <4>1. Afterwards(c) = "broken"
        BY <3>3 DEF Afterwards
      <4>2. out[c] = NoReply
        BY <2>2, <3>3 DEF RowInv, ReplyAt, SentAll, Script
      <4> QED
        BY <3>3, <4>1, <4>2
    <3>4. CASE cl[c].st \notin {"out", "open", "blocked"}
      <4>1. Afterwards(c) = cl[c].st
        BY <3>4 DEF Afterwards
      <4> QED
        BY <2>2, <3>4, <4>1 DEF CallState
    <3> QED
      BY <3>1, <3>2, <3>3, <3>4
  <2>4. j \in CallState /\ j.sent = cl[c].sent /\ j.st = Afterwards(c)
    BY <2>2, <2>3 DEF CallState
  <2> HIDE DEF j
  <2>5. RowInv(c, who[c], Authorized(c), j, inbox[c], "done", say[c], out[c], audit)
    BY <2>2, <2>3, <2>4, StopRow
  <2>6. Authorized(c)' = Authorized(c) /\ who'[c] = who[c]
    BY DEF Shutdown, setting, Authorized, resolve_peer, authorize_unix, authorize_windows
  <2> QED
    BY <2>1, <2>5, <2>6 DEF Row, Shutdown
<1> QED
  BY <1>1, <1>2, <1>3 DEF ControlInv, Shutdown

-----------------------------------------------------------------------------
(* handle_conn *)

\* Reading a frame moves the client as Unblocked says.
LEMMA ReadStep ==
    ASSUME ControlInv, NEW c \in Clients, read_request(c), srv[c] \in Reading
    PROVE  /\ cl' = [cl EXCEPT ![c] = Unblocked(cl[c], inbox[c])]
           /\ inbox' = [inbox EXCEPT ![c] = Tail(inbox[c])]
           /\ cl[c].st # "out" => Unblocked(cl[c], inbox[c]).st # "out"
           /\ FrameRead(who[c], cl[c], inbox[c], out[c], Unblocked(cl[c], inbox[c]),
                        Tail(inbox[c]), Head(inbox[c]))
           /\ srv[c] # "none"
<1>1. cl' = [cl EXCEPT ![c] = Unblocked(cl[c], inbox[c])]
  <2>1. cl = [cl EXCEPT ![c] = cl[c]]
    BY DEF ControlInv, Tables, PerClient
  <2> QED
    BY <2>1 DEF read_request, Unblocked
<1>2. FrameRead(who[c], cl[c], inbox[c], out[c], Unblocked(cl[c], inbox[c]),
                Tail(inbox[c]), Head(inbox[c]))
  BY RowOf, ReadFrame DEF read_request
<1>3. Unblocked(cl[c], inbox[c]).st # "out"
  BY <1>2 DEF FrameRead
<1>4. inbox' = [inbox EXCEPT ![c] = Tail(inbox[c])] /\ srv[c] # "none"
  BY DEF read_request, Reading
<1> QED
  BY <1>1, <1>2, <1>3, <1>4

\* The tables of the task are what they were, entry by entry.
LEMMA SameEntry ==
    ASSUME ControlInv, NEW c \in Clients
    PROVE  /\ cl = [cl EXCEPT ![c] = cl[c]] /\ inbox = [inbox EXCEPT ![c] = inbox[c]]
           /\ say = [say EXCEPT ![c] = say[c]] /\ out = [out EXCEPT ![c] = out[c]]
  BY DEF ControlInv, Tables, PerClient

\* The first frame is read.
LEMMA ReadHelloStep ==
    ASSUME ControlInv, NEW c \in Clients, ReadHello(c)
    PROVE  ControlInv'
<1> DEFINE j == Unblocked(cl[c], inbox[c])
           r == Tail(inbox[c])
           f == Head(inbox[c])
<1>1. /\ srv[c] = "hello" /\ read_request(c) /\ srv[c] \in Reading
  BY DEF ReadHello, Reading
<1>2. /\ cl' = [cl EXCEPT ![c] = j] /\ inbox' = [inbox EXCEPT ![c] = r]
      /\ (cl[c].st # "out" => j.st # "out")
      /\ FrameRead(who[c], cl[c], inbox[c], out[c], j, r, f)
  BY <1>1, ReadStep
<1>3. /\ out' = [out EXCEPT ![c] = out[c]] /\ say = [say EXCEPT ![c] = say[c]]
      /\ UNCHANGED <<setting, queue, loop, held>>
      /\ audit \subseteq Clients \X {"Allow", "Deny", "Error"}
  BY SameEntry DEF ReadHello, ControlInv
<1>4. RowInv(c, who[c], Authorized(c), cl[c], inbox[c], "hello", say[c], out[c], audit)
  BY <1>1, RowOf
<1>5. CASE hello_ok(c) /\ Authorized(c)
  <2>1. /\ f = "hello" /\ srv' = [srv EXCEPT ![c] = "request"] /\ say' = say /\ audit' = audit
    BY <1>5 DEF hello_ok, Goto
  <2> HIDE DEF j, r, f
  <2>2. RowInv(c, who[c], Authorized(c), j, r, "request", say[c], out[c], audit')
    BY <1>2, <1>4, <1>5, <2>1, HelloOkRow
  <2> QED
    BY <1>1, <1>2, <1>3, <2>1, <2>2, TaskStep
<1>6. CASE hello_ok(c) /\ ~Authorized(c)
  <2>1. /\ f = "hello" /\ srv' = [srv EXCEPT ![c] = "drain"]
        /\ say' = [say EXCEPT ![c] = Refusal("Denied")] /\ audit' = audit \union {<<c, "Deny">>}
    BY <1>6 DEF hello_ok, Goto, Refuse
  <2> HIDE DEF j, r, f
  <2>2. RowInv(c, who[c], Authorized(c), j, r, "drain", Refusal("Denied"), out[c], audit')
    BY <1>2, <1>4, <1>6, <2>1, HelloOkRow
  <2>3. audit \subseteq audit' /\ audit' \subseteq Clients \X {"Allow", "Deny", "Error"}
    BY <1>3, <2>1
  <2> QED
    BY <1>1, <1>2, <1>3, <2>1, <2>2, <2>3, TaskStep
<1>7. CASE hello_bad(c)
  <2>1. /\ f # "hello" /\ srv' = [srv EXCEPT ![c] = "drain"]
        /\ say' = [say EXCEPT ![c] = Refusal("Error")] /\ audit' = audit
    BY <1>7 DEF hello_bad, Goto, Refuse
  <2> HIDE DEF j, r, f
  <2>2. RowInv(c, who[c], Authorized(c), j, r, "drain", Refusal("Error"), out[c], audit')
    BY <1>2, <1>4, <2>1, HelloBadRow
  <2> QED
    BY <1>1, <1>2, <1>3, <2>1, <2>2, TaskStep
<1> QED
  BY <1>5, <1>6, <1>7 DEF ReadHello

\* The second frame is read, as a request or to drain a refused client.
LEMMA ReadSecondStep ==
    ASSUME ControlInv, NEW c \in Clients, ReadRequest(c) \/ drain_pending_request(c)
    PROVE  ControlInv'
<1> DEFINE j == Unblocked(cl[c], inbox[c])
           r == Tail(inbox[c])
           f == Head(inbox[c])
           t == IF srv[c] = "request" THEN "dispatch" ELSE "write"
<1>1. /\ srv[c] \in {"request", "drain"} /\ srv[c] \in Reading /\ read_request(c)
      /\ srv' = [srv EXCEPT ![c] = t]
  BY DEF ReadRequest, drain_pending_request, Reading, Goto
<1>2. /\ cl' = [cl EXCEPT ![c] = j] /\ inbox' = [inbox EXCEPT ![c] = r]
      /\ (cl[c].st # "out" => j.st # "out")
      /\ FrameRead(who[c], cl[c], inbox[c], out[c], j, r, f)
      /\ srv[c] # "none"
  BY <1>1, ReadStep
<1>3. /\ out' = [out EXCEPT ![c] = out[c]] /\ say' = [say EXCEPT ![c] = say[c]]
      /\ UNCHANGED <<setting, queue, loop, held, audit>>
      /\ audit \subseteq Clients \X {"Allow", "Deny", "Error"}
  BY SameEntry DEF ReadRequest, drain_pending_request, ControlInv
<1>4. \/ srv[c] = "request" /\ t = "dispatch"
      \/ srv[c] = "drain" /\ t = "write"
  BY <1>1
<1> HIDE DEF j, r, f, t
<1>5. RowInv(c, who[c], Authorized(c), j, r, t, say[c], out[c], audit)
  BY <1>2, <1>4, RowOf, SecondRow
<1> QED
  BY <1>1, <1>2, <1>3, <1>5, TaskStep

\* A read fails or takes too long.
LEMMA ReadTimeoutStep ==
    ASSUME ControlInv, NEW c \in Clients, ReadTimeout(c)
    PROVE  ControlInv'
<1> DEFINE t == IF srv[c] = "drain" THEN "write" ELSE "done"
<1>1. /\ srv[c] \in Reading /\ srv' = [srv EXCEPT ![c] = t] /\ srv[c] # "none"
      /\ inbox[c] = <<>> /\ (cl[c].st = "away" \/ cl[c].sent = Len(exchange(who[c])))
  BY DEF ReadTimeout, Stalled, Goto, Reading, SentAll, Script
<1>2. /\ out' = [out EXCEPT ![c] = out[c]] /\ say' = [say EXCEPT ![c] = say[c]]
      /\ cl' = [cl EXCEPT ![c] = cl[c]] /\ inbox' = [inbox EXCEPT ![c] = inbox[c]]
      /\ UNCHANGED <<setting, queue, loop, held, audit>>
      /\ audit \subseteq Clients \X {"Allow", "Deny", "Error"}
  BY SameEntry DEF ReadTimeout, ControlInv
<1>3. RowInv(c, who[c], Authorized(c), cl[c], inbox[c], t, say[c], out[c], audit)
  BY <1>1, RowOf, TimeoutRow
<1> HIDE DEF t
<1> QED
  BY <1>1, <1>2, <1>3, TaskStep

\* A request is carried out, and its event is logged.
LEMMA DispatchStep ==
    ASSUME ControlInv, NEW c \in Clients, dispatch(c)
    PROVE  ControlInv'
<1>1. /\ srv[c] = "dispatch" /\ srv' = [srv EXCEPT ![c] = "write"]
  BY DEF dispatch, Goto
<1>2. /\ out' = [out EXCEPT ![c] = out[c]]
      /\ cl' = [cl EXCEPT ![c] = cl[c]] /\ inbox' = [inbox EXCEPT ![c] = inbox[c]]
      /\ UNCHANGED <<setting, queue, loop, held>>
      /\ audit \subseteq Clients \X {"Allow", "Deny", "Error"}
  BY SameEntry DEF dispatch, ControlInv
<1>3. PICK y \in ReplyOrNone :
        /\ say' = [say EXCEPT ![c] = y]
        /\ audit \subseteq audit' /\ audit' \subseteq Clients \X {"Allow", "Deny", "Error"}
        /\ Audited(c, who[c], y, audit')
  <2>1. PICK kind \in {"Answer", "Denied", "Error"}, event \in {"Allow", "Deny", "Error", None},
             size \in Sizes(who[c].request) :
          /\ Outcome(who[c].request, kind, event)
          /\ say' = [say EXCEPT ![c] = IF kind = "Answer" THEN [kind |-> kind, size |-> size]
                                       ELSE Refusal(kind)]
          /\ audit' = IF event = None THEN audit ELSE audit \union {<<c, event>>}
    BY DEF dispatch
  <2> DEFINE y == IF kind = "Answer" THEN [kind |-> kind, size |-> size] ELSE Refusal(kind)
  <2>2. y \in ReplyOrNone /\ y.kind = kind
    <3>1. size \in {"small", "large", "oversize"}
      BY <2>1 DEF Sizes
    <3> QED
      BY <2>1, <3>1, ReplyKinds DEF Refusal, ReplyOrNone, Replies
  <2>3. audit \subseteq audit' /\ audit' \subseteq Clients \X {"Allow", "Deny", "Error"}
    BY <1>2, <2>1
  <2>4. event # None => <<c, event>> \in audit'
    BY <2>1
  <2>5. say' = [say EXCEPT ![c] = y]
    BY <2>1
  <2> HIDE DEF y
  <2>6. Audited(c, who[c], y, audit')
    BY <2>1, <2>2, <2>4, ControlAssumption DEF Outcome, Audited
  <2> QED
    BY <2>2, <2>3, <2>5, <2>6
<1>4. RowInv(c, who[c], Authorized(c), cl[c], inbox[c], "write", y, out[c], audit')
  BY <1>1, <1>3, RowOf, DispatchRow
<1> QED
  BY <1>1, <1>2, <1>3, <1>4, TaskStep

\* The reply is written, or is too large to be.
LEMMA WriteStep ==
    ASSUME ControlInv, NEW c \in Clients, write_response(c)
    PROVE  ControlInv'
<1>1. /\ srv[c] = "write" /\ srv' = [srv EXCEPT ![c] = "done"]
  BY DEF write_response, Goto
<1>2. /\ say' = [say EXCEPT ![c] = say[c]]
      /\ cl' = [cl EXCEPT ![c] = cl[c]] /\ inbox' = [inbox EXCEPT ![c] = inbox[c]]
      /\ UNCHANGED <<setting, queue, loop, held, audit>>
      /\ audit \subseteq Clients \X {"Allow", "Deny", "Error"}
  BY SameEntry DEF write_response, ControlInv
<1>3. PICK a : out' = [out EXCEPT ![c] = a] /\ (a = out[c] \/ a = say[c])
  BY SameEntry DEF write_response
<1>4. RowInv(c, who[c], Authorized(c), cl[c], inbox[c], "done", say[c], a, audit)
  BY <1>1, <1>3, RowOf, WriteRow
<1> QED
  BY <1>1, <1>2, <1>3, <1>4, TaskStep

-----------------------------------------------------------------------------
(* The theorems *)

\* Every step keeps the invariant.
LEMMA ControlNext == ControlInv /\ [Next]_vars => ControlInv'
<1> SUFFICES ASSUME ControlInv, [Next]_vars
             PROVE  ControlInv'
  OBVIOUS
<1>1. ASSUME NEW c \in Clients, ClientStep(c) \/ GoAway(c)
      PROVE  ControlInv'
  BY <1>1, ConnectStep, PipeBusyStep, SendStep, BreakStep, ReceiveStep, GoAwayStep DEF ClientStep
<1>2. ASSUME NEW c \in Clients, handle_conn(c)
      PROVE  ControlInv'
  BY <1>2, ReadHelloStep, ReadSecondStep, ReadTimeoutStep, DispatchStep, WriteStep DEF handle_conn
<1>3. CASE Accept
  BY <1>3, AcceptStep
<1>4. CASE Permit
  BY <1>4, LetIn DEF Permit
<1>5. CASE DropConnection
  BY <1>5, LetIn DEF DropConnection
<1>6. CASE Shutdown
  BY <1>6, ShutdownStep
<1>7. CASE UNCHANGED vars
  <2>1. Tables' /\ QueueInv' /\ audit' = audit
    BY <1>7 DEF vars, ControlInv, Tables, PerClient, QueueInv, Waiting
  <2>2. ASSUME NEW c \in Clients
        PROVE  Row(c)'
    <3>1. Authorized(c)' = Authorized(c)
      BY <1>7 DEF vars, Authorized, resolve_peer, authorize_unix, authorize_windows
    <3> QED
      BY <1>7, <3>1 DEF vars, Row, ControlInv
  <2> QED
    BY <2>1, <2>2 DEF ControlInv
<1> QED
  BY <1>1, <1>2, <1>3, <1>4, <1>5, <1>6, <1>7 DEF Next

\* The invariant holds in every reachable state.
LEMMA ControlSafe == Spec => []ControlInv
  BY ControlInit, ControlNext, PTL DEF Spec

\* The Hello was read exactly when fewer frames are unread than were sent.
LEMMA HelloReadIsCounted ==
    ASSUME ControlInv, NEW c \in Clients
    PROVE  HelloRead(c) <=> who[c].hello = "hello" /\ Len(inbox[c]) < cl[c].sent /\ srv[c] # "none"
<1> DEFINE p == who[c]
           k == cl[c]
           q == inbox[c]
<1>1. /\ q \in Seq({p.hello, "request"}) /\ Len(q) <= k.sent /\ k.sent <= Len(exchange(p))
      /\ \A i \in 1..Len(q) : q[i] = exchange(p)[k.sent - Len(q) + i]
      /\ k.sent \in 0..2 /\ Len(q) \in Nat /\ Len(exchange(p)) \in 0..2
  <2>1. Unread(p, k, q) /\ k \in CallState
    BY RowOf DEF RowInv
  <2>2. k.sent \in 0..2
    BY <2>1 DEF CallState
  <2> HIDE DEF p, k, q
  <2> QED
    BY <2>1, <2>2, ExchangeFacts DEF Unread
<1>2. Range(q) = {q[i] : i \in 1..Len(q)}
  BY <1>1 DEF Range
<1> HIDE DEF p, k, q
<1>3. ASSUME p.hello = "hello", k.sent > 0, Len(q) = k.sent
      PROVE  "hello" \in Range(q)
  <2>1. 1 \in 1..Len(q) /\ k.sent - Len(q) + 1 = 1 /\ Len(exchange(p)) > 0
    BY <1>1, <1>3
  <2>2. q[1] = exchange(p)[1]
    BY <1>1, <2>1
  <2>3. exchange(p)[1] = "hello"
    BY <1>3, <2>1, ExchangeFacts
  <2> QED
    BY <1>2, <2>1, <2>2, <2>3
<1>4. ASSUME Len(q) < k.sent
      PROVE  "hello" \notin Range(q) /\ k.sent > 0
  <2>1. ASSUME NEW i \in 1..Len(q)
        PROVE  q[i] = "request"
    <3>1. k.sent - Len(q) + i = 2 /\ Len(exchange(p)) = 2
      BY <1>1, <1>4
    <3> QED
      BY <1>1, <3>1, ExchangeFacts
  <2>2. k.sent > 0
    BY <1>1, <1>4
  <2> QED
    BY <1>2, <2>1, <2>2
<1>5. Len(q) < k.sent \/ Len(q) = k.sent
  BY <1>1
<1>6. k.sent > 0 \/ k.sent = 0
  BY <1>1
<1>7. HelloRead(c) <=> /\ p.hello = "hello" /\ k.sent > 0 /\ "hello" \notin Range(q) /\ srv[c] # "none"
  BY DEF HelloRead, p, k, q
<1>8. p.hello = "hello" /\ k.sent > 0 /\ "hello" \notin Range(q) <=> p.hello = "hello" /\ Len(q) < k.sent
  BY <1>3, <1>4, <1>5
<1> QED
  BY <1>7, <1>8 DEF p, k, q

\* The channel's variables keep their types; no more connections wait than
\* the backlog holds (control/unix.rs, control/windows.rs).
THEOREM ControlTypes == Spec => []TypeOK
<1>1. ControlInv => TypeOK
  <2> SUFFICES ASSUME ControlInv
               PROVE  TypeOK
    OBVIOUS
  <2>1. \A c \in Clients : /\ cl[c] \in CallState /\ srv[c] \in TaskState
                           /\ say[c] \in ReplyOrNone /\ out[c] \in ReplyOrNone
    BY DEF ControlInv, Row, RowInv
  <2>2. /\ cl \in [Clients -> CallState] /\ srv \in [Clients -> TaskState]
        /\ say \in [Clients -> ReplyOrNone] /\ out \in [Clients -> ReplyOrNone]
    BY <2>1 DEF ControlInv, Tables, PerClient
  <2>3. \A c \in Clients : Len(inbox[c]) <= 2
    <3> TAKE c \in Clients
    <3>1. Unread(who[c], cl[c], inbox[c])
      BY RowOf DEF RowInv
    <3>2. Len(inbox[c]) \in Nat /\ Len(inbox[c]) <= cl[c].sent
      BY <3>1 DEF Unread
    <3>3. cl[c].sent \in 0..2
      BY RowOf DEF CallState
    <3> QED
      BY <3>2, <3>3
  <2> QED
    BY <2>2, <2>3 DEF TypeOK, ControlInv, QueueInv, CallState, TaskState, ReplyOrNone, NoReply
<1> QED
  BY <1>1, ControlSafe, PTL

\* A client that a reply was written for is never left blocked or broken
\* (drain_pending_request in handle_conn).
THEOREM NoReplyIsMasked == Spec => []ReplyNotMasked
<1>1. ControlInv => ReplyNotMasked
  BY RowOf DEF ReplyNotMasked, RowInv, ReplyAt
<1> QED
  BY <1>1, ControlSafe, PTL

\* Who is turned away is in the log, who is not authorized is not served,
\* and what is served is in the log (handle_conn, dispatch).
THEOREM AdminIsAudited == Spec => []AdminAudit
<1>1. ControlInv => AdminAudit
  <2> SUFFICES ASSUME ControlInv, NEW c \in Clients
               PROVE  /\ HelloRead(c) /\ ~Authorized(c) => <<c, "Deny">> \in audit
                      /\ srv[c] = "dispatch" \/ say[c].kind = "Answer" =>
                            HelloRead(c) /\ Authorized(c)
                      /\ Audited(c, who[c], say[c], audit)
    BY DEF AdminAudit, Audited
  <2>1. LoggedAt(c, who[c], Authorized(c), cl[c], inbox[c], srv[c], say[c], audit)
    BY RowOf DEF RowInv
  <2>2. HelloRead(c) <=> who[c].hello = "hello" /\ Len(inbox[c]) < cl[c].sent /\ srv[c] # "none"
    BY HelloReadIsCounted
  <2> QED
    BY <2>1, <2>2 DEF LoggedAt
<1> QED
  BY <1>1, ControlSafe, PTL
=============================================================================
