----------------------------- MODULE MySqlSession -----------------------------
(***************************************************************************)
(* One MySQL client connection: handshake of mw-net/src/mysql_server.rs,   *)
(* serve_session and handle_com_query of router.rs, over the packets of    *)
(* framing.rs and wire.rs.                                                 *)
(*                                                                         *)
(* A packet is its kind and its sequence number, which is a byte and wraps *)
(* (SeqNums is 256 in the code).  A statement in Wide has a character of   *)
(* several bytes across byte 64.  Left out: capabilities, charsets, cell   *)
(* values, wording.                                                        *)
(***************************************************************************)
EXTENDS Session

CONSTANTS
    SeqNums,   \* how many sequence numbers there are
    Wide      \* texts that cannot be sliced at byte 64

ASSUME MySqlAssumption ==
    SeqNums \in Nat \ {0, 1} /\ Wide \subseteq Texts

VARIABLES
    seq,      \* SequenceCounter
    sent      \* the number of the packet the client sent last

myVars == <<seq, sent>>

Kinds == {"greeting", "switch", "ok", "err", "columns", "column", "row", "eof"}

Packet == [kind : Kinds, seq : 0..(SeqNums - 1)]

-----------------------------------------------------------------------------
(* framing.rs *)

(* The packets of kinds, in the order in which they are written, numbered  *)
(* from the counter on.                                                    *)
Numbered(kinds, from) ==
    [i \in 1..Len(kinds) |->
        [kind |-> kinds[i], seq |-> (from + i - 1) % SeqNums]]

(* Mutant: the counter does not wrap. *)
write_packets_unwrapped(kinds, from) ==
    /\ reply' = Numbered(kinds, from)
    /\ seq' = from + Len(kinds)

write_packets(kinds, from) ==
    /\ reply' = Numbered(kinds, from)
    /\ seq' = (from + Len(kinds)) % SeqNums

(* The client's packet has the number the counter expects, which is then   *)
(* the number before the answer's.  (A packet with another number, or of   *)
(* the maximal length, ends the session: MySqlLeave.)                      *)
read_packet(got, expected) ==
    /\ got = expected
    /\ sent' = got

-----------------------------------------------------------------------------
(* The handshake. *)

greet ==
    /\ handle_one("greeting")
    /\ write_packets(<<"greeting">>, 0)
    /\ UNCHANGED sent

Verified(user_ok, token_ok) == user_ok /\ token_ok /\ auth = "NativePassword"

Verdict(user_ok, token_ok) ==
    IF Verified(user_ok, token_ok)
    THEN /\ write_packets(<<"ok">>, seq + 1)
         /\ pc' = "ready"
         /\ UNCHANGED gate
    ELSE /\ Hangup(Numbered(<<"err">>, seq + 1))
         /\ UNCHANGED seq

(* parse_handshake_response refuses a malformed or a pre-4.1 response; a   *)
(* client on another plugin, or with a response that is not 20 bytes long, *)
(* is asked for a native one.                                              *)
handshake_response(got, kind, user_ok, token_ok) ==
    /\ pc = "greeting"
    /\ read_packet(got, seq)
    /\ \/ kind = "native" /\ Verdict(user_ok, token_ok)
       \/ /\ kind = "other_plugin"
          /\ write_packets(<<"switch">>, seq + 1)
          /\ pc' = IF user_ok THEN "switch" ELSE "switch_stranger"
          /\ UNCHANGED gate
       \/ /\ kind \in {"malformed", "legacy"}
          /\ Hangup(Numbered(<<"err">>, seq + 1))
          /\ UNCHANGED seq

switch_response(got, token_ok) ==
    /\ pc \in {"switch", "switch_stranger"}
    /\ read_packet(got, seq)
    /\ Verdict(pc = "switch", token_ok)

-----------------------------------------------------------------------------
(* Commands: the counter starts again at 0 with each, so the answer's      *)
(* packets are numbered from 1.                                            *)

(* serve_session: the counter is reset before each command is read. *)
read_command(got) == Serving /\ read_packet(got, 0)

AnswerPackets(kinds, gone) ==
    /\ Answer(Numbered(kinds, 1), gone)
    /\ seq' = IF gone THEN 1 ELSE (1 + Len(kinds)) % SeqNums

(* Mutant: no end packet after the rows. *)
result_packets_open(cols, n) ==
    IF cols = 0 THEN <<"ok">>
    ELSE <<"columns">> \o [i \in 1..cols |-> "column"] \o [i \in 1..n |-> "row"]

(* What query_iter's result is written as: the columns, the rows and an    *)
(* end packet, or one OK packet.                                           *)
result_packets(cols, n) ==
    IF cols = 0 THEN <<"ok">>
    ELSE <<"columns">> \o [i \in 1..cols |-> "column"]
                       \o [i \in 1..n |-> "row"] \o <<"eof">>

(* The reason of a refusal is logged with the first 64 bytes of the text,  *)
(* which panics inside a character; then comes the event, then the ERR     *)
(* packet.  The Allow event comes after the result is written; a row       *)
(* stream that breaks, or a row too large for a packet, ends the session   *)
(* with neither an end packet nor an event.                                *)
handle_com_query(t, cols, n, gone) ==
    /\ read_command(0)
    /\ Asks(t)
    /\ \/ /\ t \in Denied \intersect Wide
          /\ Panic
          /\ UNCHANGED <<ran, audit, seq>>
       \/ /\ t \notin Wide
          /\ Refused(t)
          /\ AnswerPackets(<<"err">>, gone)
       \/ /\ t \notin Denied
          /\ emit(Event(t, "Error", "pool"))
          /\ AnswerPackets(<<"err">>, gone)
          /\ UNCHANGED ran
       \/ /\ Failed(t, Event(t, "Error", "backend"))
          /\ AnswerPackets(<<"err">>, gone)
       \/ /\ Done(t, gone)
          /\ AnswerPackets(result_packets(cols, n), gone)

Ping(gone) ==
    /\ read_command(0)
    /\ AnswerPackets(<<"ok">>, gone)
    /\ UNCHANGED gate

OtherCommand(gone) ==
    /\ read_command(0)
    /\ AnswerPackets(<<"err">>, gone)
    /\ UNCHANGED gate

(* COM_QUIT, the end of the stream, an empty packet, one out of order or   *)
(* one of the maximal length.                                              *)
MySqlLeave ==
    /\ pc \in {"greeting", "switch", "switch_stranger", "ready"}
    /\ Hangup(<<>>)
    /\ UNCHANGED myVars

MySqlNext ==
    \/ greet
    \/ \E got \in 0..(SeqNums - 1) :
        \/ \E kind \in {"native", "other_plugin", "malformed", "legacy"},
              user_ok, token_ok \in BOOLEAN :
                handshake_response(got, kind, user_ok, token_ok)
        \/ \E token_ok \in BOOLEAN : switch_response(got, token_ok)
    \/ \E t \in Texts, cols \in 0..1, n \in 0..MaxRows, gone \in BOOLEAN :
            handle_com_query(t, cols, n, gone)
    \/ \E gone \in BOOLEAN : Ping(gone) \/ OtherCommand(gone)
    \/ MySqlLeave

-----------------------------------------------------------------------------
Terminators == {"ok", "err", "eof"}

(* The client can tell that no packet of an answer is missing and where    *)
(* the answer ends: the first number follows the one it sent, the others   *)
(* follow one by one, wrapping at SeqNums, and once it is logged in exactly*)
(* one terminator comes, at the end (SequenceCounter, handle_com_query).   *)
AnswerIsFramed ==
    pc # "greeting" =>
        /\ \A i \in DOMAIN reply :
              reply[i].seq = (IF i = 1 THEN sent + 1 ELSE reply[i - 1].seq + 1) % SeqNums
        /\ \A i \in DOMAIN reply :
              Serving => (reply[i].kind \in Terminators <=> i = Len(reply))
=============================================================================
