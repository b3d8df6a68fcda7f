------------------------------ MODULE MCControl ------------------------------
(***************************************************************************)
(* Instances of Control: two permits and three connections, so that one    *)
(* waits for a permit.                                                     *)
(***************************************************************************)
EXTENDS Control

Admin    == [known |-> TRUE, root |-> FALSE, primary |-> FALSE, member |-> TRUE]
Root     == [known |-> TRUE, root |-> TRUE, primary |-> FALSE, member |-> FALSE]
Stranger == [known |-> TRUE, root |-> FALSE, primary |-> FALSE, member |-> FALSE]
Nobody   == [known |-> FALSE, root |-> TRUE, primary |-> TRUE, member |-> TRUE]

Profile(hello, request, big, reads, peer) ==
    [hello |-> hello, request |-> request, big |-> big, reads |-> reads, peer |-> peer]

MCSettings == {<<"unix", TRUE>>, <<"windows", FALSE>>}

(* c1 makes whole requests, c2 stalls at some point or is another CLI, c3  *)
(* never reads.                                                            *)
Together(ones, twos) ==
    [c1 : ones, c2 : twos, c3 : {Profile("hello", "list", FALSE, FALSE, Admin)}]

Mint == Profile("hello", "mint", TRUE, TRUE, Admin)

MCProfiles ==
    Together({Mint,
              Profile("hello", "audit_tail", FALSE, TRUE, Root),
              Profile("hello", "mutation", TRUE, TRUE, Stranger),
              Profile("old", "mutation", TRUE, TRUE, Admin)},
             {Profile("hello", "none", FALSE, TRUE, Nobody),
              Profile("none", "none", FALSE, TRUE, Admin)})
    \union
    Together({Mint},
             {Profile("hello", "none", FALSE, TRUE, Admin),
              Profile("hello", "set_policy", FALSE, TRUE, Admin),
              Profile("hello", "hello", FALSE, TRUE, Admin)})
=============================================================================
