---------------------------- MODULE PreauthPool ----------------------------
(***************************************************************************)
(* What the daemon promises about clients that have not authenticated yet  *)
(* (default_options.h, "Specify the number of clients we will allow to be  *)
(* connected but not yet authenticated"): a connection is admitted only    *)
(* while fewer than MaxTotal others are in that state, and fewer than      *)
(* MaxPerAddr of the same address.  Nothing is said of tables or pipes.    *)
(***************************************************************************)
EXTENDS Naturals, FiniteSets

CONSTANTS Session, Addr, NoAddr, MaxTotal, MaxPerAddr

VARIABLE who        \* the address of every unauthenticated client, or NoAddr

From(A) == {s \in Session : who[s] \in A}

Init == who = [s \in Session |-> NoAddr]

Admit(s, a) ==
    /\ who[s] = NoAddr
    /\ Cardinality(From(Addr)) < MaxTotal
    /\ Cardinality(From({a})) < MaxPerAddr
    /\ who' = [who EXCEPT ![s] = a]

\* Authenticated, disconnected or timed out.
Leave(s) == who[s] # NoAddr /\ who' = [who EXCEPT ![s] = NoAddr]

Next == \E s \in Session : Leave(s) \/ \E a \in Addr : Admit(s, a)

Spec == Init /\ [][Next]_who
=============================================================================
