------------------------------ MODULE SvrMain ------------------------------
(***************************************************************************)
(* The daemon's connection loop (main_noinetd() of svr-main.c) and, of the *)
(* sessions it forks, what the loop can see of them: a pipe whose write    *)
(* end a session keeps until it is authenticated or gone (svr-auth.c).     *)
(*                                                                         *)
(* The loop is one thread, but sessions, clients and signals go on between *)
(* any two of its steps.  A session and the pipe made for it have one      *)
(* name; the name is used again when no slot holds that pipe any more.     *)
(***************************************************************************)
EXTENDS Integers, Sequences, FiniteSets

CONSTANTS
    Session,             \* names for connections
    Addr,                \* remote addresses
    None,                \* a free slot, no session, no address
    NSock,               \* listening sockets
    MAX_UNAUTH_CLIENTS,
    MAX_UNAUTH_PER_IP,
    MaxBacklog,          \* bound: connections waiting on one socket
    MaxConnects,         \* bound: connections made
    MaxAcceptFailures,   \* bound: accept() returning -1
    MaxForkFailures,     \* bound: fork() returning -1
    MaxFds               \* descriptors left for pipes and an accepted connection

ASSUME NamesAssumption == None \notin Session /\ None \notin Addr
ASSUME LimitsAssumption ==
    /\ NSock \in Nat \ {0}
    /\ MAX_UNAUTH_CLIENTS \in Nat \ {0} /\ MAX_UNAUTH_PER_IP \in Nat \ {0}
    /\ MaxBacklog \in Nat /\ MaxConnects \in Nat /\ MaxFds \in Nat
    /\ MaxAcceptFailures \in Nat /\ MaxForkFailures \in Nat

Sock == 1..NSock
Slot == 0..(MAX_UNAUTH_CLIENTS - 1)

VARIABLES
    \* clients and sessions
    sess,           \* life of each connection
    addr,           \* the address it comes from
    backlog,        \* connections waiting on each listening socket
    connects,
    \* the loop
    pc,
    childpipes, preauth_addrs,
    fds,            \* what select() reported and is still to be handled
    forked,         \* the child just forked and the slot chosen for it
    exitflag, eintr,
    pipeFds,        \* pipe descriptors open in the daemon
    acceptFailures, forkFailures

clientVars == <<sess, addr, backlog, connects>>
tableVars  == <<childpipes, preauth_addrs, pipeFds, acceptFailures, forkFailures>>
loopVars   == <<pc, fds, forked, exitflag, eintr>>
vars == <<clientVars, tableVars, loopVars>>

NoFds  == [slots |-> {}, socks |-> {}]
NoFork == [sess |-> None, slot |-> 0]

TypeOK ==
    /\ sess \in [Session -> {"none", "queued", "preauth", "authed"}]
    /\ addr \in [Session -> Addr \cup {None}]
    /\ backlog \in [Sock -> Seq(Session)]
    /\ connects \in Nat /\ pipeFds \in Int
    /\ acceptFailures \in Nat /\ forkFailures \in Nat
    /\ pc \in {"top", "select", "close", "accept", "register", "dead"}
    /\ childpipes \in [Slot -> Session \cup {None}]
    /\ preauth_addrs \in [Slot -> Addr \cup {None}]
    /\ fds \in [slots : SUBSET Slot, socks : SUBSET Sock]
    /\ forked \in [sess : Session \cup {None}, slot : Slot]
    /\ exitflag \in BOOLEAN /\ eintr \in BOOLEAN

Init ==
    /\ sess = [s \in Session |-> "none"] /\ addr = [s \in Session |-> None]
    /\ backlog = [k \in Sock |-> <<>>] /\ connects = 0
    /\ pc = "top"
    /\ childpipes = [j \in Slot |-> None] /\ preauth_addrs = [j \in Slot |-> None]
    /\ fds = NoFds /\ forked = NoFork
    /\ exitflag = FALSE /\ eintr = FALSE
    /\ pipeFds = 0 /\ acceptFailures = 0 /\ forkFailures = 0

-----------------------------------------------------------------------------
Occupied == {j \in Slot : childpipes[j] # None}
Preauth  == {s \in Session : sess[s] = "preauth"}

\* The read end is readable (EOF) once no session holds the write end.
ReadySlots == {j \in Occupied : sess[childpipes[j]] # "preauth"}
ReadySocks == {k \in Sock : backlog[k] # <<>>}

\* num_unauthed_total, num_unauthed_for_addr
UnauthedFor(a) == {j \in Occupied : preauth_addrs[j] = a}

AtLimit_OffByOne(a) ==
    \/ Cardinality(Occupied) >= MAX_UNAUTH_CLIENTS
    \/ Cardinality(UnauthedFor(a)) > MAX_UNAUTH_PER_IP

AtLimit(a) ==
    \/ Cardinality(Occupied) >= MAX_UNAUTH_CLIENTS
    \/ Cardinality(UnauthedFor(a)) >= MAX_UNAUTH_PER_IP

\* conn_idx: the last slot that is free.
ConnIdx(j) == j \notin Occupied /\ \A l \in Slot \ Occupied : l <= j

-----------------------------------------------------------------------------
(* Clients, sessions and signals.                                          *)

Connect(s, a, k) ==
    /\ pc # "dead" /\ connects < MaxConnects /\ Len(backlog[k]) < MaxBacklog
    /\ sess[s] = "none" /\ forked.sess # s /\ \A j \in Slot : childpipes[j] # s
    /\ sess' = [sess EXCEPT ![s] = "queued"]
    /\ addr' = [addr EXCEPT ![s] = a]
    /\ backlog' = [backlog EXCEPT ![k] = Append(@, s)]
    /\ connects' = connects + 1
    /\ UNCHANGED <<tableVars, loopVars>>

\* send_msg_userauth_success(): the session closes its end of the pipe.
Authenticate(s) ==
    /\ sess[s] = "preauth"
    /\ sess' = [sess EXCEPT ![s] = "authed"]
    /\ UNCHANGED <<addr, backlog, connects, tableVars, loopVars>>

\* A signal interrupts select() if the loop is in it.
Interrupts == eintr' = (eintr \/ pc = "select")

\* The session exits: disconnected, failed, AUTH_TIMEOUT.  SIGCHLD is sent.
Leave(s) ==
    /\ sess[s] \in {"preauth", "authed"}
    /\ sess' = [sess EXCEPT ![s] = "none"]
    /\ Interrupts
    /\ UNCHANGED <<addr, backlog, connects, tableVars, pc, fds, forked, exitflag>>

\* sigintterm_handler()
Sigterm ==
    /\ pc # "dead" /\ ~exitflag
    /\ exitflag' = TRUE
    /\ Interrupts
    /\ UNCHANGED <<clientVars, tableVars, pc, fds, forked>>

\* The process ends: waiting connections are reset, the sessions go on.
Ends ==
    /\ pc' = "dead"
    /\ sess' = [s \in Session |-> IF sess[s] = "queued" THEN "none" ELSE sess[s]]
    /\ backlog' = [k \in Sock |-> <<>>]

\* SIGKILL, from SshdService.stopSshd()
Sigkill ==
    /\ pc # "dead" /\ Ends
    /\ UNCHANGED <<addr, connects, tableVars, fds, forked, exitflag, eintr>>

-----------------------------------------------------------------------------
(* The loop.                                                               *)

EnterSelect ==
    /\ pc = "top"
    /\ pc' = "select"
    /\ UNCHANGED <<clientVars, tableVars, fds, forked, exitflag, eintr>>

Terminates_OnlyInterrupted ==
    /\ pc = "select" /\ exitflag /\ eintr
    /\ Ends
    /\ eintr' = FALSE
    /\ UNCHANGED <<addr, connects, tableVars, fds, forked, exitflag>>

\* "if (ses.exitflag)", the first thing after select() returns.
Terminates ==
    /\ pc = "select" /\ exitflag
    /\ eintr \/ ReadySlots # {} \/ ReadySocks # {}
    /\ Ends
    /\ eintr' = FALSE
    /\ UNCHANGED <<addr, connects, tableVars, fds, forked, exitflag>>

SelectInterrupted ==
    /\ pc = "select" /\ ~exitflag /\ eintr
    /\ pc' = "top" /\ eintr' = FALSE
    /\ UNCHANGED <<clientVars, tableVars, fds, forked, exitflag>>

SelectReturns_SocketsOnly ==
    /\ pc = "select" /\ ~exitflag
    /\ ReadySocks # {}
    /\ fds' = [slots |-> {}, socks |-> ReadySocks]
    /\ pc' = "close" /\ eintr' = FALSE
    /\ UNCHANGED <<clientVars, tableVars, forked, exitflag>>

SelectReturns ==
    /\ pc = "select" /\ ~exitflag
    /\ ReadySlots # {} \/ ReadySocks # {}
    /\ fds' = [slots |-> ReadySlots, socks |-> ReadySocks]
    /\ pc' = "close" /\ eintr' = FALSE
    /\ UNCHANGED <<clientVars, tableVars, forked, exitflag>>

AfterClose == IF fds.socks = {} THEN "top" ELSE "accept"

ClosePipes_KeepsFd ==
    /\ pc = "close"
    /\ childpipes' = [j \in Slot |-> IF j \in fds.slots THEN None ELSE childpipes[j]]
    /\ preauth_addrs' = [j \in Slot |-> IF j \in fds.slots THEN None ELSE preauth_addrs[j]]
    /\ fds' = [fds EXCEPT !.slots = {}]
    /\ pc' = AfterClose
    /\ UNCHANGED <<clientVars, pipeFds, acceptFailures, forkFailures, forked, exitflag, eintr>>

\* "close fds which have been authed or closed"
ClosePipes ==
    /\ pc = "close"
    /\ childpipes' = [j \in Slot |-> IF j \in fds.slots THEN None ELSE childpipes[j]]
    /\ preauth_addrs' = [j \in Slot |-> IF j \in fds.slots THEN None ELSE preauth_addrs[j]]
    /\ pipeFds' = pipeFds - Cardinality(fds.slots)
    /\ fds' = [fds EXCEPT !.slots = {}]
    /\ pc' = AfterClose
    /\ UNCHANGED <<clientVars, acceptFailures, forkFailures, forked, exitflag, eintr>>

\* The next socket that was reported.
NextSock(k) == k \in fds.socks /\ \A l \in fds.socks : k <= l

\* accept() takes the oldest connection.
Accepts(k, s) ==
    /\ pc = "accept" /\ NextSock(k)
    /\ s = Head(backlog[k])
    /\ backlog' = [backlog EXCEPT ![k] = Tail(@)]

Handled(k) ==
    /\ fds' = [fds EXCEPT !.socks = @ \ {k}]
    /\ pc' = IF fds.socks = {k} THEN "top" ELSE "accept"

\* "accept failed": the connection waits for the next select().
AcceptFails(k) ==
    /\ pc = "accept" /\ NextSock(k) /\ acceptFailures < MaxAcceptFailures
    /\ acceptFailures' = acceptFailures + 1
    /\ Handled(k)
    /\ UNCHANGED <<clientVars, childpipes, preauth_addrs, pipeFds, forkFailures, forked,
                   exitflag, eintr>>

Refuse_NoClose(k, s) ==
    /\ Accepts(k, s) /\ Handled(k)
    /\ UNCHANGED <<sess, addr, connects, childpipes, preauth_addrs, acceptFailures, forked,
                   exitflag, eintr>>

\* "goto out": the connection is closed.
Refuse(k, s) ==
    /\ Accepts(k, s) /\ Handled(k)
    /\ sess' = [sess EXCEPT ![s] = "none"]
    /\ UNCHANGED <<addr, connects, childpipes, preauth_addrs, acceptFailures, forked,
                   exitflag, eintr>>

RefuseAtLimit(k, s) ==
    /\ AtLimit(addr[s])
    /\ Refuse(k, s)
    /\ UNCHANGED <<pipeFds, forkFailures>>

\* pipe() takes two descriptors, the connection itself holds one.
PipeFits == pipeFds + 3 <= MaxFds

PipeFails(k, s) ==
    /\ ~AtLimit(addr[s]) /\ ~PipeFits
    /\ Refuse(k, s)
    /\ UNCHANGED <<pipeFds, forkFailures>>

\* Both ends of the pipe stay open.
ForkFails(k, s) ==
    /\ ~AtLimit(addr[s]) /\ PipeFits /\ forkFailures < MaxForkFailures
    /\ Refuse(k, s)
    /\ pipeFds' = pipeFds + 2
    /\ forkFailures' = forkFailures + 1

\* fork(): from here on the child is a session of its own.
Fork(k, s) ==
    /\ ~AtLimit(addr[s]) /\ PipeFits
    /\ Accepts(k, s)
    /\ sess' = [sess EXCEPT ![s] = "preauth"]
    /\ \E j \in Slot : ConnIdx(j) /\ forked' = [sess |-> s, slot |-> j]
    /\ pipeFds' = pipeFds + 2
    /\ pc' = "register"
    /\ UNCHANGED <<addr, connects, childpipes, preauth_addrs, acceptFailures, forkFailures,
                   fds, exitflag, eintr>>

Register_NoAddr ==
    /\ pc = "register"
    /\ childpipes' = [childpipes EXCEPT ![forked.slot] = forked.sess]
    /\ UNCHANGED preauth_addrs
    /\ pipeFds' = pipeFds - 1
    /\ forked' = NoFork
    /\ \E k \in Sock : NextSock(k) /\ Handled(k)
    /\ UNCHANGED <<clientVars, acceptFailures, forkFailures, exitflag, eintr>>

\* The parent notes the read end and closes the write end.
Register ==
    /\ pc = "register"
    /\ childpipes' = [childpipes EXCEPT ![forked.slot] = forked.sess]
    /\ preauth_addrs' = [preauth_addrs EXCEPT ![forked.slot] = addr[forked.sess]]
    /\ pipeFds' = pipeFds - 1
    /\ forked' = NoFork
    /\ \E k \in Sock : NextSock(k) /\ Handled(k)
    /\ UNCHANGED <<clientVars, acceptFailures, forkFailures, exitflag, eintr>>

AcceptStep ==
    \E k \in Sock :
        \/ AcceptFails(k)
        \/ \E s \in Session :
              RefuseAtLimit(k, s) \/ PipeFails(k, s) \/ ForkFails(k, s) \/ Fork(k, s)

Loop ==
    \/ EnterSelect \/ Terminates \/ SelectInterrupted \/ SelectReturns
    \/ ClosePipes \/ AcceptStep \/ Register

Next ==
    \/ \E s \in Session :
          \/ \E a \in Addr, k \in Sock : Connect(s, a, k)
          \/ Authenticate(s) \/ Leave(s)
    \/ Sigterm \/ Sigkill \/ Loop

Spec == Init /\ [][Next]_vars

\* The daemon is scheduled, and AUTH_TIMEOUT ends a session that does not
\* authenticate.  Nothing is assumed of clients, signals or other sessions.
\* A step of the loop shows in pc or fds; signals are the only others that do.
FairSpec ==
    /\ Spec
    /\ []<>(~ENABLED Loop) \/ []<><<TRUE>>_<<pc, fds>>
    /\ \A s \in Session : []<>(sess[s] # "preauth")

-----------------------------------------------------------------------------
(* Properties.                                                             *)

\* The limits of default_options.h hold of the sessions themselves, not only of
\* the table: every step of the loop and of its sessions is one that the promise
\* allows, or one it does not speak of.
Pool == INSTANCE PreauthPool WITH
            NoAddr <- None, MaxTotal <- MAX_UNAUTH_CLIENTS, MaxPerAddr <- MAX_UNAUTH_PER_IP,
            who <- [s \in Session |-> IF sess[s] = "preauth" THEN addr[s] ELSE None]
LimitsKept == Pool!Spec

\* While the daemon lives, a session that is not authenticated has a slot of its
\* own, under its address, or is about to get it: no slot is released or taken
\* over too early, however the session's exit races the parent's bookkeeping.
SlotOwned ==
    pc # "dead" => \A s \in Preauth :
        \/ pc = "register" /\ forked.sess = s
        \/ \E j \in Slot : childpipes[j] = s /\ preauth_addrs[j] = addr[s]

\* Every descriptor of a pipe is accounted for: one for each slot in use, two
\* while a child is being registered, and two for every fork() that failed,
\* which are never closed again.
DescriptorsAccounted ==
    pipeFds = Cardinality(Occupied) + 2 * forkFailures + (IF forked.sess = None THEN 0 ELSE 2)

\* "if we fail, we might end up leaking connection slots, and disallow new
\* logins": the slot of a session that authenticated or ended is given back.
SlotReclaimed ==
    \A j \in Slot : []<>(j \notin ReadySlots \/ pc = "dead")

\* No connection is left waiting for ever.
ConnectionDecided == \A s \in Session : []<>(sess[s] # "queued")

\* A termination signal is acted upon, wherever it met the loop, once there is
\* something for the next select() to report.  (One that comes between the test
\* of exitflag and select() waits for that: nothing else wakes the loop.)
SigtermNoticed ==
    (exitflag /\ pc \in {"top", "select"} /\ ReadySocks # {}) ~> (pc = "dead")
=============================================================================
