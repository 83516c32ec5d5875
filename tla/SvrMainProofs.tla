--------------------------- MODULE SvrMainProofs ---------------------------
(***************************************************************************)
(* Theorems about SvrMain, for every number of listening sockets, every    *)
(* limit and any number of connections, failures and signals.              *)
(***************************************************************************)
EXTENDS SvrMain, FiniteSetTheorems, TLAPS

\* Connections that wait are waiting, each in one place.
BacklogsOK ==
    /\ \A k \in Sock : \A i \in 1..Len(backlog[k]) : sess[backlog[k][i]] = "queued"
    /\ \A k, l \in Sock : \A i \in 1..Len(backlog[k]), j \in 1..Len(backlog[l]) :
          backlog[k][i] = backlog[l][j] => k = l /\ i = j

\* A connection has an address, and one that is in a slot has been accepted.
SessionsOK ==
    /\ \A s \in Session : sess[s] # "none" => addr[s] \in Addr
    /\ \A j \in Occupied : sess[childpipes[j]] # "queued"

\* No two slots hold the same pipe.
SlotsDistinct == \A j, l \in Occupied : childpipes[j] = childpipes[l] => j = l

\* A child is pending only at "register" (or when the daemon died there): its slot
\* is free and no other holds its pipe.
ForkedOK ==
    /\ pc \notin {"register", "dead"} => forked.sess = None
    /\ pc = "register" =>
          /\ forked.sess # None /\ sess[forked.sess] # "queued"
          /\ forked.slot \notin Occupied
          /\ \A j \in Slot : childpipes[j] # forked.sess

\* What select() reported still holds when the loop comes to it.
FdsOK ==
    /\ pc = "close" => fds.slots \subseteq ReadySlots
    /\ pc \in {"close", "accept"} => \A k \in fds.socks : backlog[k] # <<>>
    /\ pc = "register" => \A k, l \in fds.socks : k < l => backlog[l] # <<>>

IInv ==
    /\ TypeOK /\ BacklogsOK /\ SessionsOK /\ SlotsDistinct /\ ForkedOK /\ FdsOK
    /\ SlotOwned /\ DescriptorsAccounted

-----------------------------------------------------------------------------
(* Facts about the slots.                                                  *)

\* The slots are finitely many, and so are those in use.
LEMMA OccupiedFinite ==
  /\ IsFiniteSet(Slot)
  /\ IsFiniteSet(Occupied) /\ Cardinality(Occupied) \in Nat
  <1>1. MAX_UNAUTH_CLIENTS - 1 \in Int
    BY LimitsAssumption
  <1>2. IsFiniteSet(Slot)
    BY <1>1, FS_Interval DEF Slot
  <1>3. Occupied \in SUBSET Slot
    BY DEF Occupied
  <1> QED BY <1>2, <1>3, FS_Subset, FS_CardinalityType

\* Slot numbers are natural numbers, and 0 is one.
LEMMA SlotFacts == 0 \in Slot /\ NoFork \in [sess : Session \cup {None}, slot : Slot]
  BY LimitsAssumption DEF Slot, NoFork

\* A connection waits in one place.
LEMMA WaitsOnce ==
  ASSUME BacklogsOK, NEW k \in Sock, NEW l \in Sock, NEW i \in 1..Len(backlog[k]),
         NEW j \in 1..Len(backlog[l]), backlog[k][i] = backlog[l][j]
  PROVE  k = l /\ i = j
  <1>1. \A p \in 1..Len(backlog[k]), q \in 1..Len(backlog[l]) :
            backlog[k][p] = backlog[l][q] => k = l /\ p = q
    BY Zenon DEF BacklogsOK
  <1> QED BY <1>1

\* The daemon starts with no connection and an empty table.
LEMMA InitIInv == Init => IInv
  <1> SUFFICES ASSUME Init PROVE IInv
    OBVIOUS
  <1> USE NamesAssumption, LimitsAssumption DEF Init
  <1>1. TypeOK
    <2>1. backlog \in [Sock -> Seq(Session)]
      OBVIOUS
    <2>2. fds \in [slots : SUBSET Slot, socks : SUBSET Sock]
      BY DEF NoFds
    <2>3. /\ sess \in [Session -> {"none", "queued", "preauth", "authed"}]
          /\ addr \in [Session -> Addr \cup {None}]
          /\ childpipes \in [Slot -> Session \cup {None}]
          /\ preauth_addrs \in [Slot -> Addr \cup {None}]
      OBVIOUS
    <2>4. exitflag \in BOOLEAN /\ eintr \in BOOLEAN
      OBVIOUS
    <2>5. forked \in [sess : Session \cup {None}, slot : Slot]
      BY SlotFacts
    <2>6. /\ connects \in Nat /\ pipeFds \in Int /\ acceptFailures \in Nat /\ forkFailures \in Nat
          /\ pc \in {"top", "select", "close", "accept", "register", "dead"}
      OBVIOUS
    <2> QED BY <2>1, <2>2, <2>3, <2>4, <2>5, <2>6 DEF TypeOK
  <1>2. BacklogsOK
    BY DEF BacklogsOK
  <1>3. Occupied = {}
    BY DEF Occupied
  <1>4. SessionsOK /\ SlotsDistinct /\ ForkedOK /\ FdsOK
    BY <1>3 DEF SessionsOK, SlotsDistinct, ForkedOK, FdsOK, NoFork, NoFds
  <1>5. SlotOwned
    BY DEF SlotOwned, Preauth
  <1>6. DescriptorsAccounted
    BY <1>3, FS_EmptySet DEF DescriptorsAccounted, NoFork
  <1> QED BY <1>1, <1>2, <1>4, <1>5, <1>6 DEF IInv

-----------------------------------------------------------------------------
(* Clients, sessions and signals.                                          *)

\* A new connection takes a name that no backlog, slot or pending child uses.
LEMMA StepConnect ==
  ASSUME IInv, NEW s \in Session, NEW a \in Addr, NEW k \in Sock, Connect(s, a, k)
  PROVE  IInv'
  <1> USE NamesAssumption, LimitsAssumption DEF IInv
  <1>1. /\ sess[s] = "none" /\ forked.sess # s /\ \A j \in Slot : childpipes[j] # s
        /\ sess' = [sess EXCEPT ![s] = "queued"] /\ addr' = [addr EXCEPT ![s] = a]
        /\ backlog' = [backlog EXCEPT ![k] = Append(backlog[k], s)]
        /\ connects' = connects + 1 /\ pc # "dead"
        /\ UNCHANGED <<childpipes, preauth_addrs, pipeFds, acceptFailures, forkFailures,
                       pc, fds, forked, exitflag, eintr>>
    BY DEF Connect, tableVars, loopVars
  <1>2. TypeOK'
    BY <1>1 DEF TypeOK
  <1>3. /\ Len(backlog[k]) \in Nat /\ Len(backlog'[k]) = Len(backlog[k]) + 1
        /\ backlog'[k][Len(backlog[k]) + 1] = s
        /\ \A i \in 1..Len(backlog[k]) : backlog'[k][i] = backlog[k][i]
        /\ \A l \in Sock \ {k} : backlog'[l] = backlog[l]
        /\ \A l \in Sock : Len(backlog[l]) \in Nat /\ \A i \in 1..Len(backlog[l]) : backlog[l][i] \in Session
    BY <1>1 DEF TypeOK
  <1>4. \A l \in Sock : \A i \in 1..Len(backlog[l]) : backlog[l][i] # s
    BY <1>1 DEF BacklogsOK
  <1>5. BacklogsOK'
    <2>1. ASSUME NEW l \in Sock, NEW i \in 1..Len(backlog'[l])
          PROVE  \/ i \in 1..Len(backlog[l]) /\ backlog'[l][i] = backlog[l][i]
                 \/ l = k /\ i = Len(backlog[k]) + 1 /\ backlog'[l][i] = s
      BY <1>3
    <2>2. ASSUME NEW l \in Sock, NEW i \in 1..Len(backlog'[l])
          PROVE  sess'[backlog'[l][i]] = "queued"
      BY <2>1, <1>1, <1>3 DEF BacklogsOK, TypeOK
    <2>3. ASSUME NEW l \in Sock, NEW m \in Sock, NEW i \in 1..Len(backlog'[l]),
                 NEW j \in 1..Len(backlog'[m]), backlog'[l][i] = backlog'[m][j]
          PROVE  l = m /\ i = j
      <3>1. CASE i \in 1..Len(backlog[l]) /\ backlog'[l][i] = backlog[l][i]
        <4>1. j \in 1..Len(backlog[m]) /\ backlog'[m][j] = backlog[m][j]
          BY <2>1, <2>3, <3>1, <1>4
        <4>2. backlog[l][i] = backlog[m][j]
          BY <2>3, <3>1, <4>1
        <4> QED BY <3>1, <4>1, <4>2, WaitsOnce
      <3>2. CASE l = k /\ i = Len(backlog[k]) + 1 /\ backlog'[l][i] = s
        <4>1. m = k /\ j = Len(backlog[k]) + 1
          BY <2>1, <2>3, <3>2, <1>4
        <4> QED BY <3>2, <4>1
      <3> QED BY <3>1, <3>2, <2>1
    <2> QED BY <2>2, <2>3 DEF BacklogsOK
  <1>6. SessionsOK' /\ SlotsDistinct'
    BY <1>1 DEF SessionsOK, SlotsDistinct, Occupied, TypeOK
  <1>7. ForkedOK'
    BY <1>1 DEF ForkedOK, Occupied, TypeOK
  <1>8. FdsOK'
    <2>1. \A l \in Sock : backlog[l] # <<>> => backlog'[l] # <<>>
      BY <1>3
    <2>2. ReadySlots' = ReadySlots
      BY <1>1 DEF ReadySlots, Occupied, TypeOK
    <2>3. fds.socks \subseteq Sock
      BY DEF TypeOK
    <2> QED BY <1>1, <2>1, <2>2, <2>3 DEF FdsOK
  <1>9. SlotOwned' /\ DescriptorsAccounted'
    BY <1>1 DEF SlotOwned, DescriptorsAccounted, Occupied, Preauth, TypeOK
  <1> QED BY <1>2, <1>5, <1>6, <1>7, <1>8, <1>9

\* A session that authenticates or exits makes its slot ready and disturbs no other.
LEMMA StepSession ==
  ASSUME IInv, NEW s \in Session, Authenticate(s) \/ Leave(s)
  PROVE  IInv'
  <1> USE NamesAssumption, LimitsAssumption DEF IInv
  <1>1. PICK l \in {"none", "authed"} :
            /\ sess[s] \in {"preauth", "authed"} /\ sess' = [sess EXCEPT ![s] = l]
            /\ UNCHANGED <<addr, backlog, connects, childpipes, preauth_addrs, pipeFds,
                           acceptFailures, forkFailures, pc, fds, forked, exitflag>>
            /\ eintr' \in BOOLEAN
    BY DEF Authenticate, Leave, Interrupts, tableVars, loopVars, TypeOK
  <1>2. TypeOK'
    BY <1>1 DEF TypeOK
  <1>3. BacklogsOK'
    BY <1>1 DEF BacklogsOK, TypeOK
  <1>4. SessionsOK' /\ SlotsDistinct'
    BY <1>1 DEF SessionsOK, SlotsDistinct, Occupied, TypeOK
  <1>5. ForkedOK'
    BY <1>1 DEF ForkedOK, Occupied, TypeOK
  <1>6. FdsOK'
    BY <1>1 DEF FdsOK, ReadySlots, Occupied, TypeOK
  <1>7. SlotOwned' /\ DescriptorsAccounted'
    BY <1>1 DEF SlotOwned, DescriptorsAccounted, Occupied, Preauth, TypeOK
  <1> QED BY <1>2, <1>3, <1>4, <1>5, <1>6, <1>7

\* The daemon ends: the backlogs are gone, the table does not matter any more.
LEMMA StepEnds ==
  ASSUME IInv, Ends, UNCHANGED <<addr, connects, tableVars, fds, forked, exitflag>>,
         eintr' \in BOOLEAN
  PROVE  IInv'
  <1> USE NamesAssumption, LimitsAssumption DEF IInv, Ends, tableVars
  <1>1. TypeOK'
    BY DEF TypeOK
  <1>2. BacklogsOK'
    BY DEF BacklogsOK
  <1>3. SessionsOK' /\ SlotsDistinct'
    BY DEF SessionsOK, SlotsDistinct, Occupied, TypeOK
  <1>4. ForkedOK' /\ FdsOK' /\ SlotOwned'
    BY DEF ForkedOK, FdsOK, SlotOwned
  <1>5. DescriptorsAccounted'
    BY DEF DescriptorsAccounted, Occupied
  <1> QED BY <1>1, <1>2, <1>3, <1>4, <1>5

-----------------------------------------------------------------------------
(* The loop.                                                               *)

\* Signals, and the steps of the loop around select().
LEMMA StepSelect ==
  ASSUME IInv, Sigterm \/ EnterSelect \/ SelectInterrupted \/ SelectReturns
  PROVE  IInv'
  <1> USE NamesAssumption, LimitsAssumption DEF IInv
  <1>1. UNCHANGED <<sess, addr, backlog, connects, childpipes, preauth_addrs, pipeFds,
                    acceptFailures, forkFailures, forked>>
    BY DEF Sigterm, EnterSelect, SelectInterrupted, SelectReturns, clientVars, tableVars
  <1>2. TypeOK'
    <2>1. ReadySlots \in SUBSET Slot /\ ReadySocks \in SUBSET Sock
      BY DEF ReadySlots, ReadySocks, Occupied
    <2>2. /\ pc' \in {"top", "select", "close", "accept", "register", "dead"}
          /\ fds' \in [slots : SUBSET Slot, socks : SUBSET Sock]
      BY <2>1 DEF TypeOK, Sigterm, EnterSelect, SelectInterrupted, SelectReturns
    <2>3. exitflag' \in BOOLEAN /\ eintr' \in BOOLEAN
      BY DEF TypeOK, Sigterm, EnterSelect, SelectInterrupted, SelectReturns, Interrupts
    <2> QED BY <1>1, <2>2, <2>3 DEF TypeOK
  <1>3. BacklogsOK' /\ SessionsOK' /\ SlotsDistinct' /\ DescriptorsAccounted'
    BY <1>1 DEF BacklogsOK, SessionsOK, SlotsDistinct, DescriptorsAccounted, Occupied
  <1>4. ForkedOK' /\ SlotOwned'
    BY <1>1 DEF ForkedOK, SlotOwned, Occupied, Preauth, Sigterm, EnterSelect,
                SelectInterrupted, SelectReturns
  <1>5. FdsOK'
    BY <1>1 DEF FdsOK, ReadySlots, ReadySocks, Occupied, Sigterm, EnterSelect,
                SelectInterrupted, SelectReturns
  <1> QED BY <1>2, <1>3, <1>4, <1>5

\* The slots that select() reported are released, each with its descriptor; none of
\* them belongs to a session that still holds its end.
LEMMA StepClosePipes ==
  ASSUME IInv, ClosePipes
  PROVE  IInv'
  <1> USE NamesAssumption, LimitsAssumption DEF IInv
  <1>1. /\ pc = "close"
        /\ childpipes' = [j \in Slot |-> IF j \in fds.slots THEN None ELSE childpipes[j]]
        /\ preauth_addrs' = [j \in Slot |-> IF j \in fds.slots THEN None ELSE preauth_addrs[j]]
        /\ pipeFds' = pipeFds - Cardinality(fds.slots)
        /\ fds'.socks = fds.socks /\ pc' = AfterClose
        /\ UNCHANGED <<sess, addr, backlog, connects, acceptFailures, forkFailures, forked,
                       exitflag, eintr>>
    BY DEF ClosePipes, clientVars, TypeOK
  <1>2. fds.slots \subseteq ReadySlots /\ fds.slots \subseteq Occupied
    BY <1>1 DEF FdsOK, ReadySlots
  <1>3. Occupied' = Occupied \ fds.slots
    BY <1>1, <1>2 DEF Occupied
  <1>4. IsFiniteSet(fds.slots) /\ Cardinality(fds.slots) \in Nat
    BY <1>2, OccupiedFinite, FS_Subset, FS_CardinalityType
  <1>5. TypeOK'
    <2>1. pc' \in {"top", "select", "close", "accept", "register", "dead"}
      BY <1>1 DEF AfterClose
    <2>2. fds' \in [slots : SUBSET Slot, socks : SUBSET Sock] /\ pipeFds' \in Int
      BY <1>1, <1>4 DEF ClosePipes, TypeOK
    <2>3. childpipes' \in [Slot -> Session \cup {None}] /\ preauth_addrs' \in [Slot -> Addr \cup {None}]
      BY <1>1 DEF TypeOK
    <2> QED BY <1>1, <2>1, <2>2, <2>3 DEF TypeOK
  <1>6. BacklogsOK' /\ SessionsOK' /\ SlotsDistinct'
    BY <1>1, <1>3 DEF BacklogsOK, SessionsOK, SlotsDistinct, Occupied
  <1>7. ForkedOK' /\ FdsOK'
    BY <1>1 DEF ForkedOK, FdsOK, AfterClose
  <1>8. SlotOwned'
    <2>1. SUFFICES ASSUME NEW s \in Preauth PROVE \E j \in Slot : childpipes'[j] = s /\ preauth_addrs'[j] = addr[s]
      BY <1>1 DEF SlotOwned, Preauth
    <2>2. PICK j \in Slot : childpipes[j] = s /\ preauth_addrs[j] = addr[s]
      BY <1>1 DEF SlotOwned
    <2>3. j \notin fds.slots
      BY <1>2, <2>2 DEF ReadySlots, Preauth
    <2> QED BY <1>1, <2>2, <2>3
  <1>9. DescriptorsAccounted'
    <2>1. Cardinality(Occupied) = Cardinality(Occupied \ fds.slots) + Cardinality(fds.slots)
      <3>1. Occupied = (Occupied \ fds.slots) \cup fds.slots /\ (Occupied \ fds.slots) \cap fds.slots = {}
        BY <1>2
      <3>2. IsFiniteSet(Occupied \ fds.slots)
        BY OccupiedFinite, FS_Subset
      <3>3. Cardinality((Occupied \ fds.slots) \cup fds.slots)
              = Cardinality(Occupied \ fds.slots) + Cardinality(fds.slots)
                  - Cardinality((Occupied \ fds.slots) \cap fds.slots)
        BY <1>4, <3>2, FS_Union
      <3>4. Cardinality(Occupied \ fds.slots) \in Nat
        BY <3>2, FS_CardinalityType
      <3> QED BY <1>4, <3>1, <3>3, <3>4, FS_EmptySet
    <2>2. Cardinality(Occupied \ fds.slots) \in Nat
      BY OccupiedFinite, FS_Subset, FS_CardinalityType
    <2>3. pipeFds' = Cardinality(Occupied \ fds.slots) + 2 * forkFailures
                       + (IF forked.sess = None THEN 0 ELSE 2)
      BY <1>1, <1>4, <2>1, <2>2 DEF DescriptorsAccounted, TypeOK
    <2> QED BY <1>1, <1>3, <2>3 DEF DescriptorsAccounted
  <1> QED BY <1>5, <1>6, <1>7, <1>8, <1>9

\* "accept failed": the socket is left for the next round.
LEMMA StepAcceptFails ==
  ASSUME IInv, NEW k \in Sock, AcceptFails(k)
  PROVE  IInv'
  <1> USE NamesAssumption, LimitsAssumption DEF IInv
  <1>1. /\ pc = "accept" /\ pc' \in {"top", "accept"}
        /\ fds'.socks = fds.socks \ {k} /\ fds'.slots = fds.slots
        /\ fds' \in [slots : SUBSET Slot, socks : SUBSET Sock]
        /\ acceptFailures' = acceptFailures + 1
        /\ UNCHANGED <<sess, addr, backlog, connects, childpipes, preauth_addrs, pipeFds,
                       forkFailures, forked, exitflag, eintr>>
    BY DEF AcceptFails, Handled, clientVars, TypeOK
  <1>2. TypeOK'
    BY <1>1 DEF TypeOK
  <1>3. BacklogsOK' /\ SessionsOK' /\ SlotsDistinct' /\ DescriptorsAccounted'
    BY <1>1 DEF BacklogsOK, SessionsOK, SlotsDistinct, DescriptorsAccounted, Occupied
  <1>4. ForkedOK' /\ FdsOK' /\ SlotOwned'
    BY <1>1 DEF ForkedOK, FdsOK, SlotOwned, Preauth
  <1> QED BY <1>2, <1>3, <1>4

\* accept() takes a waiting connection out of its backlog and leaves the others.
LEMMA AcceptedHead ==
  ASSUME IInv, NEW k \in Sock, NEW s \in Session, Accepts(k, s),
         NEW l \in {"none", "preauth"}, sess' = [sess EXCEPT ![s] = l]
  PROVE  /\ sess[s] = "queued" /\ addr[s] \in Addr
         /\ backlog' \in [Sock -> Seq(Session)] /\ BacklogsOK'
         /\ \A m \in Sock \ {k} : backlog'[m] = backlog[m]
  <1> USE DEF IInv
  <1>1. /\ pc = "accept" /\ k \in fds.socks /\ s = Head(backlog[k])
        /\ backlog' = [backlog EXCEPT ![k] = Tail(backlog[k])]
    BY DEF Accepts, NextSock
  <1>2. backlog[k] # <<>> /\ backlog[k] \in Seq(Session)
    BY <1>1 DEF FdsOK, TypeOK
  <1>3. /\ Len(backlog[k]) \in Nat \ {0} /\ backlog[k][1] = s
        /\ Tail(backlog[k]) \in Seq(Session) /\ Len(Tail(backlog[k])) = Len(backlog[k]) - 1
        /\ \A i \in 1..(Len(backlog[k]) - 1) : Tail(backlog[k])[i] = backlog[k][i + 1]
    BY <1>1, <1>2
  <1>4. backlog' \in [Sock -> Seq(Session)] /\ \A m \in Sock \ {k} : backlog'[m] = backlog[m]
    BY <1>1, <1>3 DEF TypeOK
  <1>5. sess[s] = "queued" /\ addr[s] \in Addr
    BY <1>3 DEF BacklogsOK, SessionsOK
  <1>6. /\ backlog'[k] = Tail(backlog[k])
        /\ \A m \in Sock : Len(backlog[m]) \in Nat /\ \A i \in 1..Len(backlog[m]) : backlog[m][i] \in Session
    BY <1>1 DEF TypeOK
  <1> DEFINE P(m, i) == IF m = k THEN i + 1 ELSE i
  <1>7. ASSUME NEW m \in Sock, NEW i \in 1..Len(backlog'[m])
        PROVE  /\ P(m, i) \in 1..Len(backlog[m]) /\ backlog'[m][i] = backlog[m][P(m, i)]
               /\ backlog[m][P(m, i)] # s
    <2>1. CASE m = k
      <3>1. i + 1 \in 1..Len(backlog[k]) /\ backlog'[k][i] = backlog[k][i + 1]
        BY <2>1, <1>3, <1>6
      <3>2. backlog[k][i + 1] # s
        BY <2>1, <3>1, <1>3, <1>6 DEF BacklogsOK
      <3> QED BY <2>1, <3>1, <3>2
    <2>2. CASE m # k
      <3>1. backlog'[m] = backlog[m]
        BY <2>2, <1>4
      <3>2. 1 \in 1..Len(backlog[k])
        BY <1>3
      <3>3. backlog[m][i] # s
        BY <2>2, <3>1, <3>2, <1>3 DEF BacklogsOK
      <3> QED BY <2>2, <3>1, <3>3
    <2> QED BY <2>1, <2>2
  <1>8. BacklogsOK'
    <2>1. ASSUME NEW m \in Sock, NEW i \in 1..Len(backlog'[m])
          PROVE  sess'[backlog'[m][i]] = "queued"
      <3>1. backlog[m][P(m, i)] \in Session /\ sess[backlog[m][P(m, i)]] = "queued"
        BY <1>6, <1>7 DEF BacklogsOK
      <3> HIDE DEF P
      <3> QED BY <3>1, <1>7 DEF TypeOK
    <2>2. ASSUME NEW m \in Sock, NEW n \in Sock, NEW i \in 1..Len(backlog'[m]),
                 NEW j \in 1..Len(backlog'[n]), backlog'[m][i] = backlog'[n][j]
          PROVE  m = n /\ i = j
      <3>1. m = n /\ P(m, i) = P(n, j)
        <4> HIDE DEF P
        <4>1. /\ P(m, i) \in 1..Len(backlog[m]) /\ P(n, j) \in 1..Len(backlog[n])
              /\ backlog[m][P(m, i)] = backlog[n][P(n, j)]
          BY <1>7, <2>2
        <4> QED BY <4>1, WaitsOnce
      <3>2. i \in Int /\ j \in Int
        BY <1>4 
      <3> QED BY <3>1, <3>2
    <2> QED BY <2>1, <2>2 DEF BacklogsOK
  <1> QED BY <1>4, <1>5, <1>8

\* "goto out": a connection is refused; a fork() that failed leaves its pipe open.
LEMMA StepRefuse ==
  ASSUME IInv, NEW k \in Sock, NEW s \in Session, Refuse(k, s), NEW f \in {0, 1},
         forkFailures' = forkFailures + f, pipeFds' = pipeFds + 2 * f
  PROVE  IInv'
  <1> USE NamesAssumption, LimitsAssumption DEF IInv
  <1>1. /\ Accepts(k, s) /\ sess' = [sess EXCEPT ![s] = "none"]
        /\ pc = "accept" /\ pc' \in {"top", "accept"}
        /\ fds' = [fds EXCEPT !.socks = fds.socks \ {k}]
        /\ UNCHANGED <<addr, connects, childpipes, preauth_addrs, acceptFailures, forked,
                       exitflag, eintr>>
    BY DEF Refuse, Handled, Accepts
  <1>2. /\ sess[s] = "queued" /\ backlog' \in [Sock -> Seq(Session)] /\ BacklogsOK'
        /\ \A m \in Sock \ {k} : backlog'[m] = backlog[m]
    BY <1>1, AcceptedHead
  <1>3. TypeOK'
    <2>1. pipeFds' \in Int /\ forkFailures' \in Nat
      BY DEF TypeOK
    <2>2. /\ sess' \in [Session -> {"none", "queued", "preauth", "authed"}]
          /\ fds' \in [slots : SUBSET Slot, socks : SUBSET Sock]
          /\ pc' \in {"top", "select", "close", "accept", "register", "dead"}
      BY <1>1 DEF TypeOK
    <2> QED BY <1>1, <1>2, <2>1, <2>2 DEF TypeOK
  <1>4. SessionsOK' /\ SlotsDistinct'
    BY <1>1 DEF SessionsOK, SlotsDistinct, Occupied, TypeOK
  <1>5. ForkedOK'
    BY <1>1 DEF ForkedOK
  <1>6. FdsOK'
    <2>1. fds'.socks = fds.socks \ {k} /\ fds.socks \subseteq Sock
      BY <1>1 DEF TypeOK
    <2> QED BY <1>1, <1>2, <2>1 DEF FdsOK
  <1>7. SlotOwned'
    BY <1>1, <1>2 DEF SlotOwned, Preauth, TypeOK
  <1>8. DescriptorsAccounted'
    <2>1. Occupied' = Occupied
      BY <1>1 DEF Occupied
    <2>2. forked.sess = None /\ forked'.sess = None
      BY <1>1 DEF ForkedOK
    <2> QED BY <2>1, <2>2, OccupiedFinite DEF DescriptorsAccounted, TypeOK
  <1> QED BY <1>2, <1>3, <1>4, <1>5, <1>6, <1>7, <1>8

\* fork(): the child is pending, with the slot it will get.
LEMMA StepFork ==
  ASSUME IInv, NEW k \in Sock, NEW s \in Session, Fork(k, s)
  PROVE  IInv'
  <1> USE NamesAssumption, LimitsAssumption DEF IInv
  <1>1. PICK j \in Slot : ConnIdx(j) /\ forked' = [sess |-> s, slot |-> j]
    BY DEF Fork
  <1>2. /\ Accepts(k, s) /\ sess' = [sess EXCEPT ![s] = "preauth"] /\ NextSock(k)
        /\ pc = "accept" /\ pc' = "register" /\ pipeFds' = pipeFds + 2
        /\ UNCHANGED <<addr, connects, childpipes, preauth_addrs, acceptFailures, forkFailures,
                       fds, exitflag, eintr>>
    BY DEF Fork, Accepts
  <1>3. /\ sess[s] = "queued" /\ addr[s] \in Addr
        /\ backlog' \in [Sock -> Seq(Session)] /\ BacklogsOK'
        /\ \A m \in Sock \ {k} : backlog'[m] = backlog[m]
    BY <1>2, AcceptedHead
  <1>4. TypeOK'
    BY <1>1, <1>2, <1>3 DEF TypeOK
  <1>5. Occupied' = Occupied /\ j \notin Occupied
    BY <1>1, <1>2 DEF Occupied, ConnIdx
  <1>6. \A l \in Slot : childpipes[l] # s
    BY <1>3 DEF SessionsOK, Occupied
  <1>7. SessionsOK' /\ SlotsDistinct'
    BY <1>2, <1>3, <1>5 DEF SessionsOK, SlotsDistinct, Occupied, TypeOK
  <1>8. ForkedOK'
    BY <1>1, <1>2, <1>5, <1>6 DEF ForkedOK, TypeOK
  <1>9. FdsOK'
    <2>1. fds.socks \subseteq Sock /\ \A l \in fds.socks : k <= l /\ l \in Int
      BY <1>2 DEF NextSock, TypeOK, Sock
    <2>2. ASSUME NEW m \in fds.socks, NEW n \in fds.socks, m < n PROVE n \in Sock \ {k} /\ backlog[n] # <<>>
      BY <2>1, <2>2, <1>2 DEF FdsOK, Sock
    <2> QED BY <1>2, <1>3, <2>2 DEF FdsOK
  <1>10. SlotOwned'
    BY <1>1, <1>2 DEF SlotOwned, Preauth, TypeOK
  <1>11. DescriptorsAccounted'
    <2>1. forked.sess = None /\ forked'.sess = s /\ s # None
      BY <1>1, <1>2 DEF ForkedOK
    <2> QED BY <1>2, <1>5, <2>1, OccupiedFinite DEF DescriptorsAccounted, TypeOK
  <1> QED BY <1>3, <1>4, <1>7, <1>8, <1>9, <1>10, <1>11

\* The child gets its slot, wherever it has got to by then.
LEMMA StepRegister ==
  ASSUME IInv, Register
  PROVE  IInv'
  <1> USE NamesAssumption, LimitsAssumption DEF IInv
  <1>1. PICK k \in Sock : NextSock(k) /\ Handled(k)
    BY DEF Register
  <1>2. /\ pc = "register" /\ pc' \in {"top", "accept"}
        /\ fds' = [fds EXCEPT !.socks = fds.socks \ {k}]
        /\ childpipes' = [childpipes EXCEPT ![forked.slot] = forked.sess]
        /\ preauth_addrs' = [preauth_addrs EXCEPT ![forked.slot] = addr[forked.sess]]
        /\ pipeFds' = pipeFds - 1 /\ forked' = NoFork /\ forked'.sess = None
        /\ UNCHANGED <<sess, addr, backlog, connects, acceptFailures, forkFailures, exitflag, eintr>>
    BY <1>1 DEF Register, Handled, NoFork, clientVars
  <1>3. /\ forked.sess \in Session /\ forked.slot \in Slot /\ forked.slot \notin Occupied
        /\ sess[forked.sess] # "queued" /\ \A j \in Slot : childpipes[j] # forked.sess
    BY <1>2 DEF ForkedOK, TypeOK
  <1>4. Occupied' = Occupied \cup {forked.slot}
    BY <1>2, <1>3 DEF Occupied, TypeOK
  <1>5. TypeOK'
    <2>1. childpipes' \in [Slot -> Session \cup {None}] /\ preauth_addrs' \in [Slot -> Addr \cup {None}]
      BY <1>2, <1>3 DEF TypeOK
    <2>2. fds' \in [slots : SUBSET Slot, socks : SUBSET Sock]
      BY <1>2 DEF TypeOK
    <2>3. pc' \in {"top", "select", "close", "accept", "register", "dead"} /\ pipeFds' \in Int
      BY <1>2 DEF TypeOK
    <2> QED BY <1>2, <2>1, <2>2, <2>3, SlotFacts DEF TypeOK
  <1>6. BacklogsOK'
    <2>1. backlog' = backlog /\ sess' = sess
      BY <1>2
    <2>2. ASSUME NEW l \in Sock, NEW m \in Sock, NEW i \in 1..Len(backlog'[l]),
                 NEW j \in 1..Len(backlog'[m]), backlog'[l][i] = backlog'[m][j]
          PROVE  l = m /\ i = j
      <3>1. backlog[l][i] = backlog[m][j] /\ i \in 1..Len(backlog[l]) /\ j \in 1..Len(backlog[m])
        BY <2>1, <2>2
      <3> QED BY <3>1, WaitsOnce
    <2> QED BY <2>1, <2>2 DEF BacklogsOK
  <1>7. SessionsOK' /\ SlotsDistinct'
    <2>1. \A j \in Occupied : childpipes'[j] = childpipes[j] /\ childpipes[j] # forked.sess
      BY <1>2, <1>3 DEF Occupied, TypeOK
    <2>2. childpipes'[forked.slot] = forked.sess
      BY <1>2, <1>3 DEF TypeOK
    <2> QED BY <1>2, <1>3, <1>4, <2>1, <2>2 DEF SessionsOK, SlotsDistinct
  <1>8. ForkedOK'
    BY <1>2 DEF ForkedOK
  <1>9. FdsOK'
    <2>1. /\ fds'.socks = fds.socks \ {k} /\ fds.socks \subseteq Sock
          /\ k \in fds.socks /\ \A l \in fds.socks : k <= l
      BY <1>1, <1>2 DEF TypeOK, NextSock
    <2>2. ASSUME NEW m \in fds'.socks PROVE m \in fds.socks /\ k < m
      BY <2>1 DEF Sock
    <2> QED BY <1>2, <2>1, <2>2 DEF FdsOK
  <1>10. SlotOwned'
    <2>1. SUFFICES ASSUME NEW s \in Preauth
                   PROVE  \E j \in Slot : childpipes'[j] = s /\ preauth_addrs'[j] = addr[s]
      BY <1>2 DEF SlotOwned, Preauth
    <2>2. CASE s = forked.sess
      BY <1>2, <1>3, <2>2 DEF TypeOK
    <2>3. CASE s # forked.sess
      <3>1. PICK j \in Slot : childpipes[j] = s /\ preauth_addrs[j] = addr[s]
        BY <1>2, <2>3 DEF SlotOwned
      <3>2. j # forked.slot
        BY <1>3, <3>1 DEF Occupied, Preauth
      <3> QED BY <1>2, <3>1, <3>2 DEF TypeOK
    <2> QED BY <2>2, <2>3
  <1>11. DescriptorsAccounted'
    <2>1. Cardinality(Occupied') = Cardinality(Occupied) + 1
      BY <1>3, <1>4, OccupiedFinite, FS_AddElement
    <2>2. forked.sess # None
      BY <1>3
    <2>3. pipeFds' = Cardinality(Occupied') + 2 * forkFailures
      <3>1. pipeFds = Cardinality(Occupied) + 2 * forkFailures + 2
        BY <2>2 DEF DescriptorsAccounted
      <3>2. forkFailures \in Nat /\ Cardinality(Occupied) \in Nat
        BY OccupiedFinite DEF TypeOK
      <3> QED BY <1>2, <2>1, <3>1, <3>2
    <2>4. forkFailures \in Nat /\ Cardinality(Occupied') \in Nat
      BY <2>1, OccupiedFinite DEF TypeOK
    <2> QED BY <1>2, <2>3, <2>4 DEF DescriptorsAccounted
  <1> QED BY <1>5, <1>6, <1>7, <1>8, <1>9, <1>10, <1>11

-----------------------------------------------------------------------------
(* The specification.                                                      *)

\* Every step of the daemon's loop.
LEMMA StepLoop == ASSUME IInv, Loop PROVE IInv'
  <1>1. CASE EnterSelect \/ SelectInterrupted \/ SelectReturns
    BY <1>1, StepSelect
  <1>2. CASE Terminates
    BY <1>2, StepEnds DEF Terminates
  <1>3. CASE ClosePipes
    BY <1>3, StepClosePipes
  <1>4. CASE Register
    BY <1>4, StepRegister
  <1>5. CASE AcceptStep
    <2>1. PICK k \in Sock :
              \/ AcceptFails(k)
              \/ \E s \in Session :
                    RefuseAtLimit(k, s) \/ PipeFails(k, s) \/ ForkFails(k, s) \/ Fork(k, s)
      BY <1>5 DEF AcceptStep
    <2>2. CASE AcceptFails(k)
      BY <2>2, StepAcceptFails
    <2>3. ASSUME NEW s \in Session, RefuseAtLimit(k, s) \/ PipeFails(k, s) PROVE IInv'
      <3>1. /\ Refuse(k, s) /\ forkFailures' = forkFailures + 0 /\ pipeFds' = pipeFds + 2 * 0
        BY <2>3 DEF RefuseAtLimit, PipeFails, IInv, TypeOK
      <3> QED BY <3>1, StepRefuse
    <2>4. ASSUME NEW s \in Session, ForkFails(k, s) PROVE IInv'
      <3>1. /\ Refuse(k, s) /\ forkFailures' = forkFailures + 1 /\ pipeFds' = pipeFds + 2 * 1
        BY <2>4 DEF ForkFails, IInv, TypeOK
      <3> QED BY <3>1, StepRefuse
    <2>5. ASSUME NEW s \in Session, Fork(k, s) PROVE IInv'
      BY <2>5, StepFork
    <2> QED BY <2>1, <2>2, <2>3, <2>4, <2>5
  <1> QED BY <1>1, <1>2, <1>3, <1>4, <1>5 DEF Loop

\* Every step, and every stuttering step, keeps the invariant.
LEMMA NextIInv == IInv /\ [Next]_vars => IInv'
  <1> SUFFICES ASSUME IInv, [Next]_vars PROVE IInv'
    OBVIOUS
  <1>1. ASSUME NEW s \in Session, NEW a \in Addr, NEW k \in Sock, Connect(s, a, k) PROVE IInv'
    BY <1>1, StepConnect
  <1>2. ASSUME NEW s \in Session, Authenticate(s) \/ Leave(s) PROVE IInv'
    BY <1>2, StepSession
  <1>3. CASE Sigterm
    BY <1>3, StepSelect
  <1>4. CASE Sigkill
    BY <1>4, StepEnds DEF Sigkill, IInv, TypeOK
  <1>5. CASE Loop
    BY <1>5, StepLoop
  <1>6. CASE UNCHANGED vars
    BY <1>6 DEF vars, clientVars, tableVars, loopVars, IInv, TypeOK, BacklogsOK, SessionsOK,
                SlotsDistinct, ForkedOK, FdsOK, SlotOwned, DescriptorsAccounted, Occupied,
                Preauth, ReadySlots
  <1> QED BY <1>1, <1>2, <1>3, <1>4, <1>5, <1>6 DEF Next

\* The inductive invariant holds throughout.
LEMMA Invariant == Spec => []IInv
  BY InitIInv, NextIInv, PTL DEF Spec

\* main_noinetd(): the daemon's tables and its clients' state keep their types.
THEOREM TypeCorrect == Spec => []TypeOK
  BY Invariant, PTL DEF IInv

\* childpipes[] and preauth_addrs[]: a session that is not authenticated keeps its
\* slot, however its exit, the next connections and the loop interleave.
THEOREM SlotsOwned == Spec => []SlotOwned
  BY Invariant, PTL DEF IInv

\* The pipe descriptors of the daemon, with those a failed fork() leaves open.
THEOREM DescriptorsCounted == Spec => []DescriptorsAccounted
  BY Invariant, PTL DEF IInv

-----------------------------------------------------------------------------
(* The promise: SvrMain implements PreauthPool.                            *)

\* The client set that the promise is about, in terms of the daemon's state.
Who == [s \in Session |-> IF sess[s] = "preauth" THEN addr[s] ELSE None]

\* At most as many sessions as slots, when each session has a slot of its own.
LEMMA SlotPerSession ==
  ASSUME NEW D \in SUBSET Slot, NEW T, \A t \in T : \E j \in D : childpipes[j] = t
  PROVE  Cardinality(T) \in Nat /\ Cardinality(D) \in Nat /\ Cardinality(T) <= Cardinality(D)
  <1> DEFINE E == {j \in D : childpipes[j] \in T}
             f == [j \in E |-> childpipes[j]]
  <1>1. IsFiniteSet(D) /\ Cardinality(D) \in Nat
    BY OccupiedFinite, FS_Subset, FS_CardinalityType
  <1>2. IsFiniteSet(E) /\ Cardinality(E) <= Cardinality(D)
    BY <1>1, FS_Subset
  <1>3. f \in Surjection(E, T)
    BY DEF Surjection
  <1>4. IsFiniteSet(T) /\ Cardinality(T) <= Cardinality(E)
    <2> HIDE DEF E, f
    <2> QED BY <1>2, <1>3, FS_Surjection
  <1>5. Cardinality(T) \in Nat /\ Cardinality(E) \in Nat
    <2> HIDE DEF E, f
    <2> QED BY <1>2, <1>4, FS_CardinalityType
  <1> HIDE DEF E, f
  <1> QED BY <1>1, <1>2, <1>4, <1>5

\* The promise counts as the daemon does.
LEMMA SameCardinality == \A S : Pool!Cardinality(S) = Cardinality(S)
  BY Zenon DEF Pool!Cardinality, Cardinality

\* A fork() below the limits of the table admits a session below the limits of the
\* promise.
LEMMA ForkAdmits ==
  ASSUME IInv, NEW k \in Sock, NEW s \in Session, Fork(k, s), NEW a, a = addr[s]
  PROVE  Pool!Admit(s, a)
  <1> USE NamesAssumption, LimitsAssumption DEF IInv
  <1>1. /\ Accepts(k, s) /\ sess' = [sess EXCEPT ![s] = "preauth"] /\ addr' = addr
        /\ pc = "accept" /\ ~AtLimit(a)
    BY DEF Fork, Accepts
  <1>2. sess[s] = "queued" /\ addr[s] \in Addr
    BY <1>1, AcceptedHead
  <1>3. \A t \in Preauth : \E j \in Occupied : childpipes[j] = t /\ preauth_addrs[j] = addr[t]
    BY <1>1 DEF SlotOwned, Occupied, Preauth
  <1>4. Occupied \in SUBSET Slot /\ UnauthedFor(a) \in SUBSET Slot
    BY DEF Occupied, UnauthedFor
  <1>5. Cardinality(Pool!From(Addr)) < MAX_UNAUTH_CLIENTS
    <2>1. \A t \in Pool!From(Addr) : \E j \in Occupied : childpipes[j] = t
      BY <1>3 DEF Pool!From, Preauth
    <2>2. Cardinality(Pool!From(Addr)) <= Cardinality(Occupied) /\ Cardinality(Pool!From(Addr)) \in Nat
      BY <1>4, <2>1, SlotPerSession
    <2>3. Cardinality(Occupied) < MAX_UNAUTH_CLIENTS
      BY <1>1, OccupiedFinite DEF AtLimit
    <2> QED BY <2>2, <2>3, OccupiedFinite
  <1>6. Cardinality(Pool!From({a})) < MAX_UNAUTH_PER_IP
    <2>1. \A t \in Pool!From({a}) : \E j \in UnauthedFor(a) : childpipes[j] = t
      BY <1>2, <1>3 DEF Pool!From, Preauth, UnauthedFor
    <2>2. /\ Cardinality(Pool!From({a})) <= Cardinality(UnauthedFor(a))
          /\ Cardinality(Pool!From({a})) \in Nat /\ Cardinality(UnauthedFor(a)) \in Nat
      BY <1>4, <2>1, SlotPerSession
    <2>3. Cardinality(UnauthedFor(a)) < MAX_UNAUTH_PER_IP
      BY <1>1, <2>2 DEF AtLimit
    <2> QED BY <2>2, <2>3
  <1>7. Who[s] = None /\ Who' = [Who EXCEPT ![s] = a]
    BY <1>1, <1>2 DEF Who, TypeOK
  <1>8. Pool!Cardinality(Pool!From(Addr)) < MAX_UNAUTH_CLIENTS /\ Pool!Cardinality(Pool!From({a})) < MAX_UNAUTH_PER_IP
    BY <1>5, <1>6, SameCardinality
  <1> QED BY <1>7, <1>8, Zenon DEF Pool!Admit, Who

\* Every step of the daemon, its clients and sessions is a step of the promise or one
\* it does not speak of.
LEMMA StepPromise == IInv /\ [Next]_vars => [Pool!Next]_Who
  <1> SUFFICES ASSUME IInv, [Next]_vars PROVE Pool!Next \/ Who' = Who
    OBVIOUS
  <1> USE NamesAssumption DEF IInv
  <1>1. ASSUME NEW s \in Session, NEW a \in Addr, NEW k \in Sock, Connect(s, a, k) PROVE Who' = Who
    BY <1>1 DEF Connect, Who, TypeOK
  <1>2. ASSUME NEW s \in Session, Authenticate(s) \/ Leave(s) PROVE Pool!Next \/ Who' = Who
    <2>1. /\ addr' = addr /\ sess[s] \in {"preauth", "authed"}
          /\ sess' \in {[sess EXCEPT ![s] = "none"], [sess EXCEPT ![s] = "authed"]}
      BY <1>2 DEF Authenticate, Leave
    <2>2. CASE sess[s] = "authed"
      BY <2>1, <2>2 DEF Who, TypeOK
    <2>3. CASE sess[s] = "preauth"
      <3>1. Who[s] # None /\ Who' = [Who EXCEPT ![s] = None]
        BY <2>1, <2>3 DEF Who, TypeOK, SessionsOK
      <3>2. Pool!Leave(s)
        BY <3>1 DEF Pool!Leave, Who
      <3> QED BY <3>2 DEF Pool!Next
    <2> QED BY <2>1, <2>2, <2>3
  <1>3. CASE Sigterm \/ EnterSelect \/ SelectInterrupted \/ SelectReturns \/ ClosePipes \/ Register
    BY <1>3 DEF Sigterm, EnterSelect, SelectInterrupted, SelectReturns, ClosePipes, Register,
                clientVars, Who
  <1>4. CASE Sigkill \/ Terminates
    <2>1. addr' = addr /\ sess' = [s \in Session |-> IF sess[s] = "queued" THEN "none" ELSE sess[s]]
      BY <1>4 DEF Sigkill, Terminates, Ends
    <2> QED BY <2>1 DEF Who, TypeOK
  <1>5. CASE AcceptStep
    <2>1. PICK k \in Sock :
              \/ AcceptFails(k)
              \/ \E s \in Session :
                    RefuseAtLimit(k, s) \/ PipeFails(k, s) \/ ForkFails(k, s) \/ Fork(k, s)
      BY <1>5 DEF AcceptStep
    <2>2. CASE AcceptFails(k)
      BY <2>2 DEF AcceptFails, clientVars, Who
    <2>3. ASSUME NEW s \in Session, RefuseAtLimit(k, s) \/ PipeFails(k, s) \/ ForkFails(k, s)
          PROVE  Who' = Who
      <3>1. Refuse(k, s)
        BY <2>3 DEF RefuseAtLimit, PipeFails, ForkFails
      <3>2. Accepts(k, s) /\ sess' = [sess EXCEPT ![s] = "none"] /\ addr' = addr
        BY <3>1 DEF Refuse
      <3>3. sess[s] = "queued"
        BY <3>2, AcceptedHead
      <3> QED BY <3>2, <3>3 DEF Who, TypeOK
    <2>4. ASSUME NEW s \in Session, Fork(k, s) PROVE Pool!Next
      <3>1. addr[s] \in Addr
        BY <2>4, AcceptedHead DEF Fork
      <3>2. PICK a \in Addr : a = addr[s]
        BY <3>1
      <3>3. Pool!Admit(s, a)
        BY <2>4, <3>2, ForkAdmits
      <3> QED BY <3>3, Zenon DEF Pool!Next
    <2> QED BY <2>1, <2>2, <2>3, <2>4
  <1>6. CASE UNCHANGED vars
    BY <1>6 DEF vars, clientVars, Who
  <1> QED BY <1>1, <1>2, <1>3, <1>4, <1>5, <1>6 DEF Next, Loop

\* MAX_UNAUTH_CLIENTS and MAX_UNAUTH_PER_IP hold of the unauthenticated sessions
\* themselves, in every run of the daemon.
THEOREM ImplementsPreauthPool == Spec => LimitsKept
  <1>1. Init => Pool!Init
    BY DEF Init, Pool!Init
  <1>2. IInv /\ [Next]_vars
          => [Pool!Next]_[s \in Session |-> IF sess[s] = "preauth" THEN addr[s] ELSE None]
    BY StepPromise DEF Who
  <1> QED BY <1>1, <1>2, Invariant, PTL DEF Spec, LimitsKept, Pool!Spec
=============================================================================
