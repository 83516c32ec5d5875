-------------------------------- MODULE Kex --------------------------------
(***************************************************************************)
(* Key exchange and rekeying of a Dropbear session (common-kex.c,          *)
(* svr-kex.c, cli-kex.c) with the packet layer under it (packet.c,         *)
(* process-packet.c): which packets may be sent during an exchange, which  *)
(* are held back, and when the keys and the sequence numbers of either     *)
(* direction change.                                                       *)
(*                                                                         *)
(* Both ends run this code, one as server and one as client, over a        *)
(* connection that keeps the order (TCP).  An end is a record, and a       *)
(* handler takes that record to its next one; one iteration of             *)
(* session_loop() is one step.  A packet carries the key and the sequence  *)
(* number it was encrypted with and can only be read with both.            *)
(*                                                                         *)
(* A key is named by what goes into the exchange hash: the cookies of the  *)
(* two KEXINITs, the client's ephemeral value and the signature algorithm. *)
(* The kex and cipher tables are the same at both ends; the lists that     *)
(* differ are those of the signature algorithms, as the server has some    *)
(* host keys only.                                                         *)
(***************************************************************************)
EXTENDS Integers, Sequences, FiniteSets

CONSTANTS
    SigAlgs,      \* sigalgs[], in the order of the table
    KexGuess2,    \* DROPBEAR_KEXGUESS2
    None,
    MaxData,      \* bound: packets of the upper layers each end sends
    MaxRekeys     \* bound: exchanges each end starts by itself

PacketType == {"KEXINIT", "KEXDH_INIT", "KEXDH_REPLY", "NEWKEYS", "EXT_INFO",
               "UNIMPLEMENTED", "DATA"}

ASSUME AlgsAssumption ==
    /\ SigAlgs \in Seq(STRING) /\ SigAlgs # <<>>
    /\ \A i, j \in 1..Len(SigAlgs) : SigAlgs[i] = SigAlgs[j] => i = j
ASSUME KexAssumption ==
    /\ KexGuess2 \in BOOLEAN /\ None \notin STRING \cup PacketType
    /\ MaxData \in Nat /\ MaxRekeys \in Nat

End == {"server", "client"}
Peer(e) == IF e = "server" THEN "client" ELSE "server"
Direction(e) == IF e = "client" THEN "c2s" ELSE "s2c"

VARIABLES
    ses,        \* struct sshsession of both ends
    wire,       \* what each end wrote and the other has not read yet
    sent, got,  \* packets of the upper layers: handed over, and handled
    rekeys      \* exchanges each end started by itself

vars == <<ses, wire, sent, got, rekeys>>

\* A key is an exchange hash and the direction it is for; "none" has neither.
NoKey  == <<>>
NoKeys == [trans |-> NoKey, recv |-> NoKey]
NoHash == [cookies |-> <<0, 0>>, pub |-> 0, sig |-> None]

-----------------------------------------------------------------------------
(* Sending: packet.c.  A record "s" stands for ses in all that follows; its *)
(* field "out" is what this step writes.                                    *)

\* Types that may be sent between KEXINIT and NEWKEYS: everything but KEXINIT
\* itself, the service and the higher layers, which are one type here.
packet_is_okay_kex(type) == type \notin {"KEXINIT", "DATA"}

encrypt_packet(s, type, body) ==
    IF ~s.dataallowed /\ ~packet_is_okay_kex(type)
    THEN [s EXCEPT !.reply_queue = Append(@, body)]
    ELSE [s EXCEPT !.out = Append(@, [type |-> type, body |-> body,
                                      key |-> s.keys.trans, seq |-> s.transseq]),
                   !.transseq = @ + 1]

\* The queue is written out whole, and under the keys now in use.
maybe_flush_reply_queue_Reversed(s) ==
    IF ~s.dataallowed THEN s
    ELSE LET n == Len(s.reply_queue)
         IN [s EXCEPT !.out = @ \o [i \in 1..n |->
                                      [type |-> "DATA", body |-> s.reply_queue[n + 1 - i],
                                       key |-> s.keys.trans, seq |-> s.transseq + i - 1]],
                      !.transseq = @ + n, !.reply_queue = <<>>]

maybe_flush_reply_queue(s) ==
    IF ~s.dataallowed THEN s
    ELSE LET n == Len(s.reply_queue)
         IN [s EXCEPT !.out = @ \o [i \in 1..n |->
                                      [type |-> "DATA", body |-> s.reply_queue[i],
                                       key |-> s.keys.trans, seq |-> s.transseq + i - 1]],
                      !.transseq = @ + n, !.reply_queue = <<>>]

dropbear_exit(s) == [s EXCEPT !.exited = TRUE]

-----------------------------------------------------------------------------
(* Negotiation: common-algo.c.                                             *)

\* A name-list is the set of its names with their places.  localnames[] keeps
\* the gaps of the table; buf_put_algolist() writes the usable entries only, so
\* that the other end counts without the gaps.
Usable(table) == {i \in 1..Len(table) : table[i] # None}

localnames(table) == {[name |-> table[i], place |-> i] : i \in Usable(table)}

buf_put_algolist(table) ==
    {[name |-> table[i], place |-> Cardinality(Usable(table) \cap (1..i))] : i \in Usable(table)}

\* The first algorithm of the client that the server also has.
buf_match_algo(clinames, servnames) ==
    LET both == {q \in clinames \X servnames : q[1].name = q[2].name}
        p == CHOOSE p \in both : \A q \in both :
                 p[1].place < q[1].place \/ (p[1].place = q[1].place /\ p[2].place <= q[2].place)
    IN IF both = {} THEN [algo |-> None, goodguess |-> FALSE]
       ELSE [algo |-> p[1].name,
             goodguess |-> p[1].place = 1 /\ (KexGuess2 \/ p[2].place = 1)]

-----------------------------------------------------------------------------
(* The handlers of the exchange.                                           *)

kexinitialise(s) ==
    [s EXCEPT !.sentkexinit = FALSE, !.recvkexinit = FALSE,
              !.sentnewkeys = FALSE, !.recvnewkeys = FALSE,
              !.our_first_follows_matches = FALSE]

\* Each call makes a new ephemeral value and forgets the one before.
send_msg_kexdh_init(s) ==
    encrypt_packet([s EXCEPT !.pub = s.pubs + 1, !.pubs = @ + 1],
                   "KEXDH_INIT", s.pubs + 1)

\* The client always sends its guess along; the server never guesses.
send_msg_kexinit_DataAllowed(e, s) ==
    LET t == [encrypt_packet([s EXCEPT !.cookie = @ + 1], "KEXINIT",
                             [cookie |-> s.cookie + 1, sigalgs |-> buf_put_algolist(s.sigalgs),
                              strict |-> s.strictname, follows |-> e = "client"])
              EXCEPT !.sentkexinit = TRUE, !.newkeys = NoKeys]
    IN IF e = "client" THEN send_msg_kexdh_init(t) ELSE t

send_msg_kexinit(e, s) ==
    LET t == [encrypt_packet([s EXCEPT !.cookie = @ + 1], "KEXINIT",
                             [cookie |-> s.cookie + 1, sigalgs |-> buf_put_algolist(s.sigalgs),
                              strict |-> s.strictname, follows |-> e = "client"])
              EXCEPT !.dataallowed = FALSE, !.sentkexinit = TRUE, !.newkeys = NoKeys]
    IN IF e = "client" THEN send_msg_kexdh_init(t) ELSE t

switch_keys(s) ==
    LET in  == s.recvnewkeys /\ s.newkeys.recv # NoKey
        out == s.sentnewkeys /\ s.newkeys.trans # NoKey
        t == [s EXCEPT !.keys = [recv |-> IF in THEN s.newkeys.recv ELSE @.recv,
                                 trans |-> IF out THEN s.newkeys.trans ELSE @.trans],
                       !.newkeys = [recv |-> IF in THEN NoKey ELSE @.recv,
                                    trans |-> IF out THEN NoKey ELSE @.trans]]
    IN IF ~(s.sentkexinit /\ s.recvkexinit) THEN dropbear_exit(s)
       ELSE IF s.sentnewkeys /\ s.recvnewkeys THEN kexinitialise(t) ELSE t

\* Keys for both directions from the exchange hash.
gen_new_keys(e, s) ==
    [s EXCEPT !.newkeys = [trans |-> <<s.hash, Direction(e)>>,
                           recv |-> <<s.hash, Direction(Peer(e))>>]]

\* NEWKEYS itself still goes out under the old key.
send_msg_newkeys_ResetFirst(e, s) ==
    LET r == IF s.strict_kex THEN [s EXCEPT !.transseq = 0] ELSE s
        t == [encrypt_packet(r, "NEWKEYS", 0)
              EXCEPT !.sentnewkeys = TRUE, !.donesecondkex = @ \/ s.donefirstkex,
                     !.donefirstkex = TRUE, !.dataallowed = TRUE]
    IN switch_keys(gen_new_keys(e, t))

send_msg_newkeys(e, s) ==
    LET t == [encrypt_packet(s, "NEWKEYS", 0)
              EXCEPT !.sentnewkeys = TRUE, !.donesecondkex = @ \/ s.donefirstkex,
                     !.donefirstkex = TRUE, !.dataallowed = TRUE]
        u == switch_keys(gen_new_keys(e, t))
    IN IF s.strict_kex THEN [u EXCEPT !.transseq = 0] ELSE u

recv_msg_newkeys(s) ==
    LET t == switch_keys([s EXCEPT !.recvnewkeys = TRUE])
    IN [t EXCEPT !.recvseq = IF s.strict_kex THEN 0 ELSE @, !.recvfirstnewkeys = TRUE]

\* read_kex_algos(): what the KEXINIT of the other end decides.
read_kex_algos_NeverIgnore(e, s, m) ==
    LET match == IF e = "server" THEN buf_match_algo(m.sigalgs, localnames(s.sigalgs))
                                 ELSE buf_match_algo(localnames(s.sigalgs), m.sigalgs)
    IN [s EXCEPT !.newkeys = NoKeys, !.algo_signature = match.algo,
                 !.strict_kex = @ \/ (~s.donefirstkex /\ m.strict),
                 !.our_first_follows_matches = @ \/ (e = "client" /\ match.goodguess),
                 !.exited = @ \/ match.algo = None]

read_kex_algos(e, s, m) ==
    LET match == IF e = "server" THEN buf_match_algo(m.sigalgs, localnames(s.sigalgs))
                                 ELSE buf_match_algo(localnames(s.sigalgs), m.sigalgs)
    IN [s EXCEPT !.newkeys = NoKeys, !.algo_signature = match.algo,
                 !.strict_kex = @ \/ (~s.donefirstkex /\ m.strict),
                 !.ignorenext = @ \/ (m.follows /\ ~match.goodguess),
                 !.our_first_follows_matches = @ \/ (e = "client" /\ match.goodguess),
                 !.exited = @ \/ match.algo = None]

recv_msg_kexinit(e, s, m) ==
    LET t == IF s.sentkexinit THEN s ELSE send_msg_kexinit(e, s)
        u == [read_kex_algos(e, t, m) EXCEPT
                  !.hash = [NoHash EXCEPT !.cookies = IF e = "client" THEN <<t.cookie, m.cookie>>
                                                                      ELSE <<m.cookie, t.cookie>>],
                  !.requirenext = IF e = "client" THEN "KEXDH_REPLY" ELSE "KEXDH_INIT",
                  !.recvkexinit = TRUE]
    IN IF t.recvkexinit \/ (u.strict_kex /\ ~u.donefirstkex /\ u.recvseq # 1)
       THEN dropbear_exit(u) ELSE u

\* finish_kexhashbuf(): the first hash stays the session id for good.
finish_kexhashbuf_Always(s, pub) ==
    LET h == [cookies |-> s.hash.cookies, pub |-> pub, sig |-> s.algo_signature]
    IN [s EXCEPT !.hash = h, !.session_id = h]

finish_kexhashbuf(s, pub) ==
    LET h == [cookies |-> s.hash.cookies, pub |-> pub, sig |-> s.algo_signature]
    IN [s EXCEPT !.hash = h, !.session_id = IF @ = NoHash THEN h ELSE @]

\* The reply is the signed hash.  After the first exchange only the host key
\* used there stays usable.
recv_msg_kexdh_init(s, pub) ==
    LET t == finish_kexhashbuf(s, pub)
        u == send_msg_newkeys("server", encrypt_packet(t, "KEXDH_REPLY", t.hash))
        v == IF u.donesecondkex THEN u
             ELSE [encrypt_packet(u, "EXT_INFO", 0) EXCEPT
                       !.sigalgs = [i \in 1..Len(@) |->
                                        IF @[i] = s.algo_signature THEN @[i] ELSE None]]
    IN IF ~s.recvkexinit THEN dropbear_exit(s)
       ELSE [v EXCEPT !.requirenext = "NEWKEYS"]

\* The client computes the hash itself; a signature over another one is a
\* "Bad hostkey signature".
recv_msg_kexdh_reply(s, hash) ==
    LET t == [finish_kexhashbuf(s, s.pub) EXCEPT !.pub = 0]
    IN IF s.kex_state # "KEXDH_INIT_SENT" \/ hash # t.hash THEN dropbear_exit(s)
       ELSE [send_msg_newkeys("client", t) EXCEPT !.requirenext = "NEWKEYS"]

-----------------------------------------------------------------------------
(* One iteration of session_loop().                                        *)

handler(e, s, p) ==
    CASE p.type = "KEXINIT"     -> recv_msg_kexinit(e, s, p.body)
      [] p.type = "KEXDH_INIT"  -> recv_msg_kexdh_init(s, p.body)
      [] p.type = "KEXDH_REPLY" -> recv_msg_kexdh_reply(s, p.body)
      [] p.type = "NEWKEYS"     -> recv_msg_newkeys(s)
      [] OTHER                  -> s

\* requirenext is kept when the packet it asks for is one to be ignored.
process_packet(e, s, p) ==
    LET first_strict_kex == s.strict_kex /\ ~s.recvfirstnewkeys
        unexpected == s.requirenext # None /\ s.requirenext # p.type
        done == IF p.type = "UNIMPLEMENTED" /\ ~first_strict_kex THEN s
                ELSE IF unexpected
                THEN IF p.type \in {"KEXINIT", "DATA"} \/ first_strict_kex
                     THEN dropbear_exit(s)
                     ELSE encrypt_packet(s, "UNIMPLEMENTED", s.recvseq - 1)
                ELSE IF s.ignorenext THEN [s EXCEPT !.ignorenext = FALSE]
                ELSE handler(e, [s EXCEPT !.requirenext = None], p)
    IN [done EXCEPT !.lastpacket = p.type]

\* decrypt_packet(): a packet of another key or number fails its MAC.
decrypt_packet(s, p) ==
    IF p.key = s.keys.recv /\ p.seq = s.recvseq
    THEN [s EXCEPT !.recvseq = @ + 1] ELSE dropbear_exit(s)

\* cli_sessionloop() as far as it concerns the exchange: the client asks
\* again when its guess was wrong.
cli_sessionloop_TrustsGuess(s) ==
    IF s.lastpacket = "KEXINIT" /\ s.kex_state = "KEX_NOTHING"
    THEN [s EXCEPT !.kex_state = "KEXDH_INIT_SENT"]
    ELSE [s EXCEPT !.kex_state = IF s.sentnewkeys THEN "KEX_NOTHING" ELSE @]

cli_sessionloop(s) ==
    IF s.lastpacket = "KEXINIT" /\ s.kex_state = "KEX_NOTHING"
    THEN [IF s.our_first_follows_matches THEN s ELSE send_msg_kexdh_init(s)
          EXCEPT !.kex_state = "KEXDH_INIT_SENT"]
    ELSE [s EXCEPT !.kex_state = IF s.sentnewkeys THEN "KEX_NOTHING" ELSE @]

loophandler(e, s) == IF e = "client" /\ s.lastpacket # None THEN cli_sessionloop(s) ELSE s

\* The end of an iteration: what step s of end e leaves in ses and on the wire,
\* unread being the wires without the packet it took.
Iterated(e, s, unread) ==
    \E t \in {IF s.exited THEN s ELSE maybe_flush_reply_queue(s)} :
    \E u \in {IF s.exited THEN t ELSE loophandler(e, t)} :
        /\ ses' = [ses EXCEPT ![e] = [u EXCEPT !.out = <<>>]]
        /\ wire' = [unread EXCEPT ![e] = @ \o u.out]

NewSession ==
    [sentkexinit |-> FALSE, recvkexinit |-> FALSE, sentnewkeys |-> FALSE,
     recvnewkeys |-> FALSE, donefirstkex |-> FALSE, donesecondkex |-> FALSE,
     recvfirstnewkeys |-> FALSE, strict_kex |-> FALSE,
     our_first_follows_matches |-> FALSE, dataallowed |-> TRUE,
     ignorenext |-> FALSE, requirenext |-> "KEXINIT", lastpacket |-> None,
     kex_state |-> "KEX_NOTHING", keys |-> NoKeys, newkeys |-> NoKeys,
     transseq |-> 0, recvseq |-> 0, reply_queue |-> <<>>, out |-> <<>>,
     cookie |-> 0, pub |-> 0, pubs |-> 0, hash |-> NoHash, session_id |-> NoHash,
     algo_signature |-> None, sigalgs |-> SigAlgs, strictname |-> TRUE,
     exited |-> FALSE]

\* Both ends begin with a KEXINIT.  The server has any set of host keys; a
\* peer of before strict kex does not list its name, and neither does the
\* other end act on it then.
Init ==
    /\ \E usable \in (SUBSET (1..Len(SigAlgs))) \ {{}}, strict \in BOOLEAN :
         LET new(e) == [NewSession EXCEPT
                            !.strictname = strict,
                            !.sigalgs = [i \in 1..Len(@) |-> IF e = "client" \/ i \in usable
                                                             THEN @[i] ELSE None]]
             begun == [e \in End |-> send_msg_kexinit(e, new(e))]
         IN /\ ses = [e \in End |-> [begun[e] EXCEPT !.out = <<>>]]
            /\ wire = [e \in End |-> begun[e].out]
    /\ sent = [e \in End |-> <<>>] /\ got = [e \in End |-> <<>>]
    /\ rekeys = [e \in End |-> 0]

\* The upper layers hand a packet over.  The client begins with its service
\* request once an exchange is done; the server only ever answers first.
SendData(e) ==
    /\ ~ses[e].exited /\ ses[e].donefirstkex
    /\ e = "server" => got["client"] # <<>>
    /\ Len(sent[e]) < MaxData
    /\ sent' = [sent EXCEPT ![e] = Append(@, Len(@) + 1)]
    /\ \E s \in {encrypt_packet(ses[e], "DATA", Len(sent[e]) + 1)} : Iterated(e, s, wire)
    /\ UNCHANGED <<got, rekeys>>

\* checktimeouts(): the keys are old, much data has passed, or the user asked.
Rekey(e) ==
    /\ ~ses[e].exited /\ ~ses[e].sentkexinit
    /\ rekeys[e] < MaxRekeys
    /\ rekeys' = [rekeys EXCEPT ![e] = @ + 1]
    /\ \E s \in {send_msg_kexinit(e, ses[e])} : Iterated(e, s, wire)
    /\ UNCHANGED <<sent, got>>

Receive(e) ==
    /\ ~ses[e].exited /\ wire[Peer(e)] # <<>>
    /\ \E p \in {Head(wire[Peer(e)])} :
       \E t \in {decrypt_packet(ses[e], p)} :
       \E s \in {IF t.exited THEN t ELSE process_packet(e, t, p)} :
          /\ Iterated(e, s, [wire EXCEPT ![Peer(e)] = Tail(@)])
          /\ got' = IF p.type = "DATA" /\ ~s.exited /\ ~t.ignorenext
                    THEN [got EXCEPT ![Peer(e)] = Append(@, p.body)] ELSE got
    /\ UNCHANGED <<sent, rekeys>>

Next == \E e \in End : SendData(e) \/ Rekey(e) \/ Receive(e)

Spec == Init /\ [][Next]_vars

\* Both processes keep reading their socket.
FairSpec == Spec /\ \A e \in End : WF_vars(Receive(e))

-----------------------------------------------------------------------------
(* Properties.                                                             *)

\* Among the types: an exchange takes one KEXINIT of each end.
TypeOK ==
    /\ \A e \in End :
         /\ DOMAIN ses[e] = DOMAIN NewSession
         /\ ses[e].requirenext \in {None, "KEXINIT", "KEXDH_INIT", "KEXDH_REPLY", "NEWKEYS"}
         /\ ses[e].kex_state \in {"KEX_NOTHING", "KEXDH_INIT_SENT"}
         /\ ses[e].transseq \in Nat /\ ses[e].recvseq \in Nat
         /\ ses[e].cookie \in 1..(1 + rekeys["server"] + rekeys["client"])
    /\ rekeys \in [End -> 0..MaxRekeys]

\* No exchange between two ends that run this code is given up: no "Unexpected
\* packet type", no second KEXINIT, no bad signature, no integrity error, at
\* whatever moments the ends start exchanges and however these cross.
NoProtocolExit == \A e \in End : ~ses[e].exited

\* RFC 4253 7.1, dataallowed and the reply queue: after the KEXINIT of an end
\* nothing but the exchange is on the wire until its NEWKEYS.
QuietDuringKex ==
    \A e \in End : \A i, j \in 1..Len(wire[e]) :
        i < j /\ wire[e][i].type = "KEXINIT" /\ wire[e][j].type \in {"DATA", "KEXINIT"}
            => \E k \in (i + 1)..(j - 1) : wire[e][k].type = "NEWKEYS"

\* The sequence number is the nonce of the cipher: it never goes back while a
\* key is in use, and no key is taken up again (its cookies only grow).
NonceNeverReused ==
    [][\A e \in End :
         LET old == ses[e].keys.trans  new == ses'[e].keys.trans
         IN /\ old = new => ses'[e].transseq >= ses[e].transseq
            /\ \A i, j \in 1..Len(wire'[e]) :
                 i < j /\ wire'[e][i].key = wire'[e][j].key
                     => wire'[e][i].seq < wire'[e][j].seq
            /\ old # new /\ old # NoKey =>
                 new # NoKey /\ old[1].cookies[1] < new[1].cookies[1]]_vars

\* Both ends name the session alike, for good: signatures of the
\* authentication are made over this id, before and after rekeying.
SessionIdAgrees ==
    \A e \in End : ses[e].session_id # NoHash /\ ses[Peer(e)].session_id # NoHash =>
        ses[e].session_id = ses[Peer(e)].session_id

\* Every exchange that an end has begun comes to its end there.
RekeyCompletes == \A e \in End : ses[e].sentkexinit ~> ~ses[e].sentkexinit

\* What is handed over, also during an exchange, arrives in order, once, and
\* in the end: the packet layer implements Transport.
Abstract == INSTANCE Transport WITH Item <- 1..MaxData
ImplementsTransport == Abstract!Spec
=============================================================================
