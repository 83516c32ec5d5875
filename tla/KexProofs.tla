----------------------------- MODULE KexProofs -----------------------------
(***************************************************************************)
(* Theorems about Kex, for every table of algorithms and every number of   *)
(* packets and exchanges.                                                  *)
(*                                                                         *)
(* The first part holds whether or not an end gives the session up.  What  *)
(* an end writes depends on its own state alone: the proofs follow one     *)
(* handler after the other and show that each keeps the phases of the      *)
(* exchange in order (Phases) and what it has written well formed          *)
(* (Quiet, Numbered, Cookies, DataOn).                                     *)
(*                                                                         *)
(* The second part is about both ends: neither gives the session up        *)
(* (TwoEnds), since the packets on each wire lead from the place where its *)
(* reader is in the exchange to the place where its writer is.             *)
(***************************************************************************)
EXTENDS Kex, FiniteSetTheorems, SequenceTheorems, WellFoundedInduction, TLAPS

(* Types. *)
Type == PacketType \cup {None}
Name == STRING \cup {None}
List == {localnames(t) : t \in Seq(Name)} \cup {buf_put_algolist(t) : t \in Seq(Name)}
Algo == Name \cup {buf_match_algo(a, b).algo : a \in List, b \in List}
Hash == [cookies : Nat \X Nat, pub : Nat, sig : Algo]
MaybeKey == (Hash \X {"c2s", "s2c"}) \cup {NoKey}
Keys == [trans : MaybeKey, recv : MaybeKey]
KexInit == [cookie : Nat, sigalgs : List,
            strict : BOOLEAN, follows : BOOLEAN]
Plain == {"KEXDH_INIT", "NEWKEYS", "EXT_INFO", "UNIMPLEMENTED", "DATA"}
Packet ==
         [type : {"KEXINIT"}, body : KexInit, key : MaybeKey, seq : Nat]
    \cup [type : {"KEXDH_REPLY"}, body : Hash, key : MaybeKey, seq : Nat]
    \cup [type : Plain, body : Nat, key : MaybeKey, seq : Nat]

Flags == {"sentkexinit", "recvkexinit", "sentnewkeys", "recvnewkeys", "donefirstkex",
          "donesecondkex", "recvfirstnewkeys", "strict_kex", "our_first_follows_matches",
          "dataallowed", "ignorenext", "strictname", "exited"}
Fields == Flags \cup
         {"requirenext", "lastpacket", "kex_state", "keys", "newkeys", "transseq", "recvseq",
          "reply_queue", "out", "cookie", "pub", "pubs", "hash", "session_id",
          "algo_signature", "sigalgs"}

IsSession(s) ==
    /\ DOMAIN s = Fields
    /\ \A f \in Flags : s[f] \in BOOLEAN
    /\ s.requirenext \in Type /\ s.lastpacket \in Type /\ s.algo_signature \in Algo
    /\ \A f \in {"transseq", "recvseq", "cookie", "pub", "pubs"} : s[f] \in Nat
    /\ \A f \in {"keys", "newkeys"} : s[f] \in Keys
    /\ \A f \in {"hash", "session_id"} : s[f] \in Hash
    /\ s.kex_state \in {"KEX_NOTHING", "KEXDH_INIT_SENT"}
    /\ s.reply_queue \in Seq(Nat) /\ s.out \in Seq(Packet) /\ s.sigalgs \in Seq(Name)

\* t differs from s in the fields F at most.
Same(s, t, F) == DOMAIN t = Fields /\ \A f \in Fields \ F : t[f] = s[f]

(* What an end has written: x is a sequence of packets. *)
Closed(x) ==
    \A i \in 1..Len(x) : x[i].type = "KEXINIT" =>
        \E k \in (i + 1)..Len(x) : x[k].type = "NEWKEYS"

Quiet(x) ==
    \A i, j \in 1..Len(x) :
        i < j /\ x[i].type = "KEXINIT" /\ x[j].type \in {"DATA", "KEXINIT"}
            => \E k \in (i + 1)..(j - 1) : x[k].type = "NEWKEYS"

\* The client's cookie of the exchange a key comes from.
KeyCookie(k) == IF k = NoKey THEN 0 ELSE k[1].cookies[1]

\* Under one key the numbers grow, and no later key is on the wire.
Numbered(x, key, seq) ==
    /\ \A i, j \in 1..Len(x) : i < j /\ x[i].key = x[j].key => x[i].seq < x[j].seq
    /\ \A i \in 1..Len(x) : /\ x[i].key = key => x[i].seq < seq
                            /\ KeyCookie(x[i].key) <= KeyCookie(key)

Cookies(x, cookie) ==
    \A i \in 1..Len(x) : x[i].type = "KEXINIT" =>
        /\ x[i].body.cookie <= cookie
        /\ \A j \in 1..(i - 1) : x[j].type = "KEXINIT" => x[j].body.cookie < x[i].body.cookie

\* Of the packets 1..n of the upper layers the first g have been handled, the
\* last ones are in the queue q, and those between are on the wire, in order.
DataOn(x, q, n, g) ==
    /\ g + Len(q) <= n
    /\ \A k \in 1..Len(q) : q[k] = n - Len(q) + k
    /\ \A i \in 1..Len(x) : x[i].type = "DATA" =>
          /\ x[i].body \in (g + 1)..(n - Len(q))
          /\ \A j \in 1..(i - 1) : x[j].type = "DATA" => x[j].body < x[i].body
    /\ \A b \in (g + 1)..(n - Len(q)) : \E i \in 1..Len(x) : x[i].type = "DATA" /\ x[i].body = b

(* Where an end is in the exchange. *)
InExchange(s) == s.recvkexinit /\ ~s.sentnewkeys

Phases(s) ==
    /\ ~s.recvnewkeys
    /\ s.recvkexinit => s.sentkexinit
    /\ s.sentnewkeys => s.recvkexinit /\ s.newkeys.trans = NoKey
    /\ s.dataallowed <=> (s.sentkexinit => s.sentnewkeys)
    /\ s.requirenext = "NEWKEYS" <=> s.sentnewkeys
    /\ s.requirenext \in {"KEXDH_INIT", "KEXDH_REPLY"} <=> InExchange(s)
    /\ s.requirenext \in {None, "KEXINIT", "KEXDH_INIT", "KEXDH_REPLY", "NEWKEYS"}
    /\ s.ignorenext => InExchange(s)

\* The cookie that the client has last put into an exchange, as e knows it.
LastCookie(e, s) == IF e = "client" THEN s.cookie ELSE s.hash.cookies[1]

FreshKeys(e, s) ==
    /\ KeyCookie(s.keys.trans) <= LastCookie(e, s)
    /\ e = "client" /\ s.sentkexinit /\ ~s.sentnewkeys => KeyCookie(s.keys.trans) < s.cookie
    /\ InExchange(s) => KeyCookie(s.keys.trans) < s.hash.cookies[1]
    /\ e = "client" /\ s.recvkexinit => s.hash.cookies[1] = s.cookie

\* The state that the client keeps of its own, between two iterations, and
\* before loophandler() has seen the last packet.
ClientState(e, s) ==
    /\ s.kex_state = "KEXDH_INIT_SENT" <=> e = "client" /\ InExchange(s)
    /\ e = "client" /\ s.lastpacket = "KEXINIT" => InExchange(s)
    /\ e = "client" => s.requirenext # "KEXDH_INIT"

ClientMid(e, s) ==
    /\ e = "server" => s.kex_state = "KEX_NOTHING"
    /\ e = "client" /\ s.lastpacket = "KEXINIT" => InExchange(s)
    /\ e = "client" /\ s.lastpacket # "KEXINIT" =>
          \/ s.kex_state = "KEXDH_INIT_SENT" <=> InExchange(s)
          \/ s.sentnewkeys /\ s.lastpacket # None
    /\ e = "client" => s.requirenext # "KEXDH_INIT"

Sound(e, s) == Phases(s) /\ FreshKeys(e, s) /\ ClientMid(e, s)

Written(x, s) ==
    /\ Quiet(x) /\ (s.dataallowed => Closed(x))
    /\ Numbered(x, s.keys.trans, s.transseq) /\ Cookies(x, s.cookie)

Newer(x, c) == \A i \in 1..Len(x) : x[i].type = "KEXINIT" => c < x[i].body.cookie

\* What holds of the wire w of an end and what its record s adds to it, within
\* an iteration: n packets of the upper layers were handed over and g handled
\* by the other end, if that still reads (r), which knows the cookie c.
Stream(w, s, n, g, r, c) ==
    /\ Written(w \o s.out, s)
    /\ r => DataOn(w \o s.out, s.reply_queue, n, g)
    /\ c <= s.cookie /\ Newer(w \o s.out, c)

\* The numbers under one key go up, and a new key is of a later exchange.
Advance(s, t) ==
    \/ t.keys.trans = s.keys.trans /\ s.transseq <= t.transseq
    \/ KeyCookie(s.keys.trans) < KeyCookie(t.keys.trans)

(* The invariant. *)
EndOK(e) ==
    /\ ses[e].out = <<>>
    /\ ~ses[e].exited =>
          /\ Phases(ses[e]) /\ ClientState(e, ses[e]) /\ FreshKeys(e, ses[e])
          /\ ses[e].dataallowed => ses[e].reply_queue = <<>>
    /\ Written(wire[e], ses[e])

\* The cookies of the client are new to the server.
NewToServer ==
    ~ses["server"].exited =>
        /\ ses["server"].hash.cookies[1] <= ses["client"].cookie
        /\ Newer(wire["client"], ses["server"].hash.cookies[1])

DataOK(e) ==
    /\ \A i \in 1..Len(sent[e]) : sent[e][i] = i
    /\ \A i \in 1..Len(got[e]) : got[e][i] = i
    /\ ~ses[Peer(e)].exited =>
          DataOn(wire[e], ses[e].reply_queue, Len(sent[e]), Len(got[e]))

Typed ==
    /\ DOMAIN ses = End /\ \A e \in End : IsSession(ses[e])
    /\ wire \in [End -> Seq(Packet)]
    /\ sent \in [End -> Seq(1..MaxData)] /\ got \in [End -> Seq(Nat)] /\ rekeys \in [End -> Nat]

KInv == Typed /\ (\A e \in End : EndOK(e) /\ DataOK(e)) /\ NewToServer
-----------------------------------------------------------------------------
(* Sequences of packets that grow at the end and are read at the front.    *)

\* The fields of a packet, by its type.
LEMMA PacketFields ==
  ASSUME NEW p \in Packet
  PROVE  /\ p.type \in Plain \cup {"KEXINIT", "KEXDH_REPLY"}
         /\ p.key \in MaybeKey /\ p.seq \in Nat
         /\ p.type = "KEXINIT" => p.body \in KexInit
         /\ p.type = "KEXDH_REPLY" => p.body \in Hash
         /\ p.type \in Plain => p.body \in Nat
  BY DEF Packet, Plain

LEMMA NoneIsNoType == \A x \in PacketType : x # None
  BY KexAssumption

LEMMA CookieIsNat == ASSUME NEW k \in MaybeKey PROVE KeyCookie(k) \in Nat
  BY DEF KeyCookie, MaybeKey, Hash

LEMMA ConcatFacts ==
  ASSUME NEW S, NEW x \in Seq(S), NEW y \in Seq(S)
  PROVE  /\ x \o y \in Seq(S) /\ Len(x \o y) = Len(x) + Len(y) /\ Len(x) \in Nat /\ Len(y) \in Nat
         /\ \A i \in 1..Len(x) : (x \o y)[i] = x[i]
         /\ \A i \in (Len(x) + 1)..(Len(x) + Len(y)) : (x \o y)[i] = y[i - Len(x)]
  OBVIOUS

LEMMA ConcatAppend ==
  ASSUME NEW x \in Seq(Packet), NEW y \in Seq(Packet), NEW p \in Packet
  PROVE  x \o Append(y, p) = Append(x \o y, p)
  OBVIOUS

LEMMA ConcatTwice ==
  ASSUME NEW x \in Seq(Packet), NEW y \in Seq(Packet), NEW z \in Seq(Packet)
  PROVE  x \o (y \o z) = (x \o y) \o z
  BY ConcatAssociative

\* What one more packet does to a sequence that is quiet.
LEMMA QuietAppend ==
  ASSUME NEW x \in Seq(Packet), NEW p \in Packet, Quiet(x),
         p.type \in {"DATA", "KEXINIT"} => Closed(x)
  PROVE  /\ Quiet(Append(x, p))
         /\ p.type = "NEWKEYS" => Closed(Append(x, p))
         /\ Closed(x) /\ p.type # "KEXINIT" => Closed(Append(x, p))
  <1> DEFINE y == Append(x, p)
  <1>1. /\ Len(y) = Len(x) + 1 /\ y[Len(x) + 1] = p /\ Len(x) \in Nat
        /\ \A i \in 1..Len(x) : y[i] = x[i]
    BY AppendProperties
  <1> HIDE DEF y
  <1>2. Quiet(y)
    <2> SUFFICES ASSUME NEW i \in 1..Len(y), NEW j \in 1..Len(y), i < j, y[i].type = "KEXINIT",
                        y[j].type \in {"DATA", "KEXINIT"}
                 PROVE  \E k \in (i + 1)..(j - 1) : y[k].type = "NEWKEYS"
      BY DEF Quiet
    <2>1. i \in 1..Len(x) /\ y[i] = x[i]
      BY <1>1
    <2>2. CASE j \in 1..Len(x)
      <3>1. \E k \in (i + 1)..(j - 1) : x[k].type = "NEWKEYS"
        BY <1>1, <2>1, <2>2 DEF Quiet
      <3> QED BY <1>1, <2>2, <3>1
    <2>3. CASE j = Len(x) + 1
      <3>1. Closed(x)
        BY <1>1, <2>3
      <3>2. \E k \in (i + 1)..Len(x) : x[k].type = "NEWKEYS"
        BY <2>1, <3>1 DEF Closed
      <3> QED BY <1>1, <2>3, <3>2
    <2> QED BY <1>1, <2>2, <2>3
  <1>3. p.type = "NEWKEYS" => Closed(y)
    BY <1>1 DEF Closed
  <1>4. Closed(x) /\ p.type # "KEXINIT" => Closed(y)
    <2> SUFFICES ASSUME Closed(x), p.type # "KEXINIT", NEW i \in 1..Len(y), y[i].type = "KEXINIT"
                 PROVE  \E k \in (i + 1)..Len(y) : y[k].type = "NEWKEYS"
      BY DEF Closed
    <2>1. i \in 1..Len(x) /\ y[i] = x[i]
      BY <1>1
    <2>2. \E k \in (i + 1)..Len(x) : x[k].type = "NEWKEYS"
      BY <2>1 DEF Closed
    <2> QED BY <1>1, <2>2
  <1> QED BY <1>2, <1>3, <1>4 DEF y

LEMMA NumberedAppend ==
  ASSUME NEW x \in Seq(Packet), NEW p \in Packet, NEW key, NEW seq \in Nat, Numbered(x, key, seq),
         p.key = key, p.seq = seq
  PROVE  Numbered(Append(x, p), key, seq + 1)
  <1> DEFINE y == Append(x, p)
  <1>1. /\ Len(y) = Len(x) + 1 /\ y[Len(x) + 1] = p /\ Len(x) \in Nat
        /\ \A i \in 1..Len(x) : y[i] = x[i]
    BY AppendProperties
  <1>2. \A i \in 1..Len(x) : x[i].seq \in Nat
    BY PacketFields
  <1>3. KeyCookie(key) \in Nat
    BY CookieIsNat, PacketFields
  <1> HIDE DEF y
  <1>4. \A i, j \in 1..Len(y) : i < j /\ y[i].key = y[j].key => y[i].seq < y[j].seq
    BY <1>1 DEF Numbered
  <1>5. \A i \in 1..Len(y) : (y[i].key = key => y[i].seq < seq + 1) /\ KeyCookie(y[i].key) <= KeyCookie(key)
    BY <1>1, <1>2, <1>3 DEF Numbered
  <1> QED BY <1>4, <1>5 DEF Numbered, y

LEMMA CookiesAppend ==
  ASSUME NEW x \in Seq(Packet), NEW p \in Packet, NEW c \in Nat, NEW d \in Nat, Cookies(x, c), c <= d,
         p.type = "KEXINIT" => p.body.cookie = d /\ c < d
  PROVE  Cookies(Append(x, p), d)
  <1> DEFINE y == Append(x, p)
  <1>1. /\ Len(y) = Len(x) + 1 /\ y[Len(x) + 1] = p /\ Len(x) \in Nat
        /\ \A i \in 1..Len(x) : y[i] = x[i]
    BY AppendProperties
  <1>2. \A i \in 1..Len(x) : x[i].type = "KEXINIT" => x[i].body.cookie \in Nat
    BY PacketFields DEF KexInit
  <1> HIDE DEF y
  <1>3. ASSUME NEW i \in 1..Len(y), y[i].type = "KEXINIT"
        PROVE  /\ y[i].body.cookie <= d
               /\ \A j \in 1..(i - 1) : y[j].type = "KEXINIT" => y[j].body.cookie < y[i].body.cookie
    <2>1. CASE i \in 1..Len(x)
      BY <1>1, <1>2, <1>3, <2>1 DEF Cookies
    <2>2. CASE i = Len(x) + 1
      BY <1>1, <1>2, <1>3, <2>2 DEF Cookies
    <2> QED BY <1>1, <2>1, <2>2
  <1> QED BY <1>3 DEF Cookies, y

\* A packet of the upper layers is the next one; the others do not count.
LEMMA DataAppend ==
  ASSUME NEW x \in Seq(Packet), NEW p \in Packet, NEW q \in Seq(Nat), NEW n \in Nat, NEW g \in Nat,
         DataOn(x, q, n, g)
  PROVE  /\ p.type # "DATA" => DataOn(Append(x, p), q, n, g)
         /\ p.type = "DATA" /\ p.body = n + 1 /\ q = <<>> => DataOn(Append(x, p), q, n + 1, g)
  <1> DEFINE y == Append(x, p)
  <1>1. /\ Len(y) = Len(x) + 1 /\ y[Len(x) + 1] = p /\ Len(x) \in Nat
        /\ \A i \in 1..Len(x) : y[i] = x[i]
    BY AppendProperties
  <1>a. /\ Len(q) \in Nat /\ g + Len(q) <= n /\ \A k \in 1..Len(q) : q[k] = n - Len(q) + k
    BY DEF DataOn
  <1>b. \A i \in 1..Len(x) : x[i].type = "DATA" =>
           /\ x[i].body \in (g + 1)..(n - Len(q))
           /\ \A j \in 1..(i - 1) : x[j].type = "DATA" => x[j].body < x[i].body
    BY DEF DataOn
  <1>c. \A b \in (g + 1)..(n - Len(q)) : \E i \in 1..Len(x) : x[i].type = "DATA" /\ x[i].body = b
    BY DEF DataOn
  <1>d. \A i \in 1..Len(y) : i \in 1..Len(x) \/ i = Len(x) + 1
    BY <1>1
  <1>e. \A i \in 1..Len(x) : \A j \in 1..(i - 1) : j \in 1..Len(x)
    BY <1>1
  <1> HIDE DEF y
  <1>f. \A b \in (g + 1)..(n - Len(q)) : \E i \in 1..Len(y) : y[i].type = "DATA" /\ y[i].body = b
    <2> TAKE b \in (g + 1)..(n - Len(q))
    <2>1. PICK i \in 1..Len(x) : x[i].type = "DATA" /\ x[i].body = b
      BY <1>c
    <2>2. i \in 1..Len(y) /\ y[i] = x[i]
      BY <1>1
    <2> QED BY <2>1, <2>2
  <1>g. ASSUME NEW i \in 1..Len(x), y[i].type = "DATA"
        PROVE  /\ y[i].body \in (g + 1)..(n - Len(q))
               /\ \A j \in 1..(i - 1) : y[j].type = "DATA" => y[j].body < y[i].body
    BY <1>1, <1>b, <1>e, <1>g
  <1>2. ASSUME p.type # "DATA" PROVE DataOn(y, q, n, g)
    <2>1. ASSUME NEW i \in 1..Len(y), y[i].type = "DATA" PROVE i \in 1..Len(x)
      BY <1>1, <1>2, <1>d, <2>1
    <2> QED BY <1>a, <1>f, <1>g, <2>1 DEF DataOn
  <1>3. ASSUME p.type = "DATA", p.body = n + 1, q = <<>> PROVE DataOn(y, q, n + 1, g)
    <2>0. Len(q) = 0 /\ g <= n
      BY <1>3, <1>a
    <2>1. ASSUME NEW i \in 1..Len(y), y[i].type = "DATA"
          PROVE  /\ y[i].body \in (g + 1)..(n + 1 - Len(q))
                 /\ \A j \in 1..(i - 1) : y[j].type = "DATA" => y[j].body < y[i].body
      <3>2. CASE i \in 1..Len(x)
        BY <1>g, <2>0, <2>1, <3>2
      <3>3. CASE i = Len(x) + 1
        BY <1>1, <1>3, <1>b, <2>0, <3>3
      <3> QED BY <1>d, <3>2, <3>3
    <2>2. ASSUME NEW b \in (g + 1)..(n + 1 - Len(q))
          PROVE  \E i \in 1..Len(y) : y[i].type = "DATA" /\ y[i].body = b
      <3>1. CASE b = n + 1
        BY <1>1, <1>3, <3>1
      <3>2. CASE b # n + 1
        <4>1. b \in (g + 1)..(n - Len(q))
          BY <2>0, <3>2
        <4> QED BY <1>f, <4>1
      <3> QED BY <3>1, <3>2
    <2>3. g + Len(q) <= n + 1 /\ \A k \in 1..Len(q) : q[k] = n + 1 - Len(q) + k
      BY <2>0
    <2> QED BY <2>1, <2>2, <2>3 DEF DataOn
  <1> QED BY <1>2, <1>3 DEF y

\* A packet that has to wait joins the queue.
LEMMA DataQueued ==
  ASSUME NEW x \in Seq(Packet), NEW q \in Seq(Nat), NEW n \in Nat, NEW g \in Nat, DataOn(x, q, n, g)
  PROVE  DataOn(x, Append(q, n + 1), n + 1, g)
  <1> DEFINE r == Append(q, n + 1)
  <1>1. /\ Len(r) = Len(q) + 1 /\ r[Len(q) + 1] = n + 1 /\ Len(q) \in Nat
        /\ \A i \in 1..Len(q) : r[i] = q[i]
    BY AppendProperties
  <1> HIDE DEF r
  <1>2. g + Len(r) <= n + 1 /\ n + 1 - Len(r) = n - Len(q)
    BY <1>1 DEF DataOn
  <1>3. \A k \in 1..Len(r) : r[k] = n + 1 - Len(r) + k
    <2>1. \A k \in 1..Len(q) : q[k] = n - Len(q) + k
      BY DEF DataOn
    <2> QED BY <1>1, <1>2, <2>1
  <1>4. /\ \A i \in 1..Len(x) : x[i].type = "DATA" =>
              /\ x[i].body \in (g + 1)..(n + 1 - Len(r))
              /\ \A j \in 1..(i - 1) : x[j].type = "DATA" => x[j].body < x[i].body
        /\ \A b \in (g + 1)..(n + 1 - Len(r)) : \E i \in 1..Len(x) : x[i].type = "DATA" /\ x[i].body = b
    <2> DEFINE m == n - Len(q)
    <2>1. n + 1 - Len(r) = m
      BY <1>2
    <2>2. /\ \A i \in 1..Len(x) : x[i].type = "DATA" =>
                /\ x[i].body \in (g + 1)..m
                /\ \A j \in 1..(i - 1) : x[j].type = "DATA" => x[j].body < x[i].body
          /\ \A b \in (g + 1)..m : \E i \in 1..Len(x) : x[i].type = "DATA" /\ x[i].body = b
      BY DEF DataOn
    <2> HIDE DEF m
    <2> QED BY <2>1, <2>2
  <1>5. DataOn(x, r, n + 1, g)
    BY <1>2, <1>3, <1>4 DEF DataOn
  <1> QED BY <1>5 DEF r

FlushOf(y, q, key, seq) ==
    /\ Len(y) = Len(q)
    /\ \A i \in 1..Len(y) : /\ y[i].type = "DATA" /\ y[i].body = q[i]
                            /\ y[i].key = key /\ y[i].seq = seq + i - 1

\* The queue is written out behind a sequence in which the exchange is over.
LEMMA Flush ==
  ASSUME NEW x \in Seq(Packet), NEW y \in Seq(Packet), NEW q \in Seq(Nat), NEW key \in MaybeKey,
         NEW seq \in Nat, FlushOf(y, q, key, seq)
  PROVE  /\ Quiet(x) /\ Closed(x) => Quiet(x \o y) /\ Closed(x \o y)
         /\ Numbered(x, key, seq) => Numbered(x \o y, key, seq + Len(y))
         /\ \A c \in Nat : Cookies(x, c) => Cookies(x \o y, c)
         /\ \A n, g \in Nat : DataOn(x, q, n, g) => DataOn(x \o y, <<>>, n, g)
         /\ \A c \in Int : Newer(x, c) => Newer(x \o y, c)
  <1> DEFINE z == x \o y
  <1>1. /\ Len(z) = Len(x) + Len(y) /\ Len(x) \in Nat /\ Len(y) \in Nat
        /\ \A i \in 1..Len(x) : z[i] = x[i]
        /\ \A i \in (Len(x) + 1)..Len(z) : z[i] = y[i - Len(x)] /\ i - Len(x) \in 1..Len(y)
        /\ \A i \in 1..Len(z) : i \in 1..Len(x) \/ i \in (Len(x) + 1)..Len(z)
    <2>1. /\ Len(z) = Len(x) + Len(y) /\ Len(x) \in Nat /\ Len(y) \in Nat
          /\ \A i \in 1..Len(x) : z[i] = x[i]
          /\ \A i \in (Len(x) + 1)..(Len(x) + Len(y)) : z[i] = y[i - Len(x)]
      BY ConcatFacts
    <2> HIDE DEF z
    <2> QED BY <2>1
  <1> HIDE DEF z
  <1>2. \A i \in (Len(x) + 1)..Len(z) :
           /\ z[i].type = "DATA" /\ z[i].body = q[i - Len(x)] /\ z[i].key = key
           /\ z[i].seq = seq + (i - Len(x)) - 1
    BY <1>1 DEF FlushOf
  <1>0. Len(y) = Len(q)
    BY DEF FlushOf
  <1>a. \A i \in 1..Len(x) : z[i] = x[i]
    BY <1>1
  <1>b. \A i \in 1..Len(x) : \A k \in 1..(i - 1) : k \in 1..Len(x) /\ z[k] = x[k]
    BY <1>1
  <1>3. ASSUME Quiet(x), Closed(x) PROVE Quiet(z) /\ Closed(z)
    <2>1. Closed(z)
      <3> SUFFICES ASSUME NEW i \in 1..Len(z), z[i].type = "KEXINIT"
                   PROVE  \E k \in (i + 1)..Len(z) : z[k].type = "NEWKEYS"
        BY DEF Closed
      <3>1. i \in 1..Len(x)
        BY <1>1, <1>2
      <3>2. PICK k \in (i + 1)..Len(x) : x[k].type = "NEWKEYS"
        BY <1>1, <1>3, <3>1 DEF Closed
      <3>3. k \in (i + 1)..Len(z) /\ z[k] = x[k]
        BY <1>1, <3>1
      <3> QED BY <3>2, <3>3
    <2>2. Quiet(z)
      <3> SUFFICES ASSUME NEW i \in 1..Len(z), NEW k \in 1..Len(z), i < k, z[i].type = "KEXINIT",
                          z[k].type \in {"DATA", "KEXINIT"}
                   PROVE  \E m \in (i + 1)..(k - 1) : z[m].type = "NEWKEYS"
        BY DEF Quiet
      <3>1. i \in 1..Len(x) /\ x[i].type = "KEXINIT"
        BY <1>1, <1>2
      <3>2. CASE k \in 1..Len(x)
        <4>1. PICK m \in (i + 1)..(k - 1) : x[m].type = "NEWKEYS"
          BY <1>1, <1>3, <3>1, <3>2 DEF Quiet
        <4>2. m \in 1..Len(x)
          BY <3>1, <3>2
        <4> QED BY <1>1, <4>1, <4>2
      <3>3. CASE k \in (Len(x) + 1)..Len(z)
        <4>1. PICK m \in (i + 1)..Len(x) : x[m].type = "NEWKEYS"
          BY <1>3, <3>1 DEF Closed
        <4> QED BY <1>1, <3>3, <4>1
      <3> QED BY <1>1, <3>2, <3>3
    <2> QED BY <2>1, <2>2
  <1>4. ASSUME Numbered(x, key, seq) PROVE Numbered(z, key, seq + Len(y))
    <2>1. \A i \in 1..Len(x) : x[i].seq \in Nat /\ KeyCookie(x[i].key) \in Nat
      BY PacketFields, CookieIsNat
    <2>2. KeyCookie(key) \in Nat
      BY CookieIsNat
    <2>3. \A i, k \in 1..Len(z) : i < k /\ z[i].key = z[k].key => z[i].seq < z[k].seq
      <3> SUFFICES ASSUME NEW i \in 1..Len(z), NEW k \in 1..Len(z), i < k, z[i].key = z[k].key
                   PROVE  z[i].seq < z[k].seq
        OBVIOUS
      <3>1. CASE k \in 1..Len(x)
        <4>1. z[k] = x[k] /\ i \in 1..Len(x) /\ z[i] = x[i]
          BY <1>a, <1>b, <3>1
        <4> QED BY <1>4, <3>1, <4>1 DEF Numbered
      <3>2. CASE k \in (Len(x) + 1)..Len(z) /\ i \in 1..Len(x)
        <4>1. x[i].key = key /\ z[i] = x[i] /\ z[k].seq >= seq
          BY <1>1, <1>2, <3>2
        <4>2. x[i].seq < seq
          BY <1>4, <3>2, <4>1 DEF Numbered
        <4>3. z[k].seq \in Nat /\ x[i].seq \in Nat
          BY <1>2, <1>1, <2>1, <3>2
        <4> QED BY <4>1, <4>2, <4>3
      <3>3. CASE k \in (Len(x) + 1)..Len(z) /\ i \in (Len(x) + 1)..Len(z)
        BY <1>1, <1>2, <3>3
      <3> QED BY <1>1, <3>1, <3>2, <3>3
    <2>4. ASSUME NEW i \in 1..Len(z)
          PROVE  (z[i].key = key => z[i].seq < seq + Len(y)) /\ KeyCookie(z[i].key) <= KeyCookie(key)
      <3>1. CASE i \in 1..Len(x)
        <4>1. z[i] = x[i] /\ (x[i].key = key => x[i].seq < seq) /\ KeyCookie(x[i].key) <= KeyCookie(key)
          BY <1>a, <1>4, <3>1 DEF Numbered
        <4>2. x[i].seq \in Nat /\ Len(y) \in Nat
          BY <1>1, <2>1, <3>1
        <4> QED BY <4>1, <4>2
      <3>2. CASE i \in (Len(x) + 1)..Len(z)
        BY <1>1, <1>2, <2>2, <3>2
      <3> QED BY <1>1, <3>1, <3>2
    <2> QED BY <2>3, <2>4 DEF Numbered
  <1>5. ASSUME NEW c \in Nat, Cookies(x, c) PROVE Cookies(z, c)
    <2> SUFFICES ASSUME NEW i \in 1..Len(z), z[i].type = "KEXINIT"
                 PROVE  /\ z[i].body.cookie <= c
                        /\ \A k \in 1..(i - 1) : z[k].type = "KEXINIT" => z[k].body.cookie < z[i].body.cookie
      BY DEF Cookies
    <2>1. i \in 1..Len(x) /\ z[i] = x[i] /\ \A k \in 1..(i - 1) : z[k] = x[k]
      BY <1>1, <1>2, SMTT(30)
    <2> QED BY <1>5, <2>1 DEF Cookies
  <1>6. ASSUME NEW n \in Nat, NEW g \in Nat, DataOn(x, q, n, g) PROVE DataOn(z, <<>>, n, g)
    <2>1. /\ Len(q) \in Nat /\ g + Len(q) <= n /\ \A k \in 1..Len(q) : q[k] = n - Len(q) + k
          /\ Len(y) = Len(q)
      BY <1>0, <1>6 DEF DataOn
    <2>2. \A i \in 1..Len(x) : x[i].type = "DATA" =>
             /\ x[i].body \in (g + 1)..(n - Len(q))
             /\ \A k \in 1..(i - 1) : x[k].type = "DATA" => x[k].body < x[i].body
      BY <1>6 DEF DataOn
    <2>3. \A b \in (g + 1)..(n - Len(q)) : \E i \in 1..Len(x) : x[i].type = "DATA" /\ x[i].body = b
      BY <1>6 DEF DataOn
    <2>4. \A i \in (Len(x) + 1)..Len(z) : z[i].body = n - Len(q) + (i - Len(x))
      BY <1>1, <1>2, <2>1
    <2>5. ASSUME NEW i \in 1..Len(z), z[i].type = "DATA"
          PROVE  /\ z[i].body \in (g + 1)..n
                 /\ \A k \in 1..(i - 1) : z[k].type = "DATA" => z[k].body < z[i].body
      <3>1. CASE i \in 1..Len(x)
        <4>1. z[i] = x[i] /\ \A k \in 1..(i - 1) : z[k] = x[k]
          BY <1>a, <1>b, <3>1
        <4>2. x[i].body \in (g + 1)..(n - Len(q))
          BY <2>2, <2>5, <3>1, <4>1
        <4>3. x[i].body \in (g + 1)..n
          BY <2>1, <4>2
        <4> QED BY <2>2, <2>5, <3>1, <4>1, <4>3
      <3>2. CASE i \in (Len(x) + 1)..Len(z)
        <4>1. z[i].body \in (n - Len(q) + 1)..n
          BY <1>1, <2>1, <2>4, <3>2
        <4>2. ASSUME NEW k \in 1..(i - 1), z[k].type = "DATA" PROVE z[k].body < z[i].body
          <5>1. CASE k \in 1..Len(x)
            <6>1. z[k].body \in (g + 1)..(n - Len(q))
              BY <1>1, <2>2, <4>2, <5>1
            <6>2. z[k].body <= n - Len(q) /\ n - Len(q) + 1 <= z[i].body
              BY <4>1, <6>1
            <6>3. z[k].body \in Int /\ z[i].body \in Int
              BY <4>1, <6>1
            <6> QED BY <2>1, <6>2, <6>3
          <5>2. CASE k \in (Len(x) + 1)..Len(z)
            BY <1>1, <2>1, <2>4, <3>2, <4>2, <5>2
          <5> QED BY <1>1, <5>1, <5>2
        <4> QED BY <2>1, <4>1, <4>2
      <3> QED BY <1>1, <3>1, <3>2
    <2>6. ASSUME NEW b \in (g + 1)..n PROVE \E i \in 1..Len(z) : z[i].type = "DATA" /\ z[i].body = b
      <3>1. CASE b <= n - Len(q)
        <4>0. b \in (g + 1)..(n - Len(q))
          BY <2>1, <3>1
        <4>1. PICK i \in 1..Len(x) : x[i].type = "DATA" /\ x[i].body = b
          BY <2>3, <4>0
        <4> QED BY <1>1, <4>1
      <3>2. CASE b > n - Len(q)
        <4>1. b - (n - Len(q)) + Len(x) \in (Len(x) + 1)..Len(z)
          BY <1>1, <2>1, <3>2
        <4>2. b - (n - Len(q)) + Len(x) \in 1..Len(z)
          BY <1>1, <2>1, <4>1
        <4>3. z[b - (n - Len(q)) + Len(x)].type = "DATA"
          BY <1>2, <4>1
        <4>4. z[b - (n - Len(q)) + Len(x)].body = b
          <5>1. z[b - (n - Len(q)) + Len(x)].body = n - Len(q) + ((b - (n - Len(q)) + Len(x)) - Len(x))
            BY <2>4, <4>1
          <5> QED BY <1>1, <2>1, <5>1
        <4> QED BY <4>2, <4>3, <4>4
      <3> QED BY <2>1, <3>1, <3>2
    <2> DEFINE none == <<>>
    <2>7. Len(none) = 0 /\ n - Len(none) = n /\ g + Len(none) <= n
      BY <2>1
    <2>8. \A k \in 1..Len(none) : none[k] = n - Len(none) + k
      BY <2>7
    <2> HIDE DEF none
    <2>9. DataOn(z, none, n, g)
      BY <2>5, <2>6, <2>7, <2>8 DEF DataOn
    <2> QED BY <2>9 DEF none
  <1>7. ASSUME NEW c \in Int, Newer(x, c) PROVE Newer(z, c)
    BY <1>1, <1>2, <1>7 DEF Newer
  <1> QED BY <1>3, <1>4, <1>5, <1>6, <1>7 DEF z

\* A key of a later exchange is nowhere on the wire: its numbers start anywhere.
LEMMA NumberedNewKey ==
  ASSUME NEW x \in Seq(Packet), NEW key \in MaybeKey, NEW new \in MaybeKey, NEW seq \in Nat,
         NEW start \in Nat, Numbered(x, key, seq), KeyCookie(key) < KeyCookie(new)
  PROVE  Numbered(x, new, start)
  <1>1. KeyCookie(key) \in Nat /\ KeyCookie(new) \in Nat
    BY CookieIsNat
  <1>2. \A i \in 1..Len(x) : KeyCookie(x[i].key) \in Nat
    BY PacketFields, CookieIsNat
  <1>3. \A i \in 1..Len(x) : KeyCookie(x[i].key) < KeyCookie(new)
    BY <1>1, <1>2 DEF Numbered
  <1>4. \A i \in 1..Len(x) : x[i].key # new /\ KeyCookie(x[i].key) <= KeyCookie(new)
    BY <1>1, <1>2, <1>3
  <1> QED BY <1>4 DEF Numbered

\* Reading the first packet leaves the rest in order.
LEMMA ReadHead ==
  ASSUME NEW x \in Seq(Packet), x # <<>>
  PROVE  /\ Quiet(x) => Quiet(Tail(x))
         /\ Closed(x) => Closed(Tail(x))
         /\ \A key \in MaybeKey, seq \in Nat : Numbered(x, key, seq) => Numbered(Tail(x), key, seq)
         /\ \A c \in Nat : Cookies(x, c) => Cookies(Tail(x), c)
         /\ \A q \in Seq(Nat), n, g \in Nat : DataOn(x, q, n, g) =>
               IF Head(x).type = "DATA" THEN Head(x).body = g + 1 /\ DataOn(Tail(x), q, n, g + 1)
               ELSE DataOn(Tail(x), q, n, g)
  <1> DEFINE y == Tail(x)
  <1>1. /\ Len(y) = Len(x) - 1 /\ Len(x) \in Nat /\ Len(x) >= 1 /\ Head(x) = x[1]
        /\ \A i \in 1..Len(y) : y[i] = x[i + 1]
    BY HeadTailProperties
  <1> HIDE DEF y
  <1>2. \A i \in 1..Len(y) : y[i] = x[i + 1] /\ i + 1 \in 1..Len(x)
    BY <1>1
  <1>3. ASSUME Quiet(x) PROVE Quiet(y)
    <2> SUFFICES ASSUME NEW i \in 1..Len(y), NEW j \in 1..Len(y), i < j, y[i].type = "KEXINIT",
                        y[j].type \in {"DATA", "KEXINIT"}
                 PROVE  \E k \in (i + 1)..(j - 1) : y[k].type = "NEWKEYS"
      BY DEF Quiet
    <2>0. i + 1 \in 1..Len(x) /\ j + 1 \in 1..Len(x) /\ i + 1 < j + 1
          /\ x[i + 1].type = "KEXINIT" /\ x[j + 1].type \in {"DATA", "KEXINIT"}
      BY <1>2
    <2>1. PICK k \in (i + 1 + 1)..(j + 1 - 1) : x[k].type = "NEWKEYS"
      BY <1>3, <2>0 DEF Quiet
    <2>2. k - 1 \in (i + 1)..(j - 1) /\ k - 1 \in 1..Len(y) /\ k - 1 + 1 = k
      BY <1>1
    <2> QED BY <1>2, <2>1, <2>2
  <1>4. ASSUME Closed(x) PROVE Closed(y)
    <2> SUFFICES ASSUME NEW i \in 1..Len(y), y[i].type = "KEXINIT"
                 PROVE  \E k \in (i + 1)..Len(y) : y[k].type = "NEWKEYS"
      BY DEF Closed
    <2>0. i + 1 \in 1..Len(x) /\ x[i + 1].type = "KEXINIT"
      BY <1>2
    <2>1. PICK k \in (i + 1 + 1)..Len(x) : x[k].type = "NEWKEYS"
      BY <1>4, <2>0 DEF Closed
    <2>2. k - 1 \in (i + 1)..Len(y) /\ k - 1 \in 1..Len(y) /\ k - 1 + 1 = k
      BY <1>1
    <2> QED BY <1>2, <2>1, <2>2
  <1>5. ASSUME NEW key \in MaybeKey, NEW seq \in Nat, Numbered(x, key, seq) PROVE Numbered(y, key, seq)
    <2>1. ASSUME NEW i \in 1..Len(y), NEW j \in 1..Len(y), i < j, y[i].key = y[j].key
          PROVE  y[i].seq < y[j].seq
      <3>1. /\ i + 1 \in 1..Len(x) /\ j + 1 \in 1..Len(x) /\ i + 1 < j + 1
            /\ y[i] = x[i + 1] /\ y[j] = x[j + 1]
        BY <1>2, <2>1
      <3> QED BY <1>5, <2>1, <3>1 DEF Numbered
    <2> QED BY <1>2, <1>5, <2>1 DEF Numbered
  <1>6. ASSUME NEW c \in Nat, Cookies(x, c) PROVE Cookies(y, c)
    <2> SUFFICES ASSUME NEW i \in 1..Len(y), y[i].type = "KEXINIT"
                 PROVE  /\ y[i].body.cookie <= c
                        /\ \A j \in 1..(i - 1) : y[j].type = "KEXINIT" => y[j].body.cookie < y[i].body.cookie
      BY DEF Cookies
    <2>1. \A j \in 1..(i - 1) : j + 1 \in 1..(i + 1 - 1) /\ y[j] = x[j + 1]
      BY <1>1
    <2>2. i + 1 \in 1..Len(x) /\ y[i] = x[i + 1]
      BY <1>2
    <2>3. /\ x[i + 1].body.cookie <= c
          /\ \A k \in 1..(i + 1 - 1) : x[k].type = "KEXINIT" => x[k].body.cookie < x[i + 1].body.cookie
      BY <1>6, <2>2 DEF Cookies
    <2> QED BY <2>1, <2>2, <2>3
  <1>7. ASSUME NEW q \in Seq(Nat), NEW n \in Nat, NEW g \in Nat, DataOn(x, q, n, g)
        PROVE  IF Head(x).type = "DATA" THEN Head(x).body = g + 1 /\ DataOn(y, q, n, g + 1)
               ELSE DataOn(y, q, n, g)
    <2>1. /\ Len(q) \in Nat /\ g + Len(q) <= n /\ \A k \in 1..Len(q) : q[k] = n - Len(q) + k
      BY <1>7 DEF DataOn
    <2>2. \A i \in 1..Len(x) : x[i].type = "DATA" =>
             /\ x[i].body \in (g + 1)..(n - Len(q))
             /\ \A k \in 1..(i - 1) : x[k].type = "DATA" => x[k].body < x[i].body
      BY <1>7 DEF DataOn
    <2>3. \A b \in (g + 1)..(n - Len(q)) : \E i \in 1..Len(x) : x[i].type = "DATA" /\ x[i].body = b
      BY <1>7 DEF DataOn
    <2>4. ASSUME NEW i \in 1..Len(y), y[i].type = "DATA"
          PROVE  /\ y[i].body \in (g + 1)..(n - Len(q))
                 /\ \A k \in 1..(i - 1) : y[k].type = "DATA" => y[k].body < y[i].body
                 /\ x[1].type = "DATA" => x[1].body < y[i].body
      <3>1. \A k \in 1..(i - 1) : k + 1 \in 1..(i + 1 - 1) /\ y[k] = x[k + 1]
        BY <1>1
      <3>2. 1 \in 1..(i + 1 - 1) /\ i + 1 \in 1..Len(x) /\ y[i] = x[i + 1]
        BY <1>2
      <3>3. /\ x[i + 1].body \in (g + 1)..(n - Len(q))
            /\ \A k \in 1..(i + 1 - 1) : x[k].type = "DATA" => x[k].body < x[i + 1].body
        BY <2>2, <2>4, <3>2
      <3> QED BY <3>1, <3>2, <3>3
    <2>5. ASSUME NEW b \in (g + 1)..(n - Len(q)), x[1].type # "DATA" \/ x[1].body # b
          PROVE  \E i \in 1..Len(y) : y[i].type = "DATA" /\ y[i].body = b
      <3>1. PICK i \in 1..Len(x) : x[i].type = "DATA" /\ x[i].body = b
        BY <2>3
      <3>2. i # 1
        BY <2>5, <3>1
      <3>3. i - 1 \in 1..Len(y) /\ i - 1 + 1 = i
        BY <1>1, <3>2
      <3> QED BY <1>2, <3>1, <3>3
    <2>6. CASE Head(x).type = "DATA"
      <3>1. 1 \in 1..Len(x) /\ x[1].type = "DATA"
        BY <1>1, <2>6
      <3>2. x[1].body \in (g + 1)..(n - Len(q))
        BY <2>2, <3>1
      <3>3. x[1].body = g + 1
        <4> SUFFICES ASSUME x[1].body # g + 1 PROVE FALSE
          OBVIOUS
        <4>1. g + 1 \in (g + 1)..(n - Len(q))
          BY <2>1, <3>2
        <4>2. PICK i \in 1..Len(y) : y[i].type = "DATA" /\ y[i].body = g + 1
          BY <2>5, <4>1
        <4> QED BY <2>4, <3>1, <3>2, <4>2
      <3>4. ASSUME NEW i \in 1..Len(y), y[i].type = "DATA" PROVE y[i].body \in (g + 1 + 1)..(n - Len(q))
        BY <2>4, <3>1, <3>3, <3>4
      <3>5. \A b \in (g + 1 + 1)..(n - Len(q)) : b \in (g + 1)..(n - Len(q)) /\ x[1].body # b
        BY <3>3
      <3>6. g + 1 + Len(q) <= n
        BY <2>1, <3>2
      <3>7. DataOn(y, q, n, g + 1)
        BY <2>1, <2>4, <2>5, <3>4, <3>5, <3>6 DEF DataOn
      <3> QED BY <1>1, <2>6, <3>3, <3>7
    <2>7. CASE Head(x).type # "DATA"
      <3>1. DataOn(y, q, n, g)
        BY <1>1, <2>1, <2>4, <2>5, <2>7 DEF DataOn
      <3> QED BY <2>7, <3>1
    <2> QED BY <2>6, <2>7
  <1> QED BY <1>3, <1>4, <1>5, <1>6, <1>7 DEF y

-----------------------------------------------------------------------------
(* The handlers, one by one.                                               *)

\* A step that leaves what is written and its state alone keeps Stream.
LEMMA StreamSame ==
  ASSUME NEW w, NEW s, NEW t, NEW n, NEW g, NEW r, NEW c, Stream(w, s, n, g, r, c),
         t.out = s.out, t.dataallowed = s.dataallowed, t.keys.trans = s.keys.trans,
         t.transseq = s.transseq, t.cookie = s.cookie, t.reply_queue = s.reply_queue
  PROVE  Stream(w, t, n, g, r, c)
  BY DEF Stream, Written

LEMMA AdvanceTransitive ==
  ASSUME NEW s, NEW t, NEW u, IsSession(s), IsSession(t), IsSession(u), Advance(s, t), Advance(t, u)
  PROVE  Advance(s, u)
  <1>1. /\ s.keys.trans \in MaybeKey /\ t.keys.trans \in MaybeKey /\ u.keys.trans \in MaybeKey
        /\ s.transseq \in Nat /\ t.transseq \in Nat /\ u.transseq \in Nat
    BY DEF IsSession, Keys
  <1>2. /\ KeyCookie(s.keys.trans) \in Nat /\ KeyCookie(t.keys.trans) \in Nat
        /\ KeyCookie(u.keys.trans) \in Nat
    BY <1>1, CookieIsNat
  <1> QED BY <1>1, <1>2 DEF Advance

\* Types of the fields one by one, for steps that change a few.
TypeOf(f) ==
    CASE f \in Flags -> BOOLEAN
      [] f \in {"requirenext", "lastpacket"} -> Type
      [] f \in {"transseq", "recvseq", "cookie", "pub", "pubs"} -> Nat
      [] f \in {"keys", "newkeys"} -> Keys
      [] f \in {"hash", "session_id"} -> Hash
      [] f = "kex_state" -> {"KEX_NOTHING", "KEXDH_INIT_SENT"}
      [] f = "reply_queue" -> Seq(Nat)
      [] f = "out" -> Seq(Packet)
      [] f = "sigalgs" -> Seq(Name)
      [] f = "algo_signature" -> Algo

LEMMA TypesOf ==
  /\ \A f \in Flags : TypeOf(f) = BOOLEAN
  /\ TypeOf("requirenext") = Type /\ TypeOf("lastpacket") = Type
  /\ TypeOf("transseq") = Nat /\ TypeOf("recvseq") = Nat /\ TypeOf("cookie") = Nat
  /\ TypeOf("pub") = Nat /\ TypeOf("pubs") = Nat
  /\ TypeOf("keys") = Keys /\ TypeOf("newkeys") = Keys
  /\ TypeOf("hash") = Hash /\ TypeOf("session_id") = Hash
  /\ TypeOf("kex_state") = {"KEX_NOTHING", "KEXDH_INIT_SENT"}
  /\ TypeOf("reply_queue") = Seq(Nat) /\ TypeOf("out") = Seq(Packet)
  /\ TypeOf("sigalgs") = Seq(Name) /\ TypeOf("algo_signature") = Algo
  BY DEF TypeOf, Flags

LEMMA SessionTypes ==
  ASSUME NEW s
  PROVE  IsSession(s) <=> DOMAIN s = Fields /\ \A f \in Fields : s[f] \in TypeOf(f)
  BY DEF IsSession, TypeOf, Fields, Flags

LEMMA SameType ==
  ASSUME NEW s, NEW t, NEW F, IsSession(s), Same(s, t, F), \A f \in F \cap Fields : t[f] \in TypeOf(f)
  PROVE  IsSession(t)
  <1>1. \A f \in Fields : s[f] \in TypeOf(f)
    BY SessionTypes
  <1>2. \A f \in Fields : t[f] \in TypeOf(f)
    BY <1>1 DEF Same
  <1> QED BY <1>2, SessionTypes DEF Same

\* encrypt_packet() with a type that is allowed at any time.
LEMMA EncryptKex ==
  ASSUME NEW w \in Seq(Packet), NEW s, IsSession(s),
         NEW n \in Nat, NEW g \in Nat, NEW r \in BOOLEAN, NEW c \in Int, Stream(w, s, n, g, r, c),
         NEW type \in {"KEXDH_INIT", "KEXDH_REPLY", "NEWKEYS", "EXT_INFO", "UNIMPLEMENTED"},
         NEW body, IF type = "KEXDH_REPLY" THEN body \in Hash ELSE body \in Nat
  PROVE  /\ IsSession(encrypt_packet(s, type, body))
         /\ Same(s, encrypt_packet(s, type, body), {"out", "transseq"})
         /\ Stream(w, encrypt_packet(s, type, body), n, g, r, c)
         /\ encrypt_packet(s, type, body).transseq = s.transseq + 1
         /\ type = "NEWKEYS" => Closed(w \o encrypt_packet(s, type, body).out)
  <1> DEFINE t == encrypt_packet(s, type, body)
  <1>3. s.out \in Seq(Packet) /\ s.transseq \in Nat /\ s.cookie \in Nat /\ DOMAIN s = Fields
        /\ s.reply_queue \in Seq(Nat)
    BY DEF IsSession
  <1>1. PICK p \in Packet : /\ p.type = type /\ p.key = s.keys.trans /\ p.seq = s.transseq
                            /\ t = [s EXCEPT !.out = Append(@, p), !.transseq = @ + 1]
    <2> DEFINE q == [type |-> type, body |-> body, key |-> s.keys.trans, seq |-> s.transseq]
    <2>1. q \in Packet
      BY DEF IsSession, Keys, Packet, Plain
    <2>2. t = [s EXCEPT !.out = Append(@, q), !.transseq = @ + 1]
      BY DEF encrypt_packet, packet_is_okay_kex
    <2> QED BY <2>1, <2>2
  <1> HIDE DEF t
  <1>4. t.out = Append(s.out, p) /\ t.transseq = s.transseq + 1 /\ Same(s, t, {"out", "transseq"})
    BY <1>1, <1>3 DEF Same, Fields, Flags
  <1>5. t.out \in Seq(Packet) /\ t.transseq \in Nat
    BY <1>3, <1>4
  <1>6. IsSession(t)
    <2>1. \A f \in {"out", "transseq"} : t[f] \in TypeOf(f)
      BY <1>5, TypesOf
    <2> QED BY <1>4, <2>1, SameType
  <1> DEFINE x == w \o s.out
  <1>7. w \o t.out = Append(x, p) /\ x \in Seq(Packet)
    <2>1. x \in Seq(Packet)
      BY <1>3, ConcatFacts
    <2>2. w \o Append(s.out, p) = Append(w \o s.out, p)
      BY <1>3, ConcatAppend
    <2> QED BY <1>4, <2>1, <2>2
  <1>8. /\ Quiet(x) /\ (s.dataallowed => Closed(x))
        /\ Numbered(x, s.keys.trans, s.transseq) /\ Cookies(x, s.cookie)
        /\ (r => DataOn(x, s.reply_queue, n, g)) /\ c <= s.cookie /\ Newer(x, c)
    BY DEF Stream, Written
  <1> HIDE DEF x
  <1>10. /\ t.dataallowed = s.dataallowed /\ t.keys = s.keys /\ t.cookie = s.cookie
         /\ t.reply_queue = s.reply_queue
    BY <1>4 DEF Same, Fields, Flags
  <1>11. /\ Quiet(Append(x, p)) /\ (s.dataallowed => Closed(Append(x, p)))
         /\ type = "NEWKEYS" => Closed(Append(x, p))
    BY <1>7, <1>8, <1>1, QuietAppend
  <1>12. Numbered(Append(x, p), s.keys.trans, s.transseq + 1)
    BY <1>3, <1>7, <1>8, <1>1, NumberedAppend
  <1>13. Cookies(Append(x, p), s.cookie)
    <2>1. s.cookie <= s.cookie /\ p.type # "KEXINIT"
      BY <1>1, <1>3
    <2> QED BY <1>3, <1>7, <1>8, <2>1, CookiesAppend
  <1>14. r => DataOn(Append(x, p), s.reply_queue, n, g)
    BY <1>3, <1>7, <1>8, <1>1, DataAppend
  <1>15. Newer(Append(x, p), c)
    BY <1>7, <1>8, <1>1, AppendProperties DEF Newer
  <1>16. Stream(w, t, n, g, r, c)
    BY <1>4, <1>7, <1>8, <1>10, <1>11, <1>12, <1>13, <1>14, <1>15 DEF Stream, Written
  <1> QED BY <1>4, <1>6, <1>7, <1>11, <1>16 DEF t

LEMMA SendKexdhInit ==
  ASSUME NEW w \in Seq(Packet), NEW s, IsSession(s),
         NEW n \in Nat, NEW g \in Nat, NEW r \in BOOLEAN, NEW c \in Int, Stream(w, s, n, g, r, c)
  PROVE  /\ IsSession(send_msg_kexdh_init(s))
         /\ Same(s, send_msg_kexdh_init(s), {"out", "transseq", "pub", "pubs"})
         /\ Stream(w, send_msg_kexdh_init(s), n, g, r, c)
         /\ send_msg_kexdh_init(s).transseq = s.transseq + 1
  <1>0. DOMAIN s = Fields /\ s.pubs \in Nat
    BY DEF IsSession
  <1>1. PICK t : t = [s EXCEPT !.pub = s.pubs + 1, !.pubs = @ + 1]
    OBVIOUS
  <1>2. Same(s, t, {"pub", "pubs"}) /\ t.pub = s.pubs + 1 /\ t.pubs = s.pubs + 1
    BY <1>0, <1>1 DEF Same, Fields, Flags
  <1>3. IsSession(t)
    <2>1. \A f \in {"pub", "pubs"} : t[f] \in TypeOf(f)
      BY <1>0, <1>2, TypesOf
    <2> QED BY <1>2, <2>1, SameType
  <1>4. Stream(w, t, n, g, r, c)
    BY <1>2, StreamSame DEF Same, Fields, Flags
  <1>5. s.pubs + 1 \in Nat
    BY <1>0
  <1>6. PICK u : u = encrypt_packet(t, "KEXDH_INIT", s.pubs + 1)
    OBVIOUS
  <1>7. /\ IsSession(u) /\ Same(t, u, {"out", "transseq"}) /\ Stream(w, u, n, g, r, c)
        /\ u.transseq = t.transseq + 1
    BY <1>3, <1>4, <1>5, <1>6, EncryptKex
  <1>8. Same(s, u, {"out", "transseq", "pub", "pubs"}) /\ t.transseq = s.transseq
    BY <1>2, <1>7 DEF Same, Fields, Flags
  <1> QED BY <1>1, <1>6, <1>7, <1>8 DEF send_msg_kexdh_init

LEMMA SendKexinit ==
  ASSUME NEW e \in End, NEW w \in Seq(Packet), NEW s, IsSession(s), s.dataallowed,
         NEW n \in Nat, NEW g \in Nat, NEW r \in BOOLEAN, NEW c \in Int, Stream(w, s, n, g, r, c)
  PROVE  /\ IsSession(send_msg_kexinit(e, s))
         /\ Same(s, send_msg_kexinit(e, s), {"out", "transseq", "pub", "pubs", "cookie",
                                             "dataallowed", "sentkexinit", "newkeys"})
         /\ Stream(w, send_msg_kexinit(e, s), n, g, r, c)
         /\ s.transseq <= send_msg_kexinit(e, s).transseq
         /\ send_msg_kexinit(e, s).cookie = s.cookie + 1
         /\ send_msg_kexinit(e, s).sentkexinit /\ ~send_msg_kexinit(e, s).dataallowed
         /\ send_msg_kexinit(e, s).newkeys = NoKeys
  <1>0. /\ s.out \in Seq(Packet) /\ s.transseq \in Nat /\ s.cookie \in Nat /\ DOMAIN s = Fields
        /\ s.reply_queue \in Seq(Nat) /\ s.sigalgs \in Seq(Name) /\ s.strictname \in BOOLEAN
        /\ s.keys.trans \in MaybeKey
    BY DEF IsSession, Keys, Flags
  <1>1. PICK m \in KexInit :
           /\ m = [cookie |-> s.cookie + 1, sigalgs |-> buf_put_algolist(s.sigalgs),
                   strict |-> s.strictname, follows |-> e = "client"]
           /\ m.cookie = s.cookie + 1
    <2>1. buf_put_algolist(s.sigalgs) \in List
      BY <1>0, Zenon DEF List
    <2>2. PICK l \in List : l = buf_put_algolist(s.sigalgs)
      BY <2>1
    <2>3. [cookie |-> s.cookie + 1, sigalgs |-> l, strict |-> s.strictname, follows |-> e = "client"]
             \in KexInit
      BY <1>0 DEF KexInit
    <2> QED BY <2>2, <2>3
  <1>2. PICK p \in Packet :
           /\ p = [type |-> "KEXINIT", body |-> m, key |-> s.keys.trans, seq |-> s.transseq]
           /\ p.type = "KEXINIT" /\ p.body = m /\ p.key = s.keys.trans /\ p.seq = s.transseq
    <2>1. [type |-> "KEXINIT", body |-> m, key |-> s.keys.trans, seq |-> s.transseq] \in Packet
      BY <1>0 DEF Packet
    <2> QED BY <2>1
  <1>3. PICK t : t = [encrypt_packet([s EXCEPT !.cookie = @ + 1], "KEXINIT", m)
                      EXCEPT !.dataallowed = FALSE, !.sentkexinit = TRUE, !.newkeys = NoKeys]
    OBVIOUS
  <1>4. encrypt_packet([s EXCEPT !.cookie = @ + 1], "KEXINIT", m)
          = [s EXCEPT !.cookie = @ + 1, !.out = Append(@, p), !.transseq = @ + 1]
    BY <1>0, <1>2 DEF encrypt_packet, Fields, Flags
  <1>5. /\ Same(s, t, {"out", "transseq", "cookie", "dataallowed", "sentkexinit", "newkeys"})
        /\ t.out = Append(s.out, p) /\ t.transseq = s.transseq + 1 /\ t.cookie = s.cookie + 1
        /\ t.sentkexinit = TRUE /\ t.dataallowed = FALSE /\ t.newkeys = NoKeys
    BY <1>0, <1>3, <1>4 DEF Same, Fields, Flags
  <1>6. NoKeys \in Keys
    BY DEF NoKeys, Keys, MaybeKey
  <1>7. IsSession(t)
    <2>1. t.out \in Seq(Packet) /\ t.transseq \in Nat /\ t.cookie \in Nat
      BY <1>0, <1>5
    <2>2. \A f \in {"out", "transseq", "cookie", "dataallowed", "sentkexinit", "newkeys"} :
             t[f] \in TypeOf(f)
      BY <1>5, <1>6, <2>1, TypesOf DEF Flags
    <2> QED BY <1>5, <2>2, SameType
  <1>8. Stream(w, t, n, g, r, c)
    <2> DEFINE x == w \o s.out
    <2>1. x \in Seq(Packet) /\ w \o t.out = Append(x, p)
      BY <1>0, <1>5, ConcatFacts, ConcatAppend
    <2>2. /\ Quiet(x) /\ Closed(x)
          /\ Numbered(x, s.keys.trans, s.transseq) /\ Cookies(x, s.cookie)
          /\ (r => DataOn(x, s.reply_queue, n, g)) /\ c <= s.cookie /\ Newer(x, c)
      BY DEF Stream, Written
    <2> HIDE DEF x
    <2>3. t.keys = s.keys /\ t.reply_queue = s.reply_queue
      BY <1>5 DEF Same, Fields, Flags
    <2>4. Quiet(Append(x, p))
      BY <2>1, <2>2, QuietAppend
    <2>5. Numbered(Append(x, p), s.keys.trans, s.transseq + 1)
      BY <1>0, <1>2, <2>1, <2>2, NumberedAppend
    <2>6. Cookies(Append(x, p), s.cookie + 1)
      <3>1. s.cookie + 1 \in Nat /\ s.cookie <= s.cookie + 1 /\ s.cookie < s.cookie + 1
        BY <1>0
      <3>2. p.body.cookie = s.cookie + 1
        BY <1>1, <1>2
      <3> QED BY <1>0, <2>1, <2>2, <3>1, <3>2, CookiesAppend
    <2>7. r => DataOn(Append(x, p), s.reply_queue, n, g)
      BY <1>0, <1>2, <2>1, <2>2, DataAppend
    <2>8. Newer(Append(x, p), c)
      BY <1>0, <1>1, <1>2, <2>1, <2>2, AppendProperties DEF Newer
    <2>9. c <= s.cookie + 1
      BY <1>0, <2>2
    <2> QED BY <1>5, <2>1, <2>2, <2>3, <2>4, <2>5, <2>6, <2>7, <2>8, <2>9 DEF Stream, Written
  <1>9. CASE e # "client"
    <2>1. send_msg_kexinit(e, s) = t
      BY <1>1, <1>3, <1>9 DEF send_msg_kexinit
    <2>2. s.transseq <= t.transseq
      BY <1>0, <1>5
    <2>3. Same(s, t, {"out", "transseq", "pub", "pubs", "cookie", "dataallowed", "sentkexinit", "newkeys"})
      BY <1>5 DEF Same
    <2> QED BY <1>5, <1>7, <1>8, <2>1, <2>2, <2>3
  <1>10. CASE e = "client"
    <2>1. PICK u : u = send_msg_kexdh_init(t)
      OBVIOUS
    <2>2. send_msg_kexinit(e, s) = u
      BY <1>1, <1>3, <1>10, <2>1 DEF send_msg_kexinit
    <2>3. /\ IsSession(u) /\ Same(t, u, {"out", "transseq", "pub", "pubs"}) /\ Stream(w, u, n, g, r, c)
          /\ u.transseq = t.transseq + 1
      BY <1>7, <1>8, <2>1, SendKexdhInit
    <2>4. /\ Same(s, u, {"out", "transseq", "pub", "pubs", "cookie", "dataallowed", "sentkexinit", "newkeys"})
          /\ u.cookie = t.cookie /\ u.sentkexinit = t.sentkexinit /\ u.dataallowed = t.dataallowed
          /\ u.newkeys = t.newkeys
      BY <1>5, <2>3 DEF Same, Fields, Flags
    <2>5. s.transseq <= u.transseq
      BY <1>0, <1>5, <2>3
    <2> QED BY <1>5, <2>2, <2>3, <2>4, <2>5
  <1> QED BY <1>9, <1>10

\* The key that send_msg_newkeys() takes up is of the exchange just done.
LEMMA SendNewkeys ==
  ASSUME NEW e \in End, NEW w \in Seq(Packet), NEW s, IsSession(s),
         s.sentkexinit, s.recvkexinit, ~s.recvnewkeys, KeyCookie(s.keys.trans) < s.hash.cookies[1],
         NEW n \in Nat, NEW g \in Nat, NEW r \in BOOLEAN, NEW c \in Int, Stream(w, s, n, g, r, c)
  PROVE  /\ IsSession(send_msg_newkeys(e, s))
         /\ Same(s, send_msg_newkeys(e, s), {"out", "transseq", "sentnewkeys", "donefirstkex",
                                             "donesecondkex", "dataallowed", "keys", "newkeys"})
         /\ Stream(w, send_msg_newkeys(e, s), n, g, r, c)
         /\ send_msg_newkeys(e, s).sentnewkeys /\ send_msg_newkeys(e, s).dataallowed
         /\ send_msg_newkeys(e, s).newkeys.trans = NoKey
         /\ KeyCookie(send_msg_newkeys(e, s).keys.trans) = s.hash.cookies[1]
  <1>0. /\ DOMAIN s = Fields /\ s.hash \in Hash /\ s.keys \in Keys /\ s.transseq \in Nat
        /\ s.donefirstkex \in BOOLEAN /\ s.donesecondkex \in BOOLEAN
    BY DEF IsSession, Flags
  <1>1. PICK a : a = encrypt_packet(s, "NEWKEYS", 0)
    OBVIOUS
  <1>2. /\ IsSession(a) /\ Same(s, a, {"out", "transseq"}) /\ Stream(w, a, n, g, r, c)
        /\ a.transseq = s.transseq + 1 /\ Closed(w \o a.out)
    BY <1>1, EncryptKex
  <1>3. PICK key \in MaybeKey : key = <<s.hash, Direction(e)>> /\ key # NoKey /\ KeyCookie(key) = s.hash.cookies[1]
    <2>1. PICK h \in Hash, dir \in {"c2s", "s2c"} : h = s.hash /\ dir = Direction(e)
      BY <1>0 DEF Direction
    <2>2. <<h, dir>> \in MaybeKey /\ <<h, dir>> # NoKey /\ <<h, dir>>[1] = h
      BY DEF MaybeKey, NoKey
    <2>3. KeyCookie(<<h, dir>>) = h.cookies[1]
      BY <2>2 DEF KeyCookie
    <2> QED BY <2>1, <2>2, <2>3
  <1>4. PICK other \in MaybeKey : other = <<s.hash, Direction(Peer(e))>>
    BY <1>0 DEF MaybeKey, Direction
  <1>5. PICK b : b = [a EXCEPT !.sentnewkeys = TRUE, !.donesecondkex = @ \/ s.donefirstkex,
                              !.donefirstkex = TRUE, !.dataallowed = TRUE]
    OBVIOUS
  <1>6. /\ Same(s, b, {"out", "transseq", "sentnewkeys", "donefirstkex", "donesecondkex", "dataallowed"})
        /\ b.sentnewkeys = TRUE /\ b.dataallowed = TRUE /\ b.donefirstkex = TRUE
        /\ b.donesecondkex \in BOOLEAN /\ b.out = a.out /\ b.transseq = a.transseq
    BY <1>2, <1>5 DEF Same, Fields, Flags
  <1>7. PICK d : d = gen_new_keys(e, b)
    OBVIOUS
  <1>8. /\ Same(b, d, {"newkeys"}) /\ d.newkeys = [trans |-> key, recv |-> other]
    BY <1>3, <1>4, <1>6, <1>7 DEF gen_new_keys, Same, Fields, Flags
  <1>9. PICK f : f = switch_keys(d)
    OBVIOUS
  <1>10. /\ d.sentnewkeys = TRUE /\ ~d.recvnewkeys /\ d.sentkexinit /\ d.recvkexinit
         /\ d.keys = s.keys /\ DOMAIN d = Fields
    BY <1>6, <1>8 DEF Same, Fields, Flags
  <1>11. f = [d EXCEPT !.keys = [recv |-> s.keys.recv, trans |-> key],
                       !.newkeys = [recv |-> other, trans |-> NoKey]]
    BY <1>3, <1>8, <1>9, <1>10 DEF switch_keys, Fields, Flags
  <1>12. /\ Same(d, f, {"keys", "newkeys"}) /\ f.keys = [recv |-> s.keys.recv, trans |-> key]
         /\ f.newkeys = [recv |-> other, trans |-> NoKey]
    BY <1>10, <1>11 DEF Same, Fields, Flags
  <1>13. PICK u : u = IF s.strict_kex THEN [f EXCEPT !.transseq = 0] ELSE f
    OBVIOUS
  <1>14. send_msg_newkeys(e, s) = u
    BY <1>1, <1>5, <1>7, <1>9, <1>13 DEF send_msg_newkeys
  <1>15. /\ Same(s, u, {"out", "transseq", "sentnewkeys", "donefirstkex",
                        "donesecondkex", "dataallowed", "keys", "newkeys"})
         /\ u.sentnewkeys = TRUE /\ u.dataallowed = TRUE /\ u.out = a.out
         /\ u.donefirstkex = TRUE /\ u.donesecondkex \in BOOLEAN
         /\ u.keys = f.keys /\ u.newkeys = f.newkeys /\ u.transseq \in {0, a.transseq}
    BY <1>6, <1>8, <1>12, <1>13 DEF Same, Fields, Flags
  <1>16. /\ u.keys \in Keys /\ u.newkeys \in Keys /\ u.newkeys.trans = NoKey /\ u.keys.trans = key
         /\ u.transseq \in Nat /\ u.out \in Seq(Packet)
    <2>1. u.transseq \in Nat /\ u.out \in Seq(Packet)
      <3>1. a.transseq \in Nat /\ a.out \in Seq(Packet)
        BY <1>2 DEF IsSession
      <3> QED BY <1>15, <3>1
    <2>2. NoKey \in MaybeKey /\ s.keys.recv \in MaybeKey
      BY <1>0 DEF MaybeKey, Keys
    <2>3. u.keys \in Keys /\ u.newkeys \in Keys /\ u.newkeys.trans = NoKey /\ u.keys.trans = key
      BY <1>12, <1>15, <2>2 DEF Keys
    <2> QED BY <2>1, <2>3
  <1>17. IsSession(u)
    <2>1. \A i \in {"out", "transseq", "sentnewkeys", "donefirstkex",
                     "donesecondkex", "dataallowed", "keys", "newkeys"} : u[i] \in TypeOf(i)
      BY <1>15, <1>16, TypesOf, ZenonT(60) DEF Flags
    <2> QED BY <1>15, <2>1, SameType
  <1>18. Stream(w, u, n, g, r, c)
    <2> DEFINE x == w \o a.out
    <2>1. /\ Quiet(x) /\ Closed(x)
          /\ Numbered(x, a.keys.trans, a.transseq) /\ Cookies(x, a.cookie)
          /\ (r => DataOn(x, a.reply_queue, n, g)) /\ c <= a.cookie /\ Newer(x, c)
      BY <1>2 DEF Stream, Written
    <2>2. x \in Seq(Packet) /\ a.keys.trans \in MaybeKey /\ a.transseq \in Nat
      BY <1>2, ConcatFacts DEF IsSession, Keys
    <2>3. w \o u.out = x
      BY <1>15
    <2> HIDE DEF x
    <2>4. a.keys = s.keys /\ u.cookie = a.cookie /\ u.reply_queue = a.reply_queue
      BY <1>2, <1>15 DEF Same, Fields, Flags
    <2>5. Numbered(x, key, u.transseq)
      BY <1>3, <1>16, <2>1, <2>2, <2>4, NumberedNewKey
    <2> QED BY <1>15, <1>16, <2>1, <2>3, <2>4, <2>5 DEF Stream, Written
  <1> QED BY <1>3, <1>14, <1>15, <1>16, <1>17, <1>18

\* recv_msg_newkeys() after the end's own NEWKEYS ends the exchange.
LEMMA RecvNewkeys ==
  ASSUME NEW s, IsSession(s), s.sentkexinit, s.recvkexinit, s.sentnewkeys, s.newkeys.trans = NoKey
  PROVE  /\ IsSession(recv_msg_newkeys(s))
         /\ Same(s, recv_msg_newkeys(s), {"sentkexinit", "recvkexinit", "sentnewkeys", "recvnewkeys",
                "our_first_follows_matches", "keys", "newkeys", "recvseq", "recvfirstnewkeys"})
         /\ recv_msg_newkeys(s).keys.trans = s.keys.trans
         /\ ~recv_msg_newkeys(s).sentkexinit /\ ~recv_msg_newkeys(s).recvkexinit
         /\ ~recv_msg_newkeys(s).sentnewkeys /\ ~recv_msg_newkeys(s).recvnewkeys
  <1>0. DOMAIN s = Fields /\ s.keys \in Keys /\ s.newkeys \in Keys /\ s.recvseq \in Nat
    BY DEF IsSession
  <1>1. PICK a : a = [s EXCEPT !.recvnewkeys = TRUE]
    OBVIOUS
  <1>2. Same(s, a, {"recvnewkeys"}) /\ a.recvnewkeys = TRUE
    BY <1>0, <1>1 DEF Same, Fields, Flags
  <1>3. PICK k \in Keys, l \in Keys :
           /\ k.trans = s.keys.trans
           /\ k = [recv |-> IF s.newkeys.recv # NoKey THEN s.newkeys.recv ELSE s.keys.recv,
                   trans |-> s.keys.trans]
           /\ l = [recv |-> IF s.newkeys.recv # NoKey THEN NoKey ELSE s.newkeys.recv, trans |-> NoKey]
    <2>1. NoKey \in MaybeKey
      BY DEF MaybeKey
    <2>2. PICK x \in MaybeKey : x = IF s.newkeys.recv # NoKey THEN s.newkeys.recv ELSE s.keys.recv
      BY <1>0 DEF Keys
    <2>3. PICK y \in MaybeKey : y = IF s.newkeys.recv # NoKey THEN NoKey ELSE s.newkeys.recv
      BY <1>0, <2>1 DEF Keys
    <2>4. [recv |-> x, trans |-> s.keys.trans] \in Keys /\ [recv |-> y, trans |-> NoKey] \in Keys
      BY <1>0, <2>1 DEF Keys
    <2> QED BY <2>2, <2>3, <2>4
  <1>4. /\ a.sentnewkeys = TRUE /\ a.sentkexinit = TRUE /\ a.recvkexinit = TRUE
        /\ a.keys = s.keys /\ a.newkeys = s.newkeys /\ DOMAIN a = Fields
    <2>1. s.sentnewkeys \in BOOLEAN /\ s.sentkexinit \in BOOLEAN /\ s.recvkexinit \in BOOLEAN
      BY DEF IsSession, Flags
    <2> QED BY <1>2, <2>1 DEF Same, Fields, Flags
  <1>5. PICK b : b = [a EXCEPT !.keys = k, !.newkeys = l]
    OBVIOUS
  <1>6. PICK d : d = switch_keys(a)
    OBVIOUS
  <1>7. d = kexinitialise(b)
    BY <1>2, <1>3, <1>4, <1>5, <1>6 DEF switch_keys
  <1>8. Same(a, b, {"keys", "newkeys"}) /\ b.keys = k /\ b.newkeys = l
    BY <1>4, <1>5 DEF Same, Fields, Flags
  <1>9. /\ Same(b, d, {"sentkexinit", "recvkexinit", "sentnewkeys", "recvnewkeys",
                       "our_first_follows_matches"})
        /\ \A f \in {"sentkexinit", "recvkexinit", "sentnewkeys", "recvnewkeys",
                       "our_first_follows_matches"} : d[f] = FALSE
    BY <1>7, <1>8 DEF kexinitialise, Same, Fields, Flags
  <1>10. PICK u : u = [d EXCEPT !.recvseq = IF s.strict_kex THEN 0 ELSE @, !.recvfirstnewkeys = TRUE]
    OBVIOUS
  <1>11. recv_msg_newkeys(s) = u
    BY <1>1, <1>6, <1>10 DEF recv_msg_newkeys
  <1>12. /\ Same(d, u, {"recvseq", "recvfirstnewkeys"}) /\ u.recvseq \in {0, d.recvseq}
         /\ u.recvfirstnewkeys = TRUE
    BY <1>9, <1>10 DEF Same, Fields, Flags
  <1>13. /\ Same(s, u, {"sentkexinit", "recvkexinit", "sentnewkeys", "recvnewkeys",
                "our_first_follows_matches", "keys", "newkeys", "recvseq", "recvfirstnewkeys"})
         /\ u.keys = k /\ u.newkeys = l /\ u.recvseq \in {0, s.recvseq} /\ u.recvfirstnewkeys = TRUE
         /\ \A f \in {"sentkexinit", "recvkexinit", "sentnewkeys", "recvnewkeys",
                        "our_first_follows_matches"} : u[f] = FALSE
    BY <1>2, <1>8, <1>9, <1>12 DEF Same, Fields, Flags
  <1>14. IsSession(u)
    <2>0. u.recvseq \in Nat
      BY <1>0, <1>13
    <2>1. \A f \in {"sentkexinit", "recvkexinit", "sentnewkeys", "recvnewkeys",
                "our_first_follows_matches", "keys", "newkeys", "recvseq", "recvfirstnewkeys"} :
             u[f] \in TypeOf(f)
      BY <1>13, <2>0, TypesOf, ZenonT(60) DEF Flags
    <2> QED BY <1>13, <2>1, SameType
  <1> QED BY <1>3, <1>11, <1>13, <1>14

-----------------------------------------------------------------------------
(* The end of an iteration.                                                *)

LEMMA FlushQueue ==
  ASSUME NEW w \in Seq(Packet), NEW s, IsSession(s),
         NEW n \in Nat, NEW g \in Nat, NEW r \in BOOLEAN, NEW c \in Int, Stream(w, s, n, g, r, c)
  PROVE  /\ IsSession(maybe_flush_reply_queue(s))
         /\ Same(s, maybe_flush_reply_queue(s), {"out", "transseq", "reply_queue"})
         /\ Stream(w, maybe_flush_reply_queue(s), n, g, r, c)
         /\ s.transseq <= maybe_flush_reply_queue(s).transseq
         /\ s.dataallowed => maybe_flush_reply_queue(s).reply_queue = <<>>
  <1>0. /\ s.out \in Seq(Packet) /\ s.transseq \in Nat /\ s.cookie \in Nat /\ DOMAIN s = Fields
        /\ s.reply_queue \in Seq(Nat) /\ s.keys.trans \in MaybeKey
    BY DEF IsSession, Keys
  <1>1. CASE ~s.dataallowed
    <2>1. maybe_flush_reply_queue(s) = s
      BY <1>1 DEF maybe_flush_reply_queue
    <2> QED BY <1>0, <1>1, <2>1 DEF Same
  <1>2. CASE s.dataallowed
    <2>1. PICK q \in Seq(Nat) : q = s.reply_queue /\ Len(q) \in Nat
      BY <1>0
    <2>2. PICK y \in Seq(Packet) :
             /\ FlushOf(y, q, s.keys.trans, s.transseq) /\ Len(y) = Len(q)
             /\ y = [i \in 1..Len(q) |-> [type |-> "DATA", body |-> q[i],
                                         key |-> s.keys.trans, seq |-> s.transseq + i - 1]]
      <3> DEFINE z == [i \in 1..Len(q) |-> [type |-> "DATA", body |-> q[i],
                                          key |-> s.keys.trans, seq |-> s.transseq + i - 1]]
      <3>1. ASSUME NEW i \in 1..Len(q)
            PROVE  [type |-> "DATA", body |-> q[i], key |-> s.keys.trans, seq |-> s.transseq + i - 1]
                       \in Packet
        <4>1. q[i] \in Nat
          BY <2>1
        <4>2. s.transseq + i - 1 \in Nat
          BY <1>0
        <4> QED BY <1>0, <4>1, <4>2 DEF Packet, Plain
      <3>2. z \in Seq(Packet) /\ Len(z) = Len(q)
        BY <2>1, <3>1
      <3>3. FlushOf(z, q, s.keys.trans, s.transseq)
        BY <3>2 DEF FlushOf
      <3> QED BY <3>2, <3>3
    <2>3. PICK t : t = [s EXCEPT !.out = @ \o y, !.transseq = @ + Len(q), !.reply_queue = <<>>]
      OBVIOUS
    <2>4. maybe_flush_reply_queue(s) = t
      BY <1>2, <2>1, <2>2, <2>3 DEF maybe_flush_reply_queue
    <2>5. /\ Same(s, t, {"out", "transseq", "reply_queue"}) /\ t.out = s.out \o y
          /\ t.transseq = s.transseq + Len(q) /\ t.reply_queue = <<>>
      BY <1>0, <2>3 DEF Same, Fields, Flags
    <2>6. t.out \in Seq(Packet) /\ t.transseq \in Nat /\ s.transseq <= t.transseq
          /\ t.reply_queue \in Seq(Nat)
      BY <1>0, <2>1, <2>5, ConcatFacts
    <2>7. IsSession(t)
      <3>1. \A f \in {"out", "transseq", "reply_queue"} : t[f] \in TypeOf(f)
        BY <2>6, TypesOf
      <3> QED BY <2>5, <3>1, SameType
    <2>8. Stream(w, t, n, g, r, c)
      <3> DEFINE x == w \o s.out
      <3>1. /\ Quiet(x) /\ Closed(x)
            /\ Numbered(x, s.keys.trans, s.transseq) /\ Cookies(x, s.cookie)
            /\ (r => DataOn(x, s.reply_queue, n, g)) /\ c <= s.cookie /\ Newer(x, c)
        BY <1>2 DEF Stream, Written
      <3>2. x \in Seq(Packet)
        BY <1>0, ConcatFacts
      <3>3. w \o t.out = x \o y
        <4>1. w \o (s.out \o y) = (w \o s.out) \o y
          BY <1>0, ConcatTwice
        <4> QED BY <2>5, <4>1
      <3> HIDE DEF x
      <3>4. t.keys = s.keys /\ t.cookie = s.cookie /\ t.dataallowed = s.dataallowed
        BY <2>5 DEF Same, Fields, Flags
      <3>5. /\ Quiet(x \o y) /\ Closed(x \o y) /\ Numbered(x \o y, s.keys.trans, s.transseq + Len(q))
            /\ Cookies(x \o y, s.cookie) /\ (r => DataOn(x \o y, <<>>, n, g)) /\ Newer(x \o y, c)
        BY <1>0, <2>1, <2>2, <3>1, <3>2, Flush
      <3> QED BY <2>5, <3>1, <3>3, <3>4, <3>5 DEF Stream, Written
    <2> QED BY <2>4, <2>5, <2>6, <2>7, <2>8
  <1> QED BY <1>1, <1>2

\* loophandler(): the client's own state is right again after it.
LEMMA LoopHandler ==
  ASSUME NEW e \in End, NEW w \in Seq(Packet), NEW s, IsSession(s), Sound(e, s),
         NEW n \in Nat, NEW g \in Nat, NEW r \in BOOLEAN, NEW c \in Int, Stream(w, s, n, g, r, c)
  PROVE  /\ IsSession(loophandler(e, s))
         /\ Same(s, loophandler(e, s), {"out", "transseq", "pub", "pubs", "kex_state"})
         /\ Stream(w, loophandler(e, s), n, g, r, c)
         /\ s.transseq <= loophandler(e, s).transseq
         /\ ClientState(e, loophandler(e, s))
  <1>0. /\ DOMAIN s = Fields /\ s.kex_state \in {"KEX_NOTHING", "KEXDH_INIT_SENT"} /\ s.transseq \in Nat
        /\ s.recvkexinit \in BOOLEAN /\ s.sentnewkeys \in BOOLEAN
    BY DEF IsSession, Flags
  <1>1. CASE ~(e = "client" /\ s.lastpacket # None)
    <2>1. loophandler(e, s) = s
      BY <1>1 DEF loophandler
    <2>2. ClientState(e, s)
      <3>1. CASE e = "server"
        BY <1>0, <3>1 DEF Sound, ClientMid, ClientState
      <3>2. CASE e = "client" /\ s.lastpacket = None
        <4>1. None # "KEXINIT"
          BY NoneIsNoType DEF PacketType
        <4> QED BY <1>0, <3>2, <4>1 DEF Sound, ClientMid, ClientState
      <3> QED BY <1>1, <3>1, <3>2 DEF End
    <2> QED BY <1>0, <2>1, <2>2 DEF Same
  <1>2. CASE e = "client" /\ s.lastpacket # None /\ s.lastpacket = "KEXINIT" /\ s.kex_state = "KEX_NOTHING"
    <2>1. PICK a : a = IF s.our_first_follows_matches THEN s ELSE send_msg_kexdh_init(s)
      OBVIOUS
    <2>2. /\ IsSession(a) /\ Same(s, a, {"out", "transseq", "pub", "pubs"}) /\ Stream(w, a, n, g, r, c)
          /\ s.transseq <= a.transseq
      <3>1. CASE s.our_first_follows_matches
        BY <1>0, <2>1, <3>1 DEF Same
      <3>2. CASE ~s.our_first_follows_matches
        BY <1>0, <2>1, <3>2, SendKexdhInit
      <3> QED BY <3>1, <3>2
    <2>3. PICK u : u = [a EXCEPT !.kex_state = "KEXDH_INIT_SENT"]
      OBVIOUS
    <2>4. loophandler(e, s) = u
      BY <1>2, <2>1, <2>3 DEF loophandler, cli_sessionloop
    <2>5. Same(a, u, {"kex_state"}) /\ u.kex_state = "KEXDH_INIT_SENT"
      BY <2>2, <2>3 DEF Same, Fields, Flags
    <2>6. IsSession(u)
      <3>1. \A f \in {"kex_state"} : u[f] \in TypeOf(f)
        BY <2>5, TypesOf
      <3> QED BY <2>2, <2>5, <3>1, SameType
    <2>7. Stream(w, u, n, g, r, c)
      BY <2>2, <2>5, StreamSame DEF Same, Fields, Flags
    <2>8. /\ Same(s, u, {"out", "transseq", "pub", "pubs", "kex_state"}) /\ u.transseq = a.transseq
          /\ u.recvkexinit = s.recvkexinit /\ u.sentnewkeys = s.sentnewkeys
          /\ u.requirenext = s.requirenext
      BY <2>2, <2>5 DEF Same, Fields, Flags
    <2>9. ClientState(e, u)
      BY <1>2, <2>5, <2>8 DEF Sound, ClientMid, ClientState, InExchange
    <2> QED BY <2>2, <2>4, <2>6, <2>7, <2>8, <2>9
  <1>3. CASE e = "client" /\ s.lastpacket # None /\ ~(s.lastpacket = "KEXINIT" /\ s.kex_state = "KEX_NOTHING")
    <2>1. PICK u : u = [s EXCEPT !.kex_state = IF s.sentnewkeys THEN "KEX_NOTHING" ELSE @]
      OBVIOUS
    <2>2. loophandler(e, s) = u
      BY <1>3, <2>1 DEF loophandler, cli_sessionloop
    <2>3. /\ Same(s, u, {"kex_state"})
          /\ u.kex_state = IF s.sentnewkeys THEN "KEX_NOTHING" ELSE s.kex_state
      BY <1>0, <2>1 DEF Same, Fields, Flags
    <2>4. IsSession(u)
      <3>1. \A f \in {"kex_state"} : u[f] \in TypeOf(f)
        BY <1>0, <2>3, TypesOf
      <3> QED BY <2>3, <3>1, SameType
    <2>5. Stream(w, u, n, g, r, c)
      BY <2>3, StreamSame DEF Same, Fields, Flags
    <2>6. /\ Same(s, u, {"out", "transseq", "pub", "pubs", "kex_state"}) /\ u.transseq = s.transseq
          /\ u.recvkexinit = s.recvkexinit /\ u.sentnewkeys = s.sentnewkeys
          /\ u.requirenext = s.requirenext /\ u.lastpacket = s.lastpacket
      BY <2>3 DEF Same, Fields, Flags
    <2>7. ClientState(e, u)
      BY <1>0, <1>3, <2>3, <2>6 DEF Sound, ClientMid, ClientState, InExchange
    <2>8. s.transseq <= u.transseq
      BY <1>0, <2>6
    <2> QED BY <2>2, <2>4, <2>5, <2>6, <2>7, <2>8
  <1> QED BY <1>1, <1>2, <1>3

-----------------------------------------------------------------------------
(* The handlers of packets.                                                *)

\* An end that goes on, between two iterations.
Before(e, s) == ~s.exited /\ Phases(s) /\ ClientState(e, s) /\ FreshKeys(e, s)

\* What the handling of packet p makes of s, up to loophandler().
Handles(e, s, u, p) ==
    /\ u.kex_state = s.kex_state
    /\ Advance(s, u)
    /\ ~u.exited =>
         /\ Phases(u) /\ FreshKeys(e, u)
         /\ e = "client" => u.requirenext # "KEXDH_INIT"
         /\ IF p.type = "KEXINIT" THEN InExchange(u)
            ELSE (InExchange(u) <=> InExchange(s)) \/ u.sentnewkeys
         /\ e = "server" => u.hash.cookies[1] = IF p.type = "KEXINIT" THEN p.body.cookie
                                                ELSE s.hash.cookies[1]

LEMMA MatchInAlgo ==
  ASSUME NEW a \in List, NEW b \in List PROVE buf_match_algo(a, b).algo \in Algo
  BY DEF Algo

\* KEXINIT begins the exchange, or joins the one that this end has begun.
LEMMA RecvKexinit ==
  ASSUME NEW e \in End, NEW w \in Seq(Packet), NEW s, IsSession(s), Before(e, s),
         NEW n \in Nat, NEW g \in Nat, NEW r \in BOOLEAN, NEW c \in Int, Stream(w, s, n, g, r, c),
         NEW p \in Packet, p.type = "KEXINIT", s.requirenext \in {None, "KEXINIT"},
         e = "server" => s.hash.cookies[1] < p.body.cookie,
         NEW h, Same(s, h, {"requirenext"}), h.requirenext = None
  PROVE  /\ IsSession(recv_msg_kexinit(e, h, p.body))
         /\ Stream(w, recv_msg_kexinit(e, h, p.body), n, g, r, c)
         /\ Handles(e, s, recv_msg_kexinit(e, h, p.body), p)
  <1>0. /\ DOMAIN s = Fields /\ s.transseq \in Nat /\ s.cookie \in Nat /\ s.hash \in Hash
        /\ s.keys.trans \in MaybeKey /\ s.sentkexinit \in BOOLEAN
    BY DEF IsSession, Flags, Keys
  <1>1. Same(s, h, {"requirenext"}) /\ h.requirenext = None
    OBVIOUS
  <1>2. IsSession(h)
    <2>1. \A f \in {"requirenext"} : h[f] \in TypeOf(f)
      BY TypesOf DEF Type
    <2> QED BY <2>1, SameType
  <1>3. Stream(w, h, n, g, r, c)
    BY <1>1, StreamSame DEF Same, Fields, Flags
  <1>4. /\ ~s.recvkexinit /\ ~s.sentnewkeys /\ ~s.recvnewkeys /\ ~s.ignorenext
        /\ s.dataallowed <=> ~s.sentkexinit
    BY NoneIsNoType DEF Before, Phases, InExchange, PacketType
  <1>5. PICK m \in KexInit : m = p.body /\ m.cookie \in Nat /\ m.sigalgs \in List
    BY PacketFields DEF KexInit
  <1>6. PICK t : t = IF h.sentkexinit THEN h ELSE send_msg_kexinit(e, h)
    OBVIOUS
  <1>7. /\ IsSession(t) /\ Stream(w, t, n, g, r, c) /\ s.transseq <= t.transseq
        /\ Same(s, t, {"requirenext", "out", "transseq", "pub", "pubs", "cookie",
                       "dataallowed", "sentkexinit", "newkeys"})
        /\ t.sentkexinit = TRUE /\ ~t.dataallowed /\ t.requirenext = None
        /\ IF s.sentkexinit THEN t.cookie = s.cookie ELSE t.cookie = s.cookie + 1
    <2>0. h.sentkexinit = s.sentkexinit /\ h.dataallowed = s.dataallowed /\ h.transseq = s.transseq
          /\ h.cookie = s.cookie
      BY <1>1 DEF Same, Fields, Flags
    <2>1. CASE s.sentkexinit
      <3>1. t = h
        BY <1>6, <2>0, <2>1
      <3>2. Same(s, t, {"requirenext", "out", "transseq", "pub", "pubs", "cookie",
                        "dataallowed", "sentkexinit", "newkeys"})
        BY <1>1, <3>1 DEF Same
      <3>3. t.transseq = s.transseq /\ t.sentkexinit = TRUE /\ ~t.dataallowed /\ t.cookie = s.cookie
        BY <1>0, <1>4, <2>0, <2>1, <3>1
      <3>4. s.transseq <= t.transseq
        BY <1>0, <3>3
      <3> QED BY <1>1, <1>2, <1>3, <2>1, <3>1, <3>2, <3>3, <3>4
    <2>2. CASE ~s.sentkexinit
      <3>1. t = send_msg_kexinit(e, h)
        BY <1>6, <2>0, <2>2
      <3>2. /\ IsSession(t) /\ Stream(w, t, n, g, r, c)
            /\ Same(h, t, {"out", "transseq", "pub", "pubs", "cookie",
                           "dataallowed", "sentkexinit", "newkeys"})
            /\ h.transseq <= t.transseq /\ t.cookie = h.cookie + 1 /\ t.sentkexinit /\ ~t.dataallowed
        BY <1>2, <1>3, <1>4, <2>0, <2>2, <3>1, SendKexinit
      <3>3. t.sentkexinit \in BOOLEAN
        BY <3>2 DEF IsSession, Flags
      <3>4. /\ Same(s, t, {"requirenext", "out", "transseq", "pub", "pubs", "cookie",
                           "dataallowed", "sentkexinit", "newkeys"})
            /\ t.requirenext = None
        BY <1>1, <3>2 DEF Same, Fields, Flags
      <3> QED BY <2>0, <2>2, <3>2, <3>3, <3>4
    <2> QED BY <2>1, <2>2
  <1>8. PICK match : match = IF e = "server" THEN buf_match_algo(m.sigalgs, localnames(t.sigalgs))
                                             ELSE buf_match_algo(localnames(t.sigalgs), m.sigalgs)
    OBVIOUS
  <1>9. match.algo \in Algo
    <2>1. localnames(t.sigalgs) \in List
      <3>1. t.sigalgs \in Seq(Name)
        BY <1>7 DEF IsSession
      <3> QED BY <3>1, Zenon DEF List
    <2> QED BY <1>5, <1>8, <2>1, MatchInAlgo
  <1>10. PICK v : v = read_kex_algos(e, t, m)
    OBVIOUS
  <1>11. /\ Same(t, v, {"newkeys", "algo_signature", "strict_kex", "ignorenext",
                        "our_first_follows_matches", "exited"})
         /\ v.newkeys = NoKeys /\ v.algo_signature = match.algo
         /\ \A f \in {"strict_kex", "ignorenext", "our_first_follows_matches", "exited"} : v[f] \in BOOLEAN
    <2>1. DOMAIN t = Fields
      BY <1>7 DEF IsSession
    <2> QED BY <1>8, <1>10, <2>1 DEF read_kex_algos, Same, Fields, Flags
  <1>12. PICK k \in Hash : /\ k = [NoHash EXCEPT !.cookies = IF e = "client" THEN <<t.cookie, m.cookie>>
                                                                      ELSE <<m.cookie, t.cookie>>]
                           /\ k.cookies[1] = IF e = "client" THEN t.cookie ELSE m.cookie
    <2>1. PICK l \in Nat \X Nat : /\ l = IF e = "client" THEN <<t.cookie, m.cookie>>
                                                          ELSE <<m.cookie, t.cookie>>
                                  /\ l[1] = IF e = "client" THEN t.cookie ELSE m.cookie
      <3>1. t.cookie \in Nat
        BY <1>7 DEF IsSession
      <3>2. /\ <<t.cookie, m.cookie>> \in Nat \X Nat /\ <<t.cookie, m.cookie>>[1] = t.cookie
            /\ <<m.cookie, t.cookie>> \in Nat \X Nat /\ <<m.cookie, t.cookie>>[1] = m.cookie
        BY <1>5, <3>1
      <3>3. CASE e = "client"
        BY <3>2, <3>3
      <3>4. CASE e # "client"
        BY <3>2, <3>4
      <3> QED BY <3>3, <3>4
    <2>2. None \in Algo
      BY DEF Algo, Name
    <2>3. [NoHash EXCEPT !.cookies = l] = [cookies |-> l, pub |-> 0, sig |-> None]
      BY DEF NoHash
    <2>4. [cookies |-> l, pub |-> 0, sig |-> None] \in Hash
      BY <2>2 DEF Hash
    <2> QED BY <2>1, <2>3, <2>4
  <1>13. PICK req : req = IF e = "client" THEN "KEXDH_REPLY" ELSE "KEXDH_INIT"
    OBVIOUS
  <1>14. PICK a : a = [v EXCEPT !.hash = k, !.requirenext = req, !.recvkexinit = TRUE]
    OBVIOUS
  <1>15. /\ Same(v, a, {"hash", "requirenext", "recvkexinit"})
         /\ a.hash = k /\ a.requirenext = req /\ a.recvkexinit = TRUE
    BY <1>11, <1>14 DEF Same, Fields, Flags
  <1>16. PICK u : u = recv_msg_kexinit(e, h, m)
    OBVIOUS
  <1>17. u = a \/ u = dropbear_exit(a)
    BY <1>6, <1>10, <1>12, <1>13, <1>14, <1>16 DEF recv_msg_kexinit
  <1>18. Same(a, u, {"exited"}) /\ u.exited \in BOOLEAN
    <2>1. DOMAIN a = Fields /\ a.exited \in BOOLEAN
      BY <1>11, <1>15 DEF Same, Fields, Flags
    <2>2. CASE u = a
      BY <2>1, <2>2 DEF Same
    <2>3. CASE u = dropbear_exit(a)
      BY <2>1, <2>3 DEF dropbear_exit, Same, Fields, Flags
    <2> QED BY <1>17, <2>2, <2>3
  <1>19. /\ Same(t, u, {"newkeys", "algo_signature", "strict_kex", "ignorenext",
                        "our_first_follows_matches", "exited", "hash", "requirenext", "recvkexinit"})
         /\ u.newkeys = NoKeys /\ u.algo_signature = match.algo
         /\ \A f \in {"strict_kex", "ignorenext", "our_first_follows_matches", "exited"} : u[f] \in BOOLEAN
         /\ u.hash = k /\ u.requirenext = req /\ u.recvkexinit = TRUE
    BY <1>11, <1>15, <1>18 DEF Same, Fields, Flags
  <1>20. NoKeys \in Keys /\ req \in Type
    BY <1>13 DEF NoKeys, Keys, MaybeKey, Type, PacketType
  <1>21. IsSession(u)
    <2>1. \A f \in {"newkeys", "algo_signature", "strict_kex", "ignorenext",
                     "our_first_follows_matches", "exited", "hash", "requirenext", "recvkexinit"} :
             u[f] \in TypeOf(f)
      BY <1>9, <1>19, <1>20, TypesOf DEF Flags
    <2> QED BY <1>7, <1>19, <2>1, SameType
  <1>22. Stream(w, u, n, g, r, c)
    BY <1>7, <1>19, StreamSame DEF Same, Fields, Flags
  <1>23. /\ u.keys = s.keys /\ u.transseq = t.transseq /\ u.cookie = t.cookie /\ u.kex_state = s.kex_state
         /\ u.sentkexinit = TRUE /\ ~u.dataallowed /\ u.sentnewkeys = s.sentnewkeys
         /\ u.recvnewkeys = s.recvnewkeys
    BY <1>7, <1>19 DEF Same, Fields, Flags
  <1>24. Advance(s, u)
    BY <1>7, <1>23 DEF Advance
  <1>25. Phases(u) /\ InExchange(u)
    BY <1>4, <1>13, <1>19, <1>23 DEF Phases, InExchange
  <1>26. KeyCookie(s.keys.trans) \in Nat /\ s.hash.cookies[1] \in Nat
    BY <1>0, CookieIsNat DEF Hash
  <1>27. FreshKeys(e, u)
    <2>1. /\ KeyCookie(s.keys.trans) <= LastCookie(e, s)
          /\ e = "client" /\ s.sentkexinit => KeyCookie(s.keys.trans) < s.cookie
      BY <1>4 DEF Before, FreshKeys
    <2>2. CASE e = "client"
      <3>1. KeyCookie(s.keys.trans) < t.cookie /\ u.hash.cookies[1] = t.cookie
        BY <1>0, <1>7, <1>12, <1>19, <1>26, <2>1, <2>2 DEF LastCookie
      <3>2. t.cookie \in Nat
        BY <1>7 DEF IsSession
      <3> QED BY <1>23, <1>26, <2>2, <3>1, <3>2 DEF FreshKeys, LastCookie
    <2>3. CASE e = "server"
      <3>1. KeyCookie(s.keys.trans) < m.cookie /\ u.hash.cookies[1] = m.cookie
        BY <1>5, <1>12, <1>19, <1>26, <2>1, <2>3 DEF LastCookie
      <3> QED BY <1>5, <1>23, <1>26, <2>3, <3>1 DEF FreshKeys, LastCookie
    <2> QED BY <2>2, <2>3 DEF End
  <1>28. Handles(e, s, u, p)
    BY <1>5, <1>12, <1>13, <1>19, <1>23, <1>24, <1>25, <1>27 DEF Handles
  <1> QED BY <1>5, <1>16, <1>21, <1>22, <1>28

\* finish_kexhashbuf() touches the two hashes only.
LEMMA FinishHash ==
  ASSUME NEW s, IsSession(s), NEW pub \in Nat
  PROVE  /\ IsSession(finish_kexhashbuf(s, pub))
         /\ Same(s, finish_kexhashbuf(s, pub), {"hash", "session_id"})
         /\ finish_kexhashbuf(s, pub).hash.cookies = s.hash.cookies
  <1>0. DOMAIN s = Fields /\ s.hash \in Hash /\ s.session_id \in Hash /\ s.algo_signature \in Algo
    BY DEF IsSession
  <1>1. PICK k \in Hash : /\ k = [cookies |-> s.hash.cookies, pub |-> pub, sig |-> s.algo_signature]
                          /\ k.cookies = s.hash.cookies
    <2>1. PICK k0 \in Nat \X Nat, a \in Algo : k0 = s.hash.cookies /\ a = s.algo_signature
      BY <1>0 DEF Hash
    <2>2. [cookies |-> k0, pub |-> pub, sig |-> a] \in Hash
      BY DEF Hash
    <2> QED BY <2>1, <2>2
  <1>2. PICK t : t = finish_kexhashbuf(s, pub)
    OBVIOUS
  <1>3. t = [s EXCEPT !.hash = k, !.session_id = IF @ = NoHash THEN k ELSE @]
    BY <1>1, <1>2 DEF finish_kexhashbuf
  <1>4. Same(s, t, {"hash", "session_id"}) /\ t.hash = k /\ t.session_id \in {k, s.session_id}
    BY <1>0, <1>3 DEF Same, Fields, Flags
  <1>5. IsSession(t)
    <2>1. \A f \in {"hash", "session_id"} : t[f] \in TypeOf(f)
      BY <1>0, <1>4, TypesOf
    <2> QED BY <1>4, <2>1, SameType
  <1> QED BY <1>1, <1>2, <1>4, <1>5

\* What both ends do when the exchange is computed, but for the reply.
LEMMA ExchangeDone ==
  ASSUME NEW e \in End, NEW w \in Seq(Packet), NEW s, IsSession(s), Before(e, s), InExchange(s),
         NEW n \in Nat, NEW g \in Nat, NEW r \in BOOLEAN, NEW c \in Int,
         NEW a, IsSession(a), Stream(w, a, n, g, r, c), s.transseq <= a.transseq,
         Same(s, a, {"requirenext", "hash", "session_id", "pub", "out", "transseq", "ignorenext"}),
         a.hash.cookies = s.hash.cookies,
         NEW u, Same(send_msg_newkeys(e, a), u, {"requirenext", "out", "transseq", "sigalgs"}),
         u.requirenext = "NEWKEYS", ~u.ignorenext, NEW p \in Packet, p.type # "KEXINIT"
  PROVE  Handles(e, s, u, p)
  <1>1. PICK b : b = send_msg_newkeys(e, a)
    OBVIOUS
  <1>2. /\ a.sentkexinit /\ a.recvkexinit /\ ~a.recvnewkeys /\ a.keys = s.keys
        /\ KeyCookie(s.keys.trans) < s.hash.cookies[1]
    BY DEF Before, Phases, FreshKeys, InExchange, Same, Fields, Flags
  <1>3. /\ IsSession(b) /\ b.sentnewkeys /\ b.dataallowed /\ b.newkeys.trans = NoKey
        /\ KeyCookie(b.keys.trans) = s.hash.cookies[1]
        /\ Same(a, b, {"out", "transseq", "sentnewkeys", "donefirstkex",
                       "donesecondkex", "dataallowed", "keys", "newkeys"})
    BY <1>1, <1>2, SendNewkeys
  <1>4. /\ u.kex_state = s.kex_state /\ u.keys = b.keys /\ u.newkeys = b.newkeys /\ u.cookie = s.cookie
        /\ u.sentnewkeys = b.sentnewkeys /\ u.dataallowed = b.dataallowed /\ u.hash.cookies = s.hash.cookies
        /\ u.sentkexinit = s.sentkexinit /\ u.recvkexinit = s.recvkexinit
        /\ u.recvnewkeys = s.recvnewkeys
    BY <1>1, <1>3 DEF Same, Fields, Flags
  <1>5. Advance(s, u)
    BY <1>2, <1>3, <1>4 DEF Advance
  <1>6. Phases(u)
    BY <1>3, <1>4 DEF Before, Phases, InExchange
  <1>7. FreshKeys(e, u)
    <2>1. s.hash.cookies[1] \in Nat /\ s.cookie \in Nat
      BY DEF IsSession, Hash
    <2>2. e = "client" => s.hash.cookies[1] = s.cookie
      BY DEF Before, FreshKeys, InExchange
    <2> QED BY <1>3, <1>4, <2>1, <2>2 DEF FreshKeys, LastCookie, InExchange
  <1> QED BY <1>3, <1>4, <1>5, <1>6, <1>7 DEF Handles

\* A handler that gives up has written nothing.
LEMMA Exits ==
  ASSUME NEW e \in End, NEW w \in Seq(Packet), NEW s, IsSession(s),
         NEW n \in Nat, NEW g \in Nat, NEW r \in BOOLEAN, NEW c \in Int, Stream(w, s, n, g, r, c),
         NEW h, Same(s, h, {"requirenext", "recvseq"}), h.requirenext \in Type, h.recvseq \in Nat, NEW p \in Packet
  PROVE  /\ IsSession(dropbear_exit(h)) /\ Stream(w, dropbear_exit(h), n, g, r, c)
         /\ Handles(e, s, dropbear_exit(h), p) /\ dropbear_exit(h).exited
  <1>1. PICK u : u = dropbear_exit(h)
    OBVIOUS
  <1>2. Same(h, u, {"exited"}) /\ u.exited = TRUE
    BY <1>1 DEF dropbear_exit, Same, Fields, Flags
  <1>3. Same(s, u, {"requirenext", "recvseq", "exited"}) /\ u.requirenext = h.requirenext /\ u.recvseq = h.recvseq
    BY <1>2 DEF Same, Fields, Flags
  <1>4. IsSession(u)
    <2>1. \A f \in {"requirenext", "recvseq", "exited"} : u[f] \in TypeOf(f)
      BY <1>2, <1>3, TypesOf DEF Flags
    <2> QED BY <1>3, <2>1, SameType
  <1>5. u.keys = s.keys /\ u.transseq = s.transseq /\ u.kex_state = s.kex_state
    BY <1>3 DEF Same, Fields, Flags
  <1>6. Stream(w, u, n, g, r, c)
    BY <1>3, StreamSame DEF Same, Fields, Flags
  <1>7. s.transseq \in Nat
    BY DEF IsSession
  <1>8. Handles(e, s, u, p)
    BY <1>2, <1>5, <1>7 DEF Handles, Advance
  <1> QED BY <1>1, <1>2, <1>4, <1>6, <1>8

LEMMA ExitsAtOnce ==
  ASSUME NEW e \in End, NEW w \in Seq(Packet), NEW s, IsSession(s),
         NEW n \in Nat, NEW g \in Nat, NEW r \in BOOLEAN, NEW c \in Int, Stream(w, s, n, g, r, c), NEW p \in Packet
  PROVE  /\ IsSession(dropbear_exit(s)) /\ Stream(w, dropbear_exit(s), n, g, r, c)
         /\ Handles(e, s, dropbear_exit(s), p) /\ dropbear_exit(s).exited
  <1>1. Same(s, s, {"requirenext", "recvseq"}) /\ s.requirenext \in Type /\ s.recvseq \in Nat
    BY DEF Same, IsSession
  <1> QED BY <1>1, Exits

LEMMA RecvKexdhInit ==
  ASSUME NEW e \in End, NEW w \in Seq(Packet), NEW s, IsSession(s), Before(e, s),
         NEW n \in Nat, NEW g \in Nat, NEW r \in BOOLEAN, NEW c \in Int, Stream(w, s, n, g, r, c),
         NEW p \in Packet, p.type = "KEXDH_INIT", s.requirenext \in {None, "KEXDH_INIT"}, ~s.ignorenext,
         NEW h, Same(s, h, {"requirenext"}), h.requirenext = None
  PROVE  /\ IsSession(recv_msg_kexdh_init(h, p.body))
         /\ Stream(w, recv_msg_kexdh_init(h, p.body), n, g, r, c)
         /\ Handles(e, s, recv_msg_kexdh_init(h, p.body), p)
  <1>0. DOMAIN s = Fields /\ s.transseq \in Nat /\ s.recvkexinit \in BOOLEAN /\ s.recvseq \in Nat
    BY DEF IsSession, Flags
  <1>1. IsSession(h)
    <2>1. \A f \in {"requirenext"} : h[f] \in TypeOf(f)
      BY TypesOf DEF Type
    <2> QED BY <2>1, SameType
  <1>2. h.recvkexinit = s.recvkexinit /\ h.recvseq = s.recvseq
    BY DEF Same, Fields, Flags
  <1>3. CASE ~s.recvkexinit
    <2>1. recv_msg_kexdh_init(h, p.body) = dropbear_exit(h)
      BY <1>2, <1>3 DEF recv_msg_kexdh_init
    <2>2. Same(s, h, {"requirenext", "recvseq"}) /\ h.requirenext \in Type /\ h.recvseq \in Nat
      BY <1>0, <1>2 DEF Same, Type
    <2> QED BY <2>1, <2>2, Exits
  <1>4. CASE s.recvkexinit
    <2>0. e = "server" /\ InExchange(s)
      BY <1>4, NoneIsNoType DEF Before, Phases, ClientState, InExchange, End, PacketType
    <2>1. PICK pub \in Nat : pub = p.body
      BY PacketFields DEF Plain
    <2>2. PICK t : t = finish_kexhashbuf(h, pub)
      OBVIOUS
    <2>3. IsSession(t) /\ Same(h, t, {"hash", "session_id"}) /\ t.hash.cookies = h.hash.cookies
      BY <1>1, <2>2, FinishHash
    <2>4. Stream(w, t, n, g, r, c)
      BY <2>3, StreamSame DEF Same, Fields, Flags
    <2>5. t.hash \in Hash
      BY <2>3 DEF IsSession
    <2>6. PICK a : a = encrypt_packet(t, "KEXDH_REPLY", t.hash)
      OBVIOUS
    <2>7. /\ IsSession(a) /\ Same(t, a, {"out", "transseq"}) /\ Stream(w, a, n, g, r, c)
          /\ a.transseq = t.transseq + 1
      BY <2>3, <2>4, <2>5, <2>6, EncryptKex
    <2>8. /\ Same(s, a, {"requirenext", "hash", "session_id", "pub", "out", "transseq", "ignorenext"})
          /\ t.transseq = s.transseq /\ a.hash = t.hash /\ h.hash = s.hash /\ a.ignorenext = s.ignorenext
          /\ a.keys = s.keys
      BY <2>3, <2>7 DEF Same, Fields, Flags
    <2>9. s.transseq <= a.transseq /\ a.hash.cookies = s.hash.cookies
      BY <1>0, <2>3, <2>7, <2>8
    <2>10. PICK b : b = send_msg_newkeys("server", a)
      OBVIOUS
    <2>11. /\ IsSession(b) /\ Stream(w, b, n, g, r, c)
           /\ Same(a, b, {"out", "transseq", "sentnewkeys", "donefirstkex",
                          "donesecondkex", "dataallowed", "keys", "newkeys"})
      <3>1. /\ a.sentkexinit /\ a.recvkexinit /\ ~a.recvnewkeys
            /\ KeyCookie(a.keys.trans) < a.hash.cookies[1]
        BY <2>0, <2>8, <2>9 DEF Before, Phases, FreshKeys, InExchange, Same, Fields, Flags
      <3> QED BY <2>0, <2>7, <2>10, <3>1, SendNewkeys
    <2>12. PICK d : d = encrypt_packet(b, "EXT_INFO", 0)
      OBVIOUS
    <2>13. IsSession(d) /\ Same(b, d, {"out", "transseq"}) /\ Stream(w, d, n, g, r, c)
      BY <2>11, <2>12, EncryptKex
    <2>14. PICK l \in Seq(Name) : l = [i \in 1..Len(d.sigalgs) |->
                                         IF d.sigalgs[i] = h.algo_signature THEN d.sigalgs[i] ELSE None]
      <3>1. d.sigalgs \in Seq(Name)
        BY <2>13 DEF IsSession
      <3>2. PICK q \in Seq(Name) : q = d.sigalgs /\ Len(q) \in Nat
        BY <3>1
      <3>3. \A i \in 1..Len(q) : (IF q[i] = h.algo_signature THEN q[i] ELSE None) \in Name
        BY DEF Name
      <3>4. [i \in 1..Len(q) |-> IF q[i] = h.algo_signature THEN q[i] ELSE None] \in Seq(Name)
        BY <3>2, <3>3
      <3> QED BY <3>2, <3>4
    <2>15. PICK v : v = IF b.donesecondkex THEN b ELSE [d EXCEPT !.sigalgs = l]
      OBVIOUS
    <2>16. /\ Same(b, v, {"out", "transseq", "sigalgs"}) /\ IsSession(v) /\ Stream(w, v, n, g, r, c)
      <3>1. CASE b.donesecondkex
        BY <2>11, <2>15, <3>1 DEF Same, IsSession
      <3>2. CASE ~b.donesecondkex
        <4>1. Same(d, v, {"sigalgs"}) /\ v.sigalgs = l
          BY <2>13, <2>15, <3>2 DEF Same, Fields, Flags
        <4>2. IsSession(v)
          <5>1. \A f \in {"sigalgs"} : v[f] \in TypeOf(f)
            BY <4>1, TypesOf
          <5> QED BY <2>13, <4>1, <5>1, SameType
        <4>3. Stream(w, v, n, g, r, c)
          BY <2>13, <4>1, StreamSame DEF Same, Fields, Flags
        <4>4. Same(b, v, {"out", "transseq", "sigalgs"})
          BY <2>13, <4>1 DEF Same, Fields, Flags
        <4> QED BY <4>2, <4>3, <4>4
      <3> QED BY <3>1, <3>2
    <2>17. PICK u : u = [v EXCEPT !.requirenext = "NEWKEYS"]
      OBVIOUS
    <2>18. recv_msg_kexdh_init(h, p.body) = u
      BY <1>2, <1>4, <2>1, <2>2, <2>6, <2>10, <2>12, <2>14, <2>15, <2>17 DEF recv_msg_kexdh_init
    <2>19. Same(v, u, {"requirenext"}) /\ u.requirenext = "NEWKEYS"
      BY <2>16, <2>17 DEF Same, Fields, Flags
    <2>20. IsSession(u)
      <3>1. \A f \in {"requirenext"} : u[f] \in TypeOf(f)
        BY <2>19, TypesOf DEF Type, PacketType
      <3> QED BY <2>16, <2>19, <3>1, SameType
    <2>21. Stream(w, u, n, g, r, c)
      BY <2>16, <2>19, StreamSame DEF Same, Fields, Flags
    <2>22. Same(b, u, {"requirenext", "out", "transseq", "sigalgs"}) /\ u.ignorenext = s.ignorenext
      BY <2>8, <2>11, <2>16, <2>19 DEF Same, Fields, Flags
    <2>23. Handles(e, s, u, p)
      BY <2>0, <2>7, <2>8, <2>9, <2>10, <2>19, <2>22, ExchangeDone
    <2> QED BY <2>18, <2>20, <2>21, <2>23
  <1> QED BY <1>3, <1>4

LEMMA RecvKexdhReply ==
  ASSUME NEW e \in End, NEW w \in Seq(Packet), NEW s, IsSession(s), Before(e, s),
         NEW n \in Nat, NEW g \in Nat, NEW r \in BOOLEAN, NEW c \in Int, Stream(w, s, n, g, r, c),
         NEW p \in Packet, p.type = "KEXDH_REPLY", ~s.ignorenext,
         NEW h, Same(s, h, {"requirenext"}), h.requirenext = None
  PROVE  /\ IsSession(recv_msg_kexdh_reply(h, p.body))
         /\ Stream(w, recv_msg_kexdh_reply(h, p.body), n, g, r, c)
         /\ Handles(e, s, recv_msg_kexdh_reply(h, p.body), p)
  <1>0. DOMAIN s = Fields /\ s.transseq \in Nat /\ s.recvseq \in Nat
    BY DEF IsSession
  <1>1. IsSession(h)
    <2>1. \A f \in {"requirenext"} : h[f] \in TypeOf(f)
      BY TypesOf DEF Type
    <2> QED BY <2>1, SameType
  <1>2. h.kex_state = s.kex_state /\ h.recvseq = s.recvseq /\ h.pub \in Nat
    <2>1. h.pub \in Nat
      BY <1>1 DEF IsSession
    <2> QED BY <2>1 DEF Same, Fields, Flags
  <1>3. PICK k : k = finish_kexhashbuf(h, h.pub)
    OBVIOUS
  <1>4. IsSession(k) /\ Same(h, k, {"hash", "session_id"}) /\ k.hash.cookies = h.hash.cookies
    BY <1>1, <1>2, <1>3, FinishHash
  <1>5. PICK a : a = [k EXCEPT !.pub = 0]
    OBVIOUS
  <1>6. Same(k, a, {"pub"}) /\ a.pub = 0
    BY <1>4, <1>5 DEF Same, Fields, Flags
  <1>7. CASE h.kex_state # "KEXDH_INIT_SENT" \/ p.body # a.hash
    <2>1. recv_msg_kexdh_reply(h, p.body) = dropbear_exit(h)
      BY <1>3, <1>5, <1>7 DEF recv_msg_kexdh_reply
    <2>2. Same(s, h, {"requirenext", "recvseq"}) /\ h.requirenext \in Type /\ h.recvseq \in Nat
      BY <1>0, <1>2 DEF Same, Type
    <2> QED BY <2>1, <2>2, Exits
  <1>8. CASE ~(h.kex_state # "KEXDH_INIT_SENT" \/ p.body # a.hash)
    <2>0. e = "client" /\ InExchange(s)
      BY <1>2, <1>8 DEF Before, ClientState
    <2>1. IsSession(a)
      <3>1. \A f \in {"pub"} : a[f] \in TypeOf(f)
        BY <1>6, TypesOf
      <3> QED BY <1>4, <1>6, <3>1, SameType
    <2>2. Stream(w, a, n, g, r, c)
      BY <1>4, <1>6, StreamSame DEF Same, Fields, Flags
    <2>3. /\ Same(s, a, {"requirenext", "hash", "session_id", "pub", "out", "transseq", "ignorenext"})
          /\ a.transseq = s.transseq /\ a.hash = k.hash /\ h.hash = s.hash /\ a.ignorenext = s.ignorenext
          /\ a.keys = s.keys
      BY <1>4, <1>6 DEF Same, Fields, Flags
    <2>4. s.transseq <= a.transseq /\ a.hash.cookies = s.hash.cookies
      BY <1>0, <1>4, <2>3
    <2>5. PICK b : b = send_msg_newkeys("client", a)
      OBVIOUS
    <2>6. /\ IsSession(b) /\ Stream(w, b, n, g, r, c)
          /\ Same(a, b, {"out", "transseq", "sentnewkeys", "donefirstkex",
                          "donesecondkex", "dataallowed", "keys", "newkeys"})
      <3>1. /\ a.sentkexinit /\ a.recvkexinit /\ ~a.recvnewkeys
            /\ KeyCookie(a.keys.trans) < a.hash.cookies[1]
        BY <2>0, <2>3, <2>4 DEF Before, Phases, FreshKeys, InExchange, Same, Fields, Flags
      <3> QED BY <2>0, <2>1, <2>2, <2>5, <3>1, SendNewkeys
    <2>7. PICK u : u = [b EXCEPT !.requirenext = "NEWKEYS"]
      OBVIOUS
    <2>8. recv_msg_kexdh_reply(h, p.body) = u
      BY <1>3, <1>5, <1>8, <2>5, <2>7 DEF recv_msg_kexdh_reply
    <2>9. Same(b, u, {"requirenext"}) /\ u.requirenext = "NEWKEYS"
      BY <2>6, <2>7 DEF Same, Fields, Flags
    <2>10. IsSession(u)
      <3>1. \A f \in {"requirenext"} : u[f] \in TypeOf(f)
        BY <2>9, TypesOf DEF Type, PacketType
      <3> QED BY <2>6, <2>9, <3>1, SameType
    <2>11. Stream(w, u, n, g, r, c)
      BY <2>6, <2>9, StreamSame DEF Same, Fields, Flags
    <2>12. Same(b, u, {"requirenext", "out", "transseq", "sigalgs"}) /\ u.ignorenext = s.ignorenext
      BY <2>3, <2>6, <2>9 DEF Same, Fields, Flags
    <2>13. Handles(e, s, u, p)
      BY <2>0, <2>1, <2>2, <2>3, <2>4, <2>5, <2>9, <2>12, ExchangeDone
    <2> QED BY <2>8, <2>10, <2>11, <2>13
  <1> QED BY <1>7, <1>8

LEMMA HandleNewkeys ==
  ASSUME NEW e \in End, NEW w \in Seq(Packet), NEW s, IsSession(s), Before(e, s),
         NEW n \in Nat, NEW g \in Nat, NEW r \in BOOLEAN, NEW c \in Int, Stream(w, s, n, g, r, c),
         NEW p \in Packet, p.type = "NEWKEYS", s.requirenext \in {None, "NEWKEYS"},
         NEW h, Same(s, h, {"requirenext"}), h.requirenext = None
  PROVE  /\ IsSession(recv_msg_newkeys(h)) /\ Stream(w, recv_msg_newkeys(h), n, g, r, c)
         /\ Handles(e, s, recv_msg_newkeys(h), p)
  <1>0. DOMAIN s = Fields /\ s.transseq \in Nat /\ s.recvseq \in Nat
    BY DEF IsSession
  <1>1. IsSession(h)
    <2>1. \A f \in {"requirenext"} : h[f] \in TypeOf(f)
      BY TypesOf DEF Type
    <2> QED BY <2>1, SameType
  <1>2. Stream(w, h, n, g, r, c)
    BY StreamSame DEF Same, Fields, Flags
  <1>3. /\ h.sentkexinit = s.sentkexinit /\ h.recvkexinit = s.recvkexinit /\ h.sentnewkeys = s.sentnewkeys
        /\ h.newkeys = s.newkeys /\ h.recvseq = s.recvseq /\ h.keys = s.keys /\ h.transseq = s.transseq
        /\ h.kex_state = s.kex_state /\ h.hash = s.hash /\ h.cookie = s.cookie
        /\ h.ignorenext = s.ignorenext /\ h.dataallowed = s.dataallowed
    BY DEF Same, Fields, Flags
  <1>4. PICK u : u = recv_msg_newkeys(h)
    OBVIOUS
  <1>5. CASE s.requirenext = "NEWKEYS"
    <2>1. s.sentkexinit /\ s.recvkexinit /\ s.sentnewkeys /\ s.newkeys.trans = NoKey
      BY <1>5 DEF Before, Phases
    <2>2. /\ IsSession(u) /\ u.keys.trans = h.keys.trans
          /\ Same(h, u, {"sentkexinit", "recvkexinit", "sentnewkeys", "recvnewkeys",
                "our_first_follows_matches", "keys", "newkeys", "recvseq", "recvfirstnewkeys"})
          /\ ~u.sentkexinit /\ ~u.recvkexinit /\ ~u.sentnewkeys /\ ~u.recvnewkeys
      BY <1>1, <1>3, <1>4, <2>1, RecvNewkeys
    <2>3. Stream(w, u, n, g, r, c)
      BY <1>2, <2>2, StreamSame DEF Same, Fields, Flags
    <2>4. /\ u.transseq = s.transseq /\ u.kex_state = s.kex_state /\ u.hash = s.hash /\ u.cookie = s.cookie
          /\ u.ignorenext = s.ignorenext /\ u.dataallowed = s.dataallowed /\ u.requirenext = None
      BY <1>3, <2>2 DEF Same, Fields, Flags
    <2>5. Advance(s, u)
      BY <1>0, <1>3, <2>2, <2>4 DEF Advance
    <2>6. Phases(u) /\ ~InExchange(u) /\ ~InExchange(s)
      BY <2>1, <2>2, <2>4, NoneIsNoType DEF Before, Phases, InExchange, PacketType
    <2>7. FreshKeys(e, u)
      BY <1>3, <2>2, <2>4 DEF Before, FreshKeys, InExchange, LastCookie
    <2>8. Handles(e, s, u, p)
      BY <2>4, <2>5, <2>6, <2>7, NoneIsNoType DEF Handles, PacketType
    <2> QED BY <1>4, <2>2, <2>3, <2>8
  <1>6. CASE s.requirenext = None
    <2>1. ~s.recvkexinit
      BY <1>6, NoneIsNoType DEF Before, Phases, InExchange, PacketType
    <2>2. PICK a : a = [h EXCEPT !.recvnewkeys = TRUE]
      OBVIOUS
    <2>3. Same(h, a, {"recvnewkeys"}) /\ a.recvnewkeys = TRUE
      BY <1>1, <2>2 DEF Same, Fields, Flags, IsSession
    <2>4. a.recvkexinit = s.recvkexinit
      BY <1>3, <2>3 DEF Same, Fields, Flags
    <2>5. PICK b : b = dropbear_exit(a)
      OBVIOUS
    <2>6. Same(a, b, {"exited"}) /\ b.exited = TRUE
      BY <2>3, <2>5 DEF dropbear_exit, Same, Fields, Flags
    <2>7. u = [b EXCEPT !.recvseq = IF h.strict_kex THEN 0 ELSE @, !.recvfirstnewkeys = TRUE]
      BY <1>4, <2>1, <2>2, <2>4, <2>5 DEF recv_msg_newkeys, switch_keys
    <2>8. /\ Same(b, u, {"recvseq", "recvfirstnewkeys"}) /\ u.recvfirstnewkeys = TRUE
          /\ u.recvseq \in {0, b.recvseq}
      BY <2>6, <2>7 DEF Same, Fields, Flags
    <2>9. /\ Same(h, u, {"recvnewkeys", "exited", "recvseq", "recvfirstnewkeys"})
          /\ u.recvnewkeys = TRUE /\ u.exited = TRUE /\ u.recvfirstnewkeys = TRUE
          /\ u.recvseq \in {0, h.recvseq}
      BY <2>3, <2>6, <2>8 DEF Same, Fields, Flags
    <2>10. IsSession(u)
      <3>0. u.recvseq \in Nat
        BY <1>0, <1>3, <2>9
      <3>1. \A f \in {"recvnewkeys", "exited", "recvseq", "recvfirstnewkeys"} : u[f] \in TypeOf(f)
        BY <2>9, <3>0, TypesOf DEF Flags
      <3> QED BY <1>1, <2>9, <3>1, SameType
    <2>11. Stream(w, u, n, g, r, c)
      BY <1>2, <2>9, StreamSame DEF Same, Fields, Flags
    <2>12. u.keys = s.keys /\ u.transseq = s.transseq /\ u.kex_state = s.kex_state
      BY <1>3, <2>9 DEF Same, Fields, Flags
    <2>13. Handles(e, s, u, p)
      BY <1>0, <2>9, <2>12 DEF Handles, Advance
    <2> QED BY <1>4, <2>10, <2>11, <2>13
  <1> QED BY <1>5, <1>6

\* A packet that changes nothing of the exchange.
LEMMA Keeps ==
  ASSUME NEW e \in End, NEW s, IsSession(s), Before(e, s),
         NEW u, Same(s, u, {"out", "transseq", "ignorenext", "recvseq"}), u.ignorenext => s.ignorenext,
         s.transseq <= u.transseq, NEW p, p.type # "KEXINIT"
  PROVE  Handles(e, s, u, p)
  <1>1. \A f \in Fields \ {"out", "transseq", "ignorenext", "recvseq"} : u[f] = s[f]
    BY DEF Same
  <1>2. /\ u.kex_state = s.kex_state /\ u.keys = s.keys /\ u.newkeys = s.newkeys /\ u.hash = s.hash
        /\ u.cookie = s.cookie /\ u.requirenext = s.requirenext /\ u.dataallowed = s.dataallowed
        /\ u.sentkexinit = s.sentkexinit /\ u.recvkexinit = s.recvkexinit
        /\ u.sentnewkeys = s.sentnewkeys /\ u.recvnewkeys = s.recvnewkeys
    BY <1>1 DEF Fields, Flags
  <1>3. Advance(s, u)
    BY <1>2 DEF Advance
  <1>4. Phases(u) /\ (InExchange(u) <=> InExchange(s))
    BY <1>2 DEF Before, Phases, InExchange
  <1>5. FreshKeys(e, u)
    BY <1>2 DEF Before, FreshKeys, InExchange, LastCookie
  <1> QED BY <1>2, <1>3, <1>4, <1>5 DEF Handles, Before, ClientState

Processed(e, w, s, n, g, r, c, p, u) ==
    /\ IsSession(u) /\ Stream(w, u, n, g, r, c) /\ Advance(s, u)
    /\ ~u.exited =>
          /\ Sound(e, u)
          /\ e = "server" => u.hash.cookies[1] = IF p.type = "KEXINIT" THEN p.body.cookie
                                                 ELSE s.hash.cookies[1]
          /\ p.type = "DATA" => ~s.ignorenext

LEMMA ProcessPacket ==
  ASSUME NEW e \in End, NEW w \in Seq(Packet), NEW s, IsSession(s), Before(e, s), s.recvseq >= 1,
         NEW n \in Nat, NEW g \in Nat, NEW r \in BOOLEAN, NEW c \in Int, Stream(w, s, n, g, r, c),
         NEW p \in Packet,
         e = "server" /\ p.type = "KEXINIT" => s.hash.cookies[1] < p.body.cookie
  PROVE  Processed(e, w, s, n, g, r, c, p, process_packet(e, s, p))
  <1>0. DOMAIN s = Fields /\ s.transseq \in Nat /\ s.recvseq \in Nat /\ s.requirenext \in Type
        /\ p.type \in PacketType
    BY PacketFields DEF IsSession, Plain, PacketType
  <1> DEFINE strict == s.strict_kex /\ ~s.recvfirstnewkeys
             unexpected == s.requirenext # None /\ s.requirenext # p.type
  <1>1. PICK h : h = [s EXCEPT !.requirenext = None]
    OBVIOUS
  <1>2. Same(s, h, {"requirenext"}) /\ h.requirenext = None
    BY <1>0, <1>1 DEF Same, Fields, Flags
  <1>3. PICK d : d = IF p.type = "UNIMPLEMENTED" /\ ~strict THEN s
                     ELSE IF unexpected
                     THEN IF p.type \in {"KEXINIT", "DATA"} \/ strict
                          THEN dropbear_exit(s)
                          ELSE encrypt_packet(s, "UNIMPLEMENTED", s.recvseq - 1)
                     ELSE IF s.ignorenext THEN [s EXCEPT !.ignorenext = FALSE]
                     ELSE handler(e, h, p)
    OBVIOUS
  <1>4. s.ignorenext => s.requirenext \in {"KEXDH_INIT", "KEXDH_REPLY"}
    BY DEF Before, Phases
  <1>5. /\ IsSession(d) /\ Stream(w, d, n, g, r, c) /\ Handles(e, s, d, p)
        /\ ~d.exited /\ p.type = "DATA" => ~s.ignorenext
    <2>1. CASE p.type = "UNIMPLEMENTED" /\ ~strict
      <3>1. d = s
        BY <1>3, <2>1
      <3>2. Same(s, s, {"out", "transseq", "ignorenext", "recvseq"}) /\ s.transseq <= s.transseq
        BY <1>0 DEF Same
      <3>3. Handles(e, s, s, p)
        BY <2>1, <3>2, Keeps
      <3> QED BY <2>1, <3>1, <3>3
    <2>2. CASE ~(p.type = "UNIMPLEMENTED" /\ ~strict) /\ unexpected /\ (p.type \in {"KEXINIT", "DATA"} \/ strict)
      <3>1. d = dropbear_exit(s)
        BY <1>3, <2>2
      <3> QED BY <3>1, ExitsAtOnce
    <2>3. CASE ~(p.type = "UNIMPLEMENTED" /\ ~strict) /\ unexpected /\ ~(p.type \in {"KEXINIT", "DATA"} \/ strict)
      <3>1. d = encrypt_packet(s, "UNIMPLEMENTED", s.recvseq - 1)
        BY <1>3, <2>3
      <3>2. s.recvseq - 1 \in Nat
        BY <1>0
      <3>3. /\ IsSession(d) /\ Same(s, d, {"out", "transseq"}) /\ Stream(w, d, n, g, r, c)
            /\ d.transseq = s.transseq + 1
        BY <3>1, <3>2, EncryptKex
      <3>4. /\ Same(s, d, {"out", "transseq", "ignorenext", "recvseq"}) /\ s.transseq <= d.transseq
            /\ d.ignorenext = s.ignorenext
        BY <1>0, <3>3 DEF Same, Fields, Flags
      <3>5. Handles(e, s, d, p)
        BY <2>3, <3>4, Keeps
      <3> QED BY <2>3, <3>3, <3>5
    <2>4. CASE ~(p.type = "UNIMPLEMENTED" /\ ~strict) /\ ~unexpected /\ s.ignorenext
      <3>1. d = [s EXCEPT !.ignorenext = FALSE]
        BY <1>3, <2>4
      <3>2. Same(s, d, {"ignorenext"}) /\ d.ignorenext = FALSE
        BY <1>0, <3>1 DEF Same, Fields, Flags
      <3>3. IsSession(d)
        <4>1. \A f \in {"ignorenext"} : d[f] \in TypeOf(f)
          BY <3>2, TypesOf DEF Flags
        <4> QED BY <3>2, <4>1, SameType
      <3>4. Stream(w, d, n, g, r, c)
        BY <3>2, StreamSame DEF Same, Fields, Flags
      <3>5. p.type \in {"KEXDH_INIT", "KEXDH_REPLY"}
        BY <1>4, <2>4, NoneIsNoType DEF PacketType
      <3>6. Same(s, d, {"out", "transseq", "ignorenext", "recvseq"}) /\ s.transseq <= d.transseq
        BY <1>0, <3>2 DEF Same, Fields, Flags
      <3>7. Handles(e, s, d, p)
        BY <3>2, <3>5, <3>6, Keeps
      <3> QED BY <3>3, <3>4, <3>5, <3>7
    <2>5. CASE ~(p.type = "UNIMPLEMENTED" /\ ~strict) /\ ~unexpected /\ ~s.ignorenext
      <3>0. d = handler(e, h, p) /\ s.requirenext \in {None, p.type}
        BY <1>3, <2>5
      <3>1. CASE p.type = "KEXINIT"
        <4>1. d = recv_msg_kexinit(e, h, p.body)
          BY <3>0, <3>1 DEF handler
        <4> QED BY <1>2, <2>5, <3>0, <3>1, <4>1, RecvKexinit
      <3>2. CASE p.type = "KEXDH_INIT"
        <4>1. d = recv_msg_kexdh_init(h, p.body)
          BY <3>0, <3>2 DEF handler
        <4> QED BY <1>2, <2>5, <3>0, <3>2, <4>1, RecvKexdhInit
      <3>3. CASE p.type = "KEXDH_REPLY"
        <4>1. d = recv_msg_kexdh_reply(h, p.body)
          BY <3>0, <3>3 DEF handler
        <4> QED BY <1>2, <2>5, <3>0, <3>3, <4>1, RecvKexdhReply
      <3>4. CASE p.type = "NEWKEYS"
        <4>1. d = recv_msg_newkeys(h)
          BY <3>0, <3>4 DEF handler
        <4> QED BY <1>2, <2>5, <3>0, <3>4, <4>1, HandleNewkeys
      <3>5. CASE p.type \in {"EXT_INFO", "UNIMPLEMENTED", "DATA"}
        <4>1. d = h
          BY <3>0, <3>5 DEF handler
        <4>2. s.requirenext = None
          BY <3>0, <3>5 DEF Before, Phases
        <4>3. Same(s, h, {}) /\ h.ignorenext = s.ignorenext /\ h.transseq = s.transseq
          BY <1>2, <4>2 DEF Same, Fields, Flags
        <4>4. IsSession(h)
          BY <4>3, SameType
        <4>5. Stream(w, h, n, g, r, c)
          BY <4>3, StreamSame DEF Same, Fields, Flags
        <4>6. Same(s, h, {"out", "transseq", "ignorenext", "recvseq"}) /\ s.transseq <= h.transseq
          BY <1>0, <4>3 DEF Same
        <4>7. Handles(e, s, h, p)
          BY <3>5, <4>3, <4>6, Keeps
        <4> QED BY <2>5, <4>1, <4>4, <4>5, <4>7
      <3> QED BY <1>0, <3>1, <3>2, <3>3, <3>4, <3>5 DEF PacketType
    <2> QED BY <2>1, <2>2, <2>3, <2>4, <2>5
  <1>6. PICK u : u = [d EXCEPT !.lastpacket = p.type]
    OBVIOUS
  <1>7. process_packet(e, s, p) = u
    BY <1>1, <1>3, <1>6 DEF process_packet
  <1>8. Same(d, u, {"lastpacket"}) /\ u.lastpacket = p.type
    BY <1>5, <1>6 DEF IsSession, Same, Fields, Flags
  <1>9. IsSession(u)
    <2>1. \A f \in {"lastpacket"} : u[f] \in TypeOf(f)
      BY <1>0, <1>8, TypesOf DEF Type
    <2> QED BY <1>5, <1>8, <2>1, SameType
  <1>10. Stream(w, u, n, g, r, c)
    BY <1>5, <1>8, StreamSame DEF Same, Fields, Flags
  <1>11. /\ u.kex_state = d.kex_state /\ u.keys = d.keys /\ u.newkeys = d.newkeys /\ u.hash = d.hash
         /\ u.cookie = d.cookie /\ u.requirenext = d.requirenext /\ u.dataallowed = d.dataallowed
         /\ u.sentkexinit = d.sentkexinit /\ u.recvkexinit = d.recvkexinit /\ u.exited = d.exited
         /\ u.sentnewkeys = d.sentnewkeys /\ u.recvnewkeys = d.recvnewkeys
         /\ u.transseq = d.transseq /\ u.ignorenext = d.ignorenext
    BY <1>8 DEF Same, Fields, Flags
  <1>12. Advance(s, u)
    BY <1>5, <1>11 DEF Handles, Advance
  <1>13. ASSUME ~u.exited PROVE Sound(e, u)
    <2>1. Phases(u) /\ FreshKeys(e, u)
      BY <1>5, <1>11, <1>13 DEF Handles, Phases, FreshKeys, InExchange, LastCookie
    <2>2. /\ u.kex_state = s.kex_state
          /\ e = "client" => u.requirenext # "KEXDH_INIT"
          /\ IF p.type = "KEXINIT" THEN InExchange(u)
             ELSE (InExchange(u) <=> InExchange(s)) \/ u.sentnewkeys
      BY <1>5, <1>11, <1>13 DEF Handles, InExchange
    <2>3. s.kex_state = "KEXDH_INIT_SENT" <=> e = "client" /\ InExchange(s)
      BY DEF Before, ClientState
    <2>4. s.kex_state \in {"KEX_NOTHING", "KEXDH_INIT_SENT"} /\ u.lastpacket # None
      BY <1>0, <1>8, NoneIsNoType DEF IsSession
    <2>5. ClientMid(e, u)
      BY <1>8, <2>2, <2>3, <2>4 DEF ClientMid, End
    <2> QED BY <2>1, <2>5 DEF Sound
  <1>14. ~u.exited =>
            /\ e = "server" => u.hash.cookies[1] = IF p.type = "KEXINIT" THEN p.body.cookie
                                                   ELSE s.hash.cookies[1]
            /\ p.type = "DATA" => ~s.ignorenext
    BY <1>5, <1>11 DEF Handles
  <1>15. Processed(e, w, s, n, g, r, c, p, u)
    BY <1>9, <1>10, <1>12, <1>13, <1>14, Zenon DEF Processed
  <1> QED BY <1>7, <1>15

-----------------------------------------------------------------------------
(* Steps.                                                                  *)

\* A sound record stays sound when only what is written changes.
LEMMA SoundSame ==
  ASSUME NEW e \in End, NEW s, NEW t, Same(s, t, {"out", "transseq", "reply_queue", "recvseq"})
  PROVE  /\ Phases(s) => Phases(t)
         /\ FreshKeys(e, s) => FreshKeys(e, t)
         /\ ClientMid(e, s) => ClientMid(e, t)
         /\ ClientState(e, s) => ClientState(e, t)
  <1>1. \A f \in Fields \ {"out", "transseq", "reply_queue", "recvseq"} : t[f] = s[f]
    BY DEF Same
  <1>2. /\ t.kex_state = s.kex_state /\ t.keys = s.keys /\ t.newkeys = s.newkeys /\ t.hash = s.hash
        /\ t.cookie = s.cookie /\ t.requirenext = s.requirenext /\ t.dataallowed = s.dataallowed
        /\ t.sentkexinit = s.sentkexinit /\ t.recvkexinit = s.recvkexinit
        /\ t.sentnewkeys = s.sentnewkeys /\ t.recvnewkeys = s.recvnewkeys
        /\ t.ignorenext = s.ignorenext /\ t.lastpacket = s.lastpacket
    BY <1>1 DEF Fields, Flags
  <1>3. Phases(s) => Phases(t)
    BY <1>2 DEF Phases, InExchange
  <1>4. FreshKeys(e, s) => FreshKeys(e, t)
    BY <1>2 DEF FreshKeys, InExchange, LastCookie
  <1>5. (ClientMid(e, s) => ClientMid(e, t)) /\ (ClientState(e, s) => ClientState(e, t))
    BY <1>2 DEF ClientMid, ClientState, InExchange
  <1> QED BY <1>3, <1>4, <1>5

\* What is true of an end again after its iteration.
After(e, u) ==
    ~u.exited => /\ Phases(u) /\ ClientState(e, u) /\ FreshKeys(e, u)
                 /\ u.dataallowed => u.reply_queue = <<>>

Ends(e, s, t, u) ==
    /\ t = IF s.exited THEN s ELSE maybe_flush_reply_queue(s)
    /\ u = IF s.exited THEN t ELSE loophandler(e, t)

LEMMA IterationEnds ==
  ASSUME NEW e \in End, NEW w \in Seq(Packet), NEW s, IsSession(s), ~s.exited => Sound(e, s),
         NEW n \in Nat, NEW g \in Nat, NEW r \in BOOLEAN, NEW c \in Int, Stream(w, s, n, g, r, c),
         NEW t, NEW u, Ends(e, s, t, u)
  PROVE  /\ IsSession(u) /\ Stream(w, u, n, g, r, c) /\ Advance(s, u) /\ After(e, u)
         /\ u.exited = s.exited /\ u.hash = s.hash
  <1>0. s.transseq \in Nat
    BY DEF IsSession
  <1>1. CASE s.exited
    <2>1. u = s
      BY <1>1 DEF Ends
    <2>2. Advance(s, s)
      BY <1>0 DEF Advance
    <2>3. After(e, s)
      BY <1>1 DEF After
    <2> QED BY <2>1, <2>2, <2>3
  <1>2. CASE ~s.exited
    <2>0. t = maybe_flush_reply_queue(s) /\ u = loophandler(e, t)
      BY <1>2 DEF Ends
    <2>1. /\ IsSession(t) /\ Same(s, t, {"out", "transseq", "reply_queue"}) /\ Stream(w, t, n, g, r, c)
          /\ s.transseq <= t.transseq /\ (s.dataallowed => t.reply_queue = <<>>)
      BY <2>0, FlushQueue
    <2>2. Same(s, t, {"out", "transseq", "reply_queue", "recvseq"})
      BY <2>1 DEF Same
    <2>3. Sound(e, t)
      BY <1>2, <2>2, SoundSame DEF Sound
    <2>4. /\ IsSession(u) /\ Same(t, u, {"out", "transseq", "pub", "pubs", "kex_state"})
          /\ Stream(w, u, n, g, r, c) /\ t.transseq <= u.transseq /\ ClientState(e, u)
      BY <2>0, <2>1, <2>3, LoopHandler
    <2>5. /\ u.keys = t.keys /\ u.newkeys = t.newkeys /\ u.hash = t.hash
          /\ u.cookie = t.cookie /\ u.requirenext = t.requirenext /\ u.dataallowed = t.dataallowed
          /\ u.sentkexinit = t.sentkexinit /\ u.recvkexinit = t.recvkexinit
          /\ u.sentnewkeys = t.sentnewkeys /\ u.recvnewkeys = t.recvnewkeys
          /\ u.ignorenext = t.ignorenext /\ u.exited = t.exited /\ u.reply_queue = t.reply_queue
      BY <2>4 DEF Same, Fields, Flags
    <2>6. t.keys = s.keys /\ t.hash = s.hash /\ t.exited = s.exited /\ t.dataallowed = s.dataallowed
      BY <2>1 DEF Same, Fields, Flags
    <2>7. Phases(u) /\ FreshKeys(e, u)
      BY <2>3, <2>5 DEF Sound, Phases, FreshKeys, InExchange, LastCookie
    <2>8. t.transseq \in Nat /\ u.transseq \in Nat
      BY <2>1, <2>4 DEF IsSession
    <2>9. Advance(s, u)
      BY <1>0, <2>1, <2>4, <2>5, <2>6, <2>8 DEF Advance
    <2>10. After(e, u)
      BY <2>1, <2>4, <2>5, <2>6, <2>7 DEF After
    <2> QED BY <2>4, <2>5, <2>6, <2>9, <2>10
  <1> QED BY <1>1, <1>2

LEMMA PeerFacts ==
  ASSUME NEW e \in End
  PROVE  Peer(e) \in End /\ Peer(e) # e /\ Peer(Peer(e)) = e /\ End = {e, Peer(e)}
  BY DEF End, Peer

\* Iterated() seen from both ends.
Acted(e, s, unread, n, g, r, c) ==
    /\ DOMAIN ses' = End /\ ses'[Peer(e)] = ses[Peer(e)]
    /\ wire' \in [End -> Seq(Packet)] /\ wire'[Peer(e)] = unread[Peer(e)]
    /\ IsSession(ses'[e]) /\ ses'[e].out = <<>> /\ After(e, ses'[e]) /\ Written(wire'[e], ses'[e])
    /\ r => DataOn(wire'[e], ses'[e].reply_queue, n, g)
    /\ c <= ses'[e].cookie /\ Newer(wire'[e], c)
    /\ Advance(s, ses'[e]) /\ ses'[e].exited = s.exited /\ ses'[e].hash = s.hash

LEMMA IteratedEnds ==
  ASSUME NEW e \in End, DOMAIN ses = End, NEW unread \in [End -> Seq(Packet)],
         NEW s, IsSession(s), ~s.exited => Sound(e, s),
         NEW n \in Nat, NEW g \in Nat, NEW r \in BOOLEAN, NEW c \in Int, Stream(unread[e], s, n, g, r, c),
         Iterated(e, s, unread)
  PROVE  Acted(e, s, unread, n, g, r, c)
  <1>1. PICK t, u : /\ t = IF s.exited THEN s ELSE maybe_flush_reply_queue(s)
                    /\ u = IF s.exited THEN t ELSE loophandler(e, t)
                    /\ ses' = [ses EXCEPT ![e] = [u EXCEPT !.out = <<>>]]
                    /\ wire' = [unread EXCEPT ![e] = @ \o u.out]
    BY DEF Iterated
  <1>2. unread[e] \in Seq(Packet)
    OBVIOUS
  <1>3. /\ IsSession(u) /\ Stream(unread[e], u, n, g, r, c) /\ Advance(s, u) /\ After(e, u)
        /\ u.exited = s.exited /\ u.hash = s.hash
    <2>1. Ends(e, s, t, u)
      BY <1>1 DEF Ends
    <2>3. PICK w \in Seq(Packet) : w = unread[e] /\ Stream(w, s, n, g, r, c)
      BY <1>2
    <2>4. /\ IsSession(u) /\ Stream(w, u, n, g, r, c) /\ Advance(s, u) /\ After(e, u)
          /\ u.exited = s.exited /\ u.hash = s.hash
      BY <2>1, <2>3, IterationEnds
    <2> QED BY <2>3, <2>4
  <1>4. PICK v : v = [u EXCEPT !.out = <<>>]
    OBVIOUS
  <1>5. Same(u, v, {"out"}) /\ v.out = <<>>
    BY <1>3, <1>4 DEF IsSession, Same, Fields, Flags
  <1>6. IsSession(v)
    <2>0. v.out \in Seq(Packet)
      BY <1>5
    <2>1. \A f \in {"out"} : v[f] \in TypeOf(f)
      BY <2>0, TypesOf
    <2> QED BY <1>3, <1>5, <2>1, SameType
  <1>7. DOMAIN ses' = End /\ ses'[e] = v /\ ses'[Peer(e)] = ses[Peer(e)]
    BY <1>1, <1>4, PeerFacts
  <1>8. u.out \in Seq(Packet) /\ unread[e] \o u.out \in Seq(Packet)
    <2>1. u.out \in Seq(Packet)
      BY <1>3 DEF IsSession
    <2> QED BY <1>2, <2>1, ConcatFacts
  <1>9. /\ wire' \in [End -> Seq(Packet)] /\ wire'[e] = unread[e] \o u.out
        /\ wire'[Peer(e)] = unread[Peer(e)]
    BY <1>1, <1>8, PeerFacts
  <1>10. /\ v.keys = u.keys /\ v.dataallowed = u.dataallowed /\ v.transseq = u.transseq
         /\ v.cookie = u.cookie /\ v.reply_queue = u.reply_queue /\ v.exited = u.exited
         /\ v.hash = u.hash
    BY <1>5 DEF Same, Fields, Flags
  <1>11. /\ Written(wire'[e], v) /\ (r => DataOn(wire'[e], v.reply_queue, n, g))
         /\ c <= v.cookie /\ Newer(wire'[e], c)
    BY <1>3, <1>9, <1>10 DEF Stream, Written
  <1>12. Same(u, v, {"out", "transseq", "reply_queue", "recvseq"})
    BY <1>5 DEF Same
  <1>13. After(e, v)
    BY <1>3, <1>10, <1>12, SoundSame DEF After
  <1>14. Advance(s, v)
    BY <1>3, <1>10 DEF Advance
  <1> QED BY <1>3, <1>5, <1>6, <1>7, <1>9, <1>10, <1>11, <1>13, <1>14 DEF Acted

\* The cookie of the client that the server knows.
Known(e) == IF e = "client" /\ ~ses["server"].exited THEN ses["server"].hash.cookies[1] ELSE -1

LEMMA StartStream ==
  ASSUME KInv, NEW e \in End
  PROVE  /\ Known(e) \in Int
         /\ Stream(wire[e], ses[e], Len(sent[e]), Len(got[e]), ~ses[Peer(e)].exited, Known(e))
  <1>1. /\ IsSession(ses[e]) /\ IsSession(ses["server"]) /\ wire[e] \in Seq(Packet)
        /\ EndOK(e) /\ DataOK(e) /\ NewToServer
    BY DEF KInv, Typed, End
  <1>2. ses["server"].hash.cookies[1] \in Nat /\ ses[e].cookie \in Nat
    BY <1>1 DEF IsSession, Hash
  <1>3. Known(e) \in Int /\ Known(e) <= ses[e].cookie
    BY <1>1, <1>2 DEF Known, NewToServer
  <1>4. wire[e] \o ses[e].out = wire[e]
    BY <1>1 DEF EndOK
  <1>5. Newer(wire[e], Known(e))
    <2>1. CASE e = "client" /\ ~ses["server"].exited
      BY <1>1, <2>1 DEF Known, NewToServer
    <2>2. CASE ~(e = "client" /\ ~ses["server"].exited)
      <3>1. Known(e) = -1
        BY <2>2 DEF Known
      <3>2. \A i \in 1..Len(wire[e]) : wire[e][i].type = "KEXINIT" => wire[e][i].body.cookie \in Nat
        BY <1>1, PacketFields DEF KexInit
      <3>3. \A i \in 1..Len(wire[e]) : wire[e][i].type = "KEXINIT" => -1 < wire[e][i].body.cookie
        BY <3>2
      <3> QED BY <3>1, <3>3 DEF Newer
    <2> QED BY <2>1, <2>2
  <1> QED BY <1>1, <1>3, <1>4, <1>5 DEF Stream, EndOK, DataOK

\* From the step of one end to the invariant of both.
LEMMA Composed ==
  ASSUME KInv, NEW e \in End, ~ses[e].exited, NEW unread \in [End -> Seq(Packet)], NEW s, NEW n \in Nat,
         Acted(e, s, unread, n, Len(got[e]), ~ses[Peer(e)].exited, Known(e)),
         sent' \in [End -> Seq(1..MaxData)], got' \in [End -> Seq(Nat)], rekeys' \in [End -> Nat],
         n = Len(sent'[e]), \A i \in 1..Len(sent'[e]) : sent'[e][i] = i, got'[e] = got[e],
         sent'[Peer(e)] = sent[Peer(e)],
         Written(unread[Peer(e)], ses[Peer(e)]),
         \A i \in 1..Len(got'[Peer(e)]) : got'[Peer(e)][i] = i,
         ~s.exited => DataOn(unread[Peer(e)], ses[Peer(e)].reply_queue,
                             Len(sent[Peer(e)]), Len(got'[Peer(e)])),
         e = "server" /\ ~s.exited => /\ s.hash.cookies[1] <= ses["client"].cookie
                                     /\ Newer(unread["client"], s.hash.cookies[1])
  PROVE  KInv'
  <1> DEFINE f == Peer(e)
  <1>0. f \in End /\ f # e /\ Peer(f) = e /\ End = {e, f}
    BY PeerFacts
  <1> HIDE DEF f
  <1>1. Typed /\ EndOK(e) /\ EndOK(f) /\ DataOK(e) /\ DataOK(f) /\ NewToServer
    BY <1>0 DEF KInv
  <1>2. /\ DOMAIN ses' = End /\ ses'[f] = ses[f]
        /\ wire' \in [End -> Seq(Packet)] /\ wire'[f] = unread[f]
        /\ IsSession(ses'[e]) /\ ses'[e].out = <<>> /\ After(e, ses'[e]) /\ Written(wire'[e], ses'[e])
        /\ ~ses[f].exited => DataOn(wire'[e], ses'[e].reply_queue, n, Len(got[e]))
        /\ Known(e) <= ses'[e].cookie /\ Newer(wire'[e], Known(e))
        /\ ses'[e].exited = s.exited /\ ses'[e].hash = s.hash
    BY DEF Acted, f
  <1>3. Typed'
    <2>1. IsSession(ses'[f])
      BY <1>0, <1>1, <1>2 DEF Typed
    <2> QED BY <1>0, <1>2, <2>1 DEF Typed
  <1>4. EndOK(e)'
    BY <1>2 DEF EndOK, After
  <1>5. EndOK(f)'
    <2>1. Written(wire'[f], ses'[f])
      BY <1>2 DEF f
    <2> QED BY <1>1, <1>2, <2>1 DEF EndOK
  <1>6. DataOK(e)'
    BY <1>1, <1>2 DEF DataOK, f
  <1>7. DataOK(f)'
    <2>1. ~ses'[e].exited => DataOn(wire'[f], ses'[f].reply_queue, Len(sent'[f]), Len(got'[f]))
      BY <1>2 DEF f
    <2>2. \A i \in 1..Len(sent'[f]) : sent'[f][i] = i
      BY <1>1 DEF DataOK, f
    <2>3. \A i \in 1..Len(got'[f]) : got'[f][i] = i
      BY DEF f
    <2> QED BY <1>0, <2>1, <2>2, <2>3 DEF DataOK
  <1>8. NewToServer'
    <2>1. CASE e = "client"
      <3>1. f = "server"
        BY <2>1 DEF f, Peer
      <3> QED BY <1>2, <2>1, <3>1 DEF NewToServer, Known
    <2>2. CASE e = "server"
      <3>1. f = "client"
        BY <2>2 DEF f, Peer
      <3> QED BY <1>2, <2>2, <3>1 DEF NewToServer
    <2> QED BY <2>1, <2>2 DEF End
  <1> QED BY <1>0, <1>3, <1>4, <1>5, <1>6, <1>7, <1>8 DEF KInv

\* encrypt_packet() for the upper layers: written now, or queued.
LEMMA EncryptData ==
  ASSUME NEW w \in Seq(Packet), NEW s, IsSession(s), s.dataallowed => s.reply_queue = <<>>,
         NEW n \in Nat, NEW g \in Nat, NEW r \in BOOLEAN, NEW c \in Int, Stream(w, s, n, g, r, c)
  PROVE  /\ IsSession(encrypt_packet(s, "DATA", n + 1))
         /\ Same(s, encrypt_packet(s, "DATA", n + 1), {"out", "transseq", "reply_queue"})
         /\ Stream(w, encrypt_packet(s, "DATA", n + 1), n + 1, g, r, c)
         /\ s.transseq <= encrypt_packet(s, "DATA", n + 1).transseq
  <1>0. /\ s.out \in Seq(Packet) /\ s.transseq \in Nat /\ s.cookie \in Nat /\ DOMAIN s = Fields
        /\ s.reply_queue \in Seq(Nat) /\ s.keys.trans \in MaybeKey
    BY DEF IsSession, Keys
  <1>1. PICK t : t = encrypt_packet(s, "DATA", n + 1)
    OBVIOUS
  <1> DEFINE x == w \o s.out
  <1>2. /\ Quiet(x) /\ (s.dataallowed => Closed(x))
        /\ Numbered(x, s.keys.trans, s.transseq) /\ Cookies(x, s.cookie)
        /\ (r => DataOn(x, s.reply_queue, n, g)) /\ c <= s.cookie /\ Newer(x, c)
    BY DEF Stream, Written
  <1>3. x \in Seq(Packet)
    BY <1>0, ConcatFacts
  <1>4. CASE ~s.dataallowed
    <2>1. t = [s EXCEPT !.reply_queue = Append(@, n + 1)]
      BY <1>1, <1>4 DEF encrypt_packet, packet_is_okay_kex
    <2>2. Same(s, t, {"reply_queue"}) /\ t.reply_queue = Append(s.reply_queue, n + 1)
      BY <1>0, <2>1 DEF Same, Fields, Flags
    <2>3. IsSession(t)
      <3>0. t.reply_queue \in Seq(Nat)
        BY <1>0, <2>2
      <3>1. \A f \in {"reply_queue"} : t[f] \in TypeOf(f)
        BY <3>0, TypesOf
      <3> QED BY <2>2, <3>1, SameType
    <2>4. /\ t.out = s.out /\ t.dataallowed = s.dataallowed /\ t.keys = s.keys
          /\ t.transseq = s.transseq /\ t.cookie = s.cookie
      BY <2>2 DEF Same, Fields, Flags
    <2>5. r => DataOn(x, t.reply_queue, n + 1, g)
      BY <1>0, <1>2, <1>3, <2>2, DataQueued
    <2>6. Stream(w, t, n + 1, g, r, c)
      BY <1>2, <2>4, <2>5 DEF Stream, Written
    <2>7. Same(s, t, {"out", "transseq", "reply_queue"}) /\ s.transseq <= t.transseq
      BY <1>0, <2>2, <2>4 DEF Same
    <2> QED BY <1>1, <2>3, <2>6, <2>7
  <1>5. CASE s.dataallowed
    <2>1. PICK p \in Packet :
             /\ p = [type |-> "DATA", body |-> n + 1, key |-> s.keys.trans, seq |-> s.transseq]
             /\ p.type = "DATA" /\ p.body = n + 1 /\ p.key = s.keys.trans /\ p.seq = s.transseq
      <3>1. [type |-> "DATA", body |-> n + 1, key |-> s.keys.trans, seq |-> s.transseq] \in Packet
        BY <1>0 DEF Packet, Plain
      <3> QED BY <3>1
    <2>2. t = [s EXCEPT !.out = Append(@, p), !.transseq = @ + 1]
      BY <1>1, <1>5, <2>1 DEF encrypt_packet
    <2>3. /\ Same(s, t, {"out", "transseq"}) /\ t.out = Append(s.out, p)
          /\ t.transseq = s.transseq + 1
      BY <1>0, <2>2 DEF Same, Fields, Flags
    <2>4. IsSession(t)
      <3>0. t.out \in Seq(Packet) /\ t.transseq \in Nat
        BY <1>0, <2>3
      <3>1. \A f \in {"out", "transseq"} : t[f] \in TypeOf(f)
        BY <3>0, TypesOf
      <3> QED BY <2>3, <3>1, SameType
    <2>5. w \o t.out = Append(x, p)
      BY <1>0, <2>3, ConcatAppend
    <2> HIDE DEF x
    <2>6. /\ t.dataallowed = s.dataallowed /\ t.keys = s.keys /\ t.cookie = s.cookie
          /\ t.reply_queue = s.reply_queue
      BY <2>3 DEF Same, Fields, Flags
    <2>7. Quiet(Append(x, p)) /\ Closed(Append(x, p))
      BY <1>2, <1>3, <1>5, <2>1, QuietAppend
    <2>8. Numbered(Append(x, p), s.keys.trans, s.transseq + 1)
      BY <1>0, <1>2, <1>3, <2>1, NumberedAppend
    <2>9. Cookies(Append(x, p), s.cookie)
      <3>1. s.cookie <= s.cookie /\ p.type # "KEXINIT"
        BY <1>0, <2>1
      <3> QED BY <1>0, <1>2, <1>3, <3>1, CookiesAppend
    <2>10. r => DataOn(Append(x, p), s.reply_queue, n + 1, g)
      BY <1>0, <1>2, <1>3, <1>5, <2>1, DataAppend
    <2>11. Newer(Append(x, p), c)
      BY <1>2, <1>3, <2>1, AppendProperties DEF Newer
    <2>12. Stream(w, t, n + 1, g, r, c)
      BY <1>2, <2>3, <2>5, <2>6, <2>7, <2>8, <2>9, <2>10, <2>11 DEF Stream, Written
    <2>13. Same(s, t, {"out", "transseq", "reply_queue"}) /\ s.transseq <= t.transseq
      BY <1>0, <2>3 DEF Same
    <2> QED BY <1>1, <2>4, <2>12, <2>13
  <1> QED BY <1>4, <1>5

\* What one step does to the invariant, to each direction and to the upper layers.
StepOK ==
    /\ KInv'
    /\ \A e \in End : Advance(ses[e], ses'[e])
    /\ [Abstract!Next]_<<sent, got>>

\* The facts about both ends that every step starts from.
LEMMA StartFacts ==
  ASSUME KInv, NEW e \in End, ~ses[e].exited
  PROVE  /\ IsSession(ses[e]) /\ Before(e, ses[e]) /\ (ses[e].dataallowed => ses[e].reply_queue = <<>>)
         /\ Peer(e) \in End /\ Len(sent[e]) \in Nat /\ Len(got[e]) \in Nat /\ ClientMid(e, ses[e])
         /\ DOMAIN ses = End /\ wire \in [End -> Seq(Packet)] /\ wire[e] \in Seq(Packet)
         /\ Written(wire[Peer(e)], ses[Peer(e)])
         /\ \A d \in End : \A i \in 1..Len(got[d]) : got[d][i] = i
         /\ \A d \in End : \A i \in 1..Len(sent[d]) : sent[d][i] = i
         /\ DataOn(wire[Peer(e)], ses[Peer(e)].reply_queue, Len(sent[Peer(e)]), Len(got[Peer(e)]))
         /\ e = "server" => /\ ses[e].hash.cookies[1] <= ses["client"].cookie
                            /\ Newer(wire["client"], ses[e].hash.cookies[1])
         /\ Advance(ses[Peer(e)], ses[Peer(e)])
  <1>1. Peer(e) \in End /\ Peer(Peer(e)) = e
    BY PeerFacts
  <1>2. /\ Typed /\ EndOK(e) /\ EndOK(Peer(e)) /\ DataOK(Peer(e)) /\ NewToServer
        /\ \A d \in End : DataOK(d)
    BY <1>1 DEF KInv
  <1>3. Before(e, ses[e]) /\ (ses[e].dataallowed => ses[e].reply_queue = <<>>)
    BY <1>2 DEF EndOK, Before
  <1>4. /\ IsSession(ses[e]) /\ IsSession(ses[Peer(e)]) /\ Len(sent[e]) \in Nat /\ Len(got[e]) \in Nat
        /\ DOMAIN ses = End /\ wire \in [End -> Seq(Packet)] /\ wire[e] \in Seq(Packet)
    BY <1>1, <1>2 DEF Typed
  <1>5. ClientMid(e, ses[e])
    <2>1. ses[e].kex_state \in {"KEX_NOTHING", "KEXDH_INIT_SENT"}
      BY <1>4 DEF IsSession
    <2> QED BY <1>3, <2>1 DEF Before, ClientState, ClientMid
  <1>6. Advance(ses[Peer(e)], ses[Peer(e)])
    <2>1. ses[Peer(e)].transseq \in Nat
      BY <1>4 DEF IsSession
    <2> QED BY <2>1 DEF Advance
  <1>7. /\ \A d \in End : \A i \in 1..Len(got[d]) : got[d][i] = i
        /\ \A d \in End : \A i \in 1..Len(sent[d]) : sent[d][i] = i
    BY <1>2 DEF DataOK
  <1>8. DataOn(wire[Peer(e)], ses[Peer(e)].reply_queue, Len(sent[Peer(e)]), Len(got[Peer(e)]))
    BY <1>1, <1>2 DEF DataOK
  <1>9. e = "server" => /\ ses[e].hash.cookies[1] <= ses["client"].cookie
                       /\ Newer(wire["client"], ses[e].hash.cookies[1])
    BY <1>2 DEF NewToServer
  <1>10. Written(wire[Peer(e)], ses[Peer(e)])
    BY <1>2 DEF EndOK
  <1> QED BY <1>1, <1>3, <1>4, <1>5, <1>6, <1>7, <1>8, <1>9, <1>10

LEMMA SendDataStep ==
  ASSUME KInv, NEW e \in End, SendData(e) PROVE StepOK
  <1>1. ~ses[e].exited
    BY DEF SendData
  <1>2. PICK n \in Nat, g \in Nat, r \in BOOLEAN : n = Len(sent[e]) /\ g = Len(got[e]) /\ r = ~ses[Peer(e)].exited
    BY <1>1, StartFacts
  <1>3. PICK s : s = encrypt_packet(ses[e], "DATA", n + 1) /\ Iterated(e, s, wire)
    BY <1>2 DEF SendData
  <1>4. Known(e) \in Int /\ Stream(wire[e], ses[e], n, g, r, Known(e))
    BY <1>2, StartStream
  <1>5. /\ IsSession(ses[e]) /\ Before(e, ses[e]) /\ (ses[e].dataallowed => ses[e].reply_queue = <<>>)
        /\ ClientMid(e, ses[e]) /\ DOMAIN ses = End /\ wire \in [End -> Seq(Packet)] /\ wire[e] \in Seq(Packet)
    BY <1>1, StartFacts
  <1>6. /\ IsSession(s) /\ Same(ses[e], s, {"out", "transseq", "reply_queue"})
        /\ Stream(wire[e], s, n + 1, g, r, Known(e)) /\ ses[e].transseq <= s.transseq
    BY <1>3, <1>4, <1>5, EncryptData
  <1>7. Same(ses[e], s, {"out", "transseq", "reply_queue", "recvseq"})
        /\ s.exited = ses[e].exited /\ s.hash = ses[e].hash /\ s.keys = ses[e].keys
    BY <1>6 DEF Same, Fields, Flags
  <1>8. Sound(e, s)
    BY <1>5, <1>7, SoundSame DEF Sound, Before
  <1>9. n + 1 \in Nat
    OBVIOUS
  <1>10. Acted(e, s, wire, n + 1, g, r, Known(e))
    BY <1>3, <1>4, <1>5, <1>6, <1>8, <1>9, IteratedEnds
  <1>11. /\ sent' = [sent EXCEPT ![e] = Append(@, n + 1)] /\ got' = got /\ rekeys' = rekeys /\ n < MaxData
    BY <1>2 DEF SendData
  <1>12. /\ sent \in [End -> Seq(1..MaxData)] /\ got \in [End -> Seq(Nat)] /\ rekeys \in [End -> Nat]
    BY DEF KInv, Typed
  <1>13. /\ Peer(e) \in End /\ Peer(e) # e /\ End = {e, Peer(e)}
    BY PeerFacts
  <1>14. n + 1 \in 1..MaxData /\ sent[e] \in Seq(1..MaxData) /\ MaxData \in Nat
    BY <1>11, <1>12, KexAssumption
  <1>15. PICK q \in Seq(1..MaxData) : q = Append(sent[e], n + 1)
    <2>1. Append(sent[e], n + 1) \in Seq(1..MaxData)
      BY <1>14, AppendProperties
    <2> QED BY <2>1
  <1>16. /\ sent' \in [End -> Seq(1..MaxData)] /\ sent'[e] = q /\ sent'[Peer(e)] = sent[Peer(e)]
    BY <1>11, <1>12, <1>13, <1>15
  <1>17. Len(q) = n + 1 /\ \A i \in 1..Len(q) : q[i] = i
    <2>1. \A i \in 1..n : sent[e][i] = i
      BY <1>1, <1>2, StartFacts
    <2> QED BY <1>2, <1>14, <1>15, <2>1, AppendProperties
  <1>18. KInv'
    BY <1>1, <1>2, <1>5, <1>7, <1>9, <1>10, <1>11, <1>12, <1>16, <1>17, StartFacts, Composed
  <1>19. Advance(ses[e], ses'[e]) /\ ses'[Peer(e)] = ses[Peer(e)]
    <2>1. /\ Advance(s, ses'[e]) /\ IsSession(ses'[e]) /\ ses'[Peer(e)] = ses[Peer(e)]
      BY <1>10 DEF Acted
    <2>2. Advance(ses[e], s)
      BY <1>6, <1>7 DEF Advance
    <2> QED BY <1>5, <1>6, <2>1, <2>2, AdvanceTransitive
  <1>20. \A d \in End : Advance(ses[d], ses'[d])
    BY <1>1, <1>13, <1>19, StartFacts
  <1>21. Abstract!Next
    <2>1. Abstract!Send(e, n + 1)
      BY <1>11 DEF Abstract!Send
    <2> QED BY <1>14, <2>1 DEF Abstract!Next
  <1> QED BY <1>18, <1>20, <1>21 DEF StepOK

LEMMA RekeyStep ==
  ASSUME KInv, NEW e \in End, Rekey(e) PROVE StepOK
  <1>1. ~ses[e].exited /\ ~ses[e].sentkexinit
    BY DEF Rekey
  <1>2. PICK n \in Nat, g \in Nat, r \in BOOLEAN : n = Len(sent[e]) /\ g = Len(got[e]) /\ r = ~ses[Peer(e)].exited
    BY <1>1, StartFacts
  <1>3. PICK s : s = send_msg_kexinit(e, ses[e]) /\ Iterated(e, s, wire)
    BY DEF Rekey
  <1>4. Known(e) \in Int /\ Stream(wire[e], ses[e], n, g, r, Known(e))
    BY <1>2, StartStream
  <1>5. /\ IsSession(ses[e]) /\ Before(e, ses[e])
        /\ ClientMid(e, ses[e]) /\ DOMAIN ses = End /\ wire \in [End -> Seq(Packet)] /\ wire[e] \in Seq(Packet)
    BY <1>1, StartFacts
  <1>6. ses[e].dataallowed /\ ~ses[e].recvkexinit /\ ~ses[e].sentnewkeys
    BY <1>1, <1>5 DEF Before, Phases
  <1>7. /\ IsSession(s) /\ Same(ses[e], s, {"out", "transseq", "pub", "pubs", "cookie",
                                             "dataallowed", "sentkexinit", "newkeys"})
        /\ Stream(wire[e], s, n, g, r, Known(e)) /\ ses[e].transseq <= s.transseq
        /\ s.cookie = ses[e].cookie + 1 /\ s.sentkexinit /\ ~s.dataallowed /\ s.newkeys = NoKeys
    BY <1>3, <1>4, <1>5, <1>6, SendKexinit
  <1>8. /\ s.exited = ses[e].exited /\ s.hash = ses[e].hash /\ s.keys = ses[e].keys
        /\ s.recvkexinit = ses[e].recvkexinit /\ s.sentnewkeys = ses[e].sentnewkeys
        /\ s.recvnewkeys = ses[e].recvnewkeys /\ s.requirenext = ses[e].requirenext
        /\ s.ignorenext = ses[e].ignorenext /\ s.kex_state = ses[e].kex_state
        /\ s.lastpacket = ses[e].lastpacket
    BY <1>7 DEF Same, Fields, Flags
  <1>9. Sound(e, s)
    <2>1. Phases(s)
      BY <1>5, <1>6, <1>7, <1>8 DEF Before, Phases, InExchange
    <2>2. FreshKeys(e, s)
      <3>1. /\ ses[e].cookie \in Nat /\ ses[e].keys.trans \in MaybeKey
        BY <1>5 DEF IsSession, Keys
      <3>2. KeyCookie(ses[e].keys.trans) \in Nat
        BY <3>1, CookieIsNat
      <3>3. KeyCookie(ses[e].keys.trans) <= LastCookie(e, ses[e])
        BY <1>5 DEF Before, FreshKeys
      <3> QED BY <1>6, <1>7, <1>8, <3>1, <3>2, <3>3 DEF FreshKeys, InExchange, LastCookie
    <2>3. ClientMid(e, s)
      BY <1>5, <1>8 DEF ClientMid, InExchange
    <2> QED BY <2>1, <2>2, <2>3 DEF Sound
  <1>10. Acted(e, s, wire, n, g, r, Known(e))
    BY <1>3, <1>4, <1>5, <1>7, <1>9, IteratedEnds
  <1>11. sent' = sent /\ got' = got /\ rekeys' = [rekeys EXCEPT ![e] = @ + 1]
    BY DEF Rekey
  <1>12. /\ sent \in [End -> Seq(1..MaxData)] /\ got \in [End -> Seq(Nat)] /\ rekeys' \in [End -> Nat]
    BY <1>11 DEF KInv, Typed
  <1>13. KInv'
    BY <1>1, <1>2, <1>5, <1>8, <1>10, <1>11, <1>12, StartFacts, Composed
  <1>14. Advance(ses[e], ses'[e]) /\ ses'[Peer(e)] = ses[Peer(e)]
    <2>1. /\ Advance(s, ses'[e]) /\ IsSession(ses'[e]) /\ ses'[Peer(e)] = ses[Peer(e)]
      BY <1>10 DEF Acted
    <2>2. Advance(ses[e], s)
      BY <1>7, <1>8 DEF Advance
    <2> QED BY <1>5, <1>7, <2>1, <2>2, AdvanceTransitive
  <1>15. \A d \in End : Advance(ses[d], ses'[d])
    BY <1>1, <1>14, StartFacts, PeerFacts
  <1> QED BY <1>11, <1>13, <1>15 DEF StepOK

LEMMA ReceiveStep ==
  ASSUME KInv, NEW e \in End, Receive(e) PROVE StepOK
  <1>0. /\ ~ses[e].exited /\ wire[Peer(e)] # <<>> /\ sent' = sent /\ rekeys' = rekeys
    BY DEF Receive
  <1>1. PICK n \in Nat, g \in Nat, r \in BOOLEAN : n = Len(sent[e]) /\ g = Len(got[e]) /\ r = ~ses[Peer(e)].exited
    BY <1>0, StartFacts
  <1>2. /\ Peer(e) \in End /\ Peer(e) # e /\ End = {e, Peer(e)}
    BY PeerFacts
  <1>3. /\ IsSession(ses[e]) /\ Before(e, ses[e])
        /\ ClientMid(e, ses[e]) /\ DOMAIN ses = End /\ wire \in [End -> Seq(Packet)] /\ wire[e] \in Seq(Packet)
    BY <1>0, StartFacts
  <1>4. PICK x \in Seq(Packet) : x = wire[Peer(e)] /\ x # <<>>
    BY <1>0, <1>2, <1>3
  <1>5. PICK p \in Packet : p = Head(x)
    BY <1>4, HeadTailProperties
  <1>6. PICK y \in Seq(Packet) : y = Tail(x)
    BY <1>4, HeadTailProperties
  <1>7. PICK t : t = decrypt_packet(ses[e], p)
    OBVIOUS
  <1>8. PICK s : s = IF t.exited THEN t ELSE process_packet(e, t, p)
    OBVIOUS
  <1>9. PICK unread \in [End -> Seq(Packet)] :
           /\ unread = [wire EXCEPT ![Peer(e)] = Tail(@)] /\ unread[e] = wire[e] /\ unread[Peer(e)] = y
    <2>1. [wire EXCEPT ![Peer(e)] = Tail(@)] = [wire EXCEPT ![Peer(e)] = y]
      BY <1>4, <1>6
    <2>2. [wire EXCEPT ![Peer(e)] = y] \in [End -> Seq(Packet)]
      BY <1>2, <1>3
    <2>3. [wire EXCEPT ![Peer(e)] = y][e] = wire[e] /\ [wire EXCEPT ![Peer(e)] = y][Peer(e)] = y
      BY <1>2, <1>3
    <2> QED BY <2>1, <2>2, <2>3
  <1>10. /\ Iterated(e, s, unread)
         /\ got' = IF p.type = "DATA" /\ ~s.exited /\ ~t.ignorenext
                   THEN [got EXCEPT ![Peer(e)] = Append(@, p.body)] ELSE got
    BY <1>4, <1>5, <1>7, <1>8, <1>9 DEF Receive
  <1>11. PICK c \in Int : c = Known(e) /\ Stream(wire[e], ses[e], n, g, r, c)
    BY <1>1, StartStream
  \* What is read.
  <1>12. 1 \in 1..Len(x) /\ p = x[1] /\ Len(x) \in Nat /\ Len(y) = Len(x) - 1
         /\ \A i \in 1..Len(y) : y[i] = x[i + 1]
    BY <1>4, <1>5, <1>6, HeadTailProperties
  <1>13. e = "server" => x = wire["client"] /\ unread["client"] = y
    BY <1>4, <1>9 DEF Peer
  <1>14. e = "server" => ses[e].hash.cookies[1] <= ses["client"].cookie /\ Newer(x, ses[e].hash.cookies[1])
    BY <1>0, <1>13, StartFacts
  <1>15. e = "server" /\ p.type = "KEXINIT" => ses[e].hash.cookies[1] < p.body.cookie
    BY <1>12, <1>14 DEF Newer
  <1>16. /\ IsSession(s) /\ Stream(wire[e], s, n, g, r, c) /\ Advance(ses[e], s)
         /\ ~s.exited =>
              /\ Sound(e, s)
              /\ e = "server" => s.hash.cookies[1] = IF p.type = "KEXINIT" THEN p.body.cookie
                                                     ELSE ses[e].hash.cookies[1]
              /\ p.type = "DATA" => ~t.ignorenext
    <2>0. DOMAIN ses[e] = Fields /\ ses[e].recvseq \in Nat /\ ses[e].requirenext \in Type /\ ses[e].transseq \in Nat
      BY <1>3 DEF IsSession
    <2>1. CASE ~(p.key = ses[e].keys.recv /\ p.seq = ses[e].recvseq)
      <3>1. t = dropbear_exit(ses[e])
        BY <1>7, <2>1 DEF decrypt_packet
      <3>3. IsSession(t) /\ Stream(wire[e], t, n, g, r, c) /\ Handles(e, ses[e], t, p) /\ t.exited
        BY <1>3, <1>11, <3>1, ExitsAtOnce
      <3>4. s = t
        BY <1>8, <3>3
      <3> QED BY <3>3, <3>4 DEF Handles
    <2>2. CASE p.key = ses[e].keys.recv /\ p.seq = ses[e].recvseq
      <3>1. t = [ses[e] EXCEPT !.recvseq = @ + 1]
        BY <1>7, <2>2 DEF decrypt_packet
      <3>2. Same(ses[e], t, {"recvseq"}) /\ t.recvseq = ses[e].recvseq + 1
        BY <2>0, <3>1 DEF Same, Fields, Flags
      <3>3. IsSession(t) /\ t.recvseq >= 1
        <4>0. t.recvseq \in Nat /\ t.recvseq >= 1
          BY <2>0, <3>2
        <4>1. \A f \in {"recvseq"} : t[f] \in TypeOf(f)
          BY <4>0, TypesOf
        <4> QED BY <1>3, <3>2, <4>0, <4>1, SameType
      <3>4. Stream(wire[e], t, n, g, r, c)
        BY <1>11, <3>2, StreamSame DEF Same, Fields, Flags
      <3>5. /\ t.exited = ses[e].exited /\ t.hash = ses[e].hash /\ t.keys = ses[e].keys
            /\ t.transseq = ses[e].transseq
            /\ Same(ses[e], t, {"out", "transseq", "reply_queue", "recvseq"})
        BY <3>2 DEF Same, Fields, Flags
      <3>6. Before(e, t)
        BY <1>3, <3>5, SoundSame DEF Before
      <3>7. s = process_packet(e, t, p)
        BY <1>0, <1>8, <3>5
      <3>8. e = "server" /\ p.type = "KEXINIT" => t.hash.cookies[1] < p.body.cookie
        BY <1>15, <3>5
      <3>9. /\ IsSession(s) /\ Stream(wire[e], s, n, g, r, c) /\ Advance(t, s)
            /\ ~s.exited =>
                 /\ Sound(e, s)
                 /\ e = "server" => s.hash.cookies[1] = IF p.type = "KEXINIT" THEN p.body.cookie
                                                        ELSE t.hash.cookies[1]
                 /\ p.type = "DATA" => ~t.ignorenext
        <4>1. Processed(e, wire[e], t, n, g, r, c, p, s)
          BY <1>3, <3>3, <3>4, <3>6, <3>7, <3>8, ProcessPacket
        <4> QED BY <4>1 DEF Processed
      <3>10. Advance(ses[e], s)
        BY <3>5, <3>9 DEF Advance
      <3> QED BY <3>5, <3>9, <3>10
    <2> QED BY <2>1, <2>2
  <1>17. Acted(e, s, unread, n, g, r, c)
    <2>1. Stream(unread[e], s, n, g, r, c) /\ IsSession(s) /\ (~s.exited => Sound(e, s))
      BY <1>9, <1>16
    <2>2. Iterated(e, s, unread) /\ DOMAIN ses = End
      BY <1>3, <1>10
    <2> QED BY <2>1, <2>2, IteratedEnds
  \* The other direction.
  <1>18. PICK o : o = ses[Peer(e)]
    OBVIOUS
  <1>19. IsSession(o) /\ o.keys.trans \in MaybeKey /\ o.transseq \in Nat /\ o.cookie \in Nat
         /\ o.reply_queue \in Seq(Nat)
    <2>1. IsSession(o)
      BY <1>2, <1>18 DEF KInv, Typed
    <2> QED BY <2>1 DEF IsSession, Keys
  <1>20. Written(x, o)
    BY <1>0, <1>4, <1>18, StartFacts
  <1>21. Written(y, o)
    BY <1>4, <1>6, <1>19, <1>20, ReadHead DEF Written
  <1>22. /\ sent \in [End -> Seq(1..MaxData)] /\ got \in [End -> Seq(Nat)] /\ rekeys \in [End -> Nat]
    BY DEF KInv, Typed
  <1>23. PICK m \in Nat, k \in Nat : m = Len(sent[Peer(e)]) /\ k = Len(got[Peer(e)])
    BY <1>2, <1>22
  <1>24. DataOn(x, o.reply_queue, m, k)
    BY <1>0, <1>4, <1>18, <1>23, StartFacts
  <1>25. IF p.type = "DATA" THEN p.body = k + 1 /\ DataOn(y, o.reply_queue, m, k + 1)
         ELSE DataOn(y, o.reply_queue, m, k)
    BY <1>4, <1>5, <1>6, <1>19, <1>24, ReadHead
  <1>26. \A i \in 1..k : got[Peer(e)][i] = i
    BY <1>0, <1>2, <1>23, StartFacts
  \* What is handed to the upper layers.
  <1>27. /\ got' \in [End -> Seq(Nat)] /\ got'[e] = got[e]
         /\ \A i \in 1..Len(got'[Peer(e)]) : got'[Peer(e)][i] = i
         /\ ~s.exited => DataOn(y, o.reply_queue, m, Len(got'[Peer(e)]))
         /\ got' = got \/ Abstract!Deliver(Peer(e))
    <2>1. CASE p.type = "DATA" /\ ~s.exited
      <3>1. got' = [got EXCEPT ![Peer(e)] = Append(@, p.body)]
        BY <1>10, <1>16, <2>1
      <3>2. p.body = k + 1 /\ DataOn(y, o.reply_queue, m, k + 1) /\ k + 1 \in Nat
        BY <1>25, <2>1
      <3>3. PICK q \in Seq(Nat) : q = Append(got[Peer(e)], k + 1)
        <4>1. Append(got[Peer(e)], k + 1) \in Seq(Nat)
          BY <1>2, <1>22, <3>2, AppendProperties
        <4> QED BY <4>1
      <3>4. got' \in [End -> Seq(Nat)] /\ got'[e] = got[e] /\ got'[Peer(e)] = q
        BY <1>2, <1>22, <3>1, <3>2, <3>3
      <3>5. Len(q) = k + 1 /\ \A i \in 1..Len(q) : q[i] = i
        <4>1. got[Peer(e)] \in Seq(Nat)
          BY <1>2, <1>22
        <4> QED BY <1>23, <1>26, <3>2, <3>3, <4>1, AppendProperties
      <3>6. Abstract!Deliver(Peer(e))
        <4>1. k + 1 <= m
          <5>1. PICK l \in Nat : l = Len(o.reply_queue)
            BY <1>19
          <5>2. (k + 1) + l <= m
            BY <3>2, <5>1 DEF DataOn
          <5> QED BY <5>2
        <4>2. sent[Peer(e)][k + 1] = k + 1
          <5>1. k + 1 \in 1..m
            BY <4>1
          <5> QED BY <1>0, <1>2, <1>23, <5>1, StartFacts
        <4>3. got' = [got EXCEPT ![Peer(e)] = Append(@, sent[Peer(e)][Len(@) + 1])]
          BY <1>23, <3>1, <3>2, <4>2
        <4>4. Len(got[Peer(e)]) < Len(sent[Peer(e)])
          BY <1>23, <4>1
        <4> QED BY <1>0, <4>3, <4>4 DEF Abstract!Deliver
      <3> QED BY <3>2, <3>4, <3>5, <3>6
    <2>2. CASE ~(p.type = "DATA" /\ ~s.exited)
      <3>1. got' = got
        BY <1>10, <2>2
      <3>2. ~s.exited => DataOn(y, o.reply_queue, m, k)
        BY <1>25, <2>2
      <3> QED BY <1>22, <1>23, <1>26, <3>1, <3>2
    <2> QED BY <2>1, <2>2
  \* The cookies that the server still has to read.
  <1>28. e = "server" /\ ~s.exited => /\ s.hash.cookies[1] <= ses["client"].cookie
                                      /\ Newer(unread["client"], s.hash.cookies[1])
    <2> SUFFICES ASSUME e = "server", ~s.exited
                 PROVE  s.hash.cookies[1] <= ses["client"].cookie /\ Newer(y, s.hash.cookies[1])
      BY <1>13
    <2>0. o = ses["client"] /\ Cookies(x, o.cookie)
      BY <1>18, <1>20 DEF Peer, Written
    <2>1. \A i \in 1..Len(y) : i + 1 \in 1..Len(x) /\ 1 \in 1..(i + 1 - 1) /\ y[i] = x[i + 1]
      BY <1>12
    <2>2. CASE p.type = "KEXINIT"
      <3>1. s.hash.cookies[1] = p.body.cookie
        BY <1>16, <2>2
      <3>2. p.body.cookie <= o.cookie
        BY <1>12, <2>0, <2>2 DEF Cookies
      <3>3. Newer(y, p.body.cookie)
        <4> SUFFICES ASSUME NEW i \in 1..Len(y), y[i].type = "KEXINIT" PROVE p.body.cookie < y[i].body.cookie
          BY DEF Newer
        <4>1. \A j \in 1..(i + 1 - 1) : x[j].type = "KEXINIT" => x[j].body.cookie < x[i + 1].body.cookie
          BY <2>0, <2>1 DEF Cookies
        <4> QED BY <1>12, <2>1, <2>2, <4>1
      <3> QED BY <2>0, <3>1, <3>2, <3>3
    <2>3. CASE p.type # "KEXINIT"
      <3>1. s.hash.cookies[1] = ses[e].hash.cookies[1]
        BY <1>16, <2>3
      <3>2. Newer(y, ses[e].hash.cookies[1])
        BY <1>14, <2>1 DEF Newer
      <3> QED BY <1>14, <3>1, <3>2
    <2> QED BY <2>2, <2>3
  <1>29. KInv'
    <2>1. \A i \in 1..Len(sent[e]) : sent[e][i] = i
      BY <1>0, StartFacts
    <2>2. Acted(e, s, unread, n, Len(got[e]), ~ses[Peer(e)].exited, Known(e))
      BY <1>1, <1>11, <1>17
    <2>3. Written(unread[Peer(e)], ses[Peer(e)])
      BY <1>9, <1>18, <1>21
    <2>4. ~s.exited => DataOn(unread[Peer(e)], ses[Peer(e)].reply_queue,
                              Len(sent[Peer(e)]), Len(got'[Peer(e)]))
      BY <1>9, <1>18, <1>23, <1>27
    <2> QED BY <1>0, <1>1, <1>22, <1>27, <1>28, <2>1, <2>2, <2>3, <2>4, Composed
  <1>30. Advance(ses[e], ses'[e]) /\ ses'[Peer(e)] = ses[Peer(e)]
    <2>1. /\ Advance(s, ses'[e]) /\ IsSession(ses'[e]) /\ ses'[Peer(e)] = ses[Peer(e)]
      BY <1>17 DEF Acted
    <2> QED BY <1>3, <1>16, <2>1, AdvanceTransitive
  <1>31. \A d \in End : Advance(ses[d], ses'[d])
    BY <1>0, <1>2, <1>30, StartFacts
  <1>32. [Abstract!Next]_<<sent, got>>
    BY <1>0, <1>2, <1>27 DEF Abstract!Next
  <1> QED BY <1>29, <1>31, <1>32 DEF StepOK
-----------------------------------------------------------------------------
(* The first KEXINITs, and the theorems.                                   *)

Fresh(s, strict, list) == s = [NewSession EXCEPT !.strictname = strict, !.sigalgs = list]

LEMMA NewSessionTyped ==
  ASSUME NEW strict \in BOOLEAN, NEW list \in Seq(Name), NEW s, Fresh(s, strict, list)
  PROVE  /\ IsSession(s)
         /\ s.out = <<>> /\ s.reply_queue = <<>> /\ s.dataallowed /\ s.cookie = 0 /\ s.transseq = 0
         /\ s.keys = NoKeys /\ s.hash = NoHash /\ ~s.exited /\ ~s.recvkexinit /\ ~s.sentnewkeys
         /\ ~s.recvnewkeys /\ s.requirenext = "KEXINIT" /\ ~s.ignorenext
         /\ s.kex_state = "KEX_NOTHING" /\ s.lastpacket = None
  <1>1. NoHash \in Hash
    <2>1. None \in Algo
      BY DEF Algo, Name
    <2> QED BY <2>1 DEF NoHash, Hash
  <1>2. NoKeys \in Keys
    BY DEF NoKeys, Keys, MaybeKey
  <1>3. "KEXINIT" \in Type /\ None \in Type
    BY DEF Type, PacketType
  <1>4. None \in Algo
    BY DEF Algo, Name
  <1>5. <<>> \in Seq(Nat) /\ <<>> \in Seq(Packet)
    OBVIOUS
  <1>6. DOMAIN s = Fields
    BY DEF Fresh, NewSession, Fields, Flags
  <1>7. \A f \in Flags : s[f] \in BOOLEAN
    <2>1. /\ s.sentkexinit = FALSE /\ s.recvkexinit = FALSE /\ s.sentnewkeys = FALSE
          /\ s.recvnewkeys = FALSE /\ s.donefirstkex = FALSE /\ s.donesecondkex = FALSE
          /\ s.recvfirstnewkeys = FALSE /\ s.strict_kex = FALSE /\ s.exited = FALSE
          /\ s.our_first_follows_matches = FALSE /\ s.dataallowed = TRUE
          /\ s.ignorenext = FALSE /\ s.strictname = strict
      BY DEF Fresh, NewSession
    <2> QED BY <2>1 DEF Flags
  <1>8. /\ s.out = <<>> /\ s.reply_queue = <<>> /\ s.dataallowed /\ s.cookie = 0 /\ s.transseq = 0
        /\ s.keys = NoKeys /\ s.newkeys = NoKeys /\ s.hash = NoHash /\ s.session_id = NoHash
        /\ ~s.exited /\ ~s.recvkexinit /\ ~s.sentnewkeys
        /\ ~s.recvnewkeys /\ s.requirenext = "KEXINIT" /\ ~s.ignorenext
        /\ s.kex_state = "KEX_NOTHING" /\ s.lastpacket = None
        /\ s.recvseq = 0 /\ s.pub = 0 /\ s.pubs = 0 /\ s.algo_signature = None /\ s.sigalgs = list
    BY DEF Fresh, NewSession
  <1>9. IsSession(s)
    <2>1. /\ \A f \in {"transseq", "recvseq", "cookie", "pub", "pubs"} : s[f] \in Nat
          /\ \A f \in {"keys", "newkeys"} : s[f] \in Keys
          /\ \A f \in {"hash", "session_id"} : s[f] \in Hash
      BY <1>1, <1>2, <1>8
    <2>2. /\ s.requirenext \in Type /\ s.lastpacket \in Type /\ s.algo_signature \in Algo
          /\ s.kex_state \in {"KEX_NOTHING", "KEXDH_INIT_SENT"}
          /\ s.reply_queue \in Seq(Nat) /\ s.out \in Seq(Packet) /\ s.sigalgs \in Seq(Name)
      BY <1>3, <1>4, <1>5, <1>8
    <2> QED BY <1>6, <1>7, <2>1, <2>2 DEF IsSession
  <1> QED BY <1>8, <1>9

\* An end that has sent its first KEXINIT.
Begun(e, t) ==
    /\ IsSession(t) /\ ~t.exited /\ Phases(t) /\ ClientState(e, t) /\ FreshKeys(e, t) /\ ~t.dataallowed
    /\ t.hash.cookies[1] = 0 /\ t.reply_queue = <<>>
    /\ Written(t.out, t) /\ DataOn(t.out, <<>>, 0, 0) /\ Newer(t.out, 0)

LEMMA FirstKexinit ==
  ASSUME NEW e \in End, NEW strict \in BOOLEAN, NEW list \in Seq(Name), NEW s, Fresh(s, strict, list)
  PROVE  Begun(e, send_msg_kexinit(e, s))
  <1>1. /\ IsSession(s)
        /\ s.out = <<>> /\ s.reply_queue = <<>> /\ s.dataallowed /\ s.cookie = 0 /\ s.transseq = 0
        /\ s.keys = NoKeys /\ s.hash = NoHash /\ ~s.exited /\ ~s.recvkexinit /\ ~s.sentnewkeys
        /\ ~s.recvnewkeys /\ s.requirenext = "KEXINIT" /\ ~s.ignorenext
        /\ s.kex_state = "KEX_NOTHING" /\ s.lastpacket = None
    BY NewSessionTyped
  <1>2. PICK w \in Seq(Packet) : w = <<>>
    <2>1. <<>> \in Seq(Packet)
      OBVIOUS
    <2> QED BY <2>1
  <1>3. w \o s.out = w /\ Len(w) = 0
    BY <1>1, <1>2
  <1>4. Stream(w, s, 0, 0, TRUE, 0)
    <2>1. Quiet(w) /\ Closed(w) /\ Cookies(w, s.cookie) /\ Newer(w, 0)
      BY <1>3 DEF Quiet, Closed, Cookies, Newer
    <2>2. Numbered(w, s.keys.trans, s.transseq)
      BY <1>3 DEF Numbered
    <2>3. DataOn(w, s.reply_queue, 0, 0)
      BY <1>1, <1>3 DEF DataOn
    <2> QED BY <1>1, <1>3, <2>1, <2>2, <2>3 DEF Stream, Written
  <1>5. PICK t : t = send_msg_kexinit(e, s)
    OBVIOUS
  <1>6. /\ IsSession(t)
        /\ Same(s, t, {"out", "transseq", "pub", "pubs", "cookie", "dataallowed", "sentkexinit", "newkeys"})
        /\ Stream(w, t, 0, 0, TRUE, 0) /\ t.cookie = 1 /\ t.sentkexinit /\ ~t.dataallowed
    <2>1. 0 \in Nat /\ 0 \in Int /\ TRUE \in BOOLEAN /\ s.dataallowed /\ IsSession(s)
      BY <1>1
    <2>2. PICK n \in Nat, r \in BOOLEAN, c \in Int :
             n = 0 /\ r = TRUE /\ c = 0 /\ Stream(w, s, n, n, r, c)
      BY <1>4, <2>1
    <2>3. /\ IsSession(send_msg_kexinit(e, s))
          /\ Same(s, send_msg_kexinit(e, s), {"out", "transseq", "pub", "pubs", "cookie",
                                              "dataallowed", "sentkexinit", "newkeys"})
          /\ Stream(w, send_msg_kexinit(e, s), n, n, r, c)
          /\ send_msg_kexinit(e, s).cookie = s.cookie + 1
          /\ send_msg_kexinit(e, s).sentkexinit /\ ~send_msg_kexinit(e, s).dataallowed
      BY <2>1, <2>2, SendKexinit, Zenon
    <2>4. s.cookie + 1 = 1
      BY <1>1
    <2> QED BY <1>5, <2>2, <2>3, <2>4
  <1>7. /\ t.reply_queue = <<>> /\ t.keys = NoKeys /\ t.hash = NoHash /\ ~t.exited /\ ~t.recvkexinit
        /\ ~t.sentnewkeys /\ ~t.recvnewkeys /\ t.requirenext = "KEXINIT" /\ ~t.ignorenext
        /\ t.kex_state = "KEX_NOTHING" /\ t.lastpacket = None
    BY <1>1, <1>6 DEF Same, Fields, Flags
  <1>8. t.out \in Seq(Packet) /\ w \o t.out = t.out
    <2>1. t.out \in Seq(Packet)
      BY <1>6 DEF IsSession
    <2> QED BY <1>2, <2>1
  <1>9. Written(t.out, t) /\ DataOn(t.out, <<>>, 0, 0) /\ Newer(t.out, 0)
    BY <1>6, <1>7, <1>8 DEF Stream
  <1>10. t.hash.cookies[1] = 0 /\ KeyCookie(t.keys.trans) = 0
    BY <1>7 DEF NoHash, NoKeys, KeyCookie
  <1>11. Phases(t)
    BY <1>6, <1>7, NoneIsNoType DEF Phases, InExchange, PacketType
  <1>12. ClientState(e, t)
    BY <1>7, NoneIsNoType DEF ClientState, InExchange, PacketType
  <1>13. FreshKeys(e, t)
    BY <1>6, <1>7, <1>10 DEF FreshKeys, InExchange, LastCookie
  <1> QED BY <1>5, <1>6, <1>7, <1>9, <1>10, <1>11, <1>12, <1>13 DEF Begun

LEMMA InitKInv == Init => KInv
  <1> SUFFICES ASSUME Init PROVE KInv
    OBVIOUS
  <1>1. PICK usable \in (SUBSET (1..Len(SigAlgs))) \ {{}}, strict \in BOOLEAN :
          LET new(e) == [NewSession EXCEPT
                            !.strictname = strict,
                            !.sigalgs = [i \in 1..Len(@) |-> IF e = "client" \/ i \in usable
                                                             THEN @[i] ELSE None]]
              begun == [e \in End |-> send_msg_kexinit(e, new(e))]
          IN /\ ses = [e \in End |-> [begun[e] EXCEPT !.out = <<>>]]
             /\ wire = [e \in End |-> begun[e].out]
    BY Zenon DEF Init
  <1> DEFINE list(e) == [i \in 1..Len(SigAlgs) |-> IF e = "client" \/ i \in usable THEN SigAlgs[i] ELSE None]
             new(e) == [NewSession EXCEPT !.strictname = strict, !.sigalgs = list(e)]
  <1>2. ASSUME NEW e \in End PROVE list(e) \in Seq(Name)
    <2>1. Len(SigAlgs) \in Nat /\ \A i \in 1..Len(SigAlgs) : SigAlgs[i] \in STRING
      BY AlgsAssumption
    <2>2. list(e) \in [1..Len(SigAlgs) -> Name]
      BY <2>1 DEF Name
    <2> QED BY <2>1, <2>2
  <1>3. \A e \in End : [NewSession EXCEPT
                            !.strictname = strict,
                            !.sigalgs = [i \in 1..Len(@) |-> IF e = "client" \/ i \in usable
                                                             THEN @[i] ELSE None]] = new(e)
    BY DEF NewSession
  <1>4. PICK begun : begun = [e \in End |-> send_msg_kexinit(e, new(e))]
    BY ZenonT(60)
  <1>5. ses = [e \in End |-> [begun[e] EXCEPT !.out = <<>>]] /\ wire = [e \in End |-> begun[e].out]
    BY <1>1, <1>3, <1>4
  <1>6. ASSUME NEW e \in End PROVE Begun(e, begun[e])
    <2>1. PICK l \in Seq(Name) : l = list(e)
      BY <1>2
    <2>2. PICK s : s = [NewSession EXCEPT !.strictname = strict, !.sigalgs = l]
      OBVIOUS
    <2>3. begun[e] = send_msg_kexinit(e, s) /\ Fresh(s, strict, l)
      BY <1>4, <2>1, <2>2 DEF Fresh
    <2> HIDE DEF list, new
    <2> QED BY <2>3, FirstKexinit
  <1> HIDE DEF list, new
  <1>7. sent = [e \in End |-> <<>>] /\ got = [e \in End |-> <<>>] /\ rekeys = [e \in End |-> 0]
    BY DEF Init
  <1>8. ASSUME NEW e \in End
        PROVE  /\ IsSession(ses[e]) /\ wire[e] \in Seq(Packet) /\ ses[e].out = <<>> /\ ~ses[e].exited
               /\ Phases(ses[e]) /\ ClientState(e, ses[e]) /\ FreshKeys(e, ses[e]) /\ ~ses[e].dataallowed
               /\ ses[e].hash.cookies[1] = 0 /\ ses[e].reply_queue = <<>>
               /\ Written(wire[e], ses[e]) /\ DataOn(wire[e], <<>>, 0, 0) /\ Newer(wire[e], 0)
               /\ ses[e].cookie \in Nat
    <2>1. PICK t : t = begun[e]
      OBVIOUS
    <2>2. PICK v : v = [t EXCEPT !.out = <<>>]
      OBVIOUS
    <2>3. ses[e] = v /\ wire[e] = t.out
      BY <1>5, <2>1, <2>2
    <2>4. Begun(e, t)
      BY <1>6, <2>1
    <2>5. IsSession(t) /\ t.out \in Seq(Packet) /\ DOMAIN t = Fields
      BY <2>4 DEF Begun, IsSession
    <2>6. Same(t, v, {"out"}) /\ v.out = <<>>
      BY <2>2, <2>5 DEF Same, Fields, Flags
    <2>7. IsSession(v)
      <3>0. v.out \in Seq(Packet)
        BY <2>6
      <3>1. \A f \in {"out"} : v[f] \in TypeOf(f)
        BY <3>0, TypesOf
      <3> QED BY <2>5, <2>6, <3>1, SameType
    <2>8. /\ v.keys = t.keys /\ v.dataallowed = t.dataallowed /\ v.transseq = t.transseq
          /\ v.cookie = t.cookie /\ v.reply_queue = t.reply_queue /\ v.exited = t.exited
          /\ v.hash = t.hash
      BY <2>6 DEF Same, Fields, Flags
    <2>9. Same(t, v, {"out", "transseq", "reply_queue", "recvseq"})
      BY <2>6 DEF Same
    <2>10. Phases(v) /\ ClientState(e, v) /\ FreshKeys(e, v)
      BY <2>4, <2>9, SoundSame DEF Begun
    <2>11. Written(t.out, v)
      BY <2>4, <2>8 DEF Begun, Written
    <2>12. v.cookie \in Nat
      BY <2>7 DEF IsSession
    <2> QED BY <2>3, <2>4, <2>5, <2>6, <2>7, <2>8, <2>10, <2>11, <2>12 DEF Begun
  <1>9. Typed
    <2>1. DOMAIN ses = End /\ DOMAIN wire = End /\ wire = [e \in End |-> wire[e]]
      BY <1>5
    <2>2. wire \in [End -> Seq(Packet)]
      BY <1>8, <2>1
    <2>3. sent \in [End -> Seq(1..MaxData)] /\ got \in [End -> Seq(Nat)] /\ rekeys \in [End -> Nat]
      BY <1>7
    <2> QED BY <1>8, <2>1, <2>2, <2>3 DEF Typed
  <1>10. ASSUME NEW e \in End PROVE EndOK(e) /\ DataOK(e)
    <2>1. EndOK(e)
      BY <1>8 DEF EndOK
    <2>2. sent[e] = <<>> /\ got[e] = <<>> /\ Len(sent[e]) = 0 /\ Len(got[e]) = 0
      BY <1>7
    <2>3. DataOn(wire[e], ses[e].reply_queue, Len(sent[e]), Len(got[e]))
      BY <1>8, <2>2
    <2> QED BY <2>1, <2>2, <2>3 DEF DataOK
  <1>11. NewToServer
    BY <1>8 DEF NewToServer, End
  <1> QED BY <1>9, <1>10, <1>11 DEF KInv

LEMMA StepKInv == KInv /\ [Next]_vars => StepOK
  <1> SUFFICES ASSUME KInv, [Next]_vars PROVE StepOK
    OBVIOUS
  <1>1. ASSUME NEW e \in End, SendData(e) PROVE StepOK
    BY <1>1, SendDataStep
  <1>2. ASSUME NEW e \in End, Rekey(e) PROVE StepOK
    BY <1>2, RekeyStep
  <1>3. ASSUME NEW e \in End, Receive(e) PROVE StepOK
    BY <1>3, ReceiveStep
  <1>4. CASE UNCHANGED vars
    <2>1. ses' = ses /\ wire' = wire /\ sent' = sent /\ got' = got /\ rekeys' = rekeys
      BY <1>4 DEF vars
    <2>2. Typed'
      BY <2>1 DEF KInv, Typed
    <2>3. ASSUME NEW e \in End PROVE EndOK(e)' /\ DataOK(e)'
      <3>1. EndOK(e) /\ DataOK(e)
        BY DEF KInv
      <3>2. EndOK(e)'
        BY <2>1, <3>1 DEF EndOK
      <3>3. DataOK(e)'
        BY <2>1, <3>1 DEF DataOK
      <3> QED BY <3>2, <3>3
    <2>4. NewToServer'
      BY <2>1 DEF KInv, NewToServer
    <2>5. ASSUME NEW e \in End PROVE Advance(ses[e], ses'[e])
      <3>1. ses[e].transseq \in Nat
        BY DEF KInv, Typed, IsSession
      <3> QED BY <2>1, <3>1 DEF Advance
    <2> QED BY <2>1, <2>2, <2>3, <2>4, <2>5 DEF StepOK, KInv
  <1> QED BY <1>1, <1>2, <1>3, <1>4 DEF Next

\* At every reachable state: the phases of the exchange, what is on the wire
\* and what the ends know of each other fit together.
LEMMA Invariant == Spec => []KInv
  <1>1. KInv /\ [Next]_vars => KInv'
    BY StepKInv DEF StepOK
  <1> QED BY InitKInv, <1>1, PTL DEF Spec

\* Between the KEXINIT of an end and its NEWKEYS no packet of the upper
\* layers and no second KEXINIT is on the wire: dataallowed and the reply
\* queue of encrypt_packet() hold them back, also when the other end's
\* KEXINIT crosses one's own.
THEOREM QuietInExchange == Spec => []QuietDuringKex
  <1>1. KInv => QuietDuringKex
    BY DEF KInv, EndOK, Written, Quiet, QuietDuringKex
  <1> QED BY Invariant, <1>1, PTL

\* No key of a direction is used twice with one sequence number: transseq
\* goes back to 0 (strict kex) only together with a key of a later exchange,
\* and what is still on the wire of either key is numbered without repeats.
THEOREM NoncesFresh == Spec => NonceNeverReused
  <1> DEFINE Unused ==
        \A e \in End :
         LET old == ses[e].keys.trans  new == ses'[e].keys.trans
         IN /\ old = new => ses'[e].transseq >= ses[e].transseq
            /\ \A i, j \in 1..Len(wire'[e]) :
                 i < j /\ wire'[e][i].key = wire'[e][j].key
                     => wire'[e][i].seq < wire'[e][j].seq
            /\ old # new /\ old # NoKey =>
                 new # NoKey /\ old[1].cookies[1] < new[1].cookies[1]
  <1>1. KInv /\ [Next]_vars => Unused
    <2> SUFFICES ASSUME KInv, StepOK, NEW e \in End, NEW old, NEW new,
                        old = ses[e].keys.trans, new = ses'[e].keys.trans
                 PROVE  /\ old = new => ses'[e].transseq >= ses[e].transseq
                        /\ \A i, j \in 1..Len(wire'[e]) :
                             i < j /\ wire'[e][i].key = wire'[e][j].key
                                 => wire'[e][i].seq < wire'[e][j].seq
                        /\ old # new /\ old # NoKey =>
                             new # NoKey /\ old[1].cookies[1] < new[1].cookies[1]
      BY StepKInv, Zenon
    <2>1. IsSession(ses[e]) /\ IsSession(ses'[e]) /\ Written(wire'[e], ses'[e])
      BY DEF StepOK, KInv, Typed, EndOK
    <2>2. /\ old \in MaybeKey /\ new \in MaybeKey /\ ses[e].transseq \in Nat /\ ses'[e].transseq \in Nat
      BY <2>1 DEF IsSession, Keys
    <2>3. KeyCookie(old) \in Nat /\ KeyCookie(new) \in Nat
      BY <2>2, CookieIsNat
    <2>4. (new = old /\ ses[e].transseq <= ses'[e].transseq) \/ KeyCookie(old) < KeyCookie(new)
      BY DEF StepOK, Advance
    <2>5. old = new => ses'[e].transseq >= ses[e].transseq
      BY <2>2, <2>3, <2>4
    <2>6. old # new /\ old # NoKey => new # NoKey /\ old[1].cookies[1] < new[1].cookies[1]
      BY <2>3, <2>4 DEF KeyCookie
    <2>7. \A i, j \in 1..Len(wire'[e]) :
             i < j /\ wire'[e][i].key = wire'[e][j].key => wire'[e][i].seq < wire'[e][j].seq
      BY <2>1 DEF Written, Numbered
    <2> QED BY <2>5, <2>6, <2>7
  <1> QED BY Invariant, <1>1, PTL DEF Spec, NonceNeverReused

\* The packets of the upper layers reach the other end in the order they were
\* handed to encrypt_packet(), none twice and none left out in between, also
\* those that an exchange holds back in the reply queue: the safety part of
\* Transport.  (That all arrive in the end is its fairness, checked by TLC.)
THEOREM ImplementsTransportSafely ==
  Spec => Abstract!Init /\ [][Abstract!Next]_<<sent, got>>
  <1>1. Init => Abstract!Init
    BY DEF Init, Abstract!Init
  <1>2. KInv /\ [Next]_vars => [Abstract!Next]_<<sent, got>>
    BY StepKInv DEF StepOK
  <1> QED BY Invariant, <1>1, <1>2, PTL DEF Spec

-----------------------------------------------------------------------------
(* The two ends together.  An exchange has a fixed order in either         *)
(* direction: KEXINIT, then the client's KEXDH_INIT, a second one when its *)
(* guess was wrong, or the server's KEXDH_REPLY, and NEWKEYS.  A place in  *)
(* it is a number: 4 * k between the exchanges k and k + 1, and 1 to 3     *)
(* more behind the KEXINIT, the guess that is ignored and the value or the *)
(* reply that counts.  The packets on the wire lead from the place that    *)
(* the reader expects to the one where the writer is.                      *)

\* Packet p leads from place m to place n; a is the place in the table of the
\* algorithm that both ends agree on (the guess is right when it is the first)
\* and b is the body of the value or the reply that counts.
Fits(m, p, n, a, b) ==
    \/ p.type = "KEXINIT" /\ \E k \in Int : m = 4 * k /\ n = 4 * k + 1 /\ p.body.cookie = k + 1
    \/ p.type = "KEXDH_INIT" /\ a # 1 /\ \E k \in Int : m = 4 * k + 1 /\ n = 4 * k + 2
    \/ /\ p.type = "KEXDH_INIT" /\ p.body = b
       /\ \E k \in Int : m = 4 * k + (IF a = 1 THEN 1 ELSE 2) /\ n = 4 * k + 3
    \/ p.type = "KEXDH_REPLY" /\ p.body = b /\ \E k \in Int : m = 4 * k + 1 /\ n = 4 * k + 3
    \/ p.type = "NEWKEYS" /\ \E k \in Int : m = 4 * k + 3 /\ n = 4 * k + 4
    \/ p.type \in {"DATA", "EXT_INFO"} /\ \E k \in Int : k >= 1 /\ m = 4 * k /\ n = m

Route(x, lo, hi, a, b) ==
    \E r \in [0..Len(x) -> Int] :
        /\ r[0] = lo /\ r[Len(x)] = hi
        /\ \A i \in 1..Len(x) : Fits(r[i - 1], x[i], r[i], a, b)
        /\ \A i, j \in 0..Len(x) : i <= j => r[i] <= r[j]

Counted(x, from, to, strict) ==
    \E q \in [0..Len(x) -> Int] :
        /\ q[0] = from /\ q[Len(x)] = to
        /\ \A i \in 1..Len(x) :
              /\ x[i].seq = q[i - 1]
              /\ q[i] = IF x[i].type = "NEWKEYS" /\ strict THEN 0 ELSE q[i - 1] + 1

Keyed(x, old, new) ==
    /\ \A i \in 1..Len(x) :
          x[i].key = IF \E j \in 1..(i - 1) : x[j].type = "NEWKEYS" THEN new ELSE old
    /\ (\A i \in 1..Len(x) : x[i].type # "NEWKEYS") => old = new

\* A table of the server: entry a is the first that is usable.
Table(T, a) ==
    /\ T \in Seq(Name) /\ Len(T) = Len(SigAlgs) /\ \A i \in 1..Len(SigAlgs) : T[i] \in {SigAlgs[i], None}
    /\ a \in 1..Len(SigAlgs) /\ T[a] = SigAlgs[a] /\ \A i \in 1..(a - 1) : T[i] = None

Says(e, p, a, strict) ==
    /\ p.type \in IF e = "server" THEN {"KEXINIT", "KEXDH_REPLY", "NEWKEYS", "EXT_INFO", "DATA"}
                                  ELSE {"KEXINIT", "KEXDH_INIT", "NEWKEYS", "DATA"}
    /\ p.type = "KEXINIT" =>
          /\ p.body.strict = strict /\ p.body.follows = (e = "client")
          /\ e = "client" => p.body.sigalgs = buf_put_algolist(SigAlgs)
          /\ e = "server" => \E T : Table(T, a) /\ p.body.sigalgs = buf_put_algolist(T)

\* A mark is a place with the number and the key of the next packet there.
Mark(at, seq, key) == [at |-> at, seq |-> seq, key |-> key]

Line(e, x, v, z, a, b, strict) ==
    /\ Route(x, v.at, z.at, a, b) /\ Counted(x, v.seq, z.seq, strict) /\ Keyed(x, v.key, z.key)
    /\ \A i \in 1..Len(x) : Says(e, x[i], a, strict)

LEMMA RouteOrder ==
  ASSUME NEW x \in Seq(Packet), NEW lo, NEW hi, NEW a, NEW b, Route(x, lo, hi, a, b)
  PROVE  lo \in Int /\ hi \in Int /\ lo <= hi
  <1>1. PICK r \in [0..Len(x) -> Int] :
           r[0] = lo /\ r[Len(x)] = hi /\ \A i, j \in 0..Len(x) : i <= j => r[i] <= r[j]
    BY DEF Route
  <1>2. 0 \in 0..Len(x) /\ Len(x) \in 0..Len(x) /\ 0 <= Len(x)
    OBVIOUS
  <1> QED BY <1>1, <1>2

LEMMA FitsOrder ==
  ASSUME NEW m \in Int, NEW n, NEW p, NEW a, NEW b, Fits(m, p, n, a, b)
  PROVE  n \in Int /\ m <= n
  BY DEF Fits

LEMMA RouteAppend ==
  ASSUME NEW x \in Seq(Packet), NEW p \in Packet, NEW lo, NEW m, NEW hi, NEW a, NEW b,
         Route(x, lo, m, a, b), Fits(m, p, hi, a, b)
  PROVE  Route(Append(x, p), lo, hi, a, b)
  <1> DEFINE y == Append(x, p)  l == Len(x)
  <1>1. /\ Len(y) = l + 1 /\ y[l + 1] = p /\ l \in Nat
        /\ \A i \in 1..l : y[i] = x[i]
    BY AppendProperties
  <1> HIDE DEF y
  <1>2. PICK r \in [0..l -> Int] :
           /\ r[0] = lo /\ r[l] = m /\ \A i, j \in 0..l : i <= j => r[i] <= r[j]
           /\ \A i \in 1..l : Fits(r[i - 1], x[i], r[i], a, b)
    BY DEF Route
  <1>3. m \in Int /\ hi \in Int /\ m <= hi
    BY FitsOrder, RouteOrder
  <1> DEFINE s == [i \in 0..(l + 1) |-> IF i = l + 1 THEN hi ELSE r[i]]
  <1> HIDE DEF l
  <1>4. s \in [0..(l + 1) -> Int] /\ s[0] = lo /\ s[l + 1] = hi
    BY <1>1, <1>2, <1>3
  <1>5. \A i \in 0..l : s[i] = r[i] /\ s[i] <= hi
    BY <1>1, <1>2, <1>3
  <1>6. \A i, j \in 0..(l + 1) : i <= j => s[i] <= s[j]
    <2> SUFFICES ASSUME NEW i \in 0..(l + 1), NEW j \in 0..(l + 1), i <= j PROVE s[i] <= s[j]
      OBVIOUS
    <2>1. CASE j \in 0..l
      <3>1. i \in 0..l
        BY <1>1, <2>1
      <3> QED BY <1>2, <1>5, <2>1, <3>1
    <2>2. CASE j = l + 1
      <3>1. s[j] = hi /\ (i \in 0..l \/ i = l + 1)
        BY <1>1, <1>4, <2>2
      <3>2. hi <= hi
        BY <1>3
      <3> QED BY <1>4, <1>5, <3>1, <3>2
    <2> QED BY <1>1, <2>1, <2>2
  <1>7. ASSUME NEW i \in 1..(l + 1) PROVE Fits(s[i - 1], y[i], s[i], a, b)
    <2>1. CASE i \in 1..l
      <3>1. i - 1 \in 0..l /\ i \in 0..l
        BY <1>1, <2>1
      <3> QED BY <1>1, <1>2, <1>5, <2>1, <3>1
    <2>2. CASE i = l + 1
      <3>1. s[i - 1] = m /\ s[i] = hi /\ y[i] = p
        BY <1>1, <1>2, <1>4, <1>5, <2>2
      <3> QED BY <3>1
    <2> QED BY <1>1, <2>1, <2>2
  <1> HIDE DEF s
  <1>8. \E t \in [0..(l + 1) -> Int] :
           /\ t[0] = lo /\ t[l + 1] = hi
           /\ \A i \in 1..(l + 1) : Fits(t[i - 1], y[i], t[i], a, b)
           /\ \A i, j \in 0..(l + 1) : i <= j => t[i] <= t[j]
    BY <1>4, <1>6, <1>7
  <1> QED BY <1>1, <1>8 DEF Route, y

\* Packets of the upper layers stay at the place between two exchanges.
LEMMA RouteFlush ==
  ASSUME NEW x \in Seq(Packet), NEW y \in Seq(Packet), NEW lo, NEW hi, NEW a, NEW b,
         NEW k \in Int, k >= 1, hi = 4 * k,
         Route(x, lo, hi, a, b), \A i \in 1..Len(y) : y[i].type = "DATA"
  PROVE  Route(x \o y, lo, hi, a, b)
  <1> DEFINE z == x \o y  l == Len(x)
  <1>1. /\ Len(z) = l + Len(y) /\ l \in Nat /\ Len(y) \in Nat
        /\ \A i \in 1..l : z[i] = x[i]
        /\ \A i \in (l + 1)..(l + Len(y)) : z[i] = y[i - l]
    BY ConcatFacts
  <1> HIDE DEF z
  <1>2. PICK r \in [0..l -> Int] :
           /\ r[0] = lo /\ r[l] = hi /\ \A i, j \in 0..l : i <= j => r[i] <= r[j]
           /\ \A i \in 1..l : Fits(r[i - 1], x[i], r[i], a, b)
    BY DEF Route
  <1> HIDE DEF l
  <1>h. PICK h \in Nat : h = Len(z) /\ h >= l
    BY <1>1
  <1> DEFINE s == [i \in 0..h |-> IF i > l THEN hi ELSE r[i]]
  <1>4. s \in [0..h -> Int] /\ s[0] = lo
    BY <1>1, <1>2, <1>h
  <1>5. \A i \in 0..l : s[i] = r[i] /\ s[i] <= hi
    BY <1>1, <1>2, <1>h
  <1>6. \A i \in l..h : s[i] = hi
    BY <1>1, <1>2, <1>h
  <1>9. s[h] = hi /\ hi \in Int /\ hi <= hi
    <2>1. h \in l..h
      BY <1>1, <1>h
    <2>2. s[h] = hi
      BY <1>6, <2>1
    <2>3. hi \in Int /\ hi <= hi
      OBVIOUS
    <2> QED BY <2>2, <2>3
  <1>7. \A i, j \in 0..h : i <= j => s[i] <= s[j]
    <2> SUFFICES ASSUME NEW i \in 0..h, NEW j \in 0..h, i <= j PROVE s[i] <= s[j]
      OBVIOUS
    <2>1. CASE j \in 0..l
      <3>1. i \in 0..l
        BY <1>1, <2>1
      <3> QED BY <1>2, <1>5, <2>1, <3>1
    <2>2. CASE j \in l..h
      <3>0. s[j] = hi
        BY <1>6, <2>2
      <3>1. i \in 0..l \/ i \in l..h
        BY <1>1, <1>h
      <3> QED BY <1>5, <1>6, <1>9, <3>0, <3>1
    <2> QED BY <1>1, <2>1, <2>2
  <1>8. ASSUME NEW i \in 1..h PROVE Fits(s[i - 1], z[i], s[i], a, b)
    <2>1. CASE i \in 1..l
      <3>1. i - 1 \in 0..l /\ i \in 0..l
        BY <1>1, <2>1
      <3> QED BY <1>1, <1>2, <1>5, <2>1, <3>1
    <2>2. CASE i > l
      <3>1. i - 1 \in l..h /\ i \in l..h /\ i \in (l + 1)..(l + Len(y)) /\ i - l \in 1..Len(y)
        BY <1>1, <1>h, <2>2
      <3>2. s[i - 1] = hi /\ s[i] = hi /\ z[i].type = "DATA"
        BY <1>1, <1>6, <3>1
      <3> QED BY <3>2 DEF Fits
    <2> QED BY <1>1, <2>1, <2>2
  <1> HIDE DEF s
  <1>10. \E t \in [0..h -> Int] :
           /\ t[0] = lo /\ t[h] = hi
           /\ \A i \in 1..h : Fits(t[i - 1], z[i], t[i], a, b)
           /\ \A i, j \in 0..h : i <= j => t[i] <= t[j]
    BY <1>4, <1>7, <1>8, <1>9
  <1> QED BY <1>h, <1>10 DEF Route, z

LEMMA RouteHead ==
  ASSUME NEW x \in Seq(Packet), x # <<>>, NEW lo, NEW hi, NEW a, NEW b, Route(x, lo, hi, a, b)
  PROVE  \E m \in Int : Fits(lo, Head(x), m, a, b) /\ Route(Tail(x), m, hi, a, b) /\ m <= hi
  <1> DEFINE y == Tail(x)
  <1>1. /\ Len(y) = Len(x) - 1 /\ Len(x) \in Nat /\ Len(x) >= 1 /\ Head(x) = x[1]
        /\ \A i \in 1..Len(y) : y[i] = x[i + 1]
    BY HeadTailProperties
  <1> HIDE DEF y
  <1>h. PICK h \in Nat : h = Len(y) /\ Len(x) = h + 1
    BY <1>1
  <1>2. PICK r \in [0..(h + 1) -> Int] :
           /\ r[0] = lo /\ r[h + 1] = hi /\ \A i, j \in 0..(h + 1) : i <= j => r[i] <= r[j]
           /\ \A i \in 1..(h + 1) : Fits(r[i - 1], x[i], r[i], a, b)
    BY <1>h DEF Route
  <1> DEFINE s == [i \in 0..h |-> r[i + 1]]
  <1>3. s \in [0..h -> Int] /\ s[0] = r[1] /\ s[h] = hi /\ \A i \in 0..h : s[i] = r[i + 1]
    BY <1>2
  <1>4. ASSUME NEW i \in 0..h, NEW j \in 0..h, i <= j PROVE s[i] <= s[j]
    BY <1>2, <1>3, <1>4
  <1>5. ASSUME NEW i \in 1..h PROVE Fits(s[i - 1], y[i], s[i], a, b)
    <2>1. i + 1 \in 1..(h + 1) /\ i - 1 \in 0..h /\ i \in 0..h /\ (i - 1) + 1 = i /\ (i + 1) - 1 = i
      OBVIOUS
    <2>2. s[i - 1] = r[i] /\ s[i] = r[i + 1] /\ y[i] = x[i + 1]
      BY <1>1, <1>3, <1>h, <2>1
    <2>3. Fits(r[(i + 1) - 1], x[i + 1], r[i + 1], a, b)
      BY <1>2, <2>1
    <2> QED BY <2>1, <2>2, <2>3
  <1>6. Fits(lo, Head(x), r[1], a, b) /\ r[1] \in Int /\ r[1] <= hi
    <2>1. 1 \in 1..(h + 1) /\ 1 - 1 = 0 /\ 1 \in 0..(h + 1) /\ h + 1 \in 0..(h + 1) /\ 1 <= h + 1
      OBVIOUS
    <2>2. Fits(r[1 - 1], x[1], r[1], a, b)
      BY <1>2, <2>1
    <2> QED BY <1>1, <1>2, <2>1, <2>2
  <1> HIDE DEF s
  <1>7. \E t \in [0..h -> Int] :
           /\ t[0] = r[1] /\ t[h] = hi
           /\ \A i \in 1..h : Fits(t[i - 1], y[i], t[i], a, b)
           /\ \A i, j \in 0..h : i <= j => t[i] <= t[j]
    BY <1>3, <1>4, <1>5
  <1>8. Route(y, r[1], hi, a, b)
    BY <1>h, <1>7 DEF Route
  <1> QED BY <1>6, <1>8 DEF y

\* The body that counts is free where no packet with it is on the way.
LEMMA RouteBody ==
  ASSUME NEW x \in Seq(Packet), NEW lo, NEW hi, NEW a, NEW b, NEW c, Route(x, lo, hi, a, b),
         NEW k \in Int, 4 * k - 1 <= lo, hi <= 4 * k + 2
  PROVE  Route(x, lo, hi, a, c)
  <1>1. PICK r \in [0..Len(x) -> Int] :
           /\ r[0] = lo /\ r[Len(x)] = hi /\ \A i, j \in 0..Len(x) : i <= j => r[i] <= r[j]
           /\ \A i \in 1..Len(x) : Fits(r[i - 1], x[i], r[i], a, b)
    BY DEF Route
  <1>2. ASSUME NEW i \in 1..Len(x) PROVE Fits(r[i - 1], x[i], r[i], a, c)
    <2>1. /\ 0 \in 0..Len(x) /\ Len(x) \in 0..Len(x) /\ i \in 0..Len(x) /\ i - 1 \in 0..Len(x)
          /\ 0 <= i - 1 /\ i <= Len(x)
      OBVIOUS
    <2>2. r[i - 1] \in Int /\ r[i] \in Int /\ lo <= r[i - 1] /\ r[i] <= hi /\ lo \in Int /\ hi \in Int
      BY <1>1, <2>1
    <2>3. PICK m \in Int, n \in Int : m = r[i - 1] /\ n = r[i]
      BY <2>2
    <2>4. Fits(m, x[i], n, a, b) /\ 4 * k - 1 <= m /\ n <= 4 * k + 2
      BY <1>1, <2>2, <2>3
    <2>5. Fits(m, x[i], n, a, c)
      BY <2>4 DEF Fits
    <2> QED BY <2>3, <2>5
  <1> QED BY <1>1, <1>2 DEF Route

LEMMA CountedAppend ==
  ASSUME NEW x \in Seq(Packet), NEW p \in Packet, NEW from, NEW to, NEW strict,
         Counted(x, from, to, strict), p.seq = to
  PROVE  Counted(Append(x, p), from, IF p.type = "NEWKEYS" /\ strict THEN 0 ELSE to + 1, strict)
  <1> DEFINE y == Append(x, p)  l == Len(x)
  <1>1. /\ Len(y) = l + 1 /\ y[l + 1] = p /\ l \in Nat
        /\ \A i \in 1..l : y[i] = x[i]
    BY AppendProperties
  <1> HIDE DEF y
  <1>2. PICK q \in [0..l -> Int] :
           /\ q[0] = from /\ q[l] = to
           /\ \A i \in 1..l : /\ x[i].seq = q[i - 1]
                              /\ q[i] = IF x[i].type = "NEWKEYS" /\ strict THEN 0 ELSE q[i - 1] + 1
    BY DEF Counted
  <1>3. PICK last \in Int : last = IF p.type = "NEWKEYS" /\ strict THEN 0 ELSE to + 1
    BY <1>1, <1>2
  <1> DEFINE s == [i \in 0..(l + 1) |-> IF i = l + 1 THEN last ELSE q[i]]
  <1> HIDE DEF l
  <1>4. s \in [0..(l + 1) -> Int] /\ s[0] = from /\ s[l + 1] = last
    BY <1>1, <1>2, <1>3
  <1>5. \A i \in 0..l : s[i] = q[i]
    BY <1>1, <1>2
  <1>6. ASSUME NEW i \in 1..(l + 1)
        PROVE  y[i].seq = s[i - 1] /\ s[i] = IF y[i].type = "NEWKEYS" /\ strict THEN 0 ELSE s[i - 1] + 1
    <2>1. CASE i \in 1..l
      <3>1. i - 1 \in 0..l /\ i \in 0..l
        BY <1>1, <2>1
      <3>2. s[i - 1] = q[i - 1] /\ s[i] = q[i] /\ y[i] = x[i]
        BY <1>1, <1>5, <2>1, <3>1
      <3> QED BY <1>2, <2>1, <3>2
    <2>2. CASE i = l + 1
      <3>1. i - 1 \in 0..l /\ i - 1 = l
        BY <1>1, <2>2
      <3>2. s[i - 1] = to /\ s[i] = last /\ y[i] = p
        BY <1>1, <1>2, <1>4, <1>5, <2>2, <3>1
      <3> QED BY <1>3, <3>2
    <2> QED BY <1>1, <2>1, <2>2
  <1> HIDE DEF s
  <1>7. \E t \in [0..(l + 1) -> Int] :
           /\ t[0] = from /\ t[l + 1] = last
           /\ \A i \in 1..(l + 1) : /\ y[i].seq = t[i - 1]
                 /\ t[i] = IF y[i].type = "NEWKEYS" /\ strict THEN 0 ELSE t[i - 1] + 1
    BY <1>4, <1>6
  <1>8. Counted(y, from, last, strict)
    BY <1>1, <1>7 DEF Counted
  <1> QED BY <1>3, <1>8 DEF y

LEMMA CountedFlush ==
  ASSUME NEW x \in Seq(Packet), NEW y \in Seq(Packet), NEW from, NEW to, NEW strict,
         Counted(x, from, to, strict),
         \A i \in 1..Len(y) : y[i].type = "DATA" /\ y[i].seq = to + i - 1
  PROVE  Counted(x \o y, from, to + Len(y), strict)
  <1> DEFINE z == x \o y  l == Len(x)
  <1>1. /\ Len(z) = l + Len(y) /\ l \in Nat /\ Len(y) \in Nat
        /\ \A i \in 1..l : z[i] = x[i]
        /\ \A i \in (l + 1)..(l + Len(y)) : z[i] = y[i - l]
    BY ConcatFacts
  <1> HIDE DEF z
  <1>2. PICK q \in [0..l -> Int] :
           /\ q[0] = from /\ q[l] = to
           /\ \A i \in 1..l : /\ x[i].seq = q[i - 1]
                              /\ q[i] = IF x[i].type = "NEWKEYS" /\ strict THEN 0 ELSE q[i - 1] + 1
    BY DEF Counted
  <1>3. to \in Int
    BY <1>1, <1>2
  <1> HIDE DEF l
  <1>h. PICK h \in Nat : h = Len(z) /\ h >= l /\ h = l + Len(y)
    BY <1>1
  <1> DEFINE s == [i \in 0..h |-> IF i > l THEN to + (i - l) ELSE q[i]]
  <1>4. s \in [0..h -> Int] /\ s[0] = from
    BY <1>1, <1>2, <1>3, <1>h
  <1>5. \A i \in 0..l : s[i] = q[i]
    BY <1>1, <1>2, <1>h
  <1>6. \A i \in l..h : s[i] = to + (i - l)
    <2> SUFFICES ASSUME NEW i \in l..h PROVE s[i] = to + (i - l)
      OBVIOUS
    <2>1. i \in 0..h /\ l \in 0..l
      BY <1>1, <1>h
    <2>2. CASE i > l
      BY <2>1, <2>2
    <2>3. CASE i = l
      <3>1. s[i] = q[l] /\ i - l = 0
        BY <1>1, <2>1, <2>3
      <3> QED BY <1>2, <1>3, <3>1
    <2> QED BY <1>1, <2>2, <2>3
  <1>7. ASSUME NEW i \in 1..h
        PROVE  z[i].seq = s[i - 1] /\ s[i] = IF z[i].type = "NEWKEYS" /\ strict THEN 0 ELSE s[i - 1] + 1
    <2>1. CASE i \in 1..l
      <3>1. i - 1 \in 0..l /\ i \in 0..l
        BY <1>1, <2>1
      <3>2. s[i - 1] = q[i - 1] /\ s[i] = q[i] /\ z[i] = x[i]
        BY <1>1, <1>5, <2>1, <3>1
      <3> QED BY <1>2, <2>1, <3>2
    <2>2. CASE i > l
      <3>1. i - 1 \in l..h /\ i \in l..h /\ i \in (l + 1)..(l + Len(y)) /\ i - l \in 1..Len(y)
        BY <1>1, <1>h, <2>2
      <3>2. s[i - 1] = to + ((i - 1) - l) /\ s[i] = to + (i - l)
        BY <1>6, <3>1
      <3>3. z[i].type = "DATA" /\ z[i].seq = to + (i - l) - 1
        BY <1>1, <3>1
      <3> QED BY <1>1, <1>3, <3>1, <3>2, <3>3
    <2> QED BY <1>1, <2>1, <2>2
  <1>8. s[h] = to + Len(y)
    <2>1. h \in l..h /\ h - l = Len(y)
      BY <1>1, <1>h
    <2> QED BY <1>6, <2>1
  <1> HIDE DEF s
  <1>9. \E t \in [0..h -> Int] :
           /\ t[0] = from /\ t[h] = to + Len(y)
           /\ \A i \in 1..h : /\ z[i].seq = t[i - 1]
                 /\ t[i] = IF z[i].type = "NEWKEYS" /\ strict THEN 0 ELSE t[i - 1] + 1
    BY <1>4, <1>7, <1>8
  <1> QED BY <1>h, <1>9 DEF Counted, z

LEMMA CountedHead ==
  ASSUME NEW x \in Seq(Packet), x # <<>>, NEW from, NEW to, NEW strict, Counted(x, from, to, strict)
  PROVE  /\ Head(x).seq = from
         /\ Counted(Tail(x), IF Head(x).type = "NEWKEYS" /\ strict THEN 0 ELSE from + 1, to, strict)
  <1> DEFINE y == Tail(x)
  <1>1. /\ Len(y) = Len(x) - 1 /\ Len(x) \in Nat /\ Len(x) >= 1 /\ Head(x) = x[1]
        /\ \A i \in 1..Len(y) : y[i] = x[i + 1]
    BY HeadTailProperties
  <1> HIDE DEF y
  <1>h. PICK h \in Nat : h = Len(y) /\ Len(x) = h + 1
    BY <1>1
  <1>2. PICK q \in [0..(h + 1) -> Int] :
           /\ q[0] = from /\ q[h + 1] = to
           /\ \A i \in 1..(h + 1) : /\ x[i].seq = q[i - 1]
                 /\ q[i] = IF x[i].type = "NEWKEYS" /\ strict THEN 0 ELSE q[i - 1] + 1
    BY <1>h DEF Counted
  <1> DEFINE s == [i \in 0..h |-> q[i + 1]]
  <1>3. s \in [0..h -> Int] /\ s[0] = q[1] /\ s[h] = to /\ \A i \in 0..h : s[i] = q[i + 1]
    BY <1>2
  <1>4. ASSUME NEW i \in 1..h
        PROVE  y[i].seq = s[i - 1] /\ s[i] = IF y[i].type = "NEWKEYS" /\ strict THEN 0 ELSE s[i - 1] + 1
    <2>1. i + 1 \in 1..(h + 1) /\ i - 1 \in 0..h /\ i \in 0..h /\ (i - 1) + 1 = i /\ (i + 1) - 1 = i
      OBVIOUS
    <2>2. s[i - 1] = q[i] /\ s[i] = q[i + 1] /\ y[i] = x[i + 1]
      BY <1>1, <1>3, <1>h, <2>1
    <2>3. /\ x[i + 1].seq = q[(i + 1) - 1]
          /\ q[i + 1] = IF x[i + 1].type = "NEWKEYS" /\ strict THEN 0 ELSE q[(i + 1) - 1] + 1
      BY <1>2, <2>1
    <2> QED BY <2>1, <2>2, <2>3
  <1>5. x[1].seq = from /\ q[1] = IF x[1].type = "NEWKEYS" /\ strict THEN 0 ELSE from + 1
    <2>1. 1 \in 1..(h + 1) /\ 1 - 1 = 0
      OBVIOUS
    <2>2. x[1].seq = q[1 - 1] /\ q[1] = IF x[1].type = "NEWKEYS" /\ strict THEN 0 ELSE q[1 - 1] + 1
      BY <1>2, <2>1
    <2> QED BY <1>2, <2>1, <2>2
  <1> HIDE DEF s
  <1>6. \E t \in [0..h -> Int] :
           /\ t[0] = q[1] /\ t[h] = to
           /\ \A i \in 1..h : /\ y[i].seq = t[i - 1]
                 /\ t[i] = IF y[i].type = "NEWKEYS" /\ strict THEN 0 ELSE t[i - 1] + 1
    BY <1>3, <1>4
  <1>7. Counted(y, q[1], to, strict)
    BY <1>h, <1>6 DEF Counted
  <1> QED BY <1>1, <1>5, <1>7 DEF y

LEMMA KeyedAppend ==
  ASSUME NEW x \in Seq(Packet), NEW p \in Packet, NEW old, NEW new, Keyed(x, old, new),
         p.key = new
  PROVE  /\ p.type # "NEWKEYS" => Keyed(Append(x, p), old, new)
         /\ p.type = "NEWKEYS" /\ (\A i \in 1..Len(x) : x[i].type # "NEWKEYS")
               => \A key : Keyed(Append(x, p), old, key)
  <1> DEFINE y == Append(x, p)  l == Len(x)
  <1>1. /\ Len(y) = l + 1 /\ y[l + 1] = p /\ l \in Nat
        /\ \A i \in 1..l : y[i] = x[i]
    BY AppendProperties
  <1> HIDE DEF y
  <1>2. /\ \A i \in 1..l : x[i].key = IF \E j \in 1..(i - 1) : x[j].type = "NEWKEYS" THEN new ELSE old
        /\ (\A i \in 1..l : x[i].type # "NEWKEYS") => old = new
    BY DEF Keyed
  <1> HIDE DEF l
  <1>3. \A i \in 1..l : \A j \in 1..(i - 1) : y[j] = x[j]
    BY <1>1
  <1>4. ASSUME p.type # "NEWKEYS" PROVE Keyed(y, old, new)
    <2>1. ASSUME NEW i \in 1..(l + 1)
          PROVE  y[i].key = IF \E j \in 1..(i - 1) : y[j].type = "NEWKEYS" THEN new ELSE old
      <3>1. CASE i \in 1..l
        BY <1>1, <1>2, <1>3, <3>1
      <3>2. CASE i = l + 1
        <4>1. y[i] = p /\ \A j \in 1..(i - 1) : j \in 1..l /\ y[j] = x[j]
          BY <1>1, <3>2
        <4>2. (\E j \in 1..(i - 1) : y[j].type = "NEWKEYS") \/ old = new
          BY <1>1, <1>2, <3>2
        <4> QED BY <4>1, <4>2
      <3> QED BY <1>1, <3>1, <3>2
    <2>2. (\A i \in 1..(l + 1) : y[i].type # "NEWKEYS") => old = new
      BY <1>1, <1>2
    <2> QED BY <1>1, <2>1, <2>2 DEF Keyed
  <1>5. ASSUME p.type = "NEWKEYS", \A i \in 1..l : x[i].type # "NEWKEYS", NEW key
        PROVE  Keyed(y, old, key)
    <2>1. ASSUME NEW i \in 1..(l + 1)
          PROVE  y[i].key = old /\ ~\E j \in 1..(i - 1) : y[j].type = "NEWKEYS"
      <3>0. \A j \in 1..(i - 1) : j \in 1..l
        BY <1>1
      <3>1. CASE i \in 1..l
        BY <1>1, <1>2, <1>5, <3>0, <3>1
      <3>2. CASE i = l + 1
        BY <1>1, <1>2, <1>5, <3>0, <3>2
      <3> QED BY <1>1, <3>1, <3>2
    <2>2. l + 1 \in 1..(l + 1) /\ y[l + 1].type = "NEWKEYS"
      BY <1>1, <1>5
    <2> QED BY <1>1, <2>1, <2>2 DEF Keyed
  <1> QED BY <1>4, <1>5 DEF y, l

LEMMA KeyedFlush ==
  ASSUME NEW x \in Seq(Packet), NEW y \in Seq(Packet), NEW old, NEW new, Keyed(x, old, new),
         \A i \in 1..Len(y) : y[i].type = "DATA" /\ y[i].key = new
  PROVE  Keyed(x \o y, old, new)
  <1> DEFINE z == x \o y  l == Len(x)
  <1>1. /\ Len(z) = l + Len(y) /\ l \in Nat /\ Len(y) \in Nat
        /\ \A i \in 1..l : z[i] = x[i]
        /\ \A i \in (l + 1)..(l + Len(y)) : z[i] = y[i - l]
    BY ConcatFacts
  <1> HIDE DEF z
  <1>2. /\ \A i \in 1..l : x[i].key = IF \E j \in 1..(i - 1) : x[j].type = "NEWKEYS" THEN new ELSE old
        /\ (\A i \in 1..l : x[i].type # "NEWKEYS") => old = new
    BY DEF Keyed
  <1> HIDE DEF l
  <1>3. \A i \in 1..l : \A j \in 1..(i - 1) : z[j] = x[j]
    BY <1>1
  <1>4. ASSUME NEW i \in 1..Len(z)
        PROVE  z[i].key = IF \E j \in 1..(i - 1) : z[j].type = "NEWKEYS" THEN new ELSE old
    <2>1. CASE i \in 1..l
      BY <1>1, <1>2, <1>3, <2>1
    <2>2. CASE i > l
      <3>1. i \in (l + 1)..(l + Len(y)) /\ i - l \in 1..Len(y)
        BY <1>1, <2>2
      <3>2. z[i].key = new
        BY <1>1, <3>1
      <3>3. \A j \in 1..l : j \in 1..(i - 1) /\ z[j] = x[j]
        BY <1>1, <3>1
      <3>4. (\E j \in 1..(i - 1) : z[j].type = "NEWKEYS") \/ old = new
        BY <1>2, <3>3
      <3> QED BY <3>2, <3>4
    <2> QED BY <1>1, <2>1, <2>2
  <1>5. (\A i \in 1..Len(z) : z[i].type # "NEWKEYS") => old = new
    <2>1. \A i \in 1..l : i \in 1..Len(z) /\ z[i] = x[i]
      BY <1>1
    <2> QED BY <1>2, <2>1
  <1> QED BY <1>4, <1>5 DEF Keyed, z

LEMMA KeyedHead ==
  ASSUME NEW x \in Seq(Packet), x # <<>>, NEW old, NEW new, Keyed(x, old, new)
  PROVE  /\ Head(x).key = old
         /\ Keyed(Tail(x), IF Head(x).type = "NEWKEYS" THEN new ELSE old, new)
  <1> DEFINE y == Tail(x)
  <1>1. /\ Len(y) = Len(x) - 1 /\ Len(x) \in Nat /\ Len(x) >= 1 /\ Head(x) = x[1]
        /\ \A i \in 1..Len(y) : y[i] = x[i + 1]
    BY HeadTailProperties
  <1> HIDE DEF y
  <1>h. PICK h \in Nat : h = Len(y) /\ Len(x) = h + 1
    BY <1>1
  <1>2. /\ \A i \in 1..(h + 1) :
              x[i].key = IF \E j \in 1..(i - 1) : x[j].type = "NEWKEYS" THEN new ELSE old
        /\ (\A i \in 1..(h + 1) : x[i].type # "NEWKEYS") => old = new
    BY <1>h DEF Keyed
  <1>3. x[1].key = old
    <2>1. 1 \in 1..(h + 1) /\ ~\E j \in 1..(1 - 1) : x[j].type = "NEWKEYS"
      OBVIOUS
    <2> QED BY <1>2, <2>1
  <1>4. ASSUME NEW i \in 1..h
        PROVE  y[i].key = IF \E j \in 1..(i - 1) : y[j].type = "NEWKEYS" THEN new
                          ELSE IF x[1].type = "NEWKEYS" THEN new ELSE old
    <2>1. i + 1 \in 1..(h + 1) /\ y[i] = x[i + 1] /\ (i + 1) - 1 = i
      BY <1>1, <1>h
    <2>2. x[i + 1].key = IF \E j \in 1..i : x[j].type = "NEWKEYS" THEN new ELSE old
      BY <1>2, <2>1
    <2>3. \A j \in 1..(i - 1) : y[j] = x[j + 1] /\ j + 1 \in 1..i
      BY <1>1, <1>h
    <2>4. \A j \in 1..i : j = 1 \/ (j - 1 \in 1..(i - 1) /\ (j - 1) + 1 = j)
      OBVIOUS
    <2>5. (\E j \in 1..i : x[j].type = "NEWKEYS")
             <=> x[1].type = "NEWKEYS" \/ \E j \in 1..(i - 1) : y[j].type = "NEWKEYS"
      <3>1. ASSUME NEW j \in 1..i, x[j].type = "NEWKEYS"
            PROVE  x[1].type = "NEWKEYS" \/ \E k \in 1..(i - 1) : y[k].type = "NEWKEYS"
        BY <2>3, <2>4, <3>1
      <3>2. ASSUME NEW j \in 1..(i - 1), y[j].type = "NEWKEYS" PROVE \E k \in 1..i : x[k].type = "NEWKEYS"
        BY <2>3, <3>2
      <3>3. 1 \in 1..i
        OBVIOUS
      <3> QED BY <3>1, <3>2, <3>3
    <2> QED BY <2>1, <2>2, <2>5
  <1>5. (\A i \in 1..h : y[i].type # "NEWKEYS") => x[1].type = "NEWKEYS" \/ old = new
    <2> SUFFICES ASSUME \A i \in 1..h : y[i].type # "NEWKEYS", x[1].type # "NEWKEYS" PROVE old = new
      OBVIOUS
    <2>1. ASSUME NEW i \in 1..(h + 1) PROVE x[i].type # "NEWKEYS"
      <3>1. CASE i = 1
        BY <3>1
      <3>2. CASE i # 1
        <4>1. i - 1 \in 1..h /\ (i - 1) + 1 = i
          BY <3>2
        <4>2. y[i - 1] = x[i]
          BY <1>1, <1>h, <4>1
        <4> QED BY <4>1, <4>2
      <3> QED BY <3>1, <3>2
    <2> QED BY <1>2, <2>1
  <1>6. Keyed(y, IF x[1].type = "NEWKEYS" THEN new ELSE old, new)
    <2>1. CASE x[1].type = "NEWKEYS"
      BY <1>4, <1>h, <2>1 DEF Keyed
    <2>2. CASE x[1].type # "NEWKEYS"
      BY <1>4, <1>5, <1>h, <2>2 DEF Keyed
    <2> QED BY <2>1, <2>2
  <1> QED BY <1>1, <1>3, <1>6 DEF y

LEMMA LineAppend ==
  ASSUME NEW e \in End, NEW x \in Seq(Packet), NEW p \in Packet, NEW v, NEW z, NEW a, NEW b,
         NEW strict, NEW n, Line(e, x, v, z, a, b, strict), Says(e, p, a, strict),
         p.type # "NEWKEYS", p.key = z.key, p.seq = z.seq, Fits(z.at, p, n, a, b)
  PROVE  Line(e, Append(x, p), v, Mark(n, z.seq + 1, z.key), a, b, strict)
  <1> DEFINE y == Append(x, p)
  <1>1. Route(y, v.at, n, a, b)
    BY RouteAppend DEF Line
  <1>2. Counted(y, v.seq, z.seq + 1, strict)
    BY CountedAppend DEF Line
  <1>3. Keyed(y, v.key, z.key)
    BY KeyedAppend DEF Line
  <1>4. \A i \in 1..Len(y) : Says(e, y[i], a, strict)
    <2>1. Len(y) = Len(x) + 1 /\ y[Len(x) + 1] = p /\ Len(x) \in Nat /\ \A i \in 1..Len(x) : y[i] = x[i]
      BY AppendProperties
    <2> HIDE DEF y
    <2>2. \A i \in 1..Len(x) : Says(e, x[i], a, strict)
      BY DEF Line
    <2>3. \A i \in 1..Len(y) : i \in 1..Len(x) \/ i = Len(x) + 1
      BY <2>1
    <2> QED BY <2>1, <2>2, <2>3
  <1> HIDE DEF y
  <1>5. /\ Mark(n, z.seq + 1, z.key).at = n /\ Mark(n, z.seq + 1, z.key).seq = z.seq + 1
        /\ Mark(n, z.seq + 1, z.key).key = z.key
    BY DEF Mark
  <1>6. Line(e, y, v, Mark(n, z.seq + 1, z.key), a, b, strict)
    BY <1>1, <1>2, <1>3, <1>4, <1>5 DEF Line
  <1> QED BY <1>6 DEF y

\* NEWKEYS behind a wire on which there is none: the reader is in the same
\* exchange.
LEMMA LineNewkeys ==
  ASSUME NEW e \in End, NEW x \in Seq(Packet), NEW p \in Packet, NEW v, NEW z, NEW a, NEW b,
         NEW strict, NEW k \in Int, NEW key, Line(e, x, v, z, a, b, strict),
         p.type = "NEWKEYS", p.key = z.key, p.seq = z.seq, z.at = 4 * k + 3, 4 * k <= v.at
  PROVE  Line(e, Append(x, p), v, Mark(4 * k + 4, IF strict THEN 0 ELSE z.seq + 1, key), a, b, strict)
  <1> DEFINE y == Append(x, p)  m == Mark(4 * k + 4, IF strict THEN 0 ELSE z.seq + 1, key)
  <1>0. Fits(z.at, p, 4 * k + 4, a, b)
    BY DEF Fits
  <1>1. Route(y, v.at, 4 * k + 4, a, b)
    BY <1>0, RouteAppend DEF Line
  <1>2. Counted(y, v.seq, IF strict THEN 0 ELSE z.seq + 1, strict)
    <2>1. Counted(y, v.seq, IF p.type = "NEWKEYS" /\ strict THEN 0 ELSE z.seq + 1, strict)
      BY CountedAppend DEF Line
    <2> QED BY <2>1
  <1>3. \A i \in 1..Len(x) : x[i].type # "NEWKEYS"
    <2>1. PICK r \in [0..Len(x) -> Int] :
             /\ r[0] = v.at /\ r[Len(x)] = z.at
             /\ \A i \in 1..Len(x) : Fits(r[i - 1], x[i], r[i], a, b)
             /\ \A i, j \in 0..Len(x) : i <= j => r[i] <= r[j]
      BY DEF Line, Route
    <2> SUFFICES ASSUME NEW i \in 1..Len(x), x[i].type = "NEWKEYS" PROVE FALSE
      OBVIOUS
    <2>2. /\ 0 \in 0..Len(x) /\ Len(x) \in 0..Len(x) /\ i \in 0..Len(x) /\ i - 1 \in 0..Len(x)
          /\ 0 <= i - 1 /\ i <= Len(x)
      OBVIOUS
    <2>3. r[i - 1] \in Int /\ r[i] \in Int /\ v.at <= r[i - 1] /\ r[i] <= z.at
      BY <2>1, <2>2
    <2>4. Fits(r[i - 1], x[i], r[i], a, b)
      BY <2>1
    <2>5. \E j \in Int : r[i - 1] = 4 * j + 3 /\ r[i] = 4 * j + 4
      BY <2>4 DEF Fits
    <2>6. v.at \in Int
      BY <2>1, <2>2
    <2> QED BY <2>3, <2>5, <2>6
  <1>4. Keyed(y, v.key, key)
    BY <1>3, KeyedAppend DEF Line
  <1>5. \A i \in 1..Len(y) : Says(e, y[i], a, strict)
    <2>1. Len(y) = Len(x) + 1 /\ y[Len(x) + 1] = p /\ Len(x) \in Nat /\ \A i \in 1..Len(x) : y[i] = x[i]
      BY AppendProperties
    <2> HIDE DEF y
    <2>2. \A i \in 1..Len(x) : Says(e, x[i], a, strict)
      BY DEF Line
    <2>3. \A i \in 1..Len(y) : i \in 1..Len(x) \/ i = Len(x) + 1
      BY <2>1
    <2>4. Says(e, p, a, strict)
      BY DEF Says
    <2> QED BY <2>1, <2>2, <2>3, <2>4
  <1> HIDE DEF y
  <1>6. m.at = 4 * k + 4 /\ m.seq = (IF strict THEN 0 ELSE z.seq + 1) /\ m.key = key
    BY DEF Mark
  <1> HIDE DEF m
  <1>7. Line(e, y, v, m, a, b, strict)
    BY <1>1, <1>2, <1>4, <1>5, <1>6 DEF Line
  <1> QED BY <1>7 DEF y, m

LEMMA LineFlush ==
  ASSUME NEW e \in End, NEW x \in Seq(Packet), NEW y \in Seq(Packet), NEW v, NEW z, NEW a, NEW b,
         NEW strict, NEW k \in Int, k >= 1, z.at = 4 * k, Line(e, x, v, z, a, b, strict),
         NEW q, FlushOf(y, q, z.key, z.seq)
  PROVE  Line(e, x \o y, v, Mark(z.at, z.seq + Len(y), z.key), a, b, strict)
  <1> DEFINE w == x \o y  m == Mark(z.at, z.seq + Len(y), z.key)
  <1>0. \A i \in 1..Len(y) : y[i].type = "DATA" /\ y[i].key = z.key /\ y[i].seq = z.seq + i - 1
    BY DEF FlushOf
  <1>1. Route(w, v.at, z.at, a, b)
    BY <1>0, RouteFlush DEF Line
  <1>2. Counted(w, v.seq, z.seq + Len(y), strict)
    BY <1>0, CountedFlush DEF Line
  <1>3. Keyed(w, v.key, z.key)
    BY <1>0, KeyedFlush DEF Line
  <1>4. \A i \in 1..Len(w) : Says(e, w[i], a, strict)
    <2>1. /\ Len(w) = Len(x) + Len(y) /\ Len(x) \in Nat /\ Len(y) \in Nat
          /\ \A i \in 1..Len(x) : w[i] = x[i]
          /\ \A i \in (Len(x) + 1)..(Len(x) + Len(y)) : w[i] = y[i - Len(x)]
      BY ConcatFacts
    <2> HIDE DEF w
    <2>2. \A i \in 1..Len(x) : Says(e, x[i], a, strict)
      BY DEF Line
    <2>3. ASSUME NEW i \in 1..Len(w) PROVE Says(e, w[i], a, strict)
      <3>1. CASE i \in 1..Len(x)
        BY <2>1, <2>2, <3>1
      <3>2. CASE i \in (Len(x) + 1)..(Len(x) + Len(y))
        <4>1. i - Len(x) \in 1..Len(y)
          BY <2>1, <3>2
        <4>2. w[i].type = "DATA"
          BY <1>0, <2>1, <3>2, <4>1
        <4> QED BY <4>2 DEF Says
      <3> QED BY <2>1, <3>1, <3>2
    <2> QED BY <2>3
  <1>5. m.at = z.at /\ m.seq = z.seq + Len(y) /\ m.key = z.key
    BY DEF Mark
  <1> HIDE DEF w, m
  <1>6. Line(e, w, v, m, a, b, strict)
    BY <1>1, <1>2, <1>3, <1>4, <1>5 DEF Line
  <1> QED BY <1>6 DEF w, m

LEMMA LineHead ==
  ASSUME NEW e \in End, NEW x \in Seq(Packet), x # <<>>, NEW v, NEW z, NEW a, NEW b,
         NEW strict, Line(e, x, v, z, a, b, strict)
  PROVE  /\ Head(x).key = v.key /\ Head(x).seq = v.seq /\ Says(e, Head(x), a, strict)
         /\ \E m \in Int :
               /\ Fits(v.at, Head(x), m, a, b) /\ m <= z.at
               /\ Line(e, Tail(x),
                       IF Head(x).type = "NEWKEYS"
                       THEN Mark(m, IF strict THEN 0 ELSE v.seq + 1, z.key)
                       ELSE Mark(m, v.seq + 1, v.key), z, a, b, strict)
  <1> DEFINE y == Tail(x)
  <1>1. /\ Len(y) = Len(x) - 1 /\ Len(x) \in Nat /\ Len(x) >= 1 /\ Head(x) = x[1]
        /\ \A i \in 1..Len(y) : y[i] = x[i + 1]
    BY HeadTailProperties
  <1> HIDE DEF y
  <1>2. \A i \in 1..Len(x) : Says(e, x[i], a, strict)
    BY DEF Line
  <1>3. Says(e, Head(x), a, strict) /\ \A i \in 1..Len(y) : Says(e, y[i], a, strict)
    <2>1. 1 \in 1..Len(x) /\ \A i \in 1..Len(y) : i + 1 \in 1..Len(x)
      BY <1>1
    <2> QED BY <1>1, <1>2, <2>1
  <1>4. PICK m \in Int : Fits(v.at, Head(x), m, a, b) /\ Route(y, m, z.at, a, b) /\ m <= z.at
    BY RouteHead DEF Line, y
  <1>5. /\ Head(x).seq = v.seq
        /\ Counted(y, IF Head(x).type = "NEWKEYS" /\ strict THEN 0 ELSE v.seq + 1, z.seq, strict)
    BY CountedHead DEF Line, y
  <1>6. Head(x).key = v.key /\ Keyed(y, IF Head(x).type = "NEWKEYS" THEN z.key ELSE v.key, z.key)
    BY KeyedHead DEF Line, y
  <1>7. CASE Head(x).type = "NEWKEYS"
    <2> DEFINE u == Mark(m, IF strict THEN 0 ELSE v.seq + 1, z.key)
    <2>1. u.at = m /\ u.seq = (IF strict THEN 0 ELSE v.seq + 1) /\ u.key = z.key
      BY DEF Mark
    <2> HIDE DEF u
    <2>2. Line(e, y, u, z, a, b, strict)
      BY <1>3, <1>4, <1>5, <1>6, <1>7, <2>1 DEF Line
    <2> QED BY <1>3, <1>4, <1>5, <1>6, <1>7, <2>2 DEF y, u
  <1>8. CASE Head(x).type # "NEWKEYS"
    <2> DEFINE u == Mark(m, v.seq + 1, v.key)
    <2>1. u.at = m /\ u.seq = v.seq + 1 /\ u.key = v.key
      BY DEF Mark
    <2> HIDE DEF u
    <2>2. Line(e, y, u, z, a, b, strict)
      BY <1>3, <1>4, <1>5, <1>6, <1>8, <2>1 DEF Line
    <2> QED BY <1>3, <1>4, <1>5, <1>6, <1>8, <2>2 DEF y, u
  <1> QED BY <1>7, <1>8

LEMMA LineBody ==
  ASSUME NEW e \in End, NEW x \in Seq(Packet), NEW v, NEW z, NEW a, NEW b, NEW c, NEW strict,
         Line(e, x, v, z, a, b, strict), NEW k \in Int, 4 * k - 1 <= v.at, z.at <= 4 * k + 2
  PROVE  Line(e, x, v, z, a, c, strict)
  <1>1. Route(x, v.at, z.at, a, c)
    BY RouteBody DEF Line
  <1> QED BY <1>1 DEF Line

LEMMA LineOrder ==
  ASSUME NEW e, NEW x \in Seq(Packet), NEW v, NEW z, NEW a, NEW b, NEW strict,
         Line(e, x, v, z, a, b, strict)
  PROVE  v.at \in Int /\ z.at \in Int /\ v.at <= z.at
  BY RouteOrder DEF Line

-----------------------------------------------------------------------------
(* Negotiation: both ends find entry a of the table, and both know whether *)
(* the client has guessed it.                                              *)

LEMMA SigAlgsFacts ==
  /\ SigAlgs \in Seq(Name) /\ Len(SigAlgs) \in Nat /\ Usable(SigAlgs) = 1..Len(SigAlgs)
  /\ \A i \in 1..Len(SigAlgs) : SigAlgs[i] \in STRING /\ SigAlgs[i] # None
  <1>1. SigAlgs \in Seq(STRING) /\ Len(SigAlgs) \in Nat
    BY AlgsAssumption
  <1>2. \A i \in 1..Len(SigAlgs) : SigAlgs[i] \in STRING
    BY <1>1
  <1>3. None \notin STRING
    BY KexAssumption
  <1>4. SigAlgs \in Seq(Name)
    BY <1>1 DEF Name
  <1> QED BY <1>1, <1>2, <1>3, <1>4 DEF Usable

\* The table of the client has no gaps: its list has the places of the table.
LEMMA FullList == buf_put_algolist(SigAlgs) = localnames(SigAlgs)
  <1>1. ASSUME NEW i \in Usable(SigAlgs) PROVE Cardinality(Usable(SigAlgs) \cap (1..i)) = i
    <2>1. Usable(SigAlgs) \cap (1..i) = 1..i /\ i \in Nat
      BY SigAlgsFacts
    <2>2. 1 <= i
      BY SigAlgsFacts
    <2>3. PICK c : c = Cardinality(1..i)
      OBVIOUS
    <2>4. c = IF 1 > i THEN 0 ELSE i - 1 + 1
      BY <2>1, <2>3, FS_Interval
    <2>5. c = i
      BY <2>1, <2>2, <2>4
    <2> QED BY <2>1, <2>3, <2>5
  <1> QED BY <1>1 DEF buf_put_algolist, localnames

\* What the first match of two lists is.
LEMMA FirstMatch ==
  ASSUME NEW cli, NEW serv, NEW p \in cli, NEW q \in serv, p.name = q.name,
         p.place \in Int, q.place \in Int,
         \A x \in cli, y \in serv : x.name = y.name =>
             /\ x.place \in Int /\ y.place \in Int /\ p.place <= x.place
             /\ x.place = p.place => x.name = p.name
             /\ x.name = p.name => y.place = q.place
  PROVE  buf_match_algo(cli, serv) =
            [algo |-> p.name, goodguess |-> p.place = 1 /\ (KexGuess2 \/ q.place = 1)]
  <1> DEFINE both == {z \in cli \X serv : z[1].name = z[2].name}
             First(z) == \A x \in both :
                 z[1].place < x[1].place \/ (z[1].place = x[1].place /\ z[2].place <= x[2].place)
             f == CHOOSE z \in both : First(z)
  <1>1. <<p, q>> \in both /\ <<p, q>>[1] = p /\ <<p, q>>[2] = q
    OBVIOUS
  <1>2. ASSUME NEW x \in both
        PROVE  /\ x[1].place \in Int /\ x[2].place \in Int /\ p.place <= x[1].place
               /\ x[1].place = p.place => x[1].name = p.name
               /\ x[1].name = p.name => x[2].place = q.place
    OBVIOUS
  <1> HIDE DEF both
  <1>3. First(<<p, q>>)
    BY <1>1, <1>2
  <1>4. f \in both /\ First(f)
    BY <1>1, <1>3
  <1> HIDE DEF f
  <1>5. f[1].place = p.place /\ f[1].name = p.name /\ f[2].place = q.place
    <2>1. f[1].place < p.place \/ (f[1].place = p.place /\ f[2].place <= q.place)
      BY <1>1, <1>4
    <2>2. /\ f[1].place \in Int /\ f[2].place \in Int /\ p.place <= f[1].place
          /\ f[1].place = p.place => f[1].name = p.name
          /\ f[1].name = p.name => f[2].place = q.place
      BY <1>2, <1>4, SMTT(30)
    <2> QED BY <2>1, <2>2
  <1>6. buf_match_algo(cli, serv) =
          [algo |-> f[1].name, goodguess |-> f[1].place = 1 /\ (KexGuess2 \/ f[2].place = 1)]
    BY <1>1 DEF buf_match_algo, both, f
  <1> QED BY <1>5, <1>6

\* The client's table and a list of the server, whatever its places are.
LEMMA MatchTable ==
  ASSUME NEW T, NEW a, Table(T, a), NEW f \in [1..Len(SigAlgs) -> Int], NEW serv,
         serv = {[name |-> T[i], place |-> f[i]] : i \in Usable(T)}
  PROVE  buf_match_algo(localnames(SigAlgs), serv) =
            [algo |-> SigAlgs[a], goodguess |-> a = 1 /\ (KexGuess2 \/ f[a] = 1)]
  <1> DEFINE cli == localnames(SigAlgs)
             p == [name |-> SigAlgs[a], place |-> a]
             q == [name |-> T[a], place |-> f[a]]
  <1>1. /\ a \in 1..Len(SigAlgs) /\ T[a] = SigAlgs[a] /\ Len(T) = Len(SigAlgs)
        /\ \A i \in 1..Len(SigAlgs) : T[i] \in {SigAlgs[i], None}
        /\ \A i \in 1..(a - 1) : T[i] = None
    BY DEF Table
  <1>2. \A i \in Usable(T) : i \in 1..Len(SigAlgs) /\ T[i] = SigAlgs[i] /\ a <= i /\ f[i] \in Int
    BY <1>1, SigAlgsFacts DEF Usable
  <1>3. p \in cli /\ q \in serv
    <2>1. a \in Usable(SigAlgs) /\ a \in Usable(T)
      BY <1>1, SigAlgsFacts DEF Usable
    <2> QED BY <2>1 DEF localnames
  <1>4. ASSUME NEW x \in cli, NEW y \in serv, x.name = y.name
        PROVE  /\ x.place \in Int /\ y.place \in Int /\ a <= x.place
               /\ x.place = a => x.name = SigAlgs[a]
               /\ x.name = SigAlgs[a] => y.place = f[a]
    <2>1. PICK i \in 1..Len(SigAlgs) : x = [name |-> SigAlgs[i], place |-> i]
      BY SigAlgsFacts DEF localnames
    <2>2. PICK j \in Usable(T) : y = [name |-> T[j], place |-> f[j]]
      OBVIOUS
    <2>3. x.name = SigAlgs[i] /\ x.place = i /\ y.name = SigAlgs[j] /\ y.place = f[j]
          /\ j \in 1..Len(SigAlgs) /\ a <= j /\ f[j] \in Int
      BY <1>2, <2>1, <2>2
    <2>4. i = j
      BY <1>4, <2>3, AlgsAssumption
    <2>5. SigAlgs[i] = SigAlgs[a] => i = a
      BY <1>1, AlgsAssumption
    <2> QED BY <2>3, <2>4, <2>5
  <1>5. p.name = SigAlgs[a] /\ p.place = a /\ q.name = SigAlgs[a] /\ q.place = f[a]
        /\ a \in Int /\ f[a] \in Int
    BY <1>1
  <1> HIDE DEF cli, p, q
  <1>6. buf_match_algo(cli, serv) =
           [algo |-> p.name, goodguess |-> p.place = 1 /\ (KexGuess2 \/ q.place = 1)]
    BY <1>3, <1>4, <1>5, FirstMatch
  <1> QED BY <1>5, <1>6 DEF cli

LEMMA MatchAgrees ==
  ASSUME NEW T, NEW a, Table(T, a)
  PROVE  /\ buf_match_algo(buf_put_algolist(SigAlgs), localnames(T)) =
               [algo |-> SigAlgs[a], goodguess |-> a = 1]
         /\ buf_match_algo(localnames(SigAlgs), buf_put_algolist(T)) =
               [algo |-> SigAlgs[a], goodguess |-> a = 1]
  <1>1. /\ a \in 1..Len(SigAlgs) /\ T[a] = SigAlgs[a] /\ Len(T) = Len(SigAlgs)
        /\ \A i \in 1..(a - 1) : T[i] = None
    BY DEF Table
  <1>2. \A i \in Usable(T) : i \in 1..Len(SigAlgs)
    BY <1>1 DEF Usable
  <1>3. buf_match_algo(localnames(SigAlgs), localnames(T)) =
           [algo |-> SigAlgs[a], goodguess |-> a = 1]
    <2> DEFINE f == [i \in 1..Len(SigAlgs) |-> i]
    <2>1. f \in [1..Len(SigAlgs) -> Int] /\ f[a] = a /\ \A i \in Usable(T) : f[i] = i
      BY <1>1, <1>2, SigAlgsFacts
    <2> HIDE DEF f
    <2>2. localnames(T) = {[name |-> T[i], place |-> f[i]] : i \in Usable(T)}
      BY <2>1 DEF localnames
    <2>3. buf_match_algo(localnames(SigAlgs), localnames(T)) =
             [algo |-> SigAlgs[a], goodguess |-> a = 1 /\ (KexGuess2 \/ f[a] = 1)]
      BY <2>1, <2>2, MatchTable
    <2>4. (a = 1 /\ (KexGuess2 \/ f[a] = 1)) = (a = 1)
      BY <2>1
    <2> QED BY <2>3, <2>4
  <1>4. buf_match_algo(localnames(SigAlgs), buf_put_algolist(T)) =
           [algo |-> SigAlgs[a], goodguess |-> a = 1]
    <2> DEFINE f == [i \in 1..Len(SigAlgs) |-> Cardinality(Usable(T) \cap (1..i))]
    <2>1. ASSUME NEW i \in 1..Len(SigAlgs) PROVE Cardinality(Usable(T) \cap (1..i)) \in Nat
      <3>1. IsFiniteSet(1..i)
        BY SigAlgsFacts, FS_Interval
      <3>2. IsFiniteSet(Usable(T) \cap (1..i))
        BY <3>1, FS_Subset
      <3> QED BY <3>2, FS_CardinalityType
    <2>2. f \in [1..Len(SigAlgs) -> Int] /\ \A i \in Usable(T) : f[i] = Cardinality(Usable(T) \cap (1..i))
      BY <1>2, <2>1
    <2>3. f[a] = 1
      <3>1. Usable(T) \cap (1..a) = {a}
        BY <1>1, SigAlgsFacts DEF Usable
      <3> QED BY <1>1, <3>1, FS_Singleton
    <2> HIDE DEF f
    <2>4. buf_put_algolist(T) = {[name |-> T[i], place |-> f[i]] : i \in Usable(T)}
      BY <2>2 DEF buf_put_algolist
    <2>5. buf_match_algo(localnames(SigAlgs), buf_put_algolist(T)) =
             [algo |-> SigAlgs[a], goodguess |-> a = 1 /\ (KexGuess2 \/ f[a] = 1)]
      BY <2>2, <2>4, MatchTable
    <2>6. (a = 1 /\ (KexGuess2 \/ f[a] = 1)) = (a = 1)
      BY <2>3
    <2> QED BY <2>5, <2>6
  <1> QED BY <1>3, <1>4, FullList

\* After the first exchange only the entry used there stays usable.
LEMMA TableNarrowed ==
  ASSUME NEW T, NEW a, Table(T, a)
  PROVE  Table([i \in 1..Len(T) |-> IF T[i] = SigAlgs[a] THEN T[i] ELSE None], a)
  <1> DEFINE U == [i \in 1..Len(T) |-> IF T[i] = SigAlgs[a] THEN T[i] ELSE None]
  <1>1. /\ a \in 1..Len(SigAlgs) /\ T[a] = SigAlgs[a] /\ Len(T) = Len(SigAlgs) /\ T \in Seq(Name)
        /\ \A i \in 1..Len(SigAlgs) : T[i] \in {SigAlgs[i], None}
        /\ \A i \in 1..(a - 1) : T[i] = None
    BY DEF Table
  <1>2. \A i \in 1..Len(T) : (IF T[i] = SigAlgs[a] THEN T[i] ELSE None) \in Name
    BY <1>1 DEF Name
  <1>3. U \in Seq(Name) /\ Len(U) = Len(SigAlgs)
    BY <1>1, <1>2, SigAlgsFacts
  <1>4. \A i \in 1..Len(SigAlgs) : U[i] = IF T[i] = SigAlgs[a] THEN T[i] ELSE None
    BY <1>1
  <1> HIDE DEF U
  <1>5. \A i \in 1..(a - 1) : i \in 1..Len(SigAlgs)
    BY <1>1, SigAlgsFacts
  <1>6. Table(U, a)
    BY <1>1, <1>3, <1>4, <1>5 DEF Table
  <1> QED BY <1>6 DEF U

\* A set of places has a first one.
LEMMA FirstPlace ==
  ASSUME NEW usable, usable \subseteq 1..Len(SigAlgs), usable # {}
  PROVE  \E a \in usable : \A i \in 1..(a - 1) : i \notin usable
  <1>1. usable \subseteq Nat
    BY SigAlgsFacts
  <1>2. PICK a \in usable : \A y \in usable : ~(<<y, a>> \in OpToRel(<, Nat))
    BY <1>1, NatLessThanWellFounded, WFMin
  <1>3. \A y \in usable : ~(y < a)
    BY <1>1, <1>2 DEF OpToRel
  <1>4. \A i \in 1..(a - 1) : i < a
    BY <1>1
  <1> QED BY <1>3, <1>4

-----------------------------------------------------------------------------
(* What the handlers do when nothing goes wrong, field by field.           *)

Pkt(type, body, key, seq) == [type |-> type, body |-> body, key |-> key, seq |-> seq]

LEMMA PktFields ==
  ASSUME NEW type, NEW body, NEW key, NEW seq
  PROVE  /\ Pkt(type, body, key, seq).type = type /\ Pkt(type, body, key, seq).body = body
         /\ Pkt(type, body, key, seq).key = key /\ Pkt(type, body, key, seq).seq = seq
  BY DEF Pkt

LEMMA PktIsPacket ==
  ASSUME NEW key \in MaybeKey, NEW seq \in Nat
  PROVE  /\ \A type \in Plain, body \in Nat : Pkt(type, body, key, seq) \in Packet
         /\ \A body \in Hash : Pkt("KEXDH_REPLY", body, key, seq) \in Packet
         /\ \A body \in KexInit : Pkt("KEXINIT", body, key, seq) \in Packet
  BY DEF Pkt, Packet

LEMMA DoesEncrypt ==
  ASSUME NEW s, DOMAIN s = Fields, NEW body,
         NEW type \in {"KEXDH_INIT", "KEXDH_REPLY", "NEWKEYS", "EXT_INFO", "UNIMPLEMENTED"}
  PROVE  /\ Same(s, encrypt_packet(s, type, body), {"out", "transseq"})
         /\ encrypt_packet(s, type, body).out =
               Append(s.out, Pkt(type, body, s.keys.trans, s.transseq))
         /\ encrypt_packet(s, type, body).transseq = s.transseq + 1
  <1> DEFINE q == Pkt(type, body, s.keys.trans, s.transseq)
  <1>1. encrypt_packet(s, type, body) = [s EXCEPT !.out = Append(@, q), !.transseq = @ + 1]
    BY DEF encrypt_packet, packet_is_okay_kex, Pkt
  <1> HIDE DEF q
  <1>2. PICK t : t = [s EXCEPT !.out = Append(@, q), !.transseq = @ + 1]
    OBVIOUS
  <1>3. Same(s, t, {"out", "transseq"}) /\ t.out = Append(s.out, q) /\ t.transseq = s.transseq + 1
    BY <1>2 DEF Same, Fields, Flags
  <1> QED BY <1>1, <1>2, <1>3 DEF q

LEMMA DoesKexdhInit ==
  ASSUME NEW s, DOMAIN s = Fields
  PROVE  /\ Same(s, send_msg_kexdh_init(s), {"out", "transseq", "pub", "pubs"})
         /\ send_msg_kexdh_init(s).out =
               Append(s.out, Pkt("KEXDH_INIT", s.pubs + 1, s.keys.trans, s.transseq))
         /\ send_msg_kexdh_init(s).transseq = s.transseq + 1
         /\ send_msg_kexdh_init(s).pub = s.pubs + 1
  <1>1. PICK t : t = [s EXCEPT !.pub = s.pubs + 1, !.pubs = @ + 1]
    OBVIOUS
  <1>2. Same(s, t, {"pub", "pubs"}) /\ t.pub = s.pubs + 1
    BY <1>1 DEF Same, Fields, Flags
  <1>3. PICK u : u = encrypt_packet(t, "KEXDH_INIT", s.pubs + 1)
    OBVIOUS
  <1>4. /\ Same(t, u, {"out", "transseq"}) /\ u.transseq = t.transseq + 1
        /\ u.out = Append(t.out, Pkt("KEXDH_INIT", s.pubs + 1, t.keys.trans, t.transseq))
    BY <1>2, <1>3, DoesEncrypt DEF Same
  <1>5. /\ Same(s, u, {"out", "transseq", "pub", "pubs"}) /\ t.transseq = s.transseq
        /\ t.out = s.out /\ t.keys = s.keys /\ u.pub = t.pub
    BY <1>2, <1>4 DEF Same, Fields, Flags
  <1> QED BY <1>1, <1>2, <1>3, <1>4, <1>5 DEF send_msg_kexdh_init

\* The KEXINIT that an end sends.
Offer(e, s) ==
    [cookie |-> s.cookie + 1, sigalgs |-> buf_put_algolist(s.sigalgs),
     strict |-> s.strictname, follows |-> e = "client"]

KexinitOut(e, s) ==
    LET o == Append(s.out, Pkt("KEXINIT", Offer(e, s), s.keys.trans, s.transseq))
    IN IF e = "client"
       THEN Append(o, Pkt("KEXDH_INIT", s.pubs + 1, s.keys.trans, s.transseq + 1)) ELSE o

LEMMA DoesKexinit ==
  ASSUME NEW e \in End, NEW s, DOMAIN s = Fields, s.dataallowed, s.transseq \in Nat
  PROVE  /\ Same(s, send_msg_kexinit(e, s), {"out", "transseq", "pub", "pubs", "cookie",
                                             "dataallowed", "sentkexinit", "newkeys"})
         /\ send_msg_kexinit(e, s).out = KexinitOut(e, s)
         /\ send_msg_kexinit(e, s).transseq = s.transseq + (IF e = "client" THEN 2 ELSE 1)
         /\ send_msg_kexinit(e, s).cookie = s.cookie + 1
         /\ send_msg_kexinit(e, s).sentkexinit = TRUE
         /\ send_msg_kexinit(e, s).dataallowed = FALSE
         /\ send_msg_kexinit(e, s).newkeys = NoKeys
         /\ send_msg_kexinit(e, s).pub = IF e = "client" THEN s.pubs + 1 ELSE s.pub
  <1> DEFINE p == Pkt("KEXINIT", Offer(e, s), s.keys.trans, s.transseq)
  <1>1. PICK m : m = Offer(e, s)
    OBVIOUS
  <1>2. PICK t : t = [encrypt_packet([s EXCEPT !.cookie = @ + 1], "KEXINIT", m)
                      EXCEPT !.dataallowed = FALSE, !.sentkexinit = TRUE, !.newkeys = NoKeys]
    OBVIOUS
  <1>3. encrypt_packet([s EXCEPT !.cookie = @ + 1], "KEXINIT", m)
          = [s EXCEPT !.cookie = @ + 1, !.out = Append(@, p), !.transseq = @ + 1]
    BY <1>1 DEF encrypt_packet, Fields, Flags, Pkt
  <1> HIDE DEF p
  <1>4. /\ Same(s, t, {"out", "transseq", "cookie", "dataallowed", "sentkexinit", "newkeys"})
        /\ t.out = Append(s.out, p) /\ t.transseq = s.transseq + 1 /\ t.cookie = s.cookie + 1
        /\ t.sentkexinit = TRUE /\ t.dataallowed = FALSE /\ t.newkeys = NoKeys
    BY <1>2, <1>3 DEF Same, Fields, Flags
  <1>5. CASE e # "client"
    <2>1. send_msg_kexinit(e, s) = t
      BY <1>1, <1>2, <1>5 DEF send_msg_kexinit, Offer
    <2>2. /\ Same(s, t, {"out", "transseq", "pub", "pubs", "cookie", "dataallowed", "sentkexinit", "newkeys"})
          /\ t.pub = s.pub
      BY <1>4 DEF Same, Fields, Flags
    <2>3. KexinitOut(e, s) = Append(s.out, p)
      BY <1>5 DEF KexinitOut, p
    <2> QED BY <1>4, <1>5, <2>1, <2>2, <2>3
  <1>6. CASE e = "client"
    <2>1. PICK u : u = send_msg_kexdh_init(t)
      OBVIOUS
    <2>2. send_msg_kexinit(e, s) = u
      BY <1>1, <1>2, <1>6, <2>1 DEF send_msg_kexinit, Offer
    <2>3. /\ Same(t, u, {"out", "transseq", "pub", "pubs"}) /\ u.transseq = t.transseq + 1
          /\ u.out = Append(t.out, Pkt("KEXDH_INIT", t.pubs + 1, t.keys.trans, t.transseq))
          /\ u.pub = t.pubs + 1
      BY <1>4, <2>1, DoesKexdhInit DEF Same
    <2>4. /\ Same(s, u, {"out", "transseq", "pub", "pubs", "cookie", "dataallowed", "sentkexinit", "newkeys"})
          /\ u.cookie = t.cookie /\ u.sentkexinit = t.sentkexinit /\ u.dataallowed = t.dataallowed
          /\ u.newkeys = t.newkeys /\ t.pubs = s.pubs /\ t.keys = s.keys
      BY <1>4, <2>3 DEF Same, Fields, Flags
    <2>5. KexinitOut(e, s) =
             Append(Append(s.out, p), Pkt("KEXDH_INIT", s.pubs + 1, s.keys.trans, s.transseq + 1))
      BY <1>6 DEF KexinitOut, p
    <2>6. u.transseq = s.transseq + 2
      BY <1>4, <2>3
    <2> QED BY <1>4, <1>6, <2>2, <2>3, <2>4, <2>5, <2>6
  <1> QED BY <1>5, <1>6

LEMMA DoesNewkeys ==
  ASSUME NEW e \in End, NEW s, DOMAIN s = Fields,
         s.sentkexinit, s.recvkexinit, ~s.recvnewkeys
  PROVE  /\ Same(s, send_msg_newkeys(e, s), {"out", "transseq", "sentnewkeys", "donefirstkex",
                                             "donesecondkex", "dataallowed", "keys", "newkeys"})
         /\ send_msg_newkeys(e, s).out = Append(s.out, Pkt("NEWKEYS", 0, s.keys.trans, s.transseq))
         /\ send_msg_newkeys(e, s).transseq = IF s.strict_kex THEN 0 ELSE s.transseq + 1
         /\ send_msg_newkeys(e, s).sentnewkeys = TRUE /\ send_msg_newkeys(e, s).donefirstkex = TRUE
         /\ send_msg_newkeys(e, s).dataallowed = TRUE
         /\ send_msg_newkeys(e, s).keys = [recv |-> s.keys.recv, trans |-> <<s.hash, Direction(e)>>]
         /\ send_msg_newkeys(e, s).newkeys = [recv |-> <<s.hash, Direction(Peer(e))>>, trans |-> NoKey]
  <1>1. PICK a : a = encrypt_packet(s, "NEWKEYS", 0)
    OBVIOUS
  <1>2. /\ Same(s, a, {"out", "transseq"}) /\ a.transseq = s.transseq + 1
        /\ a.out = Append(s.out, Pkt("NEWKEYS", 0, s.keys.trans, s.transseq))
    BY <1>1, DoesEncrypt
  <1>0. PICK key, other : key = <<s.hash, Direction(e)>> /\ other = <<s.hash, Direction(Peer(e))>>
    OBVIOUS
  <1>3. key = <<s.hash, Direction(e)>> /\ key # NoKey /\ other = <<s.hash, Direction(Peer(e))>>
    <2>1. <<s.hash, Direction(e)>> # <<>>
      OBVIOUS
    <2> QED BY <1>0, <2>1 DEF NoKey
  <1>5. PICK b : b = [a EXCEPT !.sentnewkeys = TRUE, !.donesecondkex = @ \/ s.donefirstkex,
                              !.donefirstkex = TRUE, !.dataallowed = TRUE]
    OBVIOUS
  <1>6. /\ Same(s, b, {"out", "transseq", "sentnewkeys", "donefirstkex", "donesecondkex", "dataallowed"})
        /\ b.sentnewkeys = TRUE /\ b.dataallowed = TRUE /\ b.donefirstkex = TRUE
        /\ b.out = a.out /\ b.transseq = a.transseq
    BY <1>2, <1>5 DEF Same, Fields, Flags
  <1>7. PICK d : d = gen_new_keys(e, b)
    OBVIOUS
  <1>8. /\ Same(b, d, {"newkeys"}) /\ d.newkeys = [trans |-> key, recv |-> other]
    BY <1>3, <1>6, <1>7 DEF gen_new_keys, Same, Fields, Flags
  <1>9. PICK f : f = switch_keys(d)
    OBVIOUS
  <1>10. /\ d.sentnewkeys = TRUE /\ ~d.recvnewkeys /\ d.sentkexinit /\ d.recvkexinit
         /\ d.keys = s.keys /\ DOMAIN d = Fields
    BY <1>6, <1>8 DEF Same, Fields, Flags
  <1>11. f = [d EXCEPT !.keys = [recv |-> s.keys.recv, trans |-> key],
                       !.newkeys = [recv |-> other, trans |-> NoKey]]
    BY <1>3, <1>8, <1>9, <1>10 DEF switch_keys, Fields, Flags
  <1>12. /\ Same(d, f, {"keys", "newkeys"}) /\ f.keys = [recv |-> s.keys.recv, trans |-> key]
         /\ f.newkeys = [recv |-> other, trans |-> NoKey]
    BY <1>10, <1>11 DEF Same, Fields, Flags
  <1>13. PICK u : u = IF s.strict_kex THEN [f EXCEPT !.transseq = 0] ELSE f
    OBVIOUS
  <1>14. send_msg_newkeys(e, s) = u
    BY <1>1, <1>5, <1>7, <1>9, <1>13 DEF send_msg_newkeys
  <1>15. /\ Same(s, u, {"out", "transseq", "sentnewkeys", "donefirstkex",
                        "donesecondkex", "dataallowed", "keys", "newkeys"})
         /\ u.sentnewkeys = TRUE /\ u.dataallowed = TRUE /\ u.out = a.out
         /\ u.donefirstkex = TRUE
         /\ u.keys = f.keys /\ u.newkeys = f.newkeys
         /\ u.transseq = IF s.strict_kex THEN 0 ELSE a.transseq
    BY <1>6, <1>8, <1>12, <1>13 DEF Same, Fields, Flags
  <1> QED BY <1>2, <1>3, <1>12, <1>14, <1>15

LEMMA DoesRecvNewkeys ==
  ASSUME NEW s, DOMAIN s = Fields, s.sentkexinit = TRUE, s.recvkexinit = TRUE, s.sentnewkeys = TRUE,
         s.newkeys.trans = NoKey, s.newkeys.recv # NoKey
  PROVE  /\ Same(s, recv_msg_newkeys(s), {"sentkexinit", "recvkexinit", "sentnewkeys", "recvnewkeys",
                "our_first_follows_matches", "keys", "newkeys", "recvseq", "recvfirstnewkeys"})
         /\ recv_msg_newkeys(s).keys = [recv |-> s.newkeys.recv, trans |-> s.keys.trans]
         /\ recv_msg_newkeys(s).recvseq = IF s.strict_kex THEN 0 ELSE s.recvseq
         /\ \A f \in {"sentkexinit", "recvkexinit", "sentnewkeys", "recvnewkeys",
                       "our_first_follows_matches"} : recv_msg_newkeys(s)[f] = FALSE
  <1>1. PICK a : a = [s EXCEPT !.recvnewkeys = TRUE]
    OBVIOUS
  <1>2. Same(s, a, {"recvnewkeys"}) /\ a.recvnewkeys = TRUE
    BY <1>1 DEF Same, Fields, Flags
  <1>4. /\ a.sentnewkeys = TRUE /\ a.sentkexinit = TRUE /\ a.recvkexinit = TRUE
        /\ a.keys = s.keys /\ a.newkeys = s.newkeys /\ DOMAIN a = Fields
    BY <1>2 DEF Same, Fields, Flags
  <1>3. PICK k, l : /\ k = [recv |-> s.newkeys.recv, trans |-> s.keys.trans]
                    /\ l = [recv |-> NoKey, trans |-> NoKey]
    OBVIOUS
  <1>5. PICK b : b = [a EXCEPT !.keys = k, !.newkeys = l]
    OBVIOUS
  <1>6. PICK d : d = switch_keys(a)
    OBVIOUS
  <1>7. d = kexinitialise(b)
    BY <1>2, <1>3, <1>4, <1>5, <1>6 DEF switch_keys
  <1>8. Same(a, b, {"keys", "newkeys"}) /\ b.keys = k
    BY <1>4, <1>5 DEF Same, Fields, Flags
  <1>9. /\ Same(b, d, {"sentkexinit", "recvkexinit", "sentnewkeys", "recvnewkeys",
                       "our_first_follows_matches"})
        /\ \A f \in {"sentkexinit", "recvkexinit", "sentnewkeys", "recvnewkeys",
                       "our_first_follows_matches"} : d[f] = FALSE
    BY <1>7, <1>8 DEF kexinitialise, Same, Fields, Flags
  <1>10. PICK u : u = [d EXCEPT !.recvseq = IF s.strict_kex THEN 0 ELSE @, !.recvfirstnewkeys = TRUE]
    OBVIOUS
  <1>11. recv_msg_newkeys(s) = u
    BY <1>1, <1>6, <1>10 DEF recv_msg_newkeys
  <1>12. /\ Same(d, u, {"recvseq", "recvfirstnewkeys"})
         /\ u.recvseq = IF s.strict_kex THEN 0 ELSE d.recvseq
    BY <1>9, <1>10 DEF Same, Fields, Flags
  <1>13. /\ Same(s, u, {"sentkexinit", "recvkexinit", "sentnewkeys", "recvnewkeys",
                "our_first_follows_matches", "keys", "newkeys", "recvseq", "recvfirstnewkeys"})
         /\ u.keys = k /\ d.recvseq = s.recvseq
         /\ \A f \in {"sentkexinit", "recvkexinit", "sentnewkeys", "recvnewkeys",
                        "our_first_follows_matches"} : u[f] = FALSE
    BY <1>2, <1>8, <1>9, <1>12 DEF Same, Fields, Flags
  <1> QED BY <1>3, <1>11, <1>12, <1>13

LEMMA DoesFlush ==
  ASSUME NEW s, IsSession(s)
  PROVE  \E y \in Seq(Packet) :
           /\ Same(s, maybe_flush_reply_queue(s), {"out", "transseq", "reply_queue"})
           /\ maybe_flush_reply_queue(s).out = s.out \o y
           /\ maybe_flush_reply_queue(s).transseq = s.transseq + Len(y)
           /\ \E q : FlushOf(y, q, s.keys.trans, s.transseq)
           /\ ~s.dataallowed \/ s.reply_queue = <<>> => y = <<>>
  <1>0. /\ s.out \in Seq(Packet) /\ s.transseq \in Nat /\ DOMAIN s = Fields
        /\ s.reply_queue \in Seq(Nat) /\ s.keys.trans \in MaybeKey
    BY DEF IsSession, Keys
  <1>1. CASE ~s.dataallowed
    <2>1. maybe_flush_reply_queue(s) = s
      BY <1>1 DEF maybe_flush_reply_queue
    <2>2. /\ <<>> \in Seq(Packet) /\ s.out = s.out \o <<>> /\ s.transseq = s.transseq + Len(<<>>)
          /\ Same(s, s, {"out", "transseq", "reply_queue"})
      BY <1>0 DEF Same
    <2>3. FlushOf(<<>>, <<>>, s.keys.trans, s.transseq)
      BY DEF FlushOf
    <2> QED BY <2>1, <2>2, <2>3
  <1>2. CASE s.dataallowed
    <2>1. PICK q \in Seq(Nat) : q = s.reply_queue /\ Len(q) \in Nat
      BY <1>0
    <2>2. PICK y \in Seq(Packet) :
             /\ FlushOf(y, q, s.keys.trans, s.transseq) /\ Len(y) = Len(q)
             /\ y = [i \in 1..Len(q) |-> [type |-> "DATA", body |-> q[i],
                                         key |-> s.keys.trans, seq |-> s.transseq + i - 1]]
      <3> DEFINE z == [i \in 1..Len(q) |-> [type |-> "DATA", body |-> q[i],
                                          key |-> s.keys.trans, seq |-> s.transseq + i - 1]]
      <3>1. ASSUME NEW i \in 1..Len(q)
            PROVE  [type |-> "DATA", body |-> q[i], key |-> s.keys.trans, seq |-> s.transseq + i - 1]
                       \in Packet
        <4>1. q[i] \in Nat
          BY <2>1
        <4>2. s.transseq + i - 1 \in Nat
          BY <1>0
        <4> QED BY <1>0, <4>1, <4>2 DEF Packet, Plain
      <3>2. z \in Seq(Packet) /\ Len(z) = Len(q)
        BY <2>1, <3>1
      <3>3. FlushOf(z, q, s.keys.trans, s.transseq)
        BY <3>2 DEF FlushOf
      <3> QED BY <3>2, <3>3
    <2>3. PICK t : t = [s EXCEPT !.out = @ \o y, !.transseq = @ + Len(q), !.reply_queue = <<>>]
      OBVIOUS
    <2>4. maybe_flush_reply_queue(s) = t
      BY <1>2, <2>1, <2>2, <2>3 DEF maybe_flush_reply_queue
    <2>5. /\ Same(s, t, {"out", "transseq", "reply_queue"}) /\ t.out = s.out \o y
          /\ t.transseq = s.transseq + Len(q)
      BY <1>0, <2>3 DEF Same, Fields, Flags
    <2>6. s.reply_queue = <<>> => y = <<>>
      <3>1. s.reply_queue = <<>> => Len(y) = 0
        BY <2>1, <2>2
      <3> QED BY <3>1, EmptySeq
    <2> QED BY <1>2, <2>2, <2>4, <2>5, <2>6
  <1> QED BY <1>1, <1>2

LEMMA DoesLoop ==
  ASSUME NEW e \in End, NEW s, DOMAIN s = Fields
  PROVE  /\ ~(e = "client" /\ s.lastpacket = "KEXINIT" /\ s.kex_state = "KEX_NOTHING"
                /\ ~s.our_first_follows_matches)
              => Same(s, loophandler(e, s), {"kex_state"})
         /\ e = "client" /\ s.lastpacket = "KEXINIT" /\ s.kex_state = "KEX_NOTHING"
                /\ ~s.our_first_follows_matches
              => /\ Same(s, loophandler(e, s), {"out", "transseq", "pub", "pubs", "kex_state"})
                 /\ loophandler(e, s).out =
                       Append(s.out, Pkt("KEXDH_INIT", s.pubs + 1, s.keys.trans, s.transseq))
                 /\ loophandler(e, s).transseq = s.transseq + 1
                 /\ loophandler(e, s).pub = s.pubs + 1
  <1>0. None # "KEXINIT"
    BY NoneIsNoType DEF PacketType
  <1>1. CASE ~(e = "client" /\ s.lastpacket # None)
    <2>1. loophandler(e, s) = s
      BY <1>1 DEF loophandler
    <2> QED BY <1>0, <1>1, <2>1 DEF Same
  <1>2. CASE /\ e = "client" /\ s.lastpacket # None /\ s.lastpacket = "KEXINIT"
             /\ s.kex_state = "KEX_NOTHING"
    <2>1. PICK a : a = IF s.our_first_follows_matches THEN s ELSE send_msg_kexdh_init(s)
      OBVIOUS
    <2>2. PICK u : u = [a EXCEPT !.kex_state = "KEXDH_INIT_SENT"]
      OBVIOUS
    <2>3. loophandler(e, s) = u
      BY <1>2, <2>1, <2>2 DEF loophandler, cli_sessionloop
    <2>4. CASE s.our_first_follows_matches
      <3>1. a = s
        BY <2>1, <2>4
      <3>2. Same(s, u, {"kex_state"})
        BY <2>2, <3>1 DEF Same, Fields, Flags
      <3> QED BY <2>3, <2>4, <3>2
    <2>5. CASE ~s.our_first_follows_matches
      <3>1. /\ Same(s, a, {"out", "transseq", "pub", "pubs"})
            /\ a.out = Append(s.out, Pkt("KEXDH_INIT", s.pubs + 1, s.keys.trans, s.transseq))
            /\ a.transseq = s.transseq + 1 /\ a.pub = s.pubs + 1
        BY <2>1, <2>5, DoesKexdhInit
      <3>2. Same(a, u, {"kex_state"})
        BY <2>2, <3>1 DEF Same, Fields, Flags
      <3>3. /\ Same(s, u, {"out", "transseq", "pub", "pubs", "kex_state"})
            /\ u.out = a.out /\ u.transseq = a.transseq /\ u.pub = a.pub
        BY <3>1, <3>2 DEF Same, Fields, Flags
      <3> QED BY <1>2, <2>3, <2>5, <3>1, <3>3
    <2> QED BY <2>4, <2>5
  <1>3. CASE /\ e = "client" /\ s.lastpacket # None
             /\ ~(s.lastpacket = "KEXINIT" /\ s.kex_state = "KEX_NOTHING")
    <2>1. PICK u : u = [s EXCEPT !.kex_state = IF s.sentnewkeys THEN "KEX_NOTHING" ELSE @]
      OBVIOUS
    <2>2. loophandler(e, s) = u
      BY <1>3, <2>1 DEF loophandler, cli_sessionloop
    <2>3. Same(s, u, {"kex_state"})
      BY <2>1 DEF Same, Fields, Flags
    <2> QED BY <1>3, <2>2, <2>3
  <1> QED BY <1>1, <1>2, <1>3

\* The end with the record s can take up the KEXINIT m: they find algorithm A,
\* which the client has guessed or not (g).
Acceptable(e, s, m, A, g) ==
    /\ IsSession(s) /\ ~s.exited /\ ~s.recvkexinit /\ (s.dataallowed <=> ~s.sentkexinit)
    /\ ~s.our_first_follows_matches /\ ~s.ignorenext /\ (s.donefirstkex \/ s.recvseq = 1)
    /\ A # None /\ g \in BOOLEAN /\ m.strict \in BOOLEAN /\ m.follows \in BOOLEAN
    /\ e = "server" => buf_match_algo(m.sigalgs, localnames(s.sigalgs)) = [algo |-> A, goodguess |-> g]
    /\ e = "client" => buf_match_algo(localnames(s.sigalgs), m.sigalgs) = [algo |-> A, goodguess |-> g]

\* What it does with it then: u is its record, in exchange n.
Accepted(e, s, m, A, g, n, u) ==
    /\ Same(s, u, {"out", "transseq", "pub", "pubs", "cookie", "dataallowed", "sentkexinit",
            "newkeys", "algo_signature", "strict_kex", "ignorenext",
            "our_first_follows_matches", "hash", "requirenext", "recvkexinit", "exited"})
    /\ u.cookie = n /\ u.sentkexinit = TRUE /\ u.dataallowed = FALSE /\ u.recvkexinit = TRUE
    /\ u.exited = FALSE /\ u.algo_signature = A
    /\ u.requirenext = IF e = "client" THEN "KEXDH_REPLY" ELSE "KEXDH_INIT"
    /\ u.strict_kex = (s.strict_kex \/ (~s.donefirstkex /\ m.strict))
    /\ u.ignorenext = (m.follows /\ ~g)
    /\ u.our_first_follows_matches = (e = "client" /\ g)
    /\ u.hash = [NoHash EXCEPT !.cookies = IF e = "client" THEN <<n, m.cookie>> ELSE <<m.cookie, n>>]
    /\ s.sentkexinit => u.out = s.out /\ u.transseq = s.transseq /\ u.pub = s.pub
    /\ ~s.sentkexinit =>
         /\ u.out = KexinitOut(e, s)
         /\ u.transseq = s.transseq + (IF e = "client" THEN 2 ELSE 1)
         /\ u.pub = IF e = "client" THEN s.pubs + 1 ELSE s.pub

LEMMA DoesRecvKexinit ==
  ASSUME NEW e \in End, NEW s, NEW m, NEW A, NEW g, Acceptable(e, s, m, A, g),
         NEW n, n = IF s.sentkexinit THEN s.cookie ELSE s.cookie + 1,
         NEW u, u = recv_msg_kexinit(e, s, m)
  PROVE  Accepted(e, s, m, A, g, n, u)
  <1>15. /\ IsSession(s) /\ ~s.exited /\ ~s.recvkexinit /\ (s.dataallowed <=> ~s.sentkexinit)
         /\ ~s.our_first_follows_matches /\ ~s.ignorenext /\ (s.donefirstkex \/ s.recvseq = 1)
         /\ A # None /\ g \in BOOLEAN /\ m.strict \in BOOLEAN /\ m.follows \in BOOLEAN
         /\ e = "server" => buf_match_algo(m.sigalgs, localnames(s.sigalgs)) = [algo |-> A, goodguess |-> g]
         /\ e = "client" => buf_match_algo(localnames(s.sigalgs), m.sigalgs) = [algo |-> A, goodguess |-> g]
    BY DEF Acceptable
  <1> USE <1>15
  <1>0. /\ DOMAIN s = Fields /\ s.transseq \in Nat /\ s.sentkexinit \in BOOLEAN /\ s.exited = FALSE
        /\ s.our_first_follows_matches = FALSE /\ s.ignorenext = FALSE /\ s.recvkexinit = FALSE
        /\ s.strict_kex \in BOOLEAN /\ s.donefirstkex \in BOOLEAN /\ s.dataallowed \in BOOLEAN
    BY DEF IsSession, Flags
  <1>1. PICK t : t = IF s.sentkexinit THEN s ELSE send_msg_kexinit(e, s)
    OBVIOUS
  <1>2. /\ Same(s, t, {"out", "transseq", "pub", "pubs", "cookie",
                       "dataallowed", "sentkexinit", "newkeys"})
        /\ t.cookie = n /\ t.sentkexinit = TRUE /\ t.dataallowed = FALSE
        /\ s.sentkexinit => t.out = s.out /\ t.transseq = s.transseq /\ t.pub = s.pub
        /\ ~s.sentkexinit =>
              /\ t.out = KexinitOut(e, s)
              /\ t.transseq = s.transseq + (IF e = "client" THEN 2 ELSE 1)
              /\ t.pub = IF e = "client" THEN s.pubs + 1 ELSE s.pub
    <2>1. CASE s.sentkexinit
      BY <1>0, <1>1, <2>1 DEF Same
    <2>2. CASE ~s.sentkexinit
      <3>1. t = send_msg_kexinit(e, s) /\ s.dataallowed
        BY <1>0, <1>1, <2>2
      <3> QED BY <1>0, <2>2, <3>1, DoesKexinit
    <2> QED BY <2>1, <2>2
  <1>3. /\ t.sigalgs = s.sigalgs /\ t.exited = FALSE /\ t.our_first_follows_matches = FALSE
        /\ t.ignorenext = FALSE /\ t.strict_kex = s.strict_kex /\ t.donefirstkex = s.donefirstkex
        /\ t.recvkexinit = FALSE /\ t.recvseq = s.recvseq /\ DOMAIN t = Fields
    BY <1>0, <1>2 DEF Same, Fields, Flags
  <1>4. PICK match : match = IF e = "server" THEN buf_match_algo(m.sigalgs, localnames(t.sigalgs))
                                             ELSE buf_match_algo(localnames(t.sigalgs), m.sigalgs)
    OBVIOUS
  <1>5. match.algo = A /\ match.goodguess = g
    <2>1. match = [algo |-> A, goodguess |-> g]
      BY <1>3, <1>4 DEF End
    <2> QED BY <2>1
  <1>6. PICK v : v = read_kex_algos(e, t, m)
    OBVIOUS
  <1>7. v = [t EXCEPT !.newkeys = NoKeys, !.algo_signature = match.algo,
                 !.strict_kex = @ \/ (~t.donefirstkex /\ m.strict),
                 !.ignorenext = @ \/ (m.follows /\ ~match.goodguess),
                 !.our_first_follows_matches = @ \/ (e = "client" /\ match.goodguess),
                 !.exited = @ \/ match.algo = None]
    BY <1>4, <1>6 DEF read_kex_algos
  <1>8. /\ Same(t, v, {"newkeys", "algo_signature", "strict_kex", "ignorenext",
                       "our_first_follows_matches", "exited"})
        /\ v.algo_signature = A /\ v.exited = FALSE
        /\ v.strict_kex = (s.strict_kex \/ (~s.donefirstkex /\ m.strict))
        /\ v.ignorenext = (m.follows /\ ~g)
        /\ v.our_first_follows_matches = (e = "client" /\ g)
    <2>1. /\ Same(t, v, {"newkeys", "algo_signature", "strict_kex", "ignorenext",
                       "our_first_follows_matches", "exited"})
          /\ v.algo_signature = match.algo
          /\ v.exited = (t.exited \/ match.algo = None)
          /\ v.strict_kex = (t.strict_kex \/ (~t.donefirstkex /\ m.strict))
          /\ v.ignorenext = (t.ignorenext \/ (m.follows /\ ~match.goodguess))
          /\ v.our_first_follows_matches = (t.our_first_follows_matches \/ (e = "client" /\ match.goodguess))
      BY <1>3, <1>7 DEF Same, Fields, Flags
    <2> QED BY <1>3, <1>5, <2>1
  <1>9. PICK h : h = [NoHash EXCEPT !.cookies = IF e = "client" THEN <<t.cookie, m.cookie>>
                                                               ELSE <<m.cookie, t.cookie>>]
    OBVIOUS
  <1>10. PICK w : w = [v EXCEPT !.hash = h,
                  !.requirenext = IF e = "client" THEN "KEXDH_REPLY" ELSE "KEXDH_INIT",
                  !.recvkexinit = TRUE]
    OBVIOUS
  <1>11. /\ Same(v, w, {"hash", "requirenext", "recvkexinit"}) /\ w.hash = h /\ w.recvkexinit = TRUE
         /\ w.requirenext = IF e = "client" THEN "KEXDH_REPLY" ELSE "KEXDH_INIT"
    BY <1>3, <1>8, <1>10 DEF Same, Fields, Flags
  <1>12. w.donefirstkex = s.donefirstkex /\ w.recvseq = s.recvseq
    BY <1>3, <1>8, <1>11 DEF Same, Fields, Flags
  <1>13. u = w
    <2>1. ~(t.recvkexinit \/ (w.strict_kex /\ ~w.donefirstkex /\ w.recvseq # 1))
      BY <1>3, <1>12
    <2>2. recv_msg_kexinit(e, s, m) =
             IF t.recvkexinit \/ (w.strict_kex /\ ~w.donefirstkex /\ w.recvseq # 1)
             THEN dropbear_exit(w) ELSE w
      BY <1>1, <1>6, <1>9, <1>10 DEF recv_msg_kexinit
    <2> QED BY <2>1, <2>2
  <1>14. /\ Same(s, w, {"out", "transseq", "pub", "pubs", "cookie", "dataallowed", "sentkexinit",
                 "newkeys", "algo_signature", "strict_kex", "ignorenext",
                 "our_first_follows_matches", "hash", "requirenext", "recvkexinit", "exited"})
         /\ \A f \in {"out", "transseq", "pub", "cookie", "dataallowed", "sentkexinit"} : w[f] = t[f]
         /\ \A f \in {"algo_signature", "strict_kex", "ignorenext", "exited",
                       "our_first_follows_matches"} : w[f] = v[f]
    BY <1>2, <1>8, <1>11 DEF Same, Fields, Flags
  <1> QED BY <1>2, <1>8, <1>9, <1>11, <1>13, <1>14 DEF Accepted

\* The hash of an exchange, from what either end knows of it.
HashOf(s, pub) == [cookies |-> s.hash.cookies, pub |-> pub, sig |-> s.algo_signature]

LEMMA DoesFinish ==
  ASSUME NEW s, DOMAIN s = Fields, NEW pub
  PROVE  /\ Same(s, finish_kexhashbuf(s, pub), {"hash", "session_id"})
         /\ finish_kexhashbuf(s, pub).hash = HashOf(s, pub)
         /\ finish_kexhashbuf(s, pub).session_id =
               IF s.session_id = NoHash THEN HashOf(s, pub) ELSE s.session_id
  <1>1. PICK h : h = HashOf(s, pub)
    OBVIOUS
  <1>2. PICK t : t = [s EXCEPT !.hash = h, !.session_id = IF @ = NoHash THEN h ELSE @]
    OBVIOUS
  <1>3. finish_kexhashbuf(s, pub) = t
    BY <1>1, <1>2 DEF finish_kexhashbuf, HashOf
  <1>4. /\ Same(s, t, {"hash", "session_id"}) /\ t.hash = h
        /\ t.session_id = IF s.session_id = NoHash THEN h ELSE s.session_id
    BY <1>2 DEF Same, Fields, Flags
  <1> QED BY <1>1, <1>3, <1>4

\* The server has made the hash h of the exchange.
Replied(s, h, o, q, u) ==
    /\ Same(s, u, {"hash", "session_id", "out", "transseq", "sentnewkeys", "donefirstkex",
                   "donesecondkex", "dataallowed", "keys", "newkeys", "sigalgs", "requirenext"})
    /\ u.hash = h /\ u.session_id = IF s.session_id = NoHash THEN h ELSE s.session_id
    /\ u.sentnewkeys = TRUE /\ u.dataallowed = TRUE /\ u.donefirstkex = TRUE
    /\ u.requirenext = "NEWKEYS"
    /\ u.keys = [recv |-> s.keys.recv, trans |-> <<h, "s2c">>]
    /\ u.newkeys = [recv |-> <<h, "c2s">>, trans |-> NoKey]
    /\ \/ u.out = o /\ u.transseq = q /\ u.sigalgs = s.sigalgs
       \/ /\ u.out = Append(o, Pkt("EXT_INFO", 0, <<h, "s2c">>, q)) /\ u.transseq = q + 1
          /\ u.sigalgs = [i \in 1..Len(s.sigalgs) |-> IF s.sigalgs[i] = s.algo_signature
                                                      THEN s.sigalgs[i] ELSE None]

LEMMA DoesRecvKexdhInit ==
  ASSUME NEW s, DOMAIN s = Fields, s.sentkexinit, s.recvkexinit, ~s.recvnewkeys, NEW pub,
         NEW h, h = HashOf(s, pub), NEW u, u = recv_msg_kexdh_init(s, pub),
         NEW o, o = Append(Append(s.out, Pkt("KEXDH_REPLY", h, s.keys.trans, s.transseq)),
                           Pkt("NEWKEYS", 0, s.keys.trans, s.transseq + 1)),
         NEW q, q = IF s.strict_kex THEN 0 ELSE s.transseq + 1 + 1
  PROVE  Replied(s, h, o, q, u)
  <1>1. PICK t : t = finish_kexhashbuf(s, pub)
    OBVIOUS
  <1>2. /\ Same(s, t, {"hash", "session_id"}) /\ t.hash = h
        /\ t.session_id = IF s.session_id = NoHash THEN h ELSE s.session_id
    BY <1>1, DoesFinish
  <1>3. PICK a : a = encrypt_packet(t, "KEXDH_REPLY", t.hash)
    OBVIOUS
  <1>4. /\ Same(t, a, {"out", "transseq"}) /\ a.transseq = t.transseq + 1
        /\ a.out = Append(t.out, Pkt("KEXDH_REPLY", t.hash, t.keys.trans, t.transseq))
    BY <1>2, <1>3, DoesEncrypt DEF Same
  <1>5. /\ a.sentkexinit = s.sentkexinit /\ a.recvkexinit = s.recvkexinit /\ a.recvnewkeys = s.recvnewkeys
        /\ a.hash = h /\ a.strict_kex = s.strict_kex /\ a.keys = s.keys /\ DOMAIN a = Fields
        /\ t.transseq = s.transseq /\ t.out = s.out /\ t.keys = s.keys /\ a.session_id = t.session_id
        /\ Same(s, a, {"hash", "session_id", "out", "transseq"})
    BY <1>2, <1>4 DEF Same, Fields, Flags
  <1>6. PICK b : b = send_msg_newkeys("server", a)
    OBVIOUS
  <1>7. /\ Same(a, b, {"out", "transseq", "sentnewkeys", "donefirstkex",
                       "donesecondkex", "dataallowed", "keys", "newkeys"})
        /\ b.out = Append(a.out, Pkt("NEWKEYS", 0, a.keys.trans, a.transseq))
        /\ b.transseq = IF a.strict_kex THEN 0 ELSE a.transseq + 1
        /\ b.sentnewkeys = TRUE /\ b.donefirstkex = TRUE /\ b.dataallowed = TRUE
        /\ b.keys = [recv |-> a.keys.recv, trans |-> <<a.hash, "s2c">>]
        /\ b.newkeys = [recv |-> <<a.hash, "c2s">>, trans |-> NoKey]
    <2>1. "server" \in End /\ Direction("server") = "s2c" /\ Direction(Peer("server")) = "c2s"
      BY DEF End, Direction, Peer
    <2> QED BY <1>5, <1>6, <2>1, DoesNewkeys
  <1>8. b.out = o /\ b.transseq = q
    BY <1>2, <1>4, <1>5, <1>7
  <1>9. /\ Same(s, b, {"hash", "session_id", "out", "transseq", "sentnewkeys", "donefirstkex",
                       "donesecondkex", "dataallowed", "keys", "newkeys"})
        /\ b.hash = h /\ b.session_id = t.session_id
    <2>1. Same(s, b, {"hash", "session_id", "out", "transseq", "sentnewkeys", "donefirstkex",
                       "donesecondkex", "dataallowed", "keys", "newkeys"})
      <3>1. /\ DOMAIN b = Fields /\ \A f \in Fields \ {"out", "transseq", "sentnewkeys", "donefirstkex",
                       "donesecondkex", "dataallowed", "keys", "newkeys"} : b[f] = a[f]
            /\ \A f \in Fields \ {"hash", "session_id", "out", "transseq"} : a[f] = s[f]
        BY <1>5, <1>7 DEF Same
      <3> QED BY <3>1 DEF Same
    <2>2. b.hash = a.hash /\ b.session_id = a.session_id
      BY <1>7 DEF Same, Fields, Flags
    <2> QED BY <1>5, <2>1, <2>2
  <1>10. b.sigalgs = s.sigalgs /\ DOMAIN b = Fields
    BY <1>9 DEF Same, Fields, Flags
  <1>11. CASE b.donesecondkex
    <2>1. u = [b EXCEPT !.requirenext = "NEWKEYS"]
      BY <1>1, <1>3, <1>6, <1>11 DEF recv_msg_kexdh_init
    <2>2. Same(b, u, {"requirenext"}) /\ u.requirenext = "NEWKEYS"
      BY <1>10, <2>1 DEF Same, Fields, Flags
    <2>3. /\ Same(s, u, {"hash", "session_id", "out", "transseq", "sentnewkeys", "donefirstkex",
                        "donesecondkex", "dataallowed", "keys", "newkeys", "sigalgs", "requirenext"})
          /\ \A f \in {"hash", "session_id", "out", "transseq", "sentnewkeys", "donefirstkex",
                        "dataallowed", "keys", "newkeys", "sigalgs"} : u[f] = b[f]
      BY <1>9, <2>2 DEF Same, Fields, Flags
    <2> QED BY <1>2, <1>5, <1>7, <1>8, <1>9, <1>10, <2>2, <2>3 DEF Replied
  <1>12. CASE ~b.donesecondkex
    <2>1. PICK d : d = encrypt_packet(b, "EXT_INFO", 0)
      OBVIOUS
    <2>2. /\ Same(b, d, {"out", "transseq"}) /\ d.transseq = b.transseq + 1
          /\ d.out = Append(b.out, Pkt("EXT_INFO", 0, b.keys.trans, b.transseq))
      BY <1>10, <2>1, DoesEncrypt
    <2>3. d.sigalgs = s.sigalgs /\ DOMAIN d = Fields
      BY <1>10, <2>2 DEF Same, Fields, Flags
    <2>4. PICK L : L = [i \in 1..Len(s.sigalgs) |-> IF s.sigalgs[i] = s.algo_signature
                                                    THEN s.sigalgs[i] ELSE None]
      OBVIOUS
    <2>5. u = [[d EXCEPT !.sigalgs = L] EXCEPT !.requirenext = "NEWKEYS"]
      <3>1. recv_msg_kexdh_init(s, pub) =
               [[d EXCEPT !.sigalgs = [i \in 1..Len(@) |-> IF @[i] = s.algo_signature THEN @[i] ELSE None]]
                EXCEPT !.requirenext = "NEWKEYS"]
        BY <1>1, <1>3, <1>6, <1>12, <2>1 DEF recv_msg_kexdh_init
      <3>2. [d EXCEPT !.sigalgs = [i \in 1..Len(@) |-> IF @[i] = s.algo_signature THEN @[i] ELSE None]]
              = [d EXCEPT !.sigalgs = L]
        BY <2>3, <2>4
      <3> QED BY <3>1, <3>2
    <2>6. Same(d, u, {"sigalgs", "requirenext"}) /\ u.sigalgs = L /\ u.requirenext = "NEWKEYS"
      BY <2>3, <2>5 DEF Same, Fields, Flags
    <2>7. /\ Same(s, u, {"hash", "session_id", "out", "transseq", "sentnewkeys", "donefirstkex",
                        "donesecondkex", "dataallowed", "keys", "newkeys", "sigalgs", "requirenext"})
          /\ \A f \in {"hash", "session_id", "sentnewkeys", "donefirstkex",
                        "dataallowed", "keys", "newkeys"} : u[f] = b[f]
          /\ u.out = d.out /\ u.transseq = d.transseq
      BY <1>9, <2>2, <2>6, ZenonT(60) DEF Same, Fields, Flags
    <2>8. b.keys.trans = <<h, "s2c">>
      BY <1>5, <1>7
    <2> QED BY <1>2, <1>5, <1>7, <1>8, <1>9, <2>2, <2>4, <2>6, <2>7, <2>8 DEF Replied
  <1> QED BY <1>11, <1>12

\* So has the client.
Verified(s, h, u) ==
    /\ Same(s, u, {"hash", "session_id", "out", "transseq", "sentnewkeys", "donefirstkex",
                   "donesecondkex", "dataallowed", "keys", "newkeys", "pub", "requirenext"})
    /\ u.hash = h /\ u.session_id = IF s.session_id = NoHash THEN h ELSE s.session_id
    /\ u.sentnewkeys = TRUE /\ u.dataallowed = TRUE /\ u.donefirstkex = TRUE
    /\ u.requirenext = "NEWKEYS"
    /\ u.keys = [recv |-> s.keys.recv, trans |-> <<h, "c2s">>]
    /\ u.newkeys = [recv |-> <<h, "s2c">>, trans |-> NoKey]
    /\ u.out = Append(s.out, Pkt("NEWKEYS", 0, s.keys.trans, s.transseq))
    /\ u.transseq = IF s.strict_kex THEN 0 ELSE s.transseq + 1

LEMMA DoesReply ==
  ASSUME NEW s, DOMAIN s = Fields, s.sentkexinit, s.recvkexinit, ~s.recvnewkeys,
         s.kex_state = "KEXDH_INIT_SENT",
         NEW h, h = HashOf(s, s.pub), NEW u, u = recv_msg_kexdh_reply(s, h)
  PROVE  Verified(s, h, u)
  <1>1. PICK f : f = finish_kexhashbuf(s, s.pub)
    OBVIOUS
  <1>2. /\ Same(s, f, {"hash", "session_id"}) /\ f.hash = h
        /\ f.session_id = IF s.session_id = NoHash THEN h ELSE s.session_id
    BY <1>1, DoesFinish
  <1>3. PICK t : t = [f EXCEPT !.pub = 0]
    OBVIOUS
  <1>4. /\ Same(s, t, {"hash", "session_id", "pub"}) /\ t.hash = h /\ t.session_id = f.session_id
    BY <1>2, <1>3 DEF Same, Fields, Flags
  <1>5. /\ t.sentkexinit = s.sentkexinit /\ t.recvkexinit = s.recvkexinit /\ t.recvnewkeys = s.recvnewkeys
        /\ t.strict_kex = s.strict_kex /\ t.keys = s.keys /\ DOMAIN t = Fields
        /\ t.transseq = s.transseq /\ t.out = s.out
    BY <1>4 DEF Same, Fields, Flags
  <1>6. PICK b : b = send_msg_newkeys("client", t)
    OBVIOUS
  <1>7. /\ Same(t, b, {"out", "transseq", "sentnewkeys", "donefirstkex",
                       "donesecondkex", "dataallowed", "keys", "newkeys"})
        /\ b.out = Append(t.out, Pkt("NEWKEYS", 0, t.keys.trans, t.transseq))
        /\ b.transseq = IF t.strict_kex THEN 0 ELSE t.transseq + 1
        /\ b.sentnewkeys = TRUE /\ b.donefirstkex = TRUE /\ b.dataallowed = TRUE
        /\ b.keys = [recv |-> t.keys.recv, trans |-> <<t.hash, "c2s">>]
        /\ b.newkeys = [recv |-> <<t.hash, "s2c">>, trans |-> NoKey]
    <2>1. "client" \in End /\ Direction("client") = "c2s" /\ Direction(Peer("client")) = "s2c"
      BY DEF End, Direction, Peer
    <2> QED BY <1>5, <1>6, <2>1, DoesNewkeys
  <1>8. u = [b EXCEPT !.requirenext = "NEWKEYS"]
    BY <1>1, <1>3, <1>4, <1>6 DEF recv_msg_kexdh_reply
  <1>9. Same(b, u, {"requirenext"}) /\ u.requirenext = "NEWKEYS"
    BY <1>7, <1>8 DEF Same, Fields, Flags
  <1>10. /\ Same(s, u, {"hash", "session_id", "out", "transseq", "sentnewkeys", "donefirstkex",
                        "donesecondkex", "dataallowed", "keys", "newkeys", "pub", "requirenext"})
         /\ \A i \in {"out", "transseq", "sentnewkeys", "donefirstkex",
                        "dataallowed", "keys", "newkeys"} : u[i] = b[i]
         /\ u.hash = t.hash /\ u.session_id = t.session_id
    <2>1. Same(b, u, {"requirenext"})
      BY <1>9
    <2> QED BY <1>4, <1>7, <2>1 DEF Same, Fields, Flags
  <1> QED BY <1>2, <1>4, <1>5, <1>7, <1>9, <1>10 DEF Verified

-----------------------------------------------------------------------------
(* Both ends and both wires: c and s are the records of the client and of  *)
(* the server, x and y what they have written.                             *)

\* The exchanges that an end has behind it, and the places in either direction
\* that its record stands for.
Done(s) == IF s.sentkexinit THEN s.cookie - 1 ELSE s.cookie

ReadAt(e, s, a) ==
    4 * Done(s) + (IF ~s.recvkexinit THEN 0 ELSE IF s.sentnewkeys THEN 3
                   ELSE IF e = "server" /\ a # 1 /\ ~s.ignorenext THEN 2 ELSE 1)

SentAt(e, s, a) ==
    IF s.dataallowed THEN 4 * s.cookie
    ELSE 4 * (s.cookie - 1) + (IF e = "server" THEN 1 ELSE IF a = 1 \/ s.recvkexinit THEN 3 ELSE 2)

ReadMark(e, s, a) == Mark(ReadAt(e, s, a), s.recvseq, s.keys.recv)
SentMark(e, s, a) == Mark(SentAt(e, s, a), s.transseq, s.keys.trans)

\* What the record of an end says of itself.
Own(e, s, a) ==
    /\ s.cookie >= 1
    /\ s.strict_kex => s.strictname
    /\ s.recvkexinit \/ s.donefirstkex => (s.strict_kex <=> s.strictname)
    /\ s.donefirstkex <=> s.cookie > 1 \/ s.dataallowed
    /\ s.requirenext = "KEXINIT" <=> Done(s) = 0 /\ ~s.recvkexinit
    /\ s.requirenext = "KEXINIT" => s.recvseq = 0
    /\ s.recvkexinit => s.hash.cookies = <<s.cookie, s.cookie>>
    /\ InExchange(s) => s.algo_signature = SigAlgs[a]
    /\ ~s.recvkexinit => ~s.our_first_follows_matches
    /\ s.ignorenext => e = "server" /\ a # 1
    /\ e = "server" => s.requirenext # "KEXDH_REPLY"
    /\ s.donefirstkex /\ ~InExchange(s) => s.keys.trans = <<s.hash, Direction(e)>>
    /\ s.sentnewkeys => s.newkeys.recv = <<s.hash, Direction(Peer(e))>>
    /\ s.session_id = NoHash <=> ~s.donefirstkex
    /\ s.cookie = 1 /\ s.sentnewkeys => s.session_id = s.hash

\* What the two records say of one exchange.
Agree(c, s, a) ==
    /\ s.sentnewkeys /\ ~c.dataallowed /\ c.cookie = s.cookie =>
          s.hash = [cookies |-> <<s.cookie, s.cookie>>, pub |-> c.pub, sig |-> SigAlgs[a]]
    /\ c.sentnewkeys => c.hash = s.hash
    /\ s.sentnewkeys /\ (c.dataallowed \/ c.cookie > s.cookie) => c.hash = s.hash
    /\ c.donefirstkex => c.session_id = s.session_id

Tables(c, s, a) == c.sigalgs = SigAlgs /\ Table(s.sigalgs, a) /\ c.strictname = s.strictname

FromClient(c, s, x, a) ==
    Line("client", x, ReadMark("server", s, a), SentMark("client", c, a), a, c.pub, c.strictname)
FromServer(c, s, y, a) ==
    Line("server", y, ReadMark("client", c, a), SentMark("server", s, a), a, s.hash, c.strictname)

Both(c, s, x, y, a) ==
    /\ Own("client", c, a) /\ Own("server", s, a) /\ Agree(c, s, a) /\ Tables(c, s, a)
    /\ FromClient(c, s, x, a) /\ FromServer(c, s, y, a)

\* What KInv says of an end that has not given up.
Back(e, s) ==
    /\ IsSession(s) /\ ~s.exited /\ Phases(s) /\ ClientState(e, s) /\ s.out = <<>>
    /\ s.dataallowed => s.reply_queue = <<>>

LEMMA MarkFields ==
  ASSUME NEW at, NEW seq, NEW key
  PROVE  Mark(at, seq, key).at = at /\ Mark(at, seq, key).seq = seq /\ Mark(at, seq, key).key = key
  BY DEF Mark

\* The places of one end.
LEMMA Places ==
  ASSUME NEW e \in End, NEW s, NEW a, Back(e, s), Own(e, s, a)
  PROVE  /\ s.cookie \in Nat /\ ReadAt(e, s, a) \in Int /\ SentAt(e, s, a) \in Int
         /\ 4 * (s.cookie - 1) <= ReadAt(e, s, a) /\ ReadAt(e, s, a) <= 4 * s.cookie
         /\ SentAt(e, s, a) <= 4 * s.cookie /\ 4 * (s.cookie - 1) + 1 <= SentAt(e, s, a)
         /\ ~s.sentkexinit => /\ ReadAt(e, s, a) = 4 * s.cookie
                              /\ s.dataallowed /\ ~s.recvkexinit /\ ~s.sentnewkeys /\ s.donefirstkex
         /\ s.sentkexinit /\ ~s.recvkexinit => ReadAt(e, s, a) = 4 * (s.cookie - 1) /\ ~s.sentnewkeys
         /\ InExchange(s) =>
               /\ ReadAt(e, s, a) = 4 * (s.cookie - 1)
                       + (IF e = "server" /\ a # 1 /\ ~s.ignorenext THEN 2 ELSE 1)
               /\ ~s.dataallowed
         /\ s.sentnewkeys => /\ ReadAt(e, s, a) = 4 * (s.cookie - 1) + 3
                             /\ s.sentkexinit /\ s.recvkexinit /\ s.dataallowed /\ s.donefirstkex
         /\ s.dataallowed => SentAt(e, s, a) = 4 * s.cookie /\ 4 * s.cookie - 1 <= ReadAt(e, s, a)
         /\ ~s.dataallowed => /\ s.sentkexinit /\ ~s.sentnewkeys
                              /\ SentAt(e, s, a) = 4 * (s.cookie - 1) +
                                    (IF e = "server" THEN 1 ELSE IF a = 1 \/ s.recvkexinit THEN 3 ELSE 2)
  <1>1. s.cookie \in Nat /\ s.cookie >= 1
    BY DEF Back, IsSession, Own
  <1>2. Phases(s) /\ (s.donefirstkex <=> s.cookie > 1 \/ s.dataallowed)
    BY DEF Back, Own
  <1>3. PICK n \in Nat : n = s.cookie
    BY <1>1
  <1> QED BY <1>1, <1>2, <1>3 DEF Phases, InExchange, ReadAt, SentAt, Done

\* No end is behind what it has read, nor ahead of what the other has written.
LEMMA Order ==
  ASSUME NEW c, NEW s, NEW x \in Seq(Packet), NEW y \in Seq(Packet), NEW a, Both(c, s, x, y, a)
  PROVE  /\ ReadAt("server", s, a) <= SentAt("client", c, a)
         /\ ReadAt("client", c, a) <= SentAt("server", s, a)
  <1>1. /\ ReadMark("server", s, a).at = ReadAt("server", s, a)
        /\ ReadMark("client", c, a).at = ReadAt("client", c, a)
        /\ SentMark("server", s, a).at = SentAt("server", s, a)
        /\ SentMark("client", c, a).at = SentAt("client", c, a)
    BY DEF ReadMark, SentMark, Mark
  <1>2. ReadMark("server", s, a).at <= SentMark("client", c, a).at
    BY LineOrder DEF Both, FromClient
  <1>3. ReadMark("client", c, a).at <= SentMark("server", s, a).at
    BY LineOrder DEF Both, FromServer
  <1> QED BY <1>1, <1>2, <1>3

-----------------------------------------------------------------------------
(* The end of an iteration, field by field.                                *)

\* loophandler() sends a second KEXDH_INIT.
Loops(e, s) ==
    /\ e = "client" /\ s.lastpacket = "KEXINIT" /\ s.kex_state = "KEX_NOTHING"
    /\ ~s.our_first_follows_matches

\* Else it ends with the queue: t is the record then, and x the wire w with what
\* was written.
Flushed(s, t, w, x) ==
    \E y \in Seq(Packet) :
       /\ Same(s, t, {"out", "transseq", "reply_queue", "kex_state"})
       /\ t.transseq = s.transseq + Len(y) /\ x = (w \o s.out) \o y
       /\ \E q : FlushOf(y, q, s.keys.trans, s.transseq)
       /\ ~s.dataallowed \/ s.reply_queue = <<>> => y = <<>>

LEMMA DoesIterate ==
  ASSUME NEW e \in End, DOMAIN ses = End, NEW unread \in [End -> Seq(Packet)],
         NEW s, IsSession(s), ~s.exited, Iterated(e, s, unread)
  PROVE  /\ ses'[Peer(e)] = ses[Peer(e)] /\ wire'[Peer(e)] = unread[Peer(e)]
         /\ ~Loops(e, s) => Flushed(s, ses'[e], unread[e], wire'[e])
         /\ Loops(e, s) /\ ~s.dataallowed =>
               /\ Same(s, ses'[e], {"out", "transseq", "reply_queue", "kex_state", "pub", "pubs"})
               /\ ses'[e].transseq = s.transseq + 1 /\ ses'[e].pub = s.pubs + 1
               /\ wire'[e] = Append(unread[e] \o s.out,
                                    Pkt("KEXDH_INIT", s.pubs + 1, s.keys.trans, s.transseq))
  <1>1. PICK t, u : /\ t = maybe_flush_reply_queue(s) /\ u = loophandler(e, t)
                    /\ ses' = [ses EXCEPT ![e] = [u EXCEPT !.out = <<>>]]
                    /\ wire' = [unread EXCEPT ![e] = @ \o u.out]
    BY DEF Iterated
  <1>2. PICK w \in Seq(Packet) : w = unread[e]
    OBVIOUS
  <1>3. ses'[Peer(e)] = ses[Peer(e)] /\ ses'[e] = [u EXCEPT !.out = <<>>]
    BY <1>1, PeerFacts
  <1>4. wire'[Peer(e)] = unread[Peer(e)] /\ wire'[e] = w \o u.out
    BY <1>1, <1>2, PeerFacts
  <1>5. PICK y \in Seq(Packet) :
           /\ Same(s, t, {"out", "transseq", "reply_queue"}) /\ t.out = s.out \o y
           /\ t.transseq = s.transseq + Len(y)
           /\ \E q : FlushOf(y, q, s.keys.trans, s.transseq)
           /\ ~s.dataallowed \/ s.reply_queue = <<>> => y = <<>>
    BY <1>1, DoesFlush
  <1>6. /\ t.lastpacket = s.lastpacket /\ t.kex_state = s.kex_state /\ DOMAIN t = Fields
        /\ t.our_first_follows_matches = s.our_first_follows_matches
        /\ t.keys = s.keys /\ t.pubs = s.pubs
    BY <1>5 DEF Same, Fields, Flags
  <1>7. s.out \in Seq(Packet) /\ s.transseq \in Nat /\ s.keys.trans \in MaybeKey /\ s.pubs \in Nat
    BY DEF IsSession, Keys
  <1>8. ASSUME ~Loops(e, s)
        PROVE  /\ Same(s, ses'[e], {"out", "transseq", "reply_queue", "kex_state"})
               /\ ses'[e].transseq = s.transseq + Len(y)
               /\ wire'[e] = (unread[e] \o s.out) \o y
    <2>1. Same(t, u, {"kex_state"})
      BY <1>1, <1>6, <1>8, DoesLoop DEF Loops
    <2>2. u.out = s.out \o y /\ u.transseq = s.transseq + Len(y)
      BY <1>5, <2>1 DEF Same, Fields, Flags
    <2>3. Same(s, ses'[e], {"out", "transseq", "reply_queue", "kex_state"})
          /\ ses'[e].transseq = u.transseq
      BY <1>3, <1>5, <2>1 DEF Same, Fields, Flags
    <2>4. w \o (s.out \o y) = (w \o s.out) \o y
      BY <1>7, ConcatTwice
    <2> QED BY <1>2, <1>4, <2>2, <2>3, <2>4
  <1>10. ~Loops(e, s) => Flushed(s, ses'[e], unread[e], wire'[e])
    BY <1>5, <1>8 DEF Flushed
  <1>9. ASSUME Loops(e, s), ~s.dataallowed
        PROVE  /\ Same(s, ses'[e], {"out", "transseq", "reply_queue", "kex_state", "pub", "pubs"})
               /\ ses'[e].transseq = s.transseq + 1 /\ ses'[e].pub = s.pubs + 1
               /\ wire'[e] = Append(unread[e] \o s.out,
                                    Pkt("KEXDH_INIT", s.pubs + 1, s.keys.trans, s.transseq))
    <2>1. y = <<>> /\ Len(y) = 0
      BY <1>5, <1>9
    <2>2. t.out = s.out /\ t.transseq = s.transseq
      BY <1>5, <1>7, <2>1
    <2>3. /\ Same(t, u, {"out", "transseq", "pub", "pubs", "kex_state"})
          /\ u.out = Append(t.out, Pkt("KEXDH_INIT", t.pubs + 1, t.keys.trans, t.transseq))
          /\ u.transseq = t.transseq + 1 /\ u.pub = t.pubs + 1
      BY <1>1, <1>6, <1>9, DoesLoop DEF Loops
    <2>4. /\ Same(s, ses'[e], {"out", "transseq", "reply_queue", "kex_state", "pub", "pubs"})
          /\ ses'[e].transseq = u.transseq /\ ses'[e].pub = u.pub
      BY <1>3, <1>5, <2>3 DEF Same, Fields, Flags
    <2>5. PICK p \in Packet : p = Pkt("KEXDH_INIT", s.pubs + 1, s.keys.trans, s.transseq)
      <3>1. s.pubs + 1 \in Nat /\ "KEXDH_INIT" \in Plain
        BY <1>7 DEF Plain
      <3> QED BY <1>7, <3>1, PktIsPacket
    <2>6. w \o Append(s.out, p) = Append(w \o s.out, p)
      BY <1>7, ConcatAppend
    <2> QED BY <1>2, <1>4, <1>6, <2>2, <2>3, <2>4, <2>5, <2>6
  <1> QED BY <1>3, <1>4, <1>9, <1>10

LEMMA IterateQuiet ==
  ASSUME NEW e \in End, DOMAIN ses = End, NEW unread \in [End -> Seq(Packet)],
         NEW s, IsSession(s), ~s.exited, Iterated(e, s, unread), ~Loops(e, s),
         ~s.dataallowed \/ s.reply_queue = <<>>
  PROVE  /\ ses'[Peer(e)] = ses[Peer(e)] /\ wire'[Peer(e)] = unread[Peer(e)]
         /\ Same(s, ses'[e], {"out", "reply_queue", "kex_state"})
         /\ wire'[e] = unread[e] \o s.out
  <1>1. PICK t, x : t = ses'[e] /\ x = wire'[e]
    OBVIOUS
  <1>2. PICK w \in Seq(Packet) : w = unread[e]
    OBVIOUS
  <1>3. /\ ses'[Peer(e)] = ses[Peer(e)] /\ wire'[Peer(e)] = unread[Peer(e)]
        /\ Flushed(s, t, w, x)
    BY <1>1, <1>2, DoesIterate
  <1>4. PICK y \in Seq(Packet) :
           /\ Same(s, t, {"out", "transseq", "reply_queue", "kex_state"})
           /\ t.transseq = s.transseq + Len(y) /\ x = (w \o s.out) \o y
           /\ ~s.dataallowed \/ s.reply_queue = <<>> => y = <<>>
    BY <1>3 DEF Flushed
  <1>5. y = <<>> /\ Len(y) = 0 /\ s.transseq \in Nat /\ s.out \in Seq(Packet)
    BY <1>4 DEF IsSession
  <1>6. t.transseq = s.transseq
    BY <1>4, <1>5
  <1>7. Same(s, t, {"out", "reply_queue", "kex_state"})
    BY <1>4, <1>6 DEF Same
  <1>8. x = w \o s.out
    <2>1. (w \o s.out) \o <<>> = w \o s.out
      BY <1>5
    <2> QED BY <1>4, <1>5, <2>1
  <1> QED BY <1>1, <1>2, <1>3, <1>7, <1>8

-----------------------------------------------------------------------------
(* The invariant of the two ends, and the steps that keep it.              *)

TwoEnds ==
    /\ \A e \in End : ~ses[e].exited
    /\ \E a \in 1..Len(SigAlgs) : Both(ses["client"], ses["server"], wire["client"], wire["server"], a)

LEMMA BothBack ==
  ASSUME KInv, \A e \in End : ~ses[e].exited
  PROVE  /\ \A e \in End : Back(e, ses[e]) /\ wire[e] \in Seq(Packet)
         /\ DOMAIN ses = End /\ wire \in [End -> Seq(Packet)]
  <1>1. ASSUME NEW e \in End PROVE Back(e, ses[e]) /\ wire[e] \in Seq(Packet)
    <2>1. ~ses[e].exited /\ EndOK(e) /\ IsSession(ses[e])
      BY DEF KInv, Typed
    <2>2. wire[e] \in Seq(Packet)
      BY DEF KInv, Typed
    <2> QED BY <2>1, <2>2 DEF EndOK, Back
  <1> QED BY <1>1 DEF KInv, Typed

\* Fields that neither end's statements are about.
LEMMA OwnSame ==
  ASSUME NEW e \in End, NEW s, NEW t, NEW a,
         Same(s, t, {"out", "transseq", "reply_queue", "kex_state", "lastpacket", "pubs"})
  PROVE  /\ Own(e, s, a) => Own(e, t, a)
         /\ ReadMark(e, t, a) = ReadMark(e, s, a) /\ SentAt(e, t, a) = SentAt(e, s, a)
         /\ t.hash = s.hash /\ t.pub = s.pub /\ t.strictname = s.strictname
         /\ t.exited = s.exited /\ t.keys = s.keys /\ t.dataallowed = s.dataallowed
         /\ t.cookie = s.cookie
         /\ \A r : (Agree(s, r, a) => Agree(t, r, a)) /\ (Agree(r, s, a) => Agree(r, t, a))
         /\ \A r : (Tables(s, r, a) => Tables(t, r, a)) /\ (Tables(r, s, a) => Tables(r, t, a))
  <1>1. \A f \in {"sentkexinit", "recvkexinit", "sentnewkeys", "donefirstkex", "strict_kex", "strictname",
                  "our_first_follows_matches", "dataallowed", "ignorenext", "requirenext", "keys",
                  "newkeys", "recvseq", "cookie", "pub", "hash", "session_id", "algo_signature",
                  "sigalgs", "exited"} : t[f] = s[f]
    BY DEF Same, Fields, Flags
  <1>2. Own(e, s, a) => Own(e, t, a)
    BY <1>1 DEF Own, Done, InExchange
  <1>3. ReadMark(e, t, a) = ReadMark(e, s, a) /\ SentAt(e, t, a) = SentAt(e, s, a)
    BY <1>1 DEF ReadMark, ReadAt, SentAt, Done
  <1>4. ASSUME NEW r PROVE (Agree(s, r, a) => Agree(t, r, a)) /\ (Agree(r, s, a) => Agree(r, t, a))
    BY <1>1 DEF Agree
  <1>5. ASSUME NEW r PROVE (Tables(s, r, a) => Tables(t, r, a)) /\ (Tables(r, s, a) => Tables(r, t, a))
    BY <1>1 DEF Tables
  <1> QED BY <1>1, <1>2, <1>3, <1>4, <1>5

LEMMA DoesSendData ==
  ASSUME NEW e \in End, DOMAIN ses = End, wire \in [End -> Seq(Packet)], Back(e, ses[e]),
         NEW n \in Nat, Iterated(e, encrypt_packet(ses[e], "DATA", n), wire)
  PROVE  /\ ses'[Peer(e)] = ses[Peer(e)] /\ wire'[Peer(e)] = wire[Peer(e)]
         /\ Same(ses[e], ses'[e], {"out", "transseq", "reply_queue", "kex_state"})
         /\ \/ wire'[e] = wire[e] /\ ses'[e].transseq = ses[e].transseq
            \/ /\ ses[e].dataallowed /\ ses'[e].transseq = ses[e].transseq + 1
               /\ wire'[e] = Append(wire[e], Pkt("DATA", n, ses[e].keys.trans, ses[e].transseq))
  <1>1. PICK r, s : r = ses[e] /\ s = encrypt_packet(r, "DATA", n)
    OBVIOUS
  <1>2. /\ IsSession(r) /\ ~r.exited /\ r.out = <<>> /\ (r.dataallowed => r.reply_queue = <<>>)
        /\ DOMAIN r = Fields /\ r.transseq \in Nat /\ r.keys.trans \in MaybeKey /\ r.reply_queue \in Seq(Nat)
        /\ ~Loops(e, r)
    BY <1>1 DEF Back, IsSession, Keys, ClientState, Loops
  <1>3. PICK w \in Seq(Packet) : w = wire[e]
    OBVIOUS
  <1>4. PICK p \in Packet : p = Pkt("DATA", n, r.keys.trans, r.transseq)
    BY <1>2, PktIsPacket DEF Plain
  <1>5. CASE r.dataallowed
    <2>1. s = [r EXCEPT !.out = Append(@, p), !.transseq = @ + 1]
      BY <1>1, <1>4, <1>5 DEF encrypt_packet, Pkt
    <2>2. /\ Same(r, s, {"out", "transseq"}) /\ s.out = Append(<<>>, p) /\ s.transseq = r.transseq + 1
      BY <1>2, <2>1 DEF Same, Fields, Flags
    <2>3. IsSession(s)
      <3>1. s.out \in Seq(Packet) /\ s.transseq \in Nat
        BY <1>2, <2>2
      <3>2. \A f \in {"out", "transseq"} : s[f] \in TypeOf(f)
        BY <3>1, TypesOf
      <3> QED BY <1>2, <2>2, <3>2, SameType
    <2>4. ~s.exited /\ s.reply_queue = <<>> /\ ~Loops(e, s)
      BY <1>2, <1>5, <2>2 DEF Same, Fields, Flags, Loops
    <2>5. /\ ses'[Peer(e)] = ses[Peer(e)] /\ wire'[Peer(e)] = wire[Peer(e)]
          /\ Same(s, ses'[e], {"out", "reply_queue", "kex_state"}) /\ wire'[e] = wire[e] \o s.out
      BY <1>1, <2>3, <2>4, IterateQuiet
    <2>7. ses'[e].transseq = r.transseq + 1
      BY <2>2, <2>5 DEF Same, Fields, Flags
    <2>8. wire'[e] = Append(w, p)
      <3>1. wire'[e] = w \o Append(<<>>, p)
        BY <1>3, <2>2, <2>5
      <3> QED BY <3>1
    <2>9. Same(r, ses'[e], {"out", "transseq", "reply_queue", "kex_state"})
      BY <2>2, <2>5 DEF Same
    <2> QED BY <1>1, <1>3, <1>4, <1>5, <2>5, <2>7, <2>8, <2>9
  <1>6. CASE ~r.dataallowed
    <2>1. s = [r EXCEPT !.reply_queue = Append(@, n)]
      BY <1>1, <1>6 DEF encrypt_packet, packet_is_okay_kex
    <2>2. /\ Same(r, s, {"reply_queue"}) /\ s.reply_queue = Append(r.reply_queue, n)
      BY <1>2, <2>1 DEF Same, Fields, Flags
    <2>3. IsSession(s)
      <3>1. s.reply_queue \in Seq(Nat)
        BY <1>2, <2>2
      <3>2. \A f \in {"reply_queue"} : s[f] \in TypeOf(f)
        BY <3>1, TypesOf
      <3> QED BY <1>2, <2>2, <3>2, SameType
    <2>4. ~s.exited /\ ~s.dataallowed /\ ~Loops(e, s) /\ s.out = <<>> /\ s.transseq = r.transseq
      BY <1>2, <1>6, <2>2 DEF Same, Fields, Flags, Loops
    <2>5. /\ ses'[Peer(e)] = ses[Peer(e)] /\ wire'[Peer(e)] = wire[Peer(e)]
          /\ Same(s, ses'[e], {"out", "reply_queue", "kex_state"}) /\ wire'[e] = wire[e] \o s.out
      BY <1>1, <2>3, <2>4, IterateQuiet
    <2>7. ses'[e].transseq = r.transseq
      BY <2>2, <2>5 DEF Same, Fields, Flags
    <2>8. wire'[e] = w
      <3>1. wire'[e] = w \o <<>>
        BY <1>3, <2>4, <2>5
      <3> QED BY <3>1
    <2>9. Same(r, ses'[e], {"out", "transseq", "reply_queue", "kex_state"})
      BY <2>2, <2>5 DEF Same
    <2> QED BY <1>1, <1>3, <2>5, <2>7, <2>8, <2>9
  <1> QED BY <1>5, <1>6

LEMMA SendDataTwo ==
  ASSUME KInv, TwoEnds, NEW e \in End, SendData(e)
  PROVE  TwoEnds'
  <1>1. PICK a \in 1..Len(SigAlgs) :
           Both(ses["client"], ses["server"], wire["client"], wire["server"], a)
    BY DEF TwoEnds
  <1>2. /\ \A d \in End : Back(d, ses[d]) /\ wire[d] \in Seq(Packet)
        /\ DOMAIN ses = End /\ wire \in [End -> Seq(Packet)]
    BY BothBack DEF TwoEnds
  <1>3. PICK n \in Nat : Iterated(e, encrypt_packet(ses[e], "DATA", n), wire)
    <2>1. Len(sent[e]) + 1 \in Nat
      BY DEF KInv, Typed
    <2> QED BY <2>1 DEF SendData
  <1>0. PICK w \in Seq(Packet) : w = wire[e]
    BY <1>2
  <1>4. PICK r, t, p :
           /\ r = ses[e] /\ t = ses'[e] /\ p = Pkt("DATA", n, r.keys.trans, r.transseq)
           /\ w = wire[e]
    BY <1>0
  <1>5. /\ ses'[Peer(e)] = ses[Peer(e)] /\ wire'[Peer(e)] = wire[Peer(e)]
        /\ Same(r, t, {"out", "transseq", "reply_queue", "kex_state"})
        /\ \/ wire'[e] = w /\ t.transseq = r.transseq
           \/ /\ r.dataallowed /\ t.transseq = r.transseq + 1
              /\ wire'[e] = Append(w, p)
    BY <1>2, <1>3, <1>4, DoesSendData
  <1>6. Same(r, t, {"out", "transseq", "reply_queue", "kex_state", "lastpacket", "pubs"})
    BY <1>5 DEF Same
  <1>7. /\ Own(e, r, a) => Own(e, t, a)
        /\ ReadMark(e, t, a) = ReadMark(e, r, a) /\ SentAt(e, t, a) = SentAt(e, r, a)
        /\ t.hash = r.hash /\ t.pub = r.pub /\ t.strictname = r.strictname
        /\ t.exited = r.exited /\ t.keys = r.keys
        /\ \A o : (Agree(r, o, a) => Agree(t, o, a)) /\ (Agree(o, r, a) => Agree(o, t, a))
        /\ \A o : (Tables(r, o, a) => Tables(t, o, a)) /\ (Tables(o, r, a) => Tables(o, t, a))
    BY <1>6, OwnSame
  <1>8. ASSUME NEW v, NEW b, NEW strict, Own(e, r, a), Line(e, w, v, SentMark(e, r, a), a, b, strict)
        PROVE  Line(e, wire'[e], v, SentMark(e, t, a), a, b, strict)
    <2>1. CASE wire'[e] = w /\ t.transseq = r.transseq
      BY <1>7, <1>8, <2>1 DEF SentMark
    <2>2. CASE r.dataallowed /\ t.transseq = r.transseq + 1 /\ wire'[e] = Append(w, p)
      <3>1. PICK z : z = SentMark(e, r, a)
        OBVIOUS
      <3>2. /\ z.at = 4 * r.cookie /\ z.seq = r.transseq /\ z.key = r.keys.trans
            /\ r.cookie \in Nat /\ r.cookie >= 1
        <4>1. SentAt(e, r, a) = 4 * r.cookie /\ r.cookie \in Nat /\ r.cookie >= 1
          <5>1. Back(e, r)
            BY <1>2, <1>4
          <5>2. r.cookie >= 1
            BY <1>8 DEF Own
          <5> QED BY <1>8, <2>2, <5>1, <5>2, Places
        <4> QED BY <3>1, <4>1 DEF SentMark, Mark
      <3>3. p.type = "DATA" /\ p.key = z.key /\ p.seq = z.seq /\ p \in Packet
        <4>1. r.keys.trans \in MaybeKey /\ r.transseq \in Nat
          BY <1>2, <1>4 DEF Back, IsSession, Keys
        <4> QED BY <1>4, <3>2, <4>1, PktFields, PktIsPacket DEF Plain
      <3>4. Fits(z.at, p, z.at, a, b)
        BY <3>2, <3>3 DEF Fits
      <3>5. Says(e, p, a, strict)
        BY <3>3 DEF Says
      <3>6. Line(e, Append(w, p), v, Mark(z.at, z.seq + 1, z.key), a, b, strict)
        BY <1>8, <3>1, <3>3, <3>4, <3>5, LineAppend
      <3>7. Mark(z.at, z.seq + 1, z.key) = SentMark(e, t, a)
        BY <1>7, <2>2, <3>1, <3>2 DEF SentMark, Mark
      <3> QED BY <2>2, <3>6, <3>7
    <2> QED BY <1>5, <2>1, <2>2
  <1>9. \A d \in End : ~ses'[d].exited
    <2>1. ~r.exited /\ ~ses[Peer(e)].exited
      BY <1>2, <1>4, PeerFacts DEF Back
    <2> QED BY <1>4, <1>5, <1>7, <2>1, PeerFacts
  <1>10. Both(ses'["client"], ses'["server"], wire'["client"], wire'["server"], a)
    <2>1. CASE e = "client"
      <3>1. ses'["server"] = ses["server"] /\ wire'["server"] = wire["server"] /\ t = ses'["client"]
            /\ r = ses["client"] /\ w = wire["client"]
        BY <1>4, <1>5, <2>1 DEF Peer
      <3>2. PICK s : s = ses["server"]
        OBVIOUS
      <3>3. Both(r, s, w, wire["server"], a)
        BY <1>1, <3>1, <3>2
      <3>4. FromClient(t, s, wire'["client"], a)
        BY <1>7, <1>8, <2>1, <3>3 DEF Both, FromClient
      <3>5. FromServer(t, s, wire["server"], a)
        BY <1>7, <2>1, <3>3 DEF Both, FromServer
      <3>6. Both(t, s, wire'["client"], wire["server"], a)
        BY <1>7, <2>1, <3>3, <3>4, <3>5 DEF Both
      <3> QED BY <3>1, <3>2, <3>6
    <2>2. CASE e = "server"
      <3>1. ses'["client"] = ses["client"] /\ wire'["client"] = wire["client"] /\ t = ses'["server"]
            /\ r = ses["server"] /\ w = wire["server"]
        BY <1>4, <1>5, <2>2 DEF Peer
      <3>2. PICK c : c = ses["client"]
        OBVIOUS
      <3>3. Both(c, r, wire["client"], w, a)
        BY <1>1, <3>1, <3>2
      <3>4. FromServer(c, t, wire'["server"], a)
        BY <1>7, <1>8, <2>2, <3>3 DEF Both, FromServer
      <3>5. FromClient(c, t, wire["client"], a)
        BY <1>7, <2>2, <3>3 DEF Both, FromClient
      <3>6. Both(c, t, wire["client"], wire'["server"], a)
        BY <1>7, <2>2, <3>3, <3>4, <3>5 DEF Both
      <3> QED BY <3>1, <3>2, <3>6
    <2> QED BY <2>1, <2>2 DEF End
  <1> QED BY <1>9, <1>10 DEF TwoEnds

\* An end that has nothing left to read of its exchanges: the other end has
\* read at least everything of them but the last NEWKEYS.
LEMMA Near ==
  ASSUME NEW e \in End, NEW r, NEW o, NEW a, Back(e, r), Back(Peer(e), o),
         Own(e, r, a), Own(Peer(e), o, a), ReadAt(e, r, a) <= SentAt(Peer(e), o, a)
  PROVE  /\ r.cookie - 1 <= o.cookie /\ 4 * (r.cookie - 1) - 1 <= ReadAt(Peer(e), o, a)
         /\ r.recvkexinit \/ ~r.sentkexinit =>
               r.cookie <= o.cookie /\ 4 * (r.cookie - 1) <= ReadAt(Peer(e), o, a)
         /\ ~r.sentkexinit => 4 * r.cookie - 1 <= ReadAt(Peer(e), o, a)
  <1>1. Peer(e) \in End
    BY PeerFacts
  <1>2. PICK n \in Nat, m \in Nat : n = r.cookie /\ m = o.cookie /\ n >= 1 /\ m >= 1
    BY DEF Back, IsSession, Own
  <1>3. PICK i \in Int, j \in Int, k \in Int :
           i = ReadAt(e, r, a) /\ j = SentAt(Peer(e), o, a) /\ k = ReadAt(Peer(e), o, a)
    BY <1>1, Places
  <1>4. /\ 4 * (n - 1) <= i
        /\ ~r.sentkexinit => i = 4 * n
        /\ r.recvkexinit /\ r.sentkexinit => 4 * (n - 1) + 1 <= i
    <2>1. 4 * (n - 1) <= i /\ (~r.sentkexinit => i = 4 * n)
      BY <1>2, <1>3, Places
    <2>2. InExchange(r) => 4 * (n - 1) + 1 <= i
      BY <1>2, <1>3, Places
    <2>3. r.sentnewkeys => 4 * (n - 1) + 1 <= i
      BY <1>2, <1>3, Places
    <2> QED BY <2>1, <2>2, <2>3 DEF InExchange
  <1>5. /\ j <= 4 * m /\ 4 * (m - 1) <= k
        /\ o.dataallowed => 4 * m - 1 <= k
        /\ ~o.dataallowed => j <= 4 * m - 1
    <2>1. j <= 4 * m /\ 4 * (m - 1) <= k /\ (o.dataallowed => 4 * m - 1 <= k)
      BY <1>1, <1>2, <1>3, Places
    <2>2. ~o.dataallowed => j = 4 * (m - 1) +
              (IF Peer(e) = "server" THEN 1 ELSE IF a = 1 \/ o.recvkexinit THEN 3 ELSE 2)
      BY <1>1, <1>2, <1>3, Places
    <2>3. ~o.dataallowed => j <= 4 * m - 1
      BY <2>2
    <2> QED BY <2>1, <2>3
  <1>6. i <= j
    BY <1>3
  <1>7. r.recvkexinit => r.sentkexinit
    BY DEF Back, Phases
  <1>8. /\ n - 1 <= m /\ 4 * (n - 1) - 1 <= k
        /\ r.recvkexinit \/ ~r.sentkexinit => n <= m /\ 4 * (n - 1) <= k
        /\ ~r.sentkexinit => 4 * n - 1 <= k
    BY <1>4, <1>5, <1>6, <1>7
  <1> QED BY <1>2, <1>3, <1>8

\* The KEXINIT of an end, and of the client its guess.
LEMMA LineKexinit ==
  ASSUME NEW e \in End, NEW r, IsSession(r), r.dataallowed, r.out = <<>>,
         NEW w \in Seq(Packet), NEW v, NEW a, NEW b, NEW d, NEW k \in Nat, k = r.cookie,
         Line(e, w, v, SentMark(e, r, a), a, b, r.strictname), 4 * k - 1 <= v.at,
         e = "client" => r.sigalgs = SigAlgs, e = "server" => Table(r.sigalgs, a),
         e = "client" /\ a = 1 => d = r.pubs + 1
  PROVE  /\ KexinitOut(e, r) \in Seq(Packet)
         /\ Line(e, w \o KexinitOut(e, r), v,
              Mark(4 * k + (IF e = "server" THEN 1 ELSE IF a = 1 THEN 3 ELSE 2),
                   r.transseq + (IF e = "client" THEN 2 ELSE 1), r.keys.trans), a, d, r.strictname)
  <1>1. /\ r.transseq \in Nat /\ r.keys.trans \in MaybeKey /\ r.pubs \in Nat /\ r.strictname \in BOOLEAN
        /\ r.sigalgs \in Seq(Name)
    BY DEF IsSession, Flags, Keys
  <1>2. PICK z : z = SentMark(e, r, a)
    OBVIOUS
  <1>3. z.at = 4 * k /\ z.seq = r.transseq /\ z.key = r.keys.trans
    BY <1>2 DEF SentMark, SentAt, Mark
  <1>4. Line(e, w, v, z, a, d, r.strictname)
    <2>1. k \in Int /\ z.at <= 4 * k + 2
      BY <1>3
    <2> QED BY <1>2, <2>1, LineBody
  <1>5. PICK m \in KexInit : m = Offer(e, r)
    <2>1. buf_put_algolist(r.sigalgs) \in List
      BY <1>1 DEF List
    <2>2. k + 1 \in Nat /\ (e = "client") \in BOOLEAN
      OBVIOUS
    <2> QED BY <1>1, <2>1, <2>2 DEF Offer, KexInit
  <1>6. PICK p \in Packet : p = Pkt("KEXINIT", m, z.key, z.seq)
    BY <1>1, <1>3, <1>5, PktIsPacket
  <1>7. p.type = "KEXINIT" /\ p.body = m /\ p.key = z.key /\ p.seq = z.seq
    BY <1>6, PktFields
  <1>8. /\ m.cookie = k + 1 /\ m.strict = r.strictname /\ m.follows = (e = "client")
        /\ m.sigalgs = buf_put_algolist(r.sigalgs)
    BY <1>5 DEF Offer
  <1>9. Says(e, p, a, r.strictname)
    BY <1>7, <1>8 DEF Says
  <1>10. Fits(z.at, p, 4 * k + 1, a, d)
    BY <1>3, <1>7, <1>8 DEF Fits
  <1>11. PICK z1 : z1 = Mark(4 * k + 1, z.seq + 1, z.key)
    OBVIOUS
  <1>12. z1.at = 4 * k + 1 /\ z1.seq = r.transseq + 1 /\ z1.key = r.keys.trans
    BY <1>3, <1>11, MarkFields
  <1>13. PICK w1 \in Seq(Packet) : w1 = Append(w, p)
    BY AppendProperties
  <1>14. Line(e, w1, v, z1, a, d, r.strictname)
    BY <1>4, <1>7, <1>9, <1>10, <1>11, <1>13, LineAppend
  <1>15. CASE e = "server"
    <2>1. KexinitOut(e, r) = Append(<<>>, p)
      BY <1>3, <1>5, <1>6, <1>15 DEF KexinitOut
    <2>2. KexinitOut(e, r) \in Seq(Packet) /\ w \o KexinitOut(e, r) = w1
      BY <1>13, <2>1
    <2>3. z1 = Mark(4 * k + (IF e = "server" THEN 1 ELSE IF a = 1 THEN 3 ELSE 2),
                   r.transseq + (IF e = "client" THEN 2 ELSE 1), r.keys.trans)
      BY <1>3, <1>11, <1>15
    <2> QED BY <1>14, <2>2, <2>3
  <1>16. CASE e = "client"
    <2>1. PICK q \in Packet : q = Pkt("KEXDH_INIT", r.pubs + 1, r.keys.trans, r.transseq + 1)
      <3>1. r.pubs + 1 \in Nat /\ r.transseq + 1 \in Nat /\ "KEXDH_INIT" \in Plain
        BY <1>1 DEF Plain
      <3> QED BY <1>1, <3>1, PktIsPacket
    <2>2. q.type = "KEXDH_INIT" /\ q.body = r.pubs + 1 /\ q.key = z1.key /\ q.seq = z1.seq
      BY <1>12, <2>1, PktFields
    <2>3. PICK n \in Int : n = 4 * k + (IF a = 1 THEN 3 ELSE 2)
      OBVIOUS
    <2>4. Fits(z1.at, q, n, a, d)
      BY <1>12, <1>16, <2>2, <2>3 DEF Fits
    <2>5. Says(e, q, a, r.strictname)
      BY <1>16, <2>2 DEF Says
    <2>6. Line(e, Append(w1, q), v, Mark(n, z1.seq + 1, z1.key), a, d, r.strictname)
      BY <1>14, <2>2, <2>4, <2>5, LineAppend
    <2>7. KexinitOut(e, r) = Append(Append(<<>>, p), q)
      BY <1>3, <1>5, <1>6, <1>16, <2>1 DEF KexinitOut
    <2>8. KexinitOut(e, r) \in Seq(Packet) /\ w \o KexinitOut(e, r) = Append(w1, q)
      <3>0. Append(<<>>, p) \in Seq(Packet) /\ w \o Append(<<>>, p) = w1
        BY <1>13
      <3>1. PICK o \in Seq(Packet) : o = Append(<<>>, p) /\ w \o o = w1
        BY <3>0
      <3>2. w \o Append(o, q) = Append(w \o o, q) /\ Append(o, q) \in Seq(Packet)
        BY ConcatAppend, SMTT(30)
      <3> QED BY <2>7, <3>1, <3>2
    <2>9. Mark(n, z1.seq + 1, z1.key) =
            Mark(4 * k + (IF e = "server" THEN 1 ELSE IF a = 1 THEN 3 ELSE 2),
                   r.transseq + (IF e = "client" THEN 2 ELSE 1), r.keys.trans)
      <3>1. z1.seq + 1 = r.transseq + 2
        BY <1>1, <1>12
      <3> QED BY <1>12, <1>16, <2>3, <3>1
    <2> QED BY <2>6, <2>8, <2>9
  <1> QED BY <1>15, <1>16 DEF End

\* The record of an end that starts an exchange.
Starts(e, r, t) ==
    /\ Same(r, t, {"out", "transseq", "pub", "pubs", "cookie", "dataallowed", "sentkexinit",
                   "newkeys", "reply_queue", "kex_state"})
    /\ t.cookie = r.cookie + 1 /\ t.sentkexinit = TRUE /\ t.dataallowed = FALSE
    /\ t.transseq = r.transseq + (IF e = "client" THEN 2 ELSE 1)
    /\ t.pub = IF e = "client" THEN r.pubs + 1 ELSE r.pub

LEMMA DoesRekey ==
  ASSUME KInv, NEW e \in End, Rekey(e), Back(e, ses[e])
  PROVE  /\ ses'[Peer(e)] = ses[Peer(e)] /\ wire'[Peer(e)] = wire[Peer(e)]
         /\ Starts(e, ses[e], ses'[e]) /\ wire'[e] = wire[e] \o KexinitOut(e, ses[e])
         /\ ~ses[e].sentkexinit
  <1>0. DOMAIN ses = End /\ wire \in [End -> Seq(Packet)]
    BY DEF KInv, Typed
  <1>1. PICK r, s : r = ses[e] /\ s = send_msg_kexinit(e, r)
    OBVIOUS
  <1>2. ~r.sentkexinit /\ Iterated(e, s, wire) /\ ~ses[e].exited
    BY <1>1 DEF Rekey
  <1>3. /\ r.dataallowed /\ ~r.recvkexinit /\ IsSession(r) /\ r.out = <<>> /\ DOMAIN r = Fields
        /\ r.transseq \in Nat /\ ~r.exited
    BY <1>1, <1>2 DEF Back, Phases, IsSession
  <1>4. PICK n \in Nat, g \in Nat, b \in BOOLEAN, c \in Int : Stream(wire[e], ses[e], n, g, b, c)
    <2>1. PICK n \in Nat, g \in Nat, b \in BOOLEAN : n = Len(sent[e]) /\ g = Len(got[e]) /\ b = ~ses[Peer(e)].exited
      BY <1>2, StartFacts
    <2>2. Known(e) \in Int /\ Stream(wire[e], ses[e], n, g, b, Known(e))
      BY <2>1, StartStream
    <2> QED BY <2>2
  <1>5. IsSession(s)
    BY <1>0, <1>1, <1>3, <1>4, SendKexinit
  <1>6. /\ Same(r, s, {"out", "transseq", "pub", "pubs", "cookie", "dataallowed", "sentkexinit", "newkeys"})
        /\ s.out = KexinitOut(e, r) /\ s.transseq = r.transseq + (IF e = "client" THEN 2 ELSE 1)
        /\ s.cookie = r.cookie + 1 /\ s.sentkexinit = TRUE /\ s.dataallowed = FALSE
        /\ s.pub = IF e = "client" THEN r.pubs + 1 ELSE r.pub
    BY <1>1, <1>3, DoesKexinit
  <1>7. ~s.exited /\ ~Loops(e, s) /\ ~s.dataallowed
    <2>1. ~Loops(e, r)
      BY <1>1, <1>3 DEF Back, ClientState, InExchange, Loops
    <2>2. s.exited = r.exited /\ s.lastpacket = r.lastpacket /\ s.kex_state = r.kex_state
          /\ s.our_first_follows_matches = r.our_first_follows_matches
      BY <1>6 DEF Same, Fields, Flags
    <2> QED BY <1>3, <1>6, <2>1, <2>2 DEF Loops
  <1>8. /\ ses'[Peer(e)] = ses[Peer(e)] /\ wire'[Peer(e)] = wire[Peer(e)]
        /\ Same(s, ses'[e], {"out", "reply_queue", "kex_state"}) /\ wire'[e] = wire[e] \o s.out
    BY <1>0, <1>2, <1>5, <1>7, IterateQuiet
  <1>9. PICK t : t = ses'[e]
    OBVIOUS
  <1>10. Starts(e, r, t)
    <2>1. Same(r, t, {"out", "transseq", "pub", "pubs", "cookie", "dataallowed", "sentkexinit",
                      "newkeys", "reply_queue", "kex_state"})
      BY <1>6, <1>8, <1>9 DEF Same
    <2>2. \A f \in {"transseq", "cookie", "sentkexinit", "dataallowed", "pub"} : t[f] = s[f]
      BY <1>8, <1>9 DEF Same, Fields, Flags
    <2> QED BY <1>6, <2>1, <2>2 DEF Starts
  <1> QED BY <1>1, <1>2, <1>6, <1>8, <1>9, <1>10

LEMMA RekeyOwn ==
  ASSUME NEW e \in End, NEW r, NEW t, NEW a, Back(e, r), Own(e, r, a), ~r.sentkexinit, Starts(e, r, t)
  PROVE  /\ Own(e, t, a) /\ ReadMark(e, t, a) = ReadMark(e, r, a) /\ ~t.exited
         /\ SentAt(e, t, a) = 4 * r.cookie + (IF e = "server" THEN 1 ELSE IF a = 1 THEN 3 ELSE 2)
         /\ t.keys = r.keys /\ t.strictname = r.strictname /\ t.sigalgs = r.sigalgs /\ t.hash = r.hash
         /\ t.session_id = r.session_id /\ t.donefirstkex = r.donefirstkex /\ t.sentnewkeys = r.sentnewkeys
         /\ t.transseq = r.transseq + (IF e = "client" THEN 2 ELSE 1) /\ r.cookie \in Nat
  <1>1. \A f \in {"recvkexinit", "sentnewkeys", "donefirstkex", "strict_kex", "strictname",
                  "our_first_follows_matches", "ignorenext", "requirenext", "keys",
                  "recvseq", "hash", "session_id", "algo_signature",
                  "sigalgs", "exited"} : t[f] = r[f]
    BY DEF Starts, Same, Fields, Flags
  <1>2. t.cookie = r.cookie + 1 /\ t.sentkexinit = TRUE /\ t.dataallowed = FALSE
        /\ t.transseq = r.transseq + (IF e = "client" THEN 2 ELSE 1)
    BY DEF Starts
  <1>3. /\ r.cookie \in Nat /\ r.cookie >= 1 /\ ~r.recvkexinit /\ ~r.sentnewkeys /\ r.donefirstkex
        /\ r.dataallowed /\ ~r.exited
    <2>1. r.cookie \in Nat /\ ~r.recvkexinit /\ ~r.sentnewkeys /\ r.donefirstkex /\ r.dataallowed
      BY Places
    <2> QED BY <2>1 DEF Own, Back
  <1>4. PICK n \in Nat : n = r.cookie
    BY <1>3
  <1>5. Done(t) = n /\ Done(r) = n /\ t.cookie = n + 1 /\ n >= 1
    BY <1>2, <1>3, <1>4 DEF Done
  <1>6. Own(e, t, a)
    BY <1>1, <1>2, <1>3, <1>4, <1>5 DEF Own, InExchange
  <1>7. ReadMark(e, t, a) = ReadMark(e, r, a)
    BY <1>1, <1>3, <1>5 DEF ReadMark, ReadAt
  <1>8. SentAt(e, t, a) = 4 * r.cookie + (IF e = "server" THEN 1 ELSE IF a = 1 THEN 3 ELSE 2)
    BY <1>1, <1>2, <1>3, <1>4, <1>5 DEF SentAt
  <1> QED BY <1>1, <1>2, <1>3, <1>6, <1>7, <1>8

LEMMA RekeyTwo ==
  ASSUME KInv, TwoEnds, NEW e \in End, Rekey(e)
  PROVE  TwoEnds'
  <1>1. PICK a \in 1..Len(SigAlgs) :
           Both(ses["client"], ses["server"], wire["client"], wire["server"], a)
    BY DEF TwoEnds
  <1>2. /\ \A d \in End : Back(d, ses[d]) /\ wire[d] \in Seq(Packet)
        /\ DOMAIN ses = End /\ wire \in [End -> Seq(Packet)]
    BY BothBack DEF TwoEnds
  <1>3. /\ ses'[Peer(e)] = ses[Peer(e)] /\ wire'[Peer(e)] = wire[Peer(e)]
        /\ Starts(e, ses[e], ses'[e]) /\ wire'[e] = wire[e] \o KexinitOut(e, ses[e])
        /\ ~ses[e].sentkexinit
    BY <1>2, DoesRekey
  <1>4. PICK c, s : c = ses["client"] /\ s = ses["server"]
    OBVIOUS
  <1>5. PICK x \in Seq(Packet), y \in Seq(Packet) : x = wire["client"] /\ y = wire["server"]
    BY <1>2 DEF End
  <1>6. /\ Both(c, s, x, y, a) /\ Back("client", c) /\ Back("server", s)
        /\ Own("client", c, a) /\ Own("server", s, a) /\ Agree(c, s, a) /\ Tables(c, s, a)
        /\ FromClient(c, s, x, a) /\ FromServer(c, s, y, a)
    BY <1>1, <1>2, <1>4, <1>5 DEF End, Both
  <1>7. /\ ReadAt("server", s, a) <= SentAt("client", c, a)
        /\ ReadAt("client", c, a) <= SentAt("server", s, a)
    BY <1>6, Order
  <1>8. "client" \in End /\ "server" \in End /\ Peer("client") = "server" /\ Peer("server") = "client"
    BY DEF End, Peer
  <1>9. CASE e = "client"
    <2>1. PICK t : t = ses'["client"]
      OBVIOUS
    <2>2. /\ ses'["server"] = s /\ wire'["server"] = y /\ Starts(e, c, t)
          /\ wire'["client"] = x \o KexinitOut(e, c) /\ ~c.sentkexinit
      BY <1>3, <1>4, <1>5, <1>8, <1>9, <2>1
    <2>3. /\ Own(e, t, a) /\ ReadMark(e, t, a) = ReadMark(e, c, a) /\ ~t.exited
          /\ SentAt(e, t, a) = 4 * c.cookie + (IF e = "server" THEN 1 ELSE IF a = 1 THEN 3 ELSE 2)
          /\ t.keys = c.keys /\ t.strictname = c.strictname /\ t.sigalgs = c.sigalgs /\ t.hash = c.hash
          /\ t.session_id = c.session_id /\ t.donefirstkex = c.donefirstkex /\ t.sentnewkeys = c.sentnewkeys
          /\ t.transseq = c.transseq + (IF e = "client" THEN 2 ELSE 1) /\ c.cookie \in Nat
      BY <1>6, <1>8, <1>9, <2>2, RekeyOwn
    <2>4. t.cookie = c.cookie + 1 /\ t.dataallowed = FALSE /\ t.pub = c.pubs + 1
      BY <1>9, <2>2 DEF Starts
    <2>5. 4 * c.cookie - 1 <= ReadAt("server", s, a)
      BY <1>6, <1>7, <1>8, <2>2, Near
    <2>6. IsSession(c) /\ c.dataallowed /\ c.out = <<>> /\ ~c.sentnewkeys
      BY <1>6, <1>8, <2>2, Places DEF Back
    <2>7. FromClient(t, s, wire'["client"], a)
      <3>0. ReadMark("server", s, a).at = ReadAt("server", s, a)
        BY MarkFields DEF ReadMark
      <3>1. PICK v, z : /\ v = ReadMark("server", s, a) /\ v.at = ReadAt("server", s, a)
                        /\ z = Mark(4 * c.cookie + (IF e = "server" THEN 1 ELSE IF a = 1 THEN 3 ELSE 2),
                                    c.transseq + (IF e = "client" THEN 2 ELSE 1), c.keys.trans)
        BY <3>0
      <3>2. Line(e, x \o KexinitOut(e, c), v, z, a, t.pub, c.strictname)
        <4>1. Line(e, x, v, SentMark(e, c, a), a, c.pub, c.strictname)
          BY <1>6, <1>9, <3>1 DEF FromClient
        <4>2. c.sigalgs = SigAlgs
          BY <1>6 DEF Tables
        <4> QED BY <1>9, <2>3, <2>4, <2>5, <2>6, <3>1, <4>1, <4>2, LineKexinit, ZenonT(60)
      <3>3. z = SentMark("client", t, a)
        BY <1>9, <2>3, <3>1 DEF SentMark
      <3> QED BY <1>9, <2>2, <2>3, <3>1, <3>2, <3>3 DEF FromClient
    <2>8. FromServer(t, s, y, a)
      BY <1>6, <1>9, <2>3 DEF FromServer
    <2>9. Agree(t, s, a)
      <3>1. PICK n \in Nat, m \in Nat : n = c.cookie /\ m = s.cookie
        BY <1>6, <1>8, Places
      <3>2. s.sentnewkeys => m # n + 1
        <4>1. s.sentnewkeys => ReadAt("server", s, a) = 4 * (m - 1) + 3
          BY <1>6, <1>8, <3>1, Places
        <4>2. SentAt("client", c, a) = 4 * n
          BY <2>6, <3>1 DEF SentAt
        <4> QED BY <1>7, <4>1, <4>2
      <3>3. t.cookie = n + 1
        BY <2>4, <3>1
      <3>4. s.sentnewkeys => c.hash = s.hash
        BY <1>6, <2>6 DEF Agree
      <3>5. c.donefirstkex => c.session_id = s.session_id
        BY <1>6 DEF Agree
      <3> QED BY <2>3, <2>4, <2>6, <3>1, <3>2, <3>3, <3>4, <3>5 DEF Agree
    <2>10. Tables(t, s, a)
      BY <1>6, <2>3 DEF Tables
    <2>11. Both(t, s, wire'["client"], y, a)
      BY <1>6, <1>9, <2>3, <2>7, <2>8, <2>9, <2>10 DEF Both
    <2>12. \A d \in End : ~ses'[d].exited
      BY <1>6, <2>1, <2>2, <2>3 DEF End, Back
    <2> QED BY <2>1, <2>2, <2>11, <2>12 DEF TwoEnds
  <1>10. CASE e = "server"
    <2>1. PICK t : t = ses'["server"]
      OBVIOUS
    <2>2. /\ ses'["client"] = c /\ wire'["client"] = x /\ Starts(e, s, t)
          /\ wire'["server"] = y \o KexinitOut(e, s) /\ ~s.sentkexinit
      BY <1>3, <1>4, <1>5, <1>8, <1>10, <2>1
    <2>3. /\ Own(e, t, a) /\ ReadMark(e, t, a) = ReadMark(e, s, a) /\ ~t.exited
          /\ SentAt(e, t, a) = 4 * s.cookie + (IF e = "server" THEN 1 ELSE IF a = 1 THEN 3 ELSE 2)
          /\ t.keys = s.keys /\ t.strictname = s.strictname /\ t.sigalgs = s.sigalgs /\ t.hash = s.hash
          /\ t.session_id = s.session_id /\ t.donefirstkex = s.donefirstkex /\ t.sentnewkeys = s.sentnewkeys
          /\ t.transseq = s.transseq + (IF e = "client" THEN 2 ELSE 1) /\ s.cookie \in Nat
      BY <1>6, <1>8, <1>10, <2>2, RekeyOwn
    <2>5. 4 * s.cookie - 1 <= ReadAt("client", c, a)
      BY <1>6, <1>7, <1>8, <2>2, Near
    <2>6. IsSession(s) /\ s.dataallowed /\ s.out = <<>> /\ ~s.sentnewkeys
      BY <1>6, <1>8, <2>2, Places DEF Back
    <2>7. FromServer(c, t, wire'["server"], a)
      <3>0. ReadMark("client", c, a).at = ReadAt("client", c, a)
        BY MarkFields DEF ReadMark
      <3>1. PICK v, z : /\ v = ReadMark("client", c, a) /\ v.at = ReadAt("client", c, a)
                        /\ z = Mark(4 * s.cookie + (IF e = "server" THEN 1 ELSE IF a = 1 THEN 3 ELSE 2),
                                    s.transseq + (IF e = "client" THEN 2 ELSE 1), s.keys.trans)
        BY <3>0
      <3>2. Line(e, y \o KexinitOut(e, s), v, z, a, s.hash, s.strictname)
        <4>1. Line(e, y, v, SentMark(e, s, a), a, s.hash, s.strictname) /\ Table(s.sigalgs, a)
          BY <1>6, <1>10, <3>1 DEF FromServer, Tables
        <4> QED BY <1>10, <2>3, <2>5, <2>6, <3>1, <4>1, LineKexinit
      <3>3. z = SentMark("server", t, a)
        BY <1>10, <2>3, <3>1 DEF SentMark
      <3> QED BY <1>6, <1>10, <2>2, <2>3, <3>1, <3>2, <3>3 DEF FromServer, Tables
    <2>8. FromClient(c, t, x, a)
      BY <1>6, <1>10, <2>3 DEF FromClient
    <2>9. Agree(c, t, a)
      BY <1>6, <2>3, <2>6 DEF Agree
    <2>10. Tables(c, t, a)
      BY <1>6, <2>3 DEF Tables
    <2>11. Both(c, t, x, wire'["server"], a)
      BY <1>6, <1>10, <2>3, <2>7, <2>8, <2>9, <2>10 DEF Both
    <2>12. \A d \in End : ~ses'[d].exited
      BY <1>6, <2>1, <2>2, <2>3 DEF End, Back
    <2> QED BY <2>1, <2>2, <2>11, <2>12 DEF TwoEnds
  <1> QED BY <1>9, <1>10 DEF End

Readable(e, w, s, n, g, r, c, p) ==
    /\ e \in End /\ w \in Seq(Packet) /\ IsSession(s) /\ Before(e, s) /\ s.recvseq >= 1
    /\ n \in Nat /\ g \in Nat /\ r \in BOOLEAN /\ c \in Int /\ Stream(w, s, n, g, r, c) /\ p \in Packet
    /\ e = "server" /\ p.type = "KEXINIT" => s.hash.cookies[1] < p.body.cookie

LEMMA ProcessTyped ==
  ASSUME NEW e, NEW w, NEW s, NEW n, NEW g, NEW r, NEW c, NEW p, Readable(e, w, s, n, g, r, c, p)
  PROVE  IsSession(process_packet(e, s, p))
  <1>1. /\ e \in End /\ w \in Seq(Packet) /\ IsSession(s) /\ Before(e, s) /\ s.recvseq >= 1
        /\ n \in Nat /\ g \in Nat /\ r \in BOOLEAN /\ c \in Int /\ Stream(w, s, n, g, r, c) /\ p \in Packet
        /\ e = "server" /\ p.type = "KEXINIT" => s.hash.cookies[1] < p.body.cookie
    BY DEF Readable
  <1>2. Processed(e, w, s, n, g, r, c, p, process_packet(e, s, p))
    BY <1>1, ProcessPacket
  <1> QED BY <1>2 DEF Processed

\* A packet that can be read.
LEMMA DoesReceive ==
  ASSUME KInv, NEW e \in End, Receive(e), NEW p, p = Head(wire[Peer(e)]),
         p.key = ses[e].keys.recv, p.seq = ses[e].recvseq, NEW t, t = [ses[e] EXCEPT !.recvseq = @ + 1]
  PROVE  /\ IsSession(t) /\ Same(ses[e], t, {"recvseq"}) /\ t.recvseq = ses[e].recvseq + 1
         /\ IsSession(process_packet(e, t, p))
         /\ \E unread \in [End -> Seq(Packet)] :
               /\ unread[e] = wire[e] /\ unread[Peer(e)] = Tail(wire[Peer(e)])
               /\ Iterated(e, process_packet(e, t, p), unread)
  <1>0. /\ ~ses[e].exited /\ wire[Peer(e)] # <<>>
    BY DEF Receive
  <1>2. /\ Peer(e) \in End /\ Peer(e) # e /\ End = {e, Peer(e)}
    BY PeerFacts
  <1>3. /\ IsSession(ses[e]) /\ Before(e, ses[e])
        /\ ClientMid(e, ses[e]) /\ DOMAIN ses = End /\ wire \in [End -> Seq(Packet)] /\ wire[e] \in Seq(Packet)
    BY <1>0, StartFacts
  <1>4. PICK x \in Seq(Packet) : x = wire[Peer(e)] /\ x # <<>>
    BY <1>0, <1>2, <1>3
  <1>5. PICK y \in Seq(Packet) : y = Tail(x)
    BY <1>4, HeadTailProperties
  <1>6. 1 \in 1..Len(x) /\ p = x[1] /\ p \in Packet
    BY <1>4, HeadTailProperties
  <1>7. decrypt_packet(ses[e], p) = t
    BY DEF decrypt_packet
  <1>8. DOMAIN ses[e] = Fields /\ ses[e].recvseq \in Nat
    BY <1>3 DEF IsSession
  <1>9. Same(ses[e], t, {"recvseq"}) /\ t.recvseq = ses[e].recvseq + 1
    BY <1>8 DEF Same, Fields, Flags
  <1>10. IsSession(t) /\ t.recvseq >= 1
    <2>0. t.recvseq \in Nat /\ t.recvseq >= 1
      BY <1>8, <1>9
    <2>1. \A f \in {"recvseq"} \cap Fields : t[f] \in TypeOf(f)
      BY <2>0, TypesOf
    <2>2. IsSession(t)
      BY <1>3, <1>9, <2>1, SameType, Zenon
    <2> QED BY <2>0, <2>2
  <1>11. /\ t.exited = ses[e].exited /\ t.hash = ses[e].hash
         /\ Same(ses[e], t, {"out", "transseq", "reply_queue", "recvseq"})
    BY <1>9 DEF Same, Fields, Flags
  <1>12. PICK n \in Nat, g \in Nat, b \in BOOLEAN, c \in Int : Stream(wire[e], ses[e], n, g, b, c)
    <2>1. PICK n \in Nat, g \in Nat, b \in BOOLEAN : n = Len(sent[e]) /\ g = Len(got[e]) /\ b = ~ses[Peer(e)].exited
      BY <1>0, StartFacts
    <2>2. Known(e) \in Int /\ Stream(wire[e], ses[e], n, g, b, Known(e))
      BY <2>1, StartStream
    <2> QED BY <2>2
  <1>13. Stream(wire[e], t, n, g, b, c)
    BY <1>9, <1>12, StreamSame, SMTT(30) DEF Same, Fields, Flags
  <1>14. Before(e, t)
    BY <1>3, <1>11, SoundSame DEF Before
  <1>15. e = "server" /\ p.type = "KEXINIT" => t.hash.cookies[1] < p.body.cookie
    <2>1. e = "server" => x = wire["client"]
      BY <1>4 DEF Peer
    <2>2. e = "server" => Newer(x, ses[e].hash.cookies[1])
      BY <1>0, <2>1, StartFacts
    <2> QED BY <1>6, <1>11, <2>2 DEF Newer
  <1>16. PICK s : s = process_packet(e, t, p)
    OBVIOUS
  <1>17. IsSession(s)
    <2>1. PICK w \in Seq(Packet) : w = wire[e] /\ Stream(w, t, n, g, b, c)
      BY <1>3, <1>13
    <2>2. PICK q \in Packet : q = p
      BY <1>6
    <2>3. e = "server" /\ q.type = "KEXINIT" => t.hash.cookies[1] < q.body.cookie
      BY <1>15, <2>2
    <2>4. Readable(e, w, t, n, g, b, c, q)
      BY <1>10, <1>14, <2>1, <2>3 DEF Readable
    <2>5. IsSession(process_packet(e, t, q))
      BY <2>4, ProcessTyped
    <2> QED BY <1>16, <2>2, <2>5
  <1>18. PICK unread \in [End -> Seq(Packet)] :
           /\ unread = [wire EXCEPT ![Peer(e)] = Tail(@)] /\ unread[e] = wire[e] /\ unread[Peer(e)] = y
    <2>1. [wire EXCEPT ![Peer(e)] = Tail(@)] = [wire EXCEPT ![Peer(e)] = y]
      BY <1>4, <1>5
    <2>2. [wire EXCEPT ![Peer(e)] = y] \in [End -> Seq(Packet)]
      BY <1>2, <1>3
    <2>3. [wire EXCEPT ![Peer(e)] = y][e] = wire[e] /\ [wire EXCEPT ![Peer(e)] = y][Peer(e)] = y
      BY <1>2, <1>3
    <2> QED BY <2>1, <2>2, <2>3
  <1>19. Iterated(e, s, unread)
    <2>1. ~t.exited
      BY <1>0, <1>11
    <2> QED BY <1>7, <1>16, <1>18, <2>1 DEF Receive
  <1> QED BY <1>4, <1>5, <1>9, <1>10, <1>16, <1>17, <1>18, <1>19

-----------------------------------------------------------------------------
(* Reading a packet.  In each case: the packet is the one that the reader  *)
(* expects, it does not give up, and both ends still fit together.         *)

\* What the place of a reader says of its record.
LEMMA ReadPlaces ==
  ASSUME NEW e \in End, NEW r, NEW a, Back(e, r), Own(e, r, a), NEW k \in Int
  PROVE  /\ ReadAt(e, r, a) = 4 * k =>
               /\ ~r.recvkexinit /\ ~r.sentnewkeys /\ ~r.ignorenext /\ k = Done(r)
               /\ r.requirenext \in {None, "KEXINIT"} /\ (k >= 1 => r.requirenext = None /\ r.donefirstkex)
               /\ r.dataallowed <=> ~r.sentkexinit
               /\ r.cookie = IF r.sentkexinit THEN k + 1 ELSE k
         /\ ReadAt(e, r, a) = 4 * k + 1 =>
               /\ InExchange(r) /\ k = r.cookie - 1 /\ ~(e = "server" /\ a # 1 /\ ~r.ignorenext)
               /\ r.requirenext = IF e = "server" THEN "KEXDH_INIT" ELSE "KEXDH_REPLY"
         /\ ReadAt(e, r, a) = 4 * k + 2 =>
               /\ InExchange(r) /\ k = r.cookie - 1 /\ e = "server" /\ a # 1 /\ ~r.ignorenext
               /\ r.requirenext = "KEXDH_INIT"
         /\ ReadAt(e, r, a) = 4 * k + 3 =>
               /\ r.sentnewkeys /\ k = r.cookie - 1 /\ ~r.ignorenext /\ r.requirenext = "NEWKEYS"
  <1>1. PICK n \in Nat : n = r.cookie /\ n >= 1
    BY DEF Back, IsSession, Own
  <1>2. PICK i \in Int : i = ReadAt(e, r, a)
    BY Places
  <1>3. /\ ~r.sentkexinit => /\ i = 4 * n /\ r.dataallowed /\ ~r.recvkexinit /\ ~r.sentnewkeys
                             /\ r.donefirstkex
        /\ r.sentkexinit /\ ~r.recvkexinit => i = 4 * (n - 1) /\ ~r.sentnewkeys
        /\ InExchange(r) =>
              /\ i = 4 * (n - 1) + (IF e = "server" /\ a # 1 /\ ~r.ignorenext THEN 2 ELSE 1)
              /\ ~r.dataallowed
        /\ r.sentnewkeys => i = 4 * (n - 1) + 3 /\ r.sentkexinit /\ r.recvkexinit
    BY <1>1, <1>2, Places
  <1>4. /\ r.recvkexinit => r.sentkexinit
        /\ r.dataallowed <=> (r.sentkexinit => r.sentnewkeys)
        /\ r.requirenext = "NEWKEYS" <=> r.sentnewkeys
        /\ r.requirenext \in {"KEXDH_INIT", "KEXDH_REPLY"} <=> InExchange(r)
        /\ r.requirenext \in {None, "KEXINIT", "KEXDH_INIT", "KEXDH_REPLY", "NEWKEYS"}
        /\ r.ignorenext => InExchange(r)
        /\ e = "client" => r.requirenext # "KEXDH_INIT"
    BY DEF Back, Phases, ClientState
  <1>5. /\ r.requirenext = "KEXINIT" <=> Done(r) = 0 /\ ~r.recvkexinit
        /\ e = "server" => r.requirenext # "KEXDH_REPLY"
        /\ r.donefirstkex <=> n > 1 \/ r.dataallowed
    BY <1>1 DEF Own
  <1>6. Done(r) = IF r.sentkexinit THEN n - 1 ELSE n
    BY <1>1 DEF Done
  <1>7. i = 4 * k =>
               /\ ~r.recvkexinit /\ ~r.sentnewkeys /\ ~r.ignorenext /\ k = Done(r)
               /\ r.requirenext \in {None, "KEXINIT"} /\ (k >= 1 => r.requirenext = None /\ r.donefirstkex)
               /\ r.dataallowed <=> ~r.sentkexinit
               /\ n = IF r.sentkexinit THEN k + 1 ELSE k
    <2> SUFFICES ASSUME i = 4 * k
                 PROVE  /\ ~r.recvkexinit /\ ~r.sentnewkeys /\ ~r.ignorenext /\ k = Done(r)
                        /\ r.requirenext \in {None, "KEXINIT"} /\ (k >= 1 => r.requirenext = None /\ r.donefirstkex)
                        /\ r.dataallowed <=> ~r.sentkexinit
                        /\ n = IF r.sentkexinit THEN k + 1 ELSE k
      OBVIOUS
    <2>1. ~InExchange(r) /\ ~r.sentnewkeys
      BY <1>3
    <2>2. ~r.recvkexinit /\ ~r.ignorenext
      BY <1>4, <2>1 DEF InExchange
    <2>3. k = Done(r) /\ n = IF r.sentkexinit THEN k + 1 ELSE k
      BY <1>3, <1>6, <2>2
    <2>4. r.requirenext \in {None, "KEXINIT"}
      BY <1>4, <2>1
    <2>5. k >= 1 => r.requirenext = None /\ r.donefirstkex
      BY <1>3, <1>5, <2>3, <2>4
    <2> QED BY <1>4, <2>1, <2>2, <2>3, <2>4, <2>5
  <1>8. r.recvkexinit => InExchange(r) \/ r.sentnewkeys
    BY DEF InExchange
  <1>9. i = 4 * k + 1 =>
               /\ InExchange(r) /\ k = n - 1 /\ ~(e = "server" /\ a # 1 /\ ~r.ignorenext)
               /\ r.requirenext = IF e = "server" THEN "KEXDH_INIT" ELSE "KEXDH_REPLY"
    <2>1. i = 4 * k + 1 => InExchange(r) /\ k = n - 1 /\ ~(e = "server" /\ a # 1 /\ ~r.ignorenext)
      BY <1>3, <1>8
    <2> QED BY <1>4, <1>5, <2>1 DEF End
  <1>10. i = 4 * k + 2 =>
               /\ InExchange(r) /\ k = n - 1 /\ e = "server" /\ a # 1 /\ ~r.ignorenext
               /\ r.requirenext = "KEXDH_INIT"
    <2>1. i = 4 * k + 2 => InExchange(r) /\ k = n - 1 /\ e = "server" /\ a # 1 /\ ~r.ignorenext
      BY <1>3, <1>8
    <2> QED BY <1>4, <1>5, <2>1
  <1>11. i = 4 * k + 3 =>
               /\ r.sentnewkeys /\ k = n - 1 /\ ~r.ignorenext /\ r.requirenext = "NEWKEYS"
    <2>1. i = 4 * k + 3 => r.sentnewkeys /\ k = n - 1
      BY <1>3, <1>8
    <2> QED BY <1>4, <2>1 DEF InExchange
  <1> QED BY <1>1, <1>2, <1>7, <1>9, <1>10, <1>11

Ready(c, s, x, y, a) ==
    /\ Both(c, s, x, y, a) /\ Back("client", c) /\ Back("server", s)
    /\ x \in Seq(Packet) /\ y \in Seq(Packet) /\ a \in 1..Len(SigAlgs)

\* The end e has read p and is at place m: the line from its peer, whose mark
\* is z, is now y.
Taken(e, r, z, p, m, y, a, b) ==
    /\ p.key = r.keys.recv /\ p.seq = r.recvseq /\ Says(Peer(e), p, a, r.strictname) /\ p \in Packet
    /\ y \in Seq(Packet) /\ m \in Int /\ Fits(ReadAt(e, r, a), p, m, a, b) /\ m <= z.at
    /\ Line(Peer(e), y,
            IF p.type = "NEWKEYS" THEN Mark(m, IF r.strictname THEN 0 ELSE r.recvseq + 1, z.key)
            ELSE Mark(m, r.recvseq + 1, r.keys.recv), z, a, b, r.strictname)

LEMMA Takes ==
  ASSUME NEW e \in End, NEW r, NEW z, NEW x \in Seq(Packet), x # <<>>, NEW a, NEW b,
         Line(Peer(e), x, ReadMark(e, r, a), z, a, b, r.strictname)
  PROVE  \E m : Taken(e, r, z, Head(x), m, Tail(x), a, b)
  <1>1. PICK v : v = ReadMark(e, r, a)
    OBVIOUS
  <1>2. v.at = ReadAt(e, r, a) /\ v.seq = r.recvseq /\ v.key = r.keys.recv
    BY <1>1, MarkFields DEF ReadMark
  <1>3. Peer(e) \in End
    BY PeerFacts
  <1>4. PICK p \in Packet, y \in Seq(Packet) : p = Head(x) /\ y = Tail(x)
    BY HeadTailProperties
  <1>5. /\ p.key = v.key /\ p.seq = v.seq /\ Says(Peer(e), p, a, r.strictname)
        /\ \E m \in Int :
               /\ Fits(v.at, p, m, a, b) /\ m <= z.at
               /\ Line(Peer(e), y,
                       IF p.type = "NEWKEYS"
                       THEN Mark(m, IF r.strictname THEN 0 ELSE v.seq + 1, z.key)
                       ELSE Mark(m, v.seq + 1, v.key), z, a, b, r.strictname)
    BY <1>1, <1>3, <1>4, LineHead
  <1> QED BY <1>2, <1>4, <1>5 DEF Taken

LEMMA Reads ==
  ASSUME NEW c, NEW s, NEW x, NEW y, NEW a, Ready(c, s, x, y, a)
  PROVE  /\ y # <<>> => \E m : Taken("client", c, SentMark("server", s, a), Head(y), m, Tail(y), a, s.hash)
         /\ x # <<>> => \E m : Taken("server", s, SentMark("client", c, a), Head(x), m, Tail(x), a, c.pub)
  <1>1. "client" \in End /\ "server" \in End /\ Peer("client") = "server" /\ Peer("server") = "client"
    BY DEF End, Peer
  <1>2. x \in Seq(Packet) /\ y \in Seq(Packet)
    BY DEF Ready
  <1>3. Line(Peer("client"), y, ReadMark("client", c, a), SentMark("server", s, a), a, s.hash, c.strictname)
    BY <1>1 DEF Ready, Both, FromServer
  <1>4. Line(Peer("server"), x, ReadMark("server", s, a), SentMark("client", c, a), a, c.pub, s.strictname)
    BY <1>1 DEF Ready, Both, FromClient, Tables
  <1>5. y # <<>> => \E m : Taken("client", c, SentMark("server", s, a), Head(y), m, Tail(y), a, s.hash)
    BY <1>1, <1>2, <1>3, Takes
  <1>6. x # <<>> => \E m : Taken("server", s, SentMark("client", c, a), Head(x), m, Tail(x), a, c.pub)
    BY <1>1, <1>2, <1>4, Takes
  <1> QED BY <1>5, <1>6

\* decrypt_packet(), process_packet() and the end of the iteration of an end
\* with the record r: t is the record then, u the one that the handler leaves,
\* d the one after the iteration, when the wire w has become x.
Opened(r, t) == IsSession(t) /\ Same(r, t, {"recvseq"}) /\ t.recvseq = r.recvseq + 1

Handled(e, t, p) ==
    IF t.ignorenext THEN [t EXCEPT !.ignorenext = FALSE]
    ELSE handler(e, [t EXCEPT !.requirenext = None], p)

Finished(e, f, d, w, x) ==
    /\ ~Loops(e, f) => Flushed(f, d, w, x)
    /\ ~Loops(e, f) /\ (~f.dataallowed \/ f.reply_queue = <<>>) =>
          Same(f, d, {"out", "reply_queue", "kex_state"}) /\ x = w \o f.out
    /\ Loops(e, f) /\ ~f.dataallowed =>
          /\ Same(f, d, {"out", "transseq", "reply_queue", "kex_state", "pub", "pubs"})
          /\ d.transseq = f.transseq + 1 /\ d.pub = f.pubs + 1
          /\ x = Append(w \o f.out, Pkt("KEXDH_INIT", f.pubs + 1, f.keys.trans, f.transseq))

Ended(e, u, p, d, w, x) ==
    /\ w \in Seq(Packet)
    /\ \E f : /\ Same(u, f, {"lastpacket"}) /\ f.lastpacket = p.type /\ IsSession(f)
              /\ Finished(e, f, d, w, x)

\* The reader sends nothing: packets of the upper layers, and a guess that is
\* ignored.
Kept(e, r, d, m, a) ==
    /\ Own(e, d, a) /\ ReadMark(e, d, a) = Mark(m, r.recvseq + 1, r.keys.recv)
    /\ SentMark(e, d, a) = SentMark(e, r, a)
    /\ \A f \in {"hash", "pub", "strictname", "cookie", "dataallowed", "sentnewkeys", "donefirstkex",
                 "session_id", "sigalgs", "exited"} : d[f] = r[f]

LEMMA OpenedFields ==
  ASSUME NEW e \in End, NEW r, NEW t, Back(e, r), Opened(r, t)
  PROVE  /\ DOMAIN t = Fields /\ \A f \in Fields \ {"recvseq"} : t[f] = r[f]
         /\ t.ignorenext = r.ignorenext /\ t.requirenext = r.requirenext /\ t.exited = r.exited
         /\ t.exited = FALSE /\ t.recvseq = r.recvseq + 1 /\ t.out = <<>>
         /\ t.dataallowed => t.reply_queue = <<>>
         /\ r.exited = FALSE /\ r.recvseq \in Nat
  <1>1. DOMAIN t = Fields /\ \A f \in Fields \ {"recvseq"} : t[f] = r[f]
    BY DEF Opened, Same
  <1>2. /\ t.ignorenext = r.ignorenext /\ t.requirenext = r.requirenext /\ t.exited = r.exited
        /\ t.out = r.out /\ t.dataallowed = r.dataallowed /\ t.reply_queue = r.reply_queue
    BY <1>1 DEF Fields, Flags
  <1>3. r.exited = FALSE /\ r.recvseq \in Nat /\ r.out = <<>> /\ (r.dataallowed => r.reply_queue = <<>>)
    BY DEF Back, IsSession, Flags
  <1> QED BY <1>1, <1>2, <1>3 DEF Opened

LEMMA ReadQuiet ==
  ASSUME NEW e \in End, NEW r, NEW z, NEW p, NEW m, NEW y, NEW a, NEW b, NEW t, NEW u,
         Back(e, r), Own(e, r, a), Taken(e, r, z, p, m, y, a, b), Opened(r, t), u = Handled(e, t, p),
         \/ p.type \in {"DATA", "EXT_INFO"}
         \/ p.type = "KEXDH_INIT" /\ r.ignorenext
  PROVE  /\ r.requirenext \in {None, p.type} /\ ~u.exited /\ DOMAIN u = Fields
         /\ \A d, w, x : Ended(e, u, p, d, w, x) => x = w /\ Kept(e, r, d, m, a)
  <1>0. /\ DOMAIN t = Fields /\ \A f \in Fields \ {"recvseq"} : t[f] = r[f]
        /\ t.ignorenext = r.ignorenext /\ t.requirenext = r.requirenext /\ t.exited = FALSE
        /\ t.recvseq = r.recvseq + 1 /\ t.out = <<>> /\ (t.dataallowed => t.reply_queue = <<>>)
    <2>1. DOMAIN t = Fields /\ \A f \in Fields \ {"recvseq"} : t[f] = r[f]
      BY DEF Opened, Same
    <2>2. Back(e, r) /\ Opened(r, t)
      OBVIOUS
    <2>3. /\ t.ignorenext = r.ignorenext /\ t.requirenext = r.requirenext /\ t.exited = FALSE
          /\ t.recvseq = r.recvseq + 1 /\ t.out = <<>> /\ (t.dataallowed => t.reply_queue = <<>>)
      BY <2>2, OpenedFields, ZenonT(60)
    <2> QED BY <2>1, <2>3
  <1>1. Fits(ReadAt(e, r, a), p, m, a, b) /\ m \in Int /\ p.type # "NEWKEYS"
    BY DEF Taken
  <1>2. /\ p.type \in {"DATA", "EXT_INFO"} =>
              r.requirenext = None /\ ~r.ignorenext /\ m = ReadAt(e, r, a) /\ ~r.recvkexinit
        /\ p.type = "KEXDH_INIT" /\ r.ignorenext =>
              /\ r.requirenext = "KEXDH_INIT" /\ InExchange(r) /\ e = "server" /\ a # 1
              /\ m = 4 * (r.cookie - 1) + 2
    <2>1. CASE p.type \in {"DATA", "EXT_INFO"}
      <3>1. PICK k \in Int : k >= 1 /\ ReadAt(e, r, a) = 4 * k /\ m = ReadAt(e, r, a)
        BY <1>1, <2>1 DEF Fits
      <3>2. r.requirenext = None /\ ~r.ignorenext /\ ~r.recvkexinit
        BY <3>1, ReadPlaces, ZenonT(60)
      <3> QED BY <2>1, <3>1, <3>2
    <2>2. CASE p.type = "KEXDH_INIT" /\ r.ignorenext
      <3>1. e = "server" /\ a # 1 /\ InExchange(r)
        BY <2>2 DEF Own, Back, Phases
      <3>2. PICK n \in Nat : n = r.cookie
        BY DEF Back, IsSession
      <3>3. ReadAt(e, r, a) = 4 * (n - 1) + 1
        BY <2>2, <3>1, <3>2, Places
      <3>4. m = 4 * (n - 1) + 2
        BY <1>1, <2>2, <3>1, <3>3 DEF Fits
      <3>5. r.requirenext = "KEXDH_INIT"
        <4>1. n - 1 \in Int
          OBVIOUS
        <4> QED BY <3>1, <3>3, <4>1, ReadPlaces
      <3> QED BY <2>2, <3>1, <3>2, <3>4, <3>5
    <2> QED BY <2>1, <2>2
  <1>3. /\ Same(t, u, {"ignorenext"}) /\ u.ignorenext = FALSE
    <2>1. CASE t.ignorenext
      <3>1. u = [t EXCEPT !.ignorenext = FALSE]
        BY <2>1 DEF Handled
      <3> QED BY <1>0, <3>1 DEF Same, Fields, Flags
    <2>2. CASE ~t.ignorenext
      <3>1. p.type \in {"DATA", "EXT_INFO"} /\ r.requirenext = None
        BY <1>0, <1>2, <2>2
      <3>2. u = [t EXCEPT !.requirenext = None]
        BY <2>2, <3>1 DEF Handled, handler
      <3>3. Same(t, u, {"requirenext"}) /\ u.requirenext = None
        BY <1>0, <3>2 DEF Same, Fields, Flags
      <3>4. t.ignorenext = FALSE
        BY <2>2 DEF Opened, IsSession, Flags
      <3>5. u.ignorenext = t.ignorenext /\ u.requirenext = t.requirenext
        BY <1>0, <3>1, <3>3 DEF Same, Fields, Flags
      <3> QED BY <3>3, <3>4, <3>5 DEF Same
    <2> QED BY <2>1, <2>2
  <1>4. ~u.exited /\ DOMAIN u = Fields
    BY <1>0, <1>3 DEF Same, Fields, Flags
  <1>5. ASSUME NEW d, NEW w, NEW x, Ended(e, u, p, d, w, x) PROVE x = w /\ Kept(e, r, d, m, a)
    <2>0. w \in Seq(Packet)
      BY <1>5 DEF Ended
    <2>1. PICK f : /\ Same(u, f, {"lastpacket"}) /\ f.lastpacket = p.type /\ IsSession(f)
                   /\ Finished(e, f, d, w, x)
      BY <1>5 DEF Ended
    <2>2. f.out = <<>> /\ (f.dataallowed => f.reply_queue = <<>>)
      BY <1>0, <1>3, <2>1 DEF Same, Fields, Flags
    <2>3. ~Loops(e, f) /\ f.dataallowed \in BOOLEAN
      <3>1. p.type # "KEXINIT"
        OBVIOUS
      <3> QED BY <2>1, <3>1 DEF Loops, IsSession, Flags
    <2>4. Same(f, d, {"out", "reply_queue", "kex_state"}) /\ x = w \o f.out
      BY <2>1, <2>2, <2>3 DEF Finished
    <2>5. x = w
      BY <2>0, <2>2, <2>4
    <2>6. \A g \in {"sentkexinit", "recvkexinit", "sentnewkeys", "donefirstkex", "strict_kex", "strictname",
                  "our_first_follows_matches", "dataallowed", "requirenext", "keys",
                  "newkeys", "cookie", "pub", "hash", "session_id", "algo_signature",
                  "sigalgs", "exited", "transseq"} : d[g] = r[g]
      <3>1. \A g \in Fields \ {"out", "reply_queue", "kex_state"} : d[g] = f[g]
        BY <2>4 DEF Same
      <3>2. \A g \in Fields \ {"lastpacket"} : f[g] = u[g]
        BY <2>1 DEF Same
      <3>3. \A g \in Fields \ {"ignorenext"} : u[g] = t[g]
        BY <1>3 DEF Same
      <3> QED BY <1>0, <3>1, <3>2, <3>3 DEF Fields, Flags
    <2>7. d.recvseq = r.recvseq + 1 /\ d.ignorenext = FALSE
      BY <1>0, <1>3, <2>1, <2>4 DEF Same, Fields, Flags
    <2>8. r.requirenext # "KEXINIT"
      BY <1>2, NoneIsNoType DEF PacketType
    <2>9. Own(e, d, a)
      BY <2>6, <2>7, <2>8 DEF Own, Done, InExchange
    <2>10. ReadAt(e, d, a) = m
      <3>1. CASE p.type \in {"DATA", "EXT_INFO"}
        BY <1>2, <2>6, <3>1 DEF ReadAt, Done
      <3>2. CASE p.type = "KEXDH_INIT" /\ r.ignorenext
        <4>1. PICK n \in Nat : n = r.cookie
          BY DEF Back, IsSession
        <4>2. r.recvkexinit /\ r.sentkexinit /\ ~r.sentnewkeys
          BY <1>2, <3>2 DEF InExchange, Back, Phases
        <4> QED BY <1>2, <2>6, <2>7, <3>2, <4>1, <4>2 DEF ReadAt, Done
      <3> QED BY <3>1, <3>2
    <2>11. SentMark(e, d, a) = SentMark(e, r, a)
      BY <2>6 DEF SentMark, SentAt
    <2>12. ReadMark(e, d, a) = Mark(m, r.recvseq + 1, r.keys.recv)
      BY <2>6, <2>7, <2>10 DEF ReadMark
    <2> QED BY <2>5, <2>6, <2>9, <2>11, <2>12 DEF Kept
  <1> QED BY <1>2, <1>4, <1>5

\* The packet was expected, the handler does not give up, and the two ends
\* still fit together when the iteration is over.
ClientGoes(c, s, x, y, a, p, u) ==
    /\ c.requirenext \in {None, p.type} /\ ~u.exited /\ DOMAIN u = Fields
    /\ \A d, w : Ended("client", u, p, d, x, w) => ~d.exited /\ Both(d, s, w, y, a)

ServerGoes(c, s, x, y, a, p, u) ==
    /\ s.requirenext \in {None, p.type} /\ ~u.exited /\ DOMAIN u = Fields
    /\ \A d, w : Ended("server", u, p, d, y, w) => ~d.exited /\ Both(c, d, x, w, a)

LEMMA ReadyFacts ==
  ASSUME NEW c, NEW s, NEW x, NEW y, NEW a, Ready(c, s, x, y, a)
  PROVE  /\ Own("client", c, a) /\ Own("server", s, a) /\ Agree(c, s, a) /\ Tables(c, s, a)
         /\ FromClient(c, s, x, a) /\ FromServer(c, s, y, a)
         /\ Back("client", c) /\ Back("server", s) /\ x \in Seq(Packet) /\ y \in Seq(Packet)
         /\ a \in 1..Len(SigAlgs)
         /\ ReadAt("server", s, a) <= SentAt("client", c, a)
         /\ ReadAt("client", c, a) <= SentAt("server", s, a)
         /\ "client" \in End /\ "server" \in End /\ Peer("client") = "server" /\ Peer("server") = "client"
  <1>1. Both(c, s, x, y, a) /\ x \in Seq(Packet) /\ y \in Seq(Packet)
    BY DEF Ready
  <1>2. /\ ReadAt("server", s, a) <= SentAt("client", c, a)
        /\ ReadAt("client", c, a) <= SentAt("server", s, a)
    BY <1>1, Order
  <1> QED BY <1>1, <1>2 DEF Ready, Both, End, Peer

LEMMA ClientQuiet ==
  ASSUME NEW c, NEW s, NEW x, NEW y, NEW a, Ready(c, s, x, y, a), NEW p, NEW m, NEW v, NEW t, NEW u,
         Taken("client", c, SentMark("server", s, a), p, m, v, a, s.hash), Opened(c, t),
         u = Handled("client", t, p), p.type \in {"DATA", "EXT_INFO"}
  PROVE  ClientGoes(c, s, x, v, a, p, u)
  <1>1. /\ Own("client", c, a) /\ Own("server", s, a) /\ Agree(c, s, a) /\ Tables(c, s, a)
        /\ FromClient(c, s, x, a) /\ Back("client", c) /\ "client" \in End /\ Peer("client") = "server"
    BY ReadyFacts
  <1>2. /\ c.requirenext \in {None, p.type} /\ ~u.exited /\ DOMAIN u = Fields
        /\ \A d, w, z : Ended("client", u, p, d, w, z) => z = w /\ Kept("client", c, d, m, a)
    BY <1>1, ReadQuiet
  <1>3. ASSUME NEW d, NEW w, Ended("client", u, p, d, x, w) PROVE ~d.exited /\ Both(d, s, w, v, a)
    <2>1. w = x /\ Kept("client", c, d, m, a)
      BY <1>2, <1>3
    <2>2. /\ Own("client", d, a) /\ ReadMark("client", d, a) = Mark(m, c.recvseq + 1, c.keys.recv)
          /\ SentMark("client", d, a) = SentMark("client", c, a)
          /\ d.hash = c.hash /\ d.pub = c.pub /\ d.strictname = c.strictname /\ d.cookie = c.cookie
          /\ d.dataallowed = c.dataallowed /\ d.sentnewkeys = c.sentnewkeys /\ d.sigalgs = c.sigalgs
          /\ d.donefirstkex = c.donefirstkex /\ d.session_id = c.session_id /\ d.exited = c.exited
      BY <2>1 DEF Kept
    <2>3. Agree(d, s, a) /\ Tables(d, s, a)
      BY <1>1, <2>2 DEF Agree, Tables
    <2>4. FromClient(d, s, w, a)
      BY <1>1, <2>1, <2>2 DEF FromClient
    <2>5. FromServer(d, s, v, a)
      <3>1. Line("server", v, Mark(m, c.recvseq + 1, c.keys.recv), SentMark("server", s, a), a, s.hash,
                 c.strictname)
        BY <1>1 DEF Taken
      <3> QED BY <2>2, <3>1 DEF FromServer
    <2>6. ~d.exited
      BY <1>1, <2>2 DEF Back
    <2> QED BY <1>1, <2>2, <2>3, <2>4, <2>5, <2>6 DEF Both
  <1> QED BY <1>2, <1>3 DEF ClientGoes

LEMMA ServerQuiet ==
  ASSUME NEW c, NEW s, NEW x, NEW y, NEW a, Ready(c, s, x, y, a), NEW p, NEW m, NEW v, NEW t, NEW u,
         Taken("server", s, SentMark("client", c, a), p, m, v, a, c.pub), Opened(s, t),
         u = Handled("server", t, p),
         \/ p.type \in {"DATA", "EXT_INFO"}
         \/ p.type = "KEXDH_INIT" /\ s.ignorenext
  PROVE  ServerGoes(c, s, v, y, a, p, u)
  <1>1. /\ Own("client", c, a) /\ Own("server", s, a) /\ Agree(c, s, a) /\ Tables(c, s, a)
        /\ FromServer(c, s, y, a) /\ Back("server", s) /\ "server" \in End /\ Peer("server") = "client"
    BY ReadyFacts
  <1>2. /\ s.requirenext \in {None, p.type} /\ ~u.exited /\ DOMAIN u = Fields
        /\ \A d, w, z : Ended("server", u, p, d, w, z) => z = w /\ Kept("server", s, d, m, a)
    BY <1>1, ReadQuiet
  <1>3. ASSUME NEW d, NEW w, Ended("server", u, p, d, y, w) PROVE ~d.exited /\ Both(c, d, v, w, a)
    <2>1. w = y /\ Kept("server", s, d, m, a)
      BY <1>2, <1>3
    <2>2. /\ Own("server", d, a) /\ ReadMark("server", d, a) = Mark(m, s.recvseq + 1, s.keys.recv)
          /\ SentMark("server", d, a) = SentMark("server", s, a)
          /\ d.hash = s.hash /\ d.pub = s.pub /\ d.strictname = s.strictname /\ d.cookie = s.cookie
          /\ d.dataallowed = s.dataallowed /\ d.sentnewkeys = s.sentnewkeys /\ d.sigalgs = s.sigalgs
          /\ d.donefirstkex = s.donefirstkex /\ d.session_id = s.session_id /\ d.exited = s.exited
      BY <2>1 DEF Kept
    <2>3. Agree(c, d, a) /\ Tables(c, d, a)
      BY <1>1, <2>2 DEF Agree, Tables
    <2>4. FromServer(c, d, w, a)
      BY <1>1, <2>1, <2>2 DEF FromServer
    <2>5. FromClient(c, d, v, a)
      <3>1. p.type # "NEWKEYS"
        OBVIOUS
      <3>2. Line("client", v, Mark(m, s.recvseq + 1, s.keys.recv), SentMark("client", c, a), a, c.pub,
                 s.strictname)
        BY <1>1, <3>1 DEF Taken
      <3> QED BY <1>1, <2>2, <3>2 DEF FromClient, Tables
    <2>6. ~d.exited
      BY <1>1, <2>2 DEF Back
    <2> QED BY <1>1, <2>2, <2>3, <2>4, <2>5, <2>6 DEF Both
  <1> QED BY <1>2, <1>3 DEF ServerGoes

-----------------------------------------------------------------------------
(* KEXINIT.                                                                *)

\* The record of an end that has read the KEXINIT of exchange k + 1.
Negotiated(e, r, u, k, a) ==
    /\ Same(r, u, {"out", "transseq", "pub", "pubs", "cookie", "dataallowed", "sentkexinit",
                   "newkeys", "algo_signature", "strict_kex", "ignorenext", "our_first_follows_matches",
                   "hash", "requirenext", "recvkexinit", "exited", "recvseq"})
    /\ u.recvseq = r.recvseq + 1
    /\ u.cookie = k + 1 /\ u.sentkexinit = TRUE /\ u.dataallowed = FALSE /\ u.recvkexinit = TRUE
    /\ u.exited = FALSE /\ u.algo_signature = SigAlgs[a] /\ u.strict_kex = r.strictname
    /\ u.requirenext = IF e = "client" THEN "KEXDH_REPLY" ELSE "KEXDH_INIT"
    /\ u.ignorenext = (e = "server" /\ a # 1) /\ u.our_first_follows_matches = (e = "client" /\ a = 1)
    /\ u.hash.cookies = <<k + 1, k + 1>>
    /\ r.sentkexinit => u.out = <<>> /\ u.transseq = r.transseq /\ u.pub = r.pub
    /\ ~r.sentkexinit => /\ u.out = KexinitOut(e, r)
                         /\ u.transseq = r.transseq + (IF e = "client" THEN 2 ELSE 1)
                         /\ u.pub = IF e = "client" THEN r.pubs + 1 ELSE r.pub

LEMMA KexinitOutSame ==
  ASSUME NEW e, NEW r, NEW t,
         \A f \in {"cookie", "sigalgs", "strictname", "out", "keys", "transseq", "pubs"} : t[f] = r[f]
  PROVE  KexinitOut(e, t) = KexinitOut(e, r)
  BY DEF KexinitOut, Offer

LEMMA ReadKexinit ==
  ASSUME NEW e \in End, NEW r, NEW z, NEW p, NEW m, NEW y, NEW a \in 1..Len(SigAlgs), NEW b, NEW t, NEW u,
         Back(e, r), Own(e, r, a), Taken(e, r, z, p, m, y, a, b), Opened(r, t), u = Handled(e, t, p),
         p.type = "KEXINIT", e = "client" => r.sigalgs = SigAlgs, e = "server" => Table(r.sigalgs, a)
  PROVE  /\ r.requirenext \in {None, p.type} /\ ~u.exited /\ DOMAIN u = Fields
         /\ \E k \in Nat : ReadAt(e, r, a) = 4 * k /\ m = 4 * k + 1 /\ Negotiated(e, r, u, k, a)
  <1>1. PICK k \in Int : ReadAt(e, r, a) = 4 * k /\ m = 4 * k + 1 /\ p.body.cookie = k + 1
    BY DEF Taken, Fits
  <1>2. /\ ~r.recvkexinit /\ ~r.sentnewkeys /\ ~r.ignorenext /\ k = Done(r)
        /\ r.requirenext \in {None, "KEXINIT"} /\ (k >= 1 => r.requirenext = None /\ r.donefirstkex)
        /\ r.dataallowed <=> ~r.sentkexinit
        /\ r.cookie = IF r.sentkexinit THEN k + 1 ELSE k
    BY <1>1, ReadPlaces
  <1>3. r.cookie \in Nat /\ r.cookie >= 1 /\ k \in Nat
    <2>1. r.cookie \in Nat /\ r.cookie >= 1
      BY DEF Back, IsSession, Own
    <2> QED BY <1>2, <2>1
  <1>4. \A f \in Fields \ {"recvseq"} : t[f] = r[f]
    BY DEF Opened, Same
  <1>5. /\ t.ignorenext = r.ignorenext /\ t.exited = FALSE
        /\ t.recvseq = r.recvseq + 1 /\ DOMAIN t = Fields /\ IsSession(t)
    <2>1. t.ignorenext = r.ignorenext /\ t.exited = r.exited
      BY <1>4 DEF Fields, Flags
    <2> QED BY <2>1 DEF Opened, Same, Back, IsSession, Flags
  <1>6. PICK v : v = [t EXCEPT !.requirenext = None]
    OBVIOUS
  <1>7. Same(t, v, {"requirenext"}) /\ v.requirenext = None
    BY <1>5, <1>6 DEF Same, Fields, Flags
  <1>8. IsSession(v)
    <2>1. \A f \in {"requirenext"} : v[f] \in TypeOf(f)
      BY <1>7, TypesOf DEF Type
    <2> QED BY <1>5, <1>7, <2>1, SameType
  <1>9. \A f \in {"exited", "recvkexinit", "dataallowed", "sentkexinit", "our_first_follows_matches",
                  "ignorenext", "donefirstkex", "strict_kex", "sigalgs", "strictname", "cookie", "out",
                  "keys", "transseq", "pubs", "pub"} : v[f] = r[f]
    BY <1>4, <1>7 DEF Same, Fields, Flags
  <1>10. v.recvseq = r.recvseq + 1
    BY <1>5, <1>7 DEF Same, Fields, Flags
  <1>11. u = recv_msg_kexinit(e, v, p.body)
    BY <1>2, <1>5, <1>6 DEF Handled, handler
  <1>12. PICK o : o = p.body
    OBVIOUS
  <1>13. /\ o.strict = r.strictname /\ o.follows = (e = "server") /\ o.cookie = k + 1
         /\ e = "server" => o.sigalgs = buf_put_algolist(SigAlgs)
         /\ e = "client" => \E T : Table(T, a) /\ o.sigalgs = buf_put_algolist(T)
    <2>1. Says(Peer(e), p, a, r.strictname)
      BY DEF Taken
    <2>2. (Peer(e) = "client" <=> e = "server") /\ (Peer(e) = "server" <=> e = "client")
      BY DEF Peer, End
    <2> QED BY <1>1, <1>12, <2>1, <2>2 DEF Says
  <1>0. PICK g \in BOOLEAN : g = (a = 1)
    OBVIOUS
  <1>14. PICK A : A = SigAlgs[a] /\ g = (a = 1)
    BY <1>0
  <1>15. A # None
    BY <1>14, SigAlgsFacts
  <1>16. e = "server" => buf_match_algo(o.sigalgs, localnames(v.sigalgs)) = [algo |-> A, goodguess |-> g]
    BY <1>9, <1>13, <1>14, MatchAgrees
  <1>17. e = "client" => buf_match_algo(localnames(v.sigalgs), o.sigalgs) = [algo |-> A, goodguess |-> g]
    BY <1>9, <1>13, <1>14, MatchAgrees
  <1>18. o.strict \in BOOLEAN /\ o.follows \in BOOLEAN
    <2>1. r.strictname \in BOOLEAN
      BY DEF Back, IsSession, Flags
    <2> QED BY <1>13, <2>1
  <1>19. v.donefirstkex \/ v.recvseq = 1
    <2>1. r.donefirstkex \/ r.requirenext = "KEXINIT"
      <3>1. k = 0 => r.requirenext = "KEXINIT"
        BY <1>2 DEF Own
      <3> QED BY <1>2, <1>3, <3>1
    <2>2. r.requirenext = "KEXINIT" => r.recvseq = 0
      BY DEF Own
    <2> QED BY <1>9, <1>10, <2>1, <2>2
  <1>20. /\ ~v.exited /\ ~v.recvkexinit /\ (v.dataallowed <=> ~v.sentkexinit)
         /\ ~v.our_first_follows_matches /\ ~v.ignorenext
    <2>1. ~r.our_first_follows_matches /\ ~r.exited
      BY <1>2 DEF Own, Back
    <2> QED BY <1>2, <1>9, <2>1
  <1>21. PICK n : n = IF v.sentkexinit THEN v.cookie ELSE v.cookie + 1
    OBVIOUS
  <1>22. n = k + 1
    BY <1>2, <1>3, <1>9, <1>21
  <1>23. /\ Same(v, u, {"out", "transseq", "pub", "pubs", "cookie", "dataallowed", "sentkexinit",
                 "newkeys", "algo_signature", "strict_kex", "ignorenext",
                 "our_first_follows_matches", "hash", "requirenext", "recvkexinit", "exited"})
         /\ u.cookie = n /\ u.sentkexinit = TRUE /\ u.dataallowed = FALSE /\ u.recvkexinit = TRUE
         /\ u.exited = FALSE /\ u.algo_signature = A
         /\ u.requirenext = IF e = "client" THEN "KEXDH_REPLY" ELSE "KEXDH_INIT"
         /\ u.strict_kex = (v.strict_kex \/ (~v.donefirstkex /\ o.strict))
         /\ u.ignorenext = (o.follows /\ ~g)
         /\ u.our_first_follows_matches = (e = "client" /\ g)
         /\ u.hash = [NoHash EXCEPT !.cookies = IF e = "client" THEN <<n, o.cookie>> ELSE <<o.cookie, n>>]
         /\ v.sentkexinit => u.out = v.out /\ u.transseq = v.transseq /\ u.pub = v.pub
         /\ ~v.sentkexinit =>
              /\ u.out = KexinitOut(e, v)
              /\ u.transseq = v.transseq + (IF e = "client" THEN 2 ELSE 1)
              /\ u.pub = IF e = "client" THEN v.pubs + 1 ELSE v.pub
    <2>1. u = recv_msg_kexinit(e, v, o)
      BY <1>11, <1>12
    <2>2. Acceptable(e, v, o, A, g)
      BY <1>0, <1>8, <1>15, <1>16, <1>17, <1>18, <1>19, <1>20 DEF Acceptable
    <2>3. Accepted(e, v, o, A, g, n, u)
      BY <1>21, <2>1, <2>2, DoesRecvKexinit
    <2> QED BY <2>3 DEF Accepted
  <1>24. Negotiated(e, r, u, k, a)
    <2>1. Same(r, u, {"out", "transseq", "pub", "pubs", "cookie", "dataallowed", "sentkexinit",
                   "newkeys", "algo_signature", "strict_kex", "ignorenext", "our_first_follows_matches",
                   "hash", "requirenext", "recvkexinit", "exited", "recvseq"})
      <3>1. \A f \in Fields \ {"out", "transseq", "pub", "pubs", "cookie", "dataallowed", "sentkexinit",
                 "newkeys", "algo_signature", "strict_kex", "ignorenext",
                 "our_first_follows_matches", "hash", "requirenext", "recvkexinit", "exited"} : u[f] = v[f]
        BY <1>23 DEF Same
      <3>2. \A f \in Fields \ {"requirenext"} : v[f] = t[f]
        BY <1>7 DEF Same
      <3>3. DOMAIN u = Fields
        BY <1>23 DEF Same
      <3> QED BY <1>4, <3>1, <3>2, <3>3 DEF Same
    <2>2. u.recvseq = r.recvseq + 1
      <3>1. u.recvseq = v.recvseq
        BY <1>23 DEF Same, Fields, Flags
      <3> QED BY <1>10, <3>1
    <2>3. u.strict_kex = r.strictname
      <3>1. /\ r.strict_kex \in BOOLEAN /\ r.strictname \in BOOLEAN /\ r.donefirstkex \in BOOLEAN
        BY DEF Back, IsSession, Flags
      <3>2. (r.strict_kex => r.strictname) /\ (r.donefirstkex => (r.strict_kex <=> r.strictname))
        BY DEF Own
      <3>3. u.strict_kex = (r.strict_kex \/ (~r.donefirstkex /\ r.strictname))
        BY <1>9, <1>13, <1>23
      <3> QED BY <3>1, <3>2, <3>3
    <2>4. u.hash.cookies = <<k + 1, k + 1>>
      <3>1. u.hash = [NoHash EXCEPT !.cookies = <<k + 1, k + 1>>]
        BY <1>13, <1>22, <1>23
      <3> QED BY <3>1 DEF NoHash
    <2>5. u.ignorenext = (e = "server" /\ a # 1) /\ u.our_first_follows_matches = (e = "client" /\ a = 1)
      BY <1>13, <1>14, <1>23
    <2>6. KexinitOut(e, v) = KexinitOut(e, r)
      BY <1>9, KexinitOutSame
    <2>7. r.out = <<>>
      BY DEF Back
    <2> QED BY <1>9, <1>14, <1>22, <1>23, <2>1, <2>2, <2>3, <2>4, <2>5, <2>6, <2>7 DEF Negotiated
  <1> QED BY <1>1, <1>2, <1>3, <1>23, <1>24 DEF Same

\* The same at the end of the iteration, when a client that has guessed wrong
\* has sent its second KEXDH_INIT.
Offered(e, r, u, d, k, a, w, x) ==
    /\ \A f \in {"sentnewkeys", "donefirstkex", "strictname", "keys", "sigalgs", "session_id"} : d[f] = r[f]
    /\ d.recvseq = r.recvseq + 1
    /\ d.cookie = k + 1 /\ d.sentkexinit = TRUE /\ d.dataallowed = FALSE /\ d.recvkexinit = TRUE
    /\ d.exited = FALSE /\ d.algo_signature = SigAlgs[a] /\ d.strict_kex = r.strictname
    /\ d.requirenext = IF e = "client" THEN "KEXDH_REPLY" ELSE "KEXDH_INIT"
    /\ d.ignorenext = (e = "server" /\ a # 1)
    /\ d.hash.cookies = <<k + 1, k + 1>>
    /\ e = "server" \/ a = 1 => d.transseq = u.transseq /\ d.pub = u.pub /\ x = w \o u.out
    /\ e = "client" /\ a # 1 =>
          /\ d.transseq = u.transseq + 1 /\ d.pub \in Nat
          /\ x = Append(w \o u.out, Pkt("KEXDH_INIT", d.pub, r.keys.trans, u.transseq))

LEMMA KexinitEnds ==
  ASSUME NEW e \in End, NEW r, NEW a, NEW k \in Nat, NEW u, NEW p, NEW d, NEW w, NEW x,
         Back(e, r), ~r.recvkexinit, p.type = "KEXINIT", Negotiated(e, r, u, k, a),
         Ended(e, u, p, d, w, x)
  PROVE  Offered(e, r, u, d, k, a, w, x)
  <1>1. PICK f : /\ Same(u, f, {"lastpacket"}) /\ f.lastpacket = p.type /\ IsSession(f)
                 /\ Finished(e, f, d, w, x)
    BY DEF Ended
  <1>2. \A g \in Fields \ {"lastpacket"} : f[g] = u[g]
    BY <1>1 DEF Same
  <1>3. f.kex_state = "KEX_NOTHING"
    <2>1. f.kex_state = u.kex_state /\ u.kex_state = r.kex_state
      BY <1>2 DEF Negotiated, Same, Fields, Flags
    <2>2. r.kex_state # "KEXDH_INIT_SENT"
      BY DEF Back, ClientState, InExchange
    <2>3. r.kex_state \in {"KEX_NOTHING", "KEXDH_INIT_SENT"}
      BY DEF Back, IsSession
    <2> QED BY <2>1, <2>2, <2>3
  <1>4. /\ f.our_first_follows_matches = (e = "client" /\ a = 1) /\ f.dataallowed = FALSE
        /\ f.out = u.out /\ f.transseq = u.transseq /\ f.pub = u.pub /\ f.keys = r.keys
    <2>1. \A g \in {"our_first_follows_matches", "dataallowed", "out", "transseq", "pub", "keys"} : f[g] = u[g]
      BY <1>2 DEF Fields, Flags
    <2>2. u.keys = r.keys
      BY DEF Negotiated, Same, Fields, Flags
    <2> QED BY <2>1, <2>2 DEF Negotiated
  <1>5. Loops(e, f) <=> e = "client" /\ a # 1
    BY <1>1, <1>3, <1>4 DEF Loops
  <1>6. /\ Same(f, d, {"out", "transseq", "reply_queue", "kex_state", "pub", "pubs"})
        /\ e = "server" \/ a = 1 => d.transseq = f.transseq /\ d.pub = f.pub /\ x = w \o f.out
        /\ e = "client" /\ a # 1 =>
              /\ d.transseq = f.transseq + 1 /\ d.pub = f.pubs + 1
              /\ x = Append(w \o f.out, Pkt("KEXDH_INIT", f.pubs + 1, f.keys.trans, f.transseq))
    <2>1. CASE e = "client" /\ a # 1
      BY <1>1, <1>4, <1>5, <2>1 DEF Finished
    <2>2. CASE ~(e = "client" /\ a # 1)
      <3>1. Same(f, d, {"out", "reply_queue", "kex_state"}) /\ x = w \o f.out
        BY <1>1, <1>4, <1>5, <2>2 DEF Finished
      <3>2. d.transseq = f.transseq /\ d.pub = f.pub
        BY <3>1 DEF Same, Fields, Flags
      <3>3. Same(f, d, {"out", "transseq", "reply_queue", "kex_state", "pub", "pubs"})
        BY <3>1 DEF Same
      <3> QED BY <2>2, <3>1, <3>2, <3>3
    <2> QED BY <2>1, <2>2
  <1>7. f.pubs + 1 \in Nat
    BY <1>1 DEF IsSession
  <1>8. \A g \in {"sentnewkeys", "donefirstkex", "strictname", "keys", "sigalgs", "session_id", "recvseq",
                  "cookie", "sentkexinit", "dataallowed", "recvkexinit", "exited", "algo_signature",
                  "strict_kex", "requirenext", "ignorenext", "hash"} : d[g] = u[g]
    BY <1>2, <1>6 DEF Same, Fields, Flags
  <1>9. \A g \in {"sentnewkeys", "donefirstkex", "strictname", "keys", "sigalgs", "session_id"} : u[g] = r[g]
    BY DEF Negotiated, Same, Fields, Flags
  <1>10. \A g \in {"sentnewkeys", "donefirstkex", "strictname", "keys", "sigalgs", "session_id"} : d[g] = r[g]
    BY <1>8, <1>9
  <1>11. /\ d.recvseq = r.recvseq + 1
         /\ d.cookie = k + 1 /\ d.sentkexinit = TRUE /\ d.dataallowed = FALSE /\ d.recvkexinit = TRUE
         /\ d.exited = FALSE /\ d.algo_signature = SigAlgs[a] /\ d.strict_kex = r.strictname
         /\ d.requirenext = IF e = "client" THEN "KEXDH_REPLY" ELSE "KEXDH_INIT"
         /\ d.ignorenext = (e = "server" /\ a # 1)
         /\ d.hash.cookies = <<k + 1, k + 1>>
    BY <1>8 DEF Negotiated
  <1> QED BY <1>4, <1>6, <1>7, <1>10, <1>11 DEF Offered

LEMMA KexinitOwn ==
  ASSUME NEW e \in End, NEW r, NEW a, NEW k \in Nat, NEW u, NEW d, NEW w, NEW x,
         Back(e, r), Own(e, r, a), ReadAt(e, r, a) = 4 * k, Offered(e, r, u, d, k, a, w, x)
  PROVE  /\ Own(e, d, a) /\ ReadMark(e, d, a) = Mark(4 * k + 1, r.recvseq + 1, r.keys.recv)
         /\ SentMark(e, d, a) = Mark(4 * k + (IF e = "server" THEN 1 ELSE 3), d.transseq, r.keys.trans)
  <1>1. /\ ~r.recvkexinit /\ ~r.sentnewkeys /\ (k >= 1 => r.donefirstkex)
        /\ r.dataallowed <=> ~r.sentkexinit
        /\ r.cookie = IF r.sentkexinit THEN k + 1 ELSE k
    BY ReadPlaces
  <1>2. /\ r.cookie >= 1 /\ (r.donefirstkex <=> r.cookie > 1 \/ r.dataallowed)
        /\ r.session_id = NoHash <=> ~r.donefirstkex
    BY DEF Own
  <1>3. r.donefirstkex <=> k + 1 > 1
    BY <1>1, <1>2
  <1>4. /\ d.sentnewkeys = r.sentnewkeys /\ d.donefirstkex = r.donefirstkex /\ d.strictname = r.strictname
        /\ d.keys = r.keys /\ d.session_id = r.session_id
    BY DEF Offered
  <1>5. /\ d.recvseq = r.recvseq + 1
        /\ d.cookie = k + 1 /\ d.sentkexinit = TRUE /\ d.dataallowed = FALSE /\ d.recvkexinit = TRUE
        /\ d.exited = FALSE /\ d.algo_signature = SigAlgs[a] /\ d.strict_kex = r.strictname
        /\ d.requirenext = IF e = "client" THEN "KEXDH_REPLY" ELSE "KEXDH_INIT"
        /\ d.ignorenext = (e = "server" /\ a # 1)
        /\ d.hash.cookies = <<k + 1, k + 1>>
    BY DEF Offered
  <1>6. InExchange(d) /\ Done(d) = k
    BY <1>1, <1>4, <1>5 DEF InExchange, Done
  <1>7. Own(e, d, a)
    <2>1. d.strict_kex = d.strictname /\ ~d.sentnewkeys /\ d.cookie >= 1
      BY <1>1, <1>4, <1>5
    <2>2. d.donefirstkex <=> d.cookie > 1 \/ d.dataallowed
      BY <1>3, <1>4, <1>5
    <2>3. d.requirenext # "KEXINIT" /\ (e = "server" => d.requirenext # "KEXDH_REPLY")
      BY <1>5
    <2>4. d.hash.cookies = <<d.cookie, d.cookie>> /\ d.algo_signature = SigAlgs[a] /\ d.recvkexinit
          /\ (d.ignorenext => e = "server" /\ a # 1)
      BY <1>5
    <2>5. d.session_id = NoHash <=> ~d.donefirstkex
      BY <1>2, <1>4
    <2> QED BY <1>6, <2>1, <2>2, <2>3, <2>4, <2>5 DEF Own
  <1>8. ReadAt(e, d, a) = 4 * k + 1
    BY <1>1, <1>4, <1>5, <1>6 DEF ReadAt
  <1>9. SentAt(e, d, a) = 4 * k + (IF e = "server" THEN 1 ELSE 3)
    BY <1>5 DEF SentAt
  <1> QED BY <1>4, <1>5, <1>7, <1>8, <1>9 DEF ReadMark, SentMark

\* What the writer's line has become.
LEMMA KexinitLine ==
  ASSUME NEW e \in End, NEW r, NEW a, NEW k \in Nat, NEW u, NEW d, NEW w \in Seq(Packet), NEW x, NEW v,
         NEW b, NEW n,
         Back(e, r), Own(e, r, a), ReadAt(e, r, a) = 4 * k, Negotiated(e, r, u, k, a),
         Offered(e, r, u, d, k, a, w, x), e = "client" => r.sigalgs = SigAlgs, e = "server" => Table(r.sigalgs, a),
         Line(e, w, v, SentMark(e, r, a), a, b, r.strictname), 4 * k - 1 <= v.at,
         e = "client" => b = r.pub /\ n = d.pub
  PROVE  Line(e, x, v, SentMark(e, d, a), a, n, r.strictname)
  <1>1. /\ ~r.recvkexinit /\ ~r.sentnewkeys
        /\ r.dataallowed <=> ~r.sentkexinit
        /\ r.cookie = IF r.sentkexinit THEN k + 1 ELSE k
    BY ReadPlaces
  <1>2. /\ r.transseq \in Nat /\ r.keys.trans \in MaybeKey /\ r.pubs \in Nat /\ IsSession(r) /\ r.out = <<>>
    BY DEF Back, IsSession, Keys
  <1>3. PICK q \in Int : q = 4 * k + (IF e = "server" THEN 1 ELSE IF a = 1 THEN 3 ELSE 2)
    OBVIOUS
  <1>4. /\ u.out \in Seq(Packet) /\ u.transseq \in Nat
        /\ Line(e, w \o u.out, v, Mark(q, u.transseq, r.keys.trans), a, n, r.strictname)
    <2>1. CASE r.sentkexinit
      <3>1. u.out = <<>> /\ u.transseq = r.transseq /\ u.pub = r.pub
        BY <2>1 DEF Negotiated
      <3>2. w \o u.out = w /\ u.out \in Seq(Packet)
        BY <3>1
      <3>3. SentAt(e, r, a) = q
        BY <1>1, <1>3, <2>1 DEF SentAt
      <3>4. SentMark(e, r, a) = Mark(q, u.transseq, r.keys.trans)
        BY <3>1, <3>3 DEF SentMark
      <3>5. PICK z : z = Mark(q, u.transseq, r.keys.trans) /\ z.at = q
        BY MarkFields
      <3>6. Line(e, w, v, z, a, b, r.strictname)
        BY <3>4, <3>5
      <3>7. CASE e = "client" /\ a = 1
        <4>1. b = n
          BY <3>1, <3>7 DEF Offered
        <4> QED BY <1>2, <3>1, <3>2, <3>5, <3>6, <4>1
      <3>8. CASE ~(e = "client" /\ a = 1)
        <4>1. z.at <= 4 * k + 2 /\ k \in Int
          BY <1>3, <3>5, <3>8 DEF End
        <4>2. Line(e, w, v, z, a, n, r.strictname)
          BY <3>6, <4>1, LineBody
        <4> QED BY <1>2, <3>1, <3>2, <3>5, <4>2
      <3> QED BY <3>7, <3>8
    <2>2. CASE ~r.sentkexinit
      <3>1. /\ u.out = KexinitOut(e, r)
            /\ u.transseq = r.transseq + (IF e = "client" THEN 2 ELSE 1)
            /\ u.pub = IF e = "client" THEN r.pubs + 1 ELSE r.pub
        BY <2>2 DEF Negotiated
      <3>2. e = "client" /\ a = 1 => n = r.pubs + 1
        BY <3>1 DEF Offered
      <3>3. r.dataallowed /\ k = r.cookie
        BY <1>1, <2>2
      <3>4. /\ KexinitOut(e, r) \in Seq(Packet)
            /\ Line(e, w \o KexinitOut(e, r), v,
                 Mark(4 * k + (IF e = "server" THEN 1 ELSE IF a = 1 THEN 3 ELSE 2),
                      r.transseq + (IF e = "client" THEN 2 ELSE 1), r.keys.trans), a, n, r.strictname)
        BY <1>2, <3>2, <3>3, LineKexinit
      <3> QED BY <1>2, <1>3, <3>1, <3>4
    <2> QED BY <2>1, <2>2
  <1>5. SentMark(e, d, a) = Mark(4 * k + (IF e = "server" THEN 1 ELSE 3), d.transseq, r.keys.trans)
    BY KexinitOwn
  <1>6. CASE e = "server" \/ a = 1
    <2>1. d.transseq = u.transseq /\ x = w \o u.out
      BY <1>6 DEF Offered
    <2>2. q = 4 * k + (IF e = "server" THEN 1 ELSE 3)
      BY <1>3, <1>6
    <2> QED BY <1>4, <1>5, <2>1, <2>2
  <1>7. CASE e = "client" /\ a # 1
    <2>1. /\ d.transseq = u.transseq + 1 /\ d.pub \in Nat
          /\ x = Append(w \o u.out, Pkt("KEXDH_INIT", d.pub, r.keys.trans, u.transseq))
      BY <1>7 DEF Offered
    <2>2. PICK p \in Packet : p = Pkt("KEXDH_INIT", d.pub, r.keys.trans, u.transseq)
      BY <1>2, <1>4, <2>1, PktIsPacket DEF Plain
    <2>3. PICK z : z = Mark(q, u.transseq, r.keys.trans) /\ z.at = q /\ z.seq = u.transseq /\ z.key = r.keys.trans
      BY MarkFields
    <2>4. p.type = "KEXDH_INIT" /\ p.body = n /\ p.key = z.key /\ p.seq = z.seq
      BY <1>7, <2>2, <2>3, PktFields
    <2>5. Fits(z.at, p, 4 * k + 3, a, n)
      BY <1>3, <1>7, <2>3, <2>4 DEF Fits
    <2>6. Says(e, p, a, r.strictname)
      BY <1>7, <2>4 DEF Says
    <2>7. PICK o \in Seq(Packet) : o = w \o u.out
      BY <1>4, ConcatFacts
    <2>8. Line(e, o, v, z, a, n, r.strictname)
      BY <1>4, <2>3, <2>7
    <2>9. Line(e, Append(o, p), v, Mark(4 * k + 3, z.seq + 1, z.key), a, n, r.strictname)
      BY <2>4, <2>5, <2>6, <2>8, LineAppend
    <2> QED BY <1>5, <1>7, <2>1, <2>2, <2>3, <2>7, <2>9
  <1> QED BY <1>6, <1>7 DEF End

LEMMA ServerKexinit ==
  ASSUME NEW c, NEW s, NEW x, NEW y, NEW a, Ready(c, s, x, y, a), NEW p, NEW m, NEW v, NEW t, NEW u,
         Taken("server", s, SentMark("client", c, a), p, m, v, a, c.pub), Opened(s, t),
         u = Handled("server", t, p), p.type = "KEXINIT"
  PROVE  ServerGoes(c, s, v, y, a, p, u)
  <1>1. /\ Own("client", c, a) /\ Own("server", s, a) /\ Agree(c, s, a) /\ Tables(c, s, a)
        /\ FromClient(c, s, x, a) /\ FromServer(c, s, y, a)
        /\ Back("client", c) /\ Back("server", s) /\ x \in Seq(Packet) /\ y \in Seq(Packet)
        /\ a \in 1..Len(SigAlgs)
        /\ ReadAt("client", c, a) <= SentAt("server", s, a) /\ ReadAt("server", s, a) <= SentAt("client", c, a)
        /\ "client" \in End /\ "server" \in End /\ Peer("client") = "server" /\ Peer("server") = "client"
    BY ReadyFacts
  <1>2. Table(s.sigalgs, a) /\ c.strictname = s.strictname
    BY <1>1 DEF Tables
  <1>3. /\ s.requirenext \in {None, p.type} /\ ~u.exited /\ DOMAIN u = Fields
        /\ \E k \in Nat : ReadAt("server", s, a) = 4 * k /\ m = 4 * k + 1 /\ Negotiated("server", s, u, k, a)
    BY <1>1, <1>2, ReadKexinit
  <1>4. PICK k \in Nat : ReadAt("server", s, a) = 4 * k /\ m = 4 * k + 1 /\ Negotiated("server", s, u, k, a)
    BY <1>3
  <1>5. /\ ~s.recvkexinit /\ ~s.sentnewkeys /\ (s.dataallowed <=> ~s.sentkexinit)
        /\ s.cookie = IF s.sentkexinit THEN k + 1 ELSE k
    BY <1>1, <1>4, ReadPlaces
  <1>6. PICK i \in Int, j \in Int : i = ReadAt("client", c, a) /\ j = SentAt("client", c, a)
    BY <1>1, Places
  <1>7. 4 * k - 1 <= i
    <2>1. s.sentkexinit => 4 * (s.cookie - 1) - 1 <= i
      BY <1>1, <1>6, Near
    <2>2. ~s.sentkexinit => 4 * s.cookie - 1 <= i
      BY <1>1, <1>6, Near
    <2> QED BY <1>5, <2>1, <2>2
  <1>8. ~c.sentnewkeys
    <2>1. 4 * k + 1 <= j
      BY <1>4, <1>6, MarkFields DEF Taken, SentMark
    <2>2. i <= 4 * k + 1
      <3>1. SentAt("server", s, a) <= 4 * k + 1
        BY <1>5 DEF SentAt
      <3>2. SentAt("server", s, a) \in Int
        BY <1>1, Places
      <3> QED BY <1>1, <1>6, <3>1, <3>2
    <2>3. PICK n \in Nat : n = c.cookie
      BY <1>1, Places
    <2>4. c.sentnewkeys => i = 4 * (n - 1) + 3 /\ c.dataallowed
      BY <1>1, <1>6, <2>3, Places
    <2>5. c.dataallowed => j = 4 * n
      BY <1>1, <1>6, <2>3, Places
    <2> QED BY <2>1, <2>2, <2>4, <2>5
  <1>9. ASSUME NEW d, NEW w, Ended("server", u, p, d, y, w) PROVE ~d.exited /\ Both(c, d, v, w, a)
    <2>1. Offered("server", s, u, d, k, a, y, w)
      BY <1>1, <1>4, <1>5, <1>9, KexinitEnds
    <2>2. Own("server", d, a) /\ ReadMark("server", d, a) = Mark(4 * k + 1, s.recvseq + 1, s.keys.recv)
      BY <1>1, <1>4, <2>1, KexinitOwn
    <2>3. /\ d.exited = FALSE /\ d.strictname = s.strictname /\ d.sigalgs = s.sigalgs
          /\ d.session_id = s.session_id /\ d.sentnewkeys = s.sentnewkeys
      BY <2>1 DEF Offered
    <2>4. FromClient(c, d, v, a)
      <3>1. Line("client", v, Mark(m, s.recvseq + 1, s.keys.recv), SentMark("client", c, a), a, c.pub,
                 s.strictname)
        BY <1>1 DEF Taken
      <3> QED BY <1>2, <1>4, <2>2, <3>1 DEF FromClient
    <2>5. FromServer(c, d, w, a)
      <3>1. PICK g : g = ReadMark("client", c, a) /\ g.at = i
        BY <1>6, MarkFields DEF ReadMark
      <3>2. Line("server", y, g, SentMark("server", s, a), a, s.hash, s.strictname)
        BY <1>1, <1>2, <3>1 DEF FromServer
      <3>3. 4 * k - 1 <= g.at
        BY <1>7, <3>1
      <3>4. Line("server", w, g, SentMark("server", d, a), a, d.hash, s.strictname)
        BY <1>1, <1>2, <1>4, <2>1, <3>2, <3>3, KexinitLine
      <3> QED BY <1>2, <3>1, <3>4 DEF FromServer
    <2>6. Agree(c, d, a)
      <3>1. c.donefirstkex => c.session_id = s.session_id
        BY <1>1 DEF Agree
      <3> QED BY <1>5, <1>8, <2>3, <3>1 DEF Agree
    <2>7. Tables(c, d, a)
      BY <1>1, <2>3 DEF Tables
    <2> QED BY <1>1, <2>2, <2>3, <2>4, <2>5, <2>6, <2>7 DEF Both
  <1> QED BY <1>3, <1>9 DEF ServerGoes

LEMMA ClientKexinit ==
  ASSUME NEW c, NEW s, NEW x, NEW y, NEW a, Ready(c, s, x, y, a), NEW p, NEW m, NEW v, NEW t, NEW u,
         Taken("client", c, SentMark("server", s, a), p, m, v, a, s.hash), Opened(c, t),
         u = Handled("client", t, p), p.type = "KEXINIT"
  PROVE  ClientGoes(c, s, x, v, a, p, u)
  <1>1. /\ Own("client", c, a) /\ Own("server", s, a) /\ Agree(c, s, a) /\ Tables(c, s, a)
        /\ FromClient(c, s, x, a) /\ FromServer(c, s, y, a)
        /\ Back("client", c) /\ Back("server", s) /\ x \in Seq(Packet) /\ y \in Seq(Packet)
        /\ a \in 1..Len(SigAlgs)
        /\ ReadAt("client", c, a) <= SentAt("server", s, a) /\ ReadAt("server", s, a) <= SentAt("client", c, a)
        /\ "client" \in End /\ "server" \in End /\ Peer("client") = "server" /\ Peer("server") = "client"
    BY ReadyFacts
  <1>2. c.sigalgs = SigAlgs /\ c.strictname = s.strictname
    BY <1>1 DEF Tables
  <1>3. /\ c.requirenext \in {None, p.type} /\ ~u.exited /\ DOMAIN u = Fields
        /\ \E k \in Nat : ReadAt("client", c, a) = 4 * k /\ m = 4 * k + 1 /\ Negotiated("client", c, u, k, a)
    BY <1>1, <1>2, ReadKexinit
  <1>4. PICK k \in Nat : ReadAt("client", c, a) = 4 * k /\ m = 4 * k + 1 /\ Negotiated("client", c, u, k, a)
    BY <1>3
  <1>5. /\ ~c.recvkexinit /\ ~c.sentnewkeys /\ (c.dataallowed <=> ~c.sentkexinit)
        /\ c.cookie = IF c.sentkexinit THEN k + 1 ELSE k
    BY <1>1, <1>4, ReadPlaces
  <1>6. PICK i \in Int, j \in Int : i = ReadAt("server", s, a) /\ j = SentAt("server", s, a)
    BY <1>1, Places
  <1>7. 4 * k - 1 <= i
    <2>1. c.sentkexinit => 4 * (c.cookie - 1) - 1 <= i
      BY <1>1, <1>6, Near
    <2>2. ~c.sentkexinit => 4 * c.cookie - 1 <= i
      BY <1>1, <1>6, Near
    <2> QED BY <1>5, <2>1, <2>2
  <1>8. s.sentnewkeys => s.cookie > k /\ (s.cookie = k + 1 => c.sentkexinit /\ a = 1)
    <2>1. 4 * k + 1 <= j
      BY <1>4, <1>6, MarkFields DEF Taken, SentMark
    <2>2. i <= (IF ~c.sentkexinit THEN 4 * k ELSE IF a = 1 THEN 4 * k + 3 ELSE 4 * k + 2)
      <3>1. SentAt("client", c, a) = IF ~c.sentkexinit THEN 4 * k ELSE IF a = 1 THEN 4 * k + 3 ELSE 4 * k + 2
        BY <1>5 DEF SentAt
      <3> QED BY <1>1, <1>6, <3>1
    <2>3. PICK n \in Nat : n = s.cookie
      BY <1>1, Places
    <2>4. s.sentnewkeys => i = 4 * (n - 1) + 3 /\ s.dataallowed
      BY <1>1, <1>6, <2>3, Places
    <2>5. s.dataallowed => j = 4 * n
      BY <1>1, <1>6, <2>3, Places
    <2> QED BY <2>1, <2>2, <2>3, <2>4, <2>5
  <1>9. ASSUME NEW d, NEW w, Ended("client", u, p, d, x, w) PROVE ~d.exited /\ Both(d, s, w, v, a)
    <2>1. Offered("client", c, u, d, k, a, x, w)
      BY <1>1, <1>4, <1>5, <1>9, KexinitEnds
    <2>2. Own("client", d, a) /\ ReadMark("client", d, a) = Mark(4 * k + 1, c.recvseq + 1, c.keys.recv)
      BY <1>1, <1>4, <2>1, KexinitOwn
    <2>3. /\ d.exited = FALSE /\ d.strictname = c.strictname /\ d.sigalgs = c.sigalgs
          /\ d.session_id = c.session_id /\ d.sentnewkeys = c.sentnewkeys /\ d.dataallowed = FALSE
          /\ d.donefirstkex = c.donefirstkex /\ d.cookie = k + 1 /\ (a = 1 => d.pub = u.pub)
      BY <2>1 DEF Offered
    <2>4. FromServer(d, s, v, a)
      <3>1. Line("server", v, Mark(m, c.recvseq + 1, c.keys.recv), SentMark("server", s, a), a, s.hash,
                 c.strictname)
        BY <1>1 DEF Taken
      <3> QED BY <1>4, <2>2, <2>3, <3>1 DEF FromServer
    <2>5. FromClient(d, s, w, a)
      <3>1. PICK g : g = ReadMark("server", s, a) /\ g.at = i
        BY <1>6, MarkFields DEF ReadMark
      <3>2. Line("client", x, g, SentMark("client", c, a), a, c.pub, c.strictname)
        BY <1>1, <3>1 DEF FromClient
      <3>3. 4 * k - 1 <= g.at
        BY <1>7, <3>1
      <3>4. Line("client", w, g, SentMark("client", d, a), a, d.pub, c.strictname)
        BY <1>1, <1>2, <1>4, <2>1, <3>2, <3>3, KexinitLine
      <3> QED BY <2>3, <3>1, <3>4 DEF FromClient
    <2>6. Agree(d, s, a)
      <3>1. c.donefirstkex => c.session_id = s.session_id
        BY <1>1 DEF Agree
      <3>2. ASSUME s.sentnewkeys, d.cookie = s.cookie
            PROVE  s.hash = [cookies |-> <<s.cookie, s.cookie>>, pub |-> d.pub, sig |-> SigAlgs[a]]
        <4>1. c.sentkexinit /\ a = 1 /\ ~c.dataallowed /\ c.cookie = s.cookie
          BY <1>5, <1>8, <2>3, <3>2
        <4>2. d.pub = c.pub
          BY <1>4, <2>3, <4>1 DEF Negotiated
        <4> QED BY <1>1, <3>2, <4>1, <4>2 DEF Agree
      <3>3. s.sentnewkeys => ~(d.cookie > s.cookie)
        <4>1. s.cookie \in Nat
          BY <1>1, Places
        <4> QED BY <1>8, <2>3, <4>1
      <3> QED BY <1>5, <2>3, <3>1, <3>2, <3>3 DEF Agree
    <2>7. Tables(d, s, a)
      BY <1>1, <2>3 DEF Tables
    <2> QED BY <1>1, <2>2, <2>3, <2>4, <2>5, <2>6, <2>7 DEF Both
  <1> QED BY <1>3, <1>9 DEF ClientGoes

-----------------------------------------------------------------------------
(* The exchange hash, and NEWKEYS after it.                                *)

\* The record of an end that has read the value or the reply that counts, and
\* has sent NEWKEYS.
Secured(e, r, d, h) ==
    /\ \A f \in {"strictname", "strict_kex", "cookie", "sentkexinit", "recvkexinit", "ignorenext"} : d[f] = r[f]
    /\ d.recvseq = r.recvseq + 1 /\ d.exited = FALSE /\ d.requirenext = "NEWKEYS"
    /\ d.hash = h /\ d.session_id = IF r.session_id = NoHash THEN h ELSE r.session_id
    /\ d.sentnewkeys = TRUE /\ d.dataallowed = TRUE /\ d.donefirstkex = TRUE
    /\ d.keys = [recv |-> r.keys.recv, trans |-> <<h, Direction(e)>>]
    /\ d.newkeys = [recv |-> <<h, Direction(Peer(e))>>, trans |-> NoKey]

Renewed(e, r, d, h, a) ==
    /\ Own(e, d, a) /\ SentMark(e, d, a) = Mark(4 * r.cookie, d.transseq, <<h, Direction(e)>>)
    /\ ReadMark(e, d, a) = Mark(4 * (r.cookie - 1) + 3, r.recvseq + 1, r.keys.recv)
    /\ r.cookie = 1 => d.session_id = h
    /\ r.cookie # 1 => d.session_id = r.session_id

LEMMA SecuredOwn ==
  ASSUME NEW e \in End, NEW r, NEW d, NEW a \in 1..Len(SigAlgs), NEW b, NEW h, Back(e, r), Own(e, r, a),
         InExchange(r), ~r.ignorenext,
         h = [cookies |-> <<r.cookie, r.cookie>>, pub |-> b, sig |-> SigAlgs[a]], Secured(e, r, d, h)
  PROVE  Renewed(e, r, d, h, a)
  <1>1. r.cookie \in Nat /\ r.cookie >= 1 /\ ~r.dataallowed /\ r.recvkexinit /\ r.sentkexinit
    <2>1. r.cookie \in Nat /\ ~r.dataallowed
      BY Places
    <2> QED BY <2>1 DEF Own, InExchange, Back, Phases
  <1>2. /\ d.strictname = r.strictname /\ d.strict_kex = r.strict_kex /\ d.cookie = r.cookie
        /\ d.sentkexinit = r.sentkexinit /\ d.recvkexinit = r.recvkexinit /\ d.ignorenext = r.ignorenext
        /\ d.recvseq = r.recvseq + 1 /\ d.exited = FALSE /\ d.requirenext = "NEWKEYS"
        /\ d.hash = h /\ d.session_id = IF r.session_id = NoHash THEN h ELSE r.session_id
        /\ d.sentnewkeys = TRUE /\ d.dataallowed = TRUE /\ d.donefirstkex = TRUE
        /\ d.keys.recv = r.keys.recv /\ d.keys.trans = <<h, Direction(e)>>
        /\ d.newkeys.recv = <<h, Direction(Peer(e))>>
    BY DEF Secured
  <1>3. h # NoHash /\ h.cookies = <<r.cookie, r.cookie>>
    <2>1. h.sig = SigAlgs[a] /\ NoHash.sig = None /\ h.cookies = <<r.cookie, r.cookie>>
      BY DEF NoHash
    <2>2. SigAlgs[a] # None
      BY SigAlgsFacts
    <2> QED BY <2>1, <2>2
  <1>4. /\ (r.donefirstkex <=> r.cookie > 1) /\ (r.session_id = NoHash <=> ~r.donefirstkex)
        /\ r.strict_kex <=> r.strictname
    BY <1>1 DEF Own
  <1>5. d.session_id # NoHash /\ (r.cookie = 1 => d.session_id = h) /\ (r.cookie # 1 => d.session_id = r.session_id)
    BY <1>1, <1>2, <1>3, <1>4
  <1>6. Own(e, d, a)
    BY <1>1, <1>2, <1>3, <1>4, <1>5 DEF Own, InExchange
  <1>7. ReadAt(e, d, a) = 4 * (r.cookie - 1) + 3 /\ SentAt(e, d, a) = 4 * r.cookie
    BY <1>1, <1>2 DEF ReadAt, SentAt, Done
  <1> QED BY <1>2, <1>5, <1>6, <1>7 DEF ReadMark, SentMark, Renewed

\* The iteration ends with what was held back during the exchange.
Drained(e, r, h, u, d, w, x) ==
    /\ Secured(e, r, d, h) /\ d.sigalgs = u.sigalgs
    /\ \E q \in Seq(Packet) :
          /\ d.transseq = u.transseq + Len(q) /\ x = (w \o u.out) \o q
          /\ \E i : FlushOf(q, i, <<h, Direction(e)>>, u.transseq)

LEMMA SecuredEnds ==
  ASSUME NEW e \in End, NEW r, NEW h, NEW u, NEW p, NEW d, NEW w, NEW x, p.type # "KEXINIT",
         Secured(e, r, u, h), Ended(e, u, p, d, w, x)
  PROVE  Drained(e, r, h, u, d, w, x)
  <1>1. PICK f : /\ Same(u, f, {"lastpacket"}) /\ f.lastpacket = p.type /\ IsSession(f)
                 /\ Finished(e, f, d, w, x)
    BY DEF Ended
  <1>2. Flushed(f, d, w, x)
    BY <1>1 DEF Loops, Finished
  <1>3. PICK q \in Seq(Packet) :
           /\ Same(f, d, {"out", "transseq", "reply_queue", "kex_state"})
           /\ d.transseq = f.transseq + Len(q) /\ x = (w \o f.out) \o q
           /\ \E i : FlushOf(q, i, f.keys.trans, f.transseq)
    BY <1>2 DEF Flushed
  <1>4. \A g \in Fields \ {"lastpacket"} : f[g] = u[g]
    BY <1>1 DEF Same
  <1>5. f.transseq = u.transseq /\ f.out = u.out /\ f.keys = u.keys
    BY <1>4 DEF Fields, Flags
  <1>6. u.keys.trans = <<h, Direction(e)>>
    BY DEF Secured
  <1>7. \A g \in {"strictname", "strict_kex", "cookie", "sentkexinit", "recvkexinit", "ignorenext", "recvseq",
                  "exited", "requirenext", "hash", "session_id", "sentnewkeys", "dataallowed",
                  "donefirstkex", "keys", "newkeys", "sigalgs"} : d[g] = u[g]
    BY <1>3, <1>4 DEF Same, Fields, Flags
  <1>8. Secured(e, r, d, h)
    BY <1>7 DEF Secured
  <1> QED BY <1>3, <1>5, <1>6, <1>7, <1>8 DEF Drained

LEMMA SecuredLine ==
  ASSUME NEW e \in End, NEW w \in Seq(Packet), NEW v, NEW a, NEW b, NEW strict, NEW n \in Nat, n >= 1,
         NEW k, NEW seq, NEW to, NEW q \in Seq(Packet), NEW i,
         Line(e, w, v, Mark(4 * n, seq, k), a, b, strict), FlushOf(q, i, k, seq), to = seq + Len(q)
  PROVE  Line(e, w \o q, v, Mark(4 * n, to, k), a, b, strict)
  <1>1. PICK z : z = Mark(4 * n, seq, k) /\ z.at = 4 * n /\ z.seq = seq /\ z.key = k
    BY MarkFields
  <1>2. n \in Int
    OBVIOUS
  <1>3. Line(e, w \o q, v, Mark(z.at, z.seq + Len(q), z.key), a, b, strict)
    BY <1>1, <1>2, LineFlush
  <1> QED BY <1>1, <1>3

\* The value that counts: both ends are in the same exchange.
LEMMA ValuePlaces ==
  ASSUME NEW c, NEW s, NEW x, NEW y, NEW a, Ready(c, s, x, y, a), NEW p, NEW m, NEW v,
         Taken("server", s, SentMark("client", c, a), p, m, v, a, c.pub),
         p.type = "KEXDH_INIT", ~s.ignorenext
  PROVE  /\ p.body = c.pub /\ InExchange(s) /\ s.requirenext = "KEXDH_INIT"
         /\ s.cookie \in Nat /\ s.cookie >= 1 /\ c.cookie = s.cookie /\ m = 4 * (s.cookie - 1) + 3
         /\ ~c.dataallowed /\ ~c.sentnewkeys
         /\ 4 * (s.cookie - 1) <= ReadAt("client", c, a) /\ SentAt("server", s, a) = 4 * (s.cookie - 1) + 1
  <1>1. /\ Own("client", c, a) /\ Own("server", s, a) /\ Back("client", c) /\ Back("server", s)
        /\ ReadAt("client", c, a) <= SentAt("server", s, a)
        /\ "client" \in End /\ "server" \in End
    BY ReadyFacts
  <1>2. Fits(ReadAt("server", s, a), p, m, a, c.pub) /\ m <= SentAt("client", c, a)
    BY MarkFields DEF Taken, SentMark
  <1>3. \A k \in Int : ReadAt("server", s, a) = 4 * k + 1 =>
           /\ InExchange(s) /\ k = s.cookie - 1 /\ (a = 1 \/ s.ignorenext) /\ s.requirenext = "KEXDH_INIT"
    BY <1>1, ReadPlaces
  <1>4. \A k \in Int : ReadAt("server", s, a) = 4 * k + 2 =>
           /\ InExchange(s) /\ k = s.cookie - 1 /\ s.requirenext = "KEXDH_INIT"
    BY <1>1, ReadPlaces
  <1>5. PICK k \in Int : /\ p.body = c.pub /\ m = 4 * k + 3
                         /\ ReadAt("server", s, a) = 4 * k + (IF a = 1 THEN 1 ELSE 2)
    <2>1. ~(a # 1 /\ \E k \in Int : ReadAt("server", s, a) = 4 * k + 1 /\ m = 4 * k + 2)
      BY <1>3
    <2> QED BY <1>2, <2>1 DEF Fits
  <1>6. InExchange(s) /\ k = s.cookie - 1 /\ s.requirenext = "KEXDH_INIT"
    <2>1. CASE a = 1
      <3>1. ReadAt("server", s, a) = 4 * k + 1
        BY <1>5, <2>1
      <3> QED BY <1>3, <3>1
    <2>2. CASE a # 1
      <3>1. ReadAt("server", s, a) = 4 * k + 2
        BY <1>5, <2>2
      <3> QED BY <1>4, <3>1
    <2> QED BY <2>1, <2>2
  <1>7. PICK n \in Nat, o \in Nat : n = s.cookie /\ o = c.cookie /\ n >= 1 /\ o >= 1
    BY <1>1 DEF Back, IsSession, Own
  <1>8. PICK i \in Int, j \in Int : i = ReadAt("client", c, a) /\ j = SentAt("client", c, a)
    BY <1>1, Places
  <1>9. ~s.dataallowed /\ SentAt("server", s, a) = 4 * (n - 1) + 1
    BY <1>1, <1>6, <1>7, Places
  <1>10. /\ i <= 4 * (n - 1) + 1 /\ 4 * (n - 1) + 3 <= j
    BY <1>1, <1>2, <1>5, <1>6, <1>7, <1>8, <1>9
  <1>11. /\ c.dataallowed => j = 4 * o /\ 4 * o - 1 <= i
         /\ ~c.dataallowed => ~c.sentnewkeys
         /\ 4 * (o - 1) <= i
    BY <1>1, <1>7, <1>8, Places
  <1>12. ~c.dataallowed => j <= 4 * (o - 1) + 3
    <2>1. ~c.dataallowed => j = 4 * (o - 1) + (IF a = 1 \/ c.recvkexinit THEN 3 ELSE 2)
      BY <1>1, <1>7, <1>8, Places
    <2> QED BY <2>1
  <1>13. ~c.dataallowed
    BY <1>10, <1>11
  <1>14. o = n
    BY <1>10, <1>11, <1>12, <1>13
  <1> QED BY <1>5, <1>6, <1>7, <1>8, <1>9, <1>11, <1>13, <1>14

\* recv_msg_kexdh_init().
ValueOut(s, u, h) ==
    \E o, q :
       /\ o = Append(Append(<<>>, Pkt("KEXDH_REPLY", h, s.keys.trans, s.transseq)),
                     Pkt("NEWKEYS", 0, s.keys.trans, s.transseq + 1))
       /\ q = IF s.strict_kex THEN 0 ELSE s.transseq + 1 + 1
       /\ \/ u.out = o /\ u.transseq = q
          \/ u.out = Append(o, Pkt("EXT_INFO", 0, <<h, "s2c">>, q)) /\ u.transseq = q + 1

LEMMA ReadValue ==
  ASSUME NEW s, NEW a, NEW t, NEW u, NEW p, NEW h, Back("server", s), Own("server", s, a), Opened(s, t),
         u = Handled("server", t, p), p.type = "KEXDH_INIT", InExchange(s), ~s.ignorenext,
         h = [cookies |-> <<s.cookie, s.cookie>>, pub |-> p.body, sig |-> SigAlgs[a]], Table(s.sigalgs, a)
  PROVE  /\ Secured("server", s, u, h) /\ DOMAIN u = Fields /\ ValueOut(s, u, h)
         /\ Table(u.sigalgs, a) /\ u.strictname = s.strictname
  <1>1. "server" \in End /\ Direction("server") = "s2c" /\ Direction(Peer("server")) = "c2s"
    BY DEF End, Direction, Peer
  <1>2. \A f \in Fields \ {"recvseq"} : t[f] = s[f]
    BY DEF Opened, Same
  <1>3. t.ignorenext = s.ignorenext /\ DOMAIN t = Fields /\ t.recvseq = s.recvseq + 1
    BY <1>2 DEF Fields, Flags, Opened, Same
  <1>4. PICK v : v = [t EXCEPT !.requirenext = None]
    OBVIOUS
  <1>5. Same(t, v, {"requirenext"})
    BY <1>3, <1>4 DEF Same, Fields, Flags
  <1>6. \A f \in Fields \ {"recvseq", "requirenext"} : v[f] = s[f]
    BY <1>2, <1>5 DEF Same
  <1>7. /\ v.sentkexinit = s.sentkexinit /\ v.recvkexinit = s.recvkexinit /\ v.recvnewkeys = s.recvnewkeys
        /\ v.hash = s.hash /\ v.algo_signature = s.algo_signature /\ v.out = s.out /\ v.keys = s.keys
        /\ v.transseq = s.transseq /\ v.strict_kex = s.strict_kex /\ v.session_id = s.session_id
        /\ v.sigalgs = s.sigalgs
    BY <1>6 DEF Fields, Flags
  <1>8. s.sentkexinit /\ s.recvkexinit /\ ~s.recvnewkeys /\ s.out = <<>>
    BY DEF Back, Phases, InExchange
  <1>9. s.hash.cookies = <<s.cookie, s.cookie>> /\ s.algo_signature = SigAlgs[a]
    BY <1>8 DEF Own
  <1>10. h = HashOf(v, p.body)
    BY <1>7, <1>9 DEF HashOf
  <1>11. u = recv_msg_kexdh_init(v, p.body)
    BY <1>3, <1>4 DEF Handled, handler
  <1>12. PICK o : o = Append(Append(v.out, Pkt("KEXDH_REPLY", h, v.keys.trans, v.transseq)),
                           Pkt("NEWKEYS", 0, v.keys.trans, v.transseq + 1))
    OBVIOUS
  <1>13. PICK q : q = IF v.strict_kex THEN 0 ELSE v.transseq + 1 + 1
    OBVIOUS
  <1>14. /\ Same(v, u, {"hash", "session_id", "out", "transseq", "sentnewkeys", "donefirstkex",
                        "donesecondkex", "dataallowed", "keys", "newkeys", "sigalgs", "requirenext"})
         /\ u.hash = h /\ u.session_id = IF v.session_id = NoHash THEN h ELSE v.session_id
         /\ u.sentnewkeys = TRUE /\ u.dataallowed = TRUE /\ u.donefirstkex = TRUE
         /\ u.requirenext = "NEWKEYS"
         /\ u.keys = [recv |-> v.keys.recv, trans |-> <<h, "s2c">>]
         /\ u.newkeys = [recv |-> <<h, "c2s">>, trans |-> NoKey]
         /\ \/ u.out = o /\ u.transseq = q /\ u.sigalgs = v.sigalgs
            \/ /\ u.out = Append(o, Pkt("EXT_INFO", 0, <<h, "s2c">>, q)) /\ u.transseq = q + 1
               /\ u.sigalgs = [i \in 1..Len(v.sigalgs) |-> IF v.sigalgs[i] = v.algo_signature
                                                           THEN v.sigalgs[i] ELSE None]
    <2>1. DOMAIN v = Fields /\ v.sentkexinit /\ v.recvkexinit /\ ~v.recvnewkeys
      BY <1>5, <1>7, <1>8 DEF Same
    <2>2. Replied(v, h, o, q, u)
      BY <1>10, <1>11, <1>12, <1>13, <2>1, DoesRecvKexdhInit
    <2> QED BY <2>2 DEF Replied
  <1>15. \A f \in {"strictname", "strict_kex", "cookie", "sentkexinit", "recvkexinit", "ignorenext", "exited"} :
            u[f] = s[f]
    <2>1. \A f \in Fields \ {"hash", "session_id", "out", "transseq", "sentnewkeys", "donefirstkex",
                        "donesecondkex", "dataallowed", "keys", "newkeys", "sigalgs", "requirenext"} : u[f] = v[f]
      BY <1>14 DEF Same
    <2> QED BY <1>6, <2>1 DEF Fields, Flags
  <1>16. u.recvseq = s.recvseq + 1
    <2>1. u.recvseq = v.recvseq /\ v.recvseq = t.recvseq
      BY <1>5, <1>14 DEF Same, Fields, Flags
    <2> QED BY <1>3, <2>1
  <1>17. s.exited = FALSE
    BY DEF Back, IsSession, Flags
  <1>18. Secured("server", s, u, h)
    BY <1>1, <1>7, <1>14, <1>15, <1>16, <1>17 DEF Secured
  <1>19. DOMAIN u = Fields /\ u.strictname = s.strictname
    BY <1>14, <1>15 DEF Same
  <1>20. ValueOut(s, u, h)
    <2>1. o = Append(Append(<<>>, Pkt("KEXDH_REPLY", h, s.keys.trans, s.transseq)),
                     Pkt("NEWKEYS", 0, s.keys.trans, s.transseq + 1))
      BY <1>7, <1>8, <1>12
    <2>2. q = IF s.strict_kex THEN 0 ELSE s.transseq + 1 + 1
      BY <1>7, <1>13
    <2>3. \/ u.out = o /\ u.transseq = q
          \/ u.out = Append(o, Pkt("EXT_INFO", 0, <<h, "s2c">>, q)) /\ u.transseq = q + 1
      BY <1>14
    <2> QED BY <2>1, <2>2, <2>3 DEF ValueOut
  <1>21. Table(u.sigalgs, a)
    <2>1. CASE u.sigalgs = v.sigalgs
      BY <1>7, <2>1
    <2>2. CASE u.sigalgs = [i \in 1..Len(v.sigalgs) |-> IF v.sigalgs[i] = v.algo_signature
                                                        THEN v.sigalgs[i] ELSE None]
      <3>1. u.sigalgs = [i \in 1..Len(s.sigalgs) |-> IF s.sigalgs[i] = SigAlgs[a] THEN s.sigalgs[i] ELSE None]
        BY <1>7, <1>9, <2>2
      <3> QED BY <3>1, TableNarrowed
    <2> QED BY <1>14, <2>1, <2>2
  <1> QED BY <1>18, <1>19, <1>20, <1>21

LEMMA HashTyped ==
  ASSUME NEW n \in Nat, NEW b \in Nat, NEW a \in 1..Len(SigAlgs), NEW h,
         h = [cookies |-> <<n, n>>, pub |-> b, sig |-> SigAlgs[a]]
  PROVE  h \in Hash /\ <<h, "s2c">> \in MaybeKey /\ <<h, "c2s">> \in MaybeKey
  <1>1. SigAlgs[a] \in Algo
    BY SigAlgsFacts DEF Algo, Name
  <1>2. h \in Hash
    BY <1>1 DEF Hash
  <1> QED BY <1>2 DEF MaybeKey

\* REPLY and NEWKEYS, and EXT_INFO under the new key.
LEMMA ValueLine ==
  ASSUME NEW s, NEW a \in 1..Len(SigAlgs), NEW u, NEW h, NEW y \in Seq(Packet), NEW g, NEW b, NEW n \in Nat,
         NEW pub \in Nat, h = [cookies |-> <<n, n>>, pub |-> pub, sig |-> SigAlgs[a]], n >= 1,
         Back("server", s), s.strict_kex = s.strictname, SentAt("server", s, a) = 4 * (n - 1) + 1,
         ValueOut(s, u, h), Line("server", y, g, SentMark("server", s, a), a, b, s.strictname),
         4 * (n - 1) <= g.at
  PROVE  /\ y \o u.out \in Seq(Packet)
         /\ Line("server", y \o u.out, g, Mark(4 * n, u.transseq, <<h, "s2c">>), a, h, s.strictname)
  <1>1. /\ s.transseq \in Nat /\ s.keys.trans \in MaybeKey /\ "server" \in End
    BY DEF Back, IsSession, Keys, End
  <1>2. h \in Hash /\ <<h, "s2c">> \in MaybeKey
    BY HashTyped
  <1>3. PICK k \in Int : k = n - 1
    OBVIOUS
  <1>4. PICK z : /\ z = SentMark("server", s, a) /\ z.at = 4 * k + 1 /\ z.seq = s.transseq
                 /\ z.key = s.keys.trans
    BY <1>3, MarkFields DEF SentMark
  <1>5. Line("server", y, g, z, a, h, s.strictname)
    <2>1. 4 * k - 1 <= g.at /\ z.at <= 4 * k + 2
      <3>1. PICK i \in Int : i = g.at
        BY <1>1, LineOrder
      <3>2. 4 * k <= i
        BY <1>3, <3>1
      <3>3. 4 * k - 1 <= i /\ 4 * k + 1 <= 4 * k + 2
        BY <3>2
      <3> QED BY <1>4, <3>1, <3>3
    <2> QED BY <1>1, <1>4, <2>1, LineBody
  <1>6. PICK p \in Packet : p = Pkt("KEXDH_REPLY", h, s.keys.trans, s.transseq)
    BY <1>1, <1>2, PktIsPacket
  <1>7. p.type = "KEXDH_REPLY" /\ p.body = h /\ p.key = z.key /\ p.seq = z.seq
    BY <1>4, <1>6, PktFields
  <1>8. PICK y1 \in Seq(Packet) : y1 = Append(y, p)
    BY AppendProperties
  <1>9. PICK z1 : /\ z1 = Mark(4 * k + 3, z.seq + 1, z.key) /\ z1.at = 4 * k + 3 /\ z1.seq = s.transseq + 1
                  /\ z1.key = s.keys.trans
    BY <1>4, MarkFields
  <1>10. Line("server", y1, g, z1, a, h, s.strictname)
    <2>1. Fits(z.at, p, 4 * k + 3, a, h)
      BY <1>4, <1>7 DEF Fits
    <2>2. Says("server", p, a, s.strictname)
      BY <1>7 DEF Says
    <2> QED BY <1>1, <1>5, <1>7, <1>8, <1>9, <2>1, <2>2, LineAppend
  <1>11. PICK r \in Packet : r = Pkt("NEWKEYS", 0, s.keys.trans, s.transseq + 1)
    <2>1. s.transseq + 1 \in Nat /\ "NEWKEYS" \in Plain /\ 0 \in Nat
      BY <1>1 DEF Plain
    <2> QED BY <1>1, <2>1, PktIsPacket
  <1>12. r.type = "NEWKEYS" /\ r.key = z1.key /\ r.seq = z1.seq
    BY <1>9, <1>11, PktFields
  <1>13. PICK y2 \in Seq(Packet) : y2 = Append(y1, r)
    BY AppendProperties
  <1>14. PICK q \in Nat : q = IF s.strict_kex THEN 0 ELSE s.transseq + 1 + 1
    BY <1>1
  <1>15. PICK z2 : /\ z2 = Mark(4 * n, q, <<h, "s2c">>) /\ z2.at = 4 * n /\ z2.seq = q
                   /\ z2.key = <<h, "s2c">>
    BY MarkFields
  <1>16. Line("server", y2, g, z2, a, h, s.strictname)
    <2>1. Line("server", y2, g, Mark(4 * k + 4, IF s.strictname THEN 0 ELSE z1.seq + 1, <<h, "s2c">>), a, h,
               s.strictname)
      BY <1>1, <1>3, <1>9, <1>10, <1>12, <1>13, LineNewkeys
    <2>2. 4 * k + 4 = 4 * n /\ q = IF s.strictname THEN 0 ELSE z1.seq + 1
      <3>1. 4 * k + 4 = 4 * n
        BY <1>3
      <3>2. s.strict_kex \in BOOLEAN /\ s.strictname \in BOOLEAN
        BY DEF Back, IsSession, Flags
      <3>3. q = IF s.strictname THEN 0 ELSE s.transseq + 1 + 1
        BY <1>14, <3>2
      <3> QED BY <1>9, <3>1, <3>3
    <2> QED BY <1>15, <2>1, <2>2
  <1>17. PICK o \in Seq(Packet) : o = Append(Append(<<>>, p), r) /\ y \o o = y2
    <2>0. Append(<<>>, p) \in Seq(Packet) /\ y \o Append(<<>>, p) = y1
      BY <1>8
    <2>1. PICK i \in Seq(Packet) : i = Append(<<>>, p) /\ y \o i = y1
      BY <2>0
    <2>2. y \o Append(i, r) = Append(y \o i, r)
      BY ConcatAppend
    <2>3. Append(i, r) \in Seq(Packet)
      BY AppendProperties
    <2> QED BY <1>13, <2>1, <2>2, <2>3
  <1>18. \/ u.out = o /\ u.transseq = q
         \/ u.out = Append(o, Pkt("EXT_INFO", 0, <<h, "s2c">>, q)) /\ u.transseq = q + 1
    BY <1>6, <1>11, <1>14, <1>17 DEF ValueOut
  <1>19. CASE u.out = o /\ u.transseq = q
    BY <1>15, <1>16, <1>17, <1>19
  <1>20. CASE u.out = Append(o, Pkt("EXT_INFO", 0, <<h, "s2c">>, q)) /\ u.transseq = q + 1
    <2>1. PICK i \in Packet : i = Pkt("EXT_INFO", 0, <<h, "s2c">>, q)
      BY <1>2, PktIsPacket DEF Plain
    <2>2. i.type = "EXT_INFO" /\ i.key = z2.key /\ i.seq = z2.seq
      <3>1. i = Pkt("EXT_INFO", 0, z2.key, z2.seq)
        BY <1>15, <2>1
      <3> QED BY <3>1 DEF Pkt
    <2>3. Fits(z2.at, i, 4 * n, a, h)
      BY <1>15, <2>2 DEF Fits
    <2>4. Says("server", i, a, s.strictname)
      BY <2>2 DEF Says
    <2>5. Line("server", Append(y2, i), g, Mark(4 * n, z2.seq + 1, z2.key), a, h, s.strictname)
      BY <1>1, <1>16, <2>2, <2>3, <2>4, LineAppend
    <2>6. y \o Append(o, i) = Append(y \o o, i)
      BY ConcatAppend
    <2>7. y \o u.out = Append(y2, i) /\ Append(y2, i) \in Seq(Packet)
      <3>1. Append(y2, i) \in Seq(Packet)
        BY AppendProperties
      <3> QED BY <1>17, <1>20, <2>1, <2>6, <3>1
    <2> QED BY <1>15, <1>20, <2>5, <2>7
  <1> QED BY <1>18, <1>19, <1>20

LEMMA ServerValue ==
  ASSUME NEW c, NEW s, NEW x, NEW y, NEW a, Ready(c, s, x, y, a), NEW p, NEW m, NEW v, NEW t, NEW u,
         Taken("server", s, SentMark("client", c, a), p, m, v, a, c.pub), Opened(s, t),
         u = Handled("server", t, p), p.type = "KEXDH_INIT", ~s.ignorenext
  PROVE  ServerGoes(c, s, v, y, a, p, u)
  <1>1. /\ Own("client", c, a) /\ Own("server", s, a) /\ Agree(c, s, a) /\ Tables(c, s, a)
        /\ FromServer(c, s, y, a) /\ Back("client", c) /\ Back("server", s) /\ y \in Seq(Packet)
        /\ a \in 1..Len(SigAlgs)
        /\ "client" \in End /\ "server" \in End /\ Peer("client") = "server" /\ Peer("server") = "client"
    BY ReadyFacts
  <1>2. Table(s.sigalgs, a) /\ c.strictname = s.strictname /\ c.sigalgs = SigAlgs
    BY <1>1 DEF Tables
  <1>3. /\ p.body = c.pub /\ InExchange(s) /\ s.requirenext = "KEXDH_INIT"
        /\ s.cookie \in Nat /\ s.cookie >= 1 /\ c.cookie = s.cookie /\ m = 4 * (s.cookie - 1) + 3
        /\ ~c.dataallowed /\ ~c.sentnewkeys
        /\ 4 * (s.cookie - 1) <= ReadAt("client", c, a) /\ SentAt("server", s, a) = 4 * (s.cookie - 1) + 1
    BY ValuePlaces
  <1>4. PICK n \in Nat : n = s.cookie /\ n >= 1
    BY <1>3
  <1>5. PICK h : h = [cookies |-> <<s.cookie, s.cookie>>, pub |-> c.pub, sig |-> SigAlgs[a]]
    OBVIOUS
  <1>6. /\ Secured("server", s, u, h) /\ DOMAIN u = Fields /\ ValueOut(s, u, h)
        /\ Table(u.sigalgs, a) /\ u.strictname = s.strictname
    <2>1. h = [cookies |-> <<s.cookie, s.cookie>>, pub |-> p.body, sig |-> SigAlgs[a]]
      BY <1>3, <1>5
    <2> QED BY <1>1, <1>2, <1>3, <2>1, ReadValue
  <1>7. u.exited = FALSE
    BY <1>6 DEF Secured
  <1>8. c.pub \in Nat
    BY <1>1 DEF Back, IsSession
  <1>9. ASSUME NEW d, NEW w, Ended("server", u, p, d, y, w) PROVE ~d.exited /\ Both(c, d, v, w, a)
    <2>1. Secured("server", s, d, h) /\ d.sigalgs = u.sigalgs /\ Drained("server", s, h, u, d, y, w)
      <3>1. Drained("server", s, h, u, d, y, w)
        BY <1>1, <1>6, <1>9, SecuredEnds
      <3> QED BY <3>1 DEF Drained
    <2>2. /\ Own("server", d, a) /\ SentMark("server", d, a) = Mark(4 * n, d.transseq, <<h, "s2c">>)
          /\ ReadMark("server", d, a) = Mark(4 * (n - 1) + 3, s.recvseq + 1, s.keys.recv)
          /\ n = 1 => d.session_id = h
          /\ n # 1 => d.session_id = s.session_id
      <3>1. Direction("server") = "s2c"
        BY DEF Direction
      <3>2. /\ Own("server", d, a)
            /\ SentMark("server", d, a) = Mark(4 * s.cookie, d.transseq, <<h, Direction("server")>>)
            /\ ReadMark("server", d, a) = Mark(4 * (s.cookie - 1) + 3, s.recvseq + 1, s.keys.recv)
            /\ s.cookie = 1 => d.session_id = h
            /\ s.cookie # 1 => d.session_id = s.session_id
        <4>1. Renewed("server", s, d, h, a)
          BY <1>1, <1>3, <1>5, <2>1, SecuredOwn
        <4> QED BY <4>1 DEF Renewed
      <3> QED BY <1>4, <3>1, <3>2
    <2>3. /\ d.exited = FALSE /\ d.strictname = s.strictname /\ d.hash = h /\ d.cookie = s.cookie
          /\ d.sentnewkeys = TRUE
      BY <2>1 DEF Secured
    <2>4. FromClient(c, d, v, a)
      <3>1. Line("client", v, Mark(m, s.recvseq + 1, s.keys.recv), SentMark("client", c, a), a, c.pub,
                 s.strictname)
        BY <1>1 DEF Taken
      <3> QED BY <1>2, <1>3, <1>4, <2>2, <3>1 DEF FromClient
    <2>5. FromServer(c, d, w, a)
      <3>1. PICK g : g = ReadMark("client", c, a) /\ g.at = ReadAt("client", c, a)
        BY MarkFields DEF ReadMark
      <3>2. Line("server", y, g, SentMark("server", s, a), a, s.hash, s.strictname)
        BY <1>1, <1>2, <3>1 DEF FromServer
      <3>3. s.strict_kex = s.strictname
        <4>1. s.strict_kex <=> s.strictname
          BY <1>1, <1>3 DEF Own, InExchange
        <4>2. s.strict_kex \in BOOLEAN /\ s.strictname \in BOOLEAN
          BY <1>1 DEF Back, IsSession, Flags
        <4> QED BY <4>1, <4>2
      <3>4. h = [cookies |-> <<n, n>>, pub |-> c.pub, sig |-> SigAlgs[a]] /\ 4 * (n - 1) <= g.at
            /\ SentAt("server", s, a) = 4 * (n - 1) + 1
        BY <1>3, <1>4, <1>5, <3>1
      <3>5. /\ y \o u.out \in Seq(Packet)
            /\ Line("server", y \o u.out, g, Mark(4 * n, u.transseq, <<h, "s2c">>), a, h, s.strictname)
        BY <1>1, <1>4, <1>6, <1>8, <3>2, <3>3, <3>4, ValueLine
      <3>6. PICK o \in Seq(Packet) : o = y \o u.out
        BY <3>5
      <3>7. PICK q \in Seq(Packet) :
               /\ d.transseq = u.transseq + Len(q) /\ w = o \o q
               /\ \E i : FlushOf(q, i, <<h, "s2c">>, u.transseq)
        BY <2>1, <3>6 DEF Direction, Drained
      <3>8. PICK i : FlushOf(q, i, <<h, "s2c">>, u.transseq)
        BY <3>7
      <3>9. Line("server", o \o q, g, Mark(4 * n, d.transseq, <<h, "s2c">>), a, h, s.strictname)
        BY <1>1, <1>4, <3>5, <3>6, <3>7, <3>8, SecuredLine
      <3> QED BY <1>2, <2>2, <2>3, <3>1, <3>7, <3>9 DEF FromServer
    <2>6. Agree(c, d, a)
      <3>1. c.donefirstkex => c.session_id = s.session_id
        BY <1>1 DEF Agree
      <3>2. c.donefirstkex <=> n > 1
        BY <1>1, <1>3, <1>4 DEF Own
      <3>3. c.donefirstkex => c.session_id = d.session_id
        BY <2>2, <3>1, <3>2
      <3>4. ~(c.cookie > d.cookie)
        BY <1>3, <2>3
      <3> QED BY <1>3, <1>5, <2>3, <3>3, <3>4 DEF Agree
    <2>7. Tables(c, d, a)
      BY <1>2, <1>6, <2>1, <2>3 DEF Tables
    <2> QED BY <1>1, <2>2, <2>3, <2>4, <2>5, <2>6, <2>7 DEF Both
  <1> QED BY <1>3, <1>6, <1>7, <1>9 DEF ServerGoes

\* An end that has sent NEWKEYS reads NEWKEYS next.
AwaitsNewkeys(r, k) ==
    r.sentnewkeys /\ k = r.cookie - 1 /\ ~r.ignorenext /\ r.requirenext = "NEWKEYS"

LEMMA NewkeysPlace ==
  ASSUME NEW e \in End, NEW r, NEW a, Back(e, r), Own(e, r, a), NEW k \in Int, ReadAt(e, r, a) = 4 * k + 3
  PROVE  AwaitsNewkeys(r, k)
  BY ReadPlaces DEF AwaitsNewkeys

\* The reply: the server has sent NEWKEYS in the same exchange.
AtReply(c, s, a, p, m) ==
         /\ p.body = s.hash /\ InExchange(c) /\ c.requirenext = "KEXDH_REPLY" /\ s.sentnewkeys
         /\ c.cookie \in Nat /\ c.cookie >= 1 /\ c.cookie = s.cookie /\ m = 4 * (c.cookie - 1) + 3
         /\ ~c.dataallowed
         /\ ReadAt("server", s, a) = 4 * (c.cookie - 1) + 3 /\ SentAt("client", c, a) = 4 * (c.cookie - 1) + 3

LEMMA ReplyPlaces ==
  ASSUME NEW c, NEW s, NEW x, NEW y, NEW a, Ready(c, s, x, y, a), NEW p, NEW m, NEW v,
         Taken("client", c, SentMark("server", s, a), p, m, v, a, s.hash), p.type = "KEXDH_REPLY"
  PROVE  AtReply(c, s, a, p, m)
  <1>1. /\ Own("client", c, a) /\ Own("server", s, a) /\ Back("client", c) /\ Back("server", s)
        /\ ReadAt("server", s, a) <= SentAt("client", c, a)
        /\ "client" \in End /\ "server" \in End
    BY ReadyFacts
  <1>2. Fits(ReadAt("client", c, a), p, m, a, s.hash) /\ m <= SentAt("server", s, a)
    BY MarkFields DEF Taken, SentMark
  <1>3. PICK k \in Int : p.body = s.hash /\ m = 4 * k + 3 /\ ReadAt("client", c, a) = 4 * k + 1
    BY <1>2 DEF Fits
  <1>4. InExchange(c) /\ k = c.cookie - 1 /\ c.requirenext = "KEXDH_REPLY"
    BY <1>1, <1>3, ReadPlaces, ZenonT(60)
  <1>5. PICK n \in Nat, o \in Nat : n = c.cookie /\ o = s.cookie /\ n >= 1 /\ o >= 1
    BY <1>1 DEF Back, IsSession, Own
  <1>6. PICK i \in Int, j \in Int : i = ReadAt("server", s, a) /\ j = SentAt("server", s, a)
    BY <1>1, Places
  <1>7. ~c.dataallowed /\ SentAt("client", c, a) = 4 * (n - 1) + 3
    <2>1. ~c.dataallowed
      BY <1>1, <1>4, Places
    <2> QED BY <1>4, <1>5, <2>1 DEF SentAt, InExchange
  <1>8. i <= 4 * (n - 1) + 3 /\ 4 * (n - 1) + 3 <= j
    BY <1>1, <1>2, <1>3, <1>4, <1>5, <1>6, <1>7
  <1>9. /\ s.dataallowed => j = 4 * o /\ 4 * o - 1 <= i
        /\ ~s.dataallowed => j = 4 * (o - 1) + 1
        /\ 4 * (o - 1) <= i
    BY <1>1, <1>5, <1>6, Places
  <1>10. o = n /\ i = 4 * (n - 1) + 3
    BY <1>8, <1>9
  <1>11. s.sentnewkeys
    <2>1. PICK l \in Int : ReadAt("server", s, a) = 4 * l + 3
      <3>1. n - 1 \in Int /\ ReadAt("server", s, a) = 4 * (n - 1) + 3
        BY <1>6, <1>10
      <3> QED BY <3>1
    <2>2. AwaitsNewkeys(s, l)
      BY <1>1, <2>1, NewkeysPlace
    <2> QED BY <2>2 DEF AwaitsNewkeys
  <1> QED BY <1>3, <1>4, <1>5, <1>6, <1>7, <1>10, <1>11 DEF AtReply

ReplyRead(c, u, h) ==
         /\ Secured("client", c, u, h) /\ DOMAIN u = Fields /\ u.sigalgs = c.sigalgs
         /\ u.out = Append(<<>>, Pkt("NEWKEYS", 0, c.keys.trans, c.transseq))
         /\ u.transseq = IF c.strict_kex THEN 0 ELSE c.transseq + 1

LEMMA ReadReply ==
  ASSUME NEW c, NEW a, NEW t, NEW u, NEW p, NEW h, Back("client", c), Own("client", c, a), Opened(c, t),
         u = Handled("client", t, p), p.type = "KEXDH_REPLY", InExchange(c), p.body = h,
         h = [cookies |-> <<c.cookie, c.cookie>>, pub |-> c.pub, sig |-> SigAlgs[a]]
  PROVE  ReplyRead(c, u, h)
  <1>1. "client" \in End /\ Direction("client") = "c2s" /\ Direction(Peer("client")) = "s2c"
    BY DEF End, Direction, Peer
  <1>2. \A f \in Fields \ {"recvseq"} : t[f] = c[f]
    BY DEF Opened, Same
  <1>3. t.ignorenext = c.ignorenext /\ DOMAIN t = Fields /\ t.recvseq = c.recvseq + 1
    BY <1>2 DEF Fields, Flags, Opened, Same
  <1>4. PICK v : v = [t EXCEPT !.requirenext = None]
    OBVIOUS
  <1>5. Same(t, v, {"requirenext"})
    BY <1>3, <1>4 DEF Same, Fields, Flags
  <1>6. \A f \in Fields \ {"recvseq", "requirenext"} : v[f] = c[f]
    BY <1>2, <1>5 DEF Same
  <1>7. /\ v.sentkexinit = c.sentkexinit /\ v.recvkexinit = c.recvkexinit /\ v.recvnewkeys = c.recvnewkeys
        /\ v.hash = c.hash /\ v.algo_signature = c.algo_signature /\ v.out = c.out /\ v.keys = c.keys
        /\ v.transseq = c.transseq /\ v.strict_kex = c.strict_kex /\ v.session_id = c.session_id
        /\ v.pub = c.pub /\ v.kex_state = c.kex_state
    BY <1>6 DEF Fields, Flags
  <1>8. /\ c.sentkexinit /\ c.recvkexinit /\ ~c.recvnewkeys /\ c.out = <<>> /\ c.kex_state = "KEXDH_INIT_SENT"
        /\ ~c.ignorenext
    BY DEF Back, Phases, ClientState, InExchange, Own
  <1>9. c.hash.cookies = <<c.cookie, c.cookie>> /\ c.algo_signature = SigAlgs[a]
    BY <1>8 DEF Own
  <1>10. h = HashOf(v, v.pub)
    BY <1>7, <1>9 DEF HashOf
  <1>11. u = recv_msg_kexdh_reply(v, h)
    BY <1>3, <1>4, <1>8 DEF Handled, handler
  <1>12. Verified(v, h, u)
    <2>1. DOMAIN v = Fields /\ v.sentkexinit /\ v.recvkexinit /\ ~v.recvnewkeys /\ v.kex_state = "KEXDH_INIT_SENT"
      BY <1>5, <1>7, <1>8 DEF Same
    <2> QED BY <1>10, <1>11, <2>1, DoesReply
  <1>13. /\ Same(v, u, {"hash", "session_id", "out", "transseq", "sentnewkeys", "donefirstkex",
                        "donesecondkex", "dataallowed", "keys", "newkeys", "pub", "requirenext"})
         /\ u.hash = h /\ u.session_id = IF v.session_id = NoHash THEN h ELSE v.session_id
         /\ u.sentnewkeys = TRUE /\ u.dataallowed = TRUE /\ u.donefirstkex = TRUE
         /\ u.requirenext = "NEWKEYS"
         /\ u.keys = [recv |-> v.keys.recv, trans |-> <<h, "c2s">>]
         /\ u.newkeys = [recv |-> <<h, "s2c">>, trans |-> NoKey]
         /\ u.out = Append(v.out, Pkt("NEWKEYS", 0, v.keys.trans, v.transseq))
         /\ u.transseq = IF v.strict_kex THEN 0 ELSE v.transseq + 1
    BY <1>12 DEF Verified
  <1>14. \A f \in {"strictname", "strict_kex", "cookie", "sentkexinit", "recvkexinit", "ignorenext", "exited",
                   "sigalgs"} : u[f] = c[f]
    <2>1. \A f \in Fields \ {"hash", "session_id", "out", "transseq", "sentnewkeys", "donefirstkex",
                        "donesecondkex", "dataallowed", "keys", "newkeys", "pub", "requirenext"} : u[f] = v[f]
      BY <1>13 DEF Same
    <2> QED BY <1>6, <2>1 DEF Fields, Flags
  <1>15. u.recvseq = c.recvseq + 1
    <2>1. u.recvseq = v.recvseq /\ v.recvseq = t.recvseq
      BY <1>5, <1>13 DEF Same, Fields, Flags
    <2> QED BY <1>3, <2>1
  <1>16. c.exited = FALSE
    BY DEF Back, IsSession, Flags
  <1>17. Secured("client", c, u, h)
    BY <1>1, <1>7, <1>13, <1>14, <1>15, <1>16 DEF Secured
  <1> QED BY <1>7, <1>8, <1>13, <1>14, <1>17 DEF Same, ReplyRead

LEMMA ReplyLine ==
  ASSUME NEW c, NEW a \in 1..Len(SigAlgs), NEW u, NEW h, NEW x \in Seq(Packet), NEW g, NEW b, NEW d,
         NEW n \in Nat, n >= 1, Back("client", c), c.strict_kex = c.strictname,
         SentAt("client", c, a) = 4 * (n - 1) + 3, g.at = 4 * (n - 1) + 3,
         u.out = Append(<<>>, Pkt("NEWKEYS", 0, c.keys.trans, c.transseq)),
         u.transseq = IF c.strict_kex THEN 0 ELSE c.transseq + 1,
         Line("client", x, g, SentMark("client", c, a), a, b, c.strictname)
  PROVE  /\ x \o u.out \in Seq(Packet)
         /\ Line("client", x \o u.out, g, Mark(4 * n, u.transseq, <<h, "c2s">>), a, d, c.strictname)
  <1>1. /\ c.transseq \in Nat /\ c.keys.trans \in MaybeKey /\ "client" \in End
        /\ c.strict_kex \in BOOLEAN /\ c.strictname \in BOOLEAN
    BY DEF Back, IsSession, Keys, End, Flags
  <1>2. PICK k \in Int : k = n - 1 /\ 4 * k + 4 = 4 * n
    OBVIOUS
  <1>3. PICK z : /\ z = SentMark("client", c, a) /\ z.at = 4 * k + 3 /\ z.seq = c.transseq
                 /\ z.key = c.keys.trans
    BY <1>2, MarkFields DEF SentMark
  <1>4. PICK l \in Int : l = k + 1 /\ 4 * l - 1 <= 4 * k + 3 /\ 4 * k + 3 <= 4 * l + 2
    OBVIOUS
  <1>5. g.at = 4 * k + 3 /\ 4 * k <= g.at
    BY <1>2
  <1>6. Line("client", x, g, z, a, d, c.strictname)
    BY <1>1, <1>3, <1>4, <1>5, LineBody
  <1>7. PICK r \in Packet : r = Pkt("NEWKEYS", 0, c.keys.trans, c.transseq)
    BY <1>1, PktIsPacket DEF Plain
  <1>8. r.type = "NEWKEYS" /\ r.key = z.key /\ r.seq = z.seq
    BY <1>3, <1>7, PktFields
  <1>9. PICK q, key : q = (IF c.strictname THEN 0 ELSE z.seq + 1) /\ key = <<h, "c2s">>
    OBVIOUS
  <1>10. Line("client", Append(x, r), g, Mark(4 * k + 4, q, key), a, d, c.strictname)
    BY <1>1, <1>3, <1>5, <1>6, <1>8, <1>9, LineNewkeys
  <1>11. x \o u.out = Append(x, r) /\ Append(x, r) \in Seq(Packet)
    <2>1. u.out = Append(<<>>, r)
      BY <1>7
    <2> QED BY <2>1
  <1>12. u.transseq = q
    BY <1>1, <1>3, <1>9
  <1> QED BY <1>2, <1>9, <1>10, <1>11, <1>12

LEMMA ClientReply ==
  ASSUME NEW c, NEW s, NEW x, NEW y, NEW a, Ready(c, s, x, y, a), NEW p, NEW m, NEW v, NEW t, NEW u,
         Taken("client", c, SentMark("server", s, a), p, m, v, a, s.hash), Opened(c, t),
         u = Handled("client", t, p), p.type = "KEXDH_REPLY"
  PROVE  ClientGoes(c, s, x, v, a, p, u)
  <1>1. /\ Own("client", c, a) /\ Own("server", s, a) /\ Agree(c, s, a) /\ Tables(c, s, a)
        /\ FromClient(c, s, x, a) /\ Back("client", c) /\ Back("server", s) /\ x \in Seq(Packet)
        /\ a \in 1..Len(SigAlgs)
        /\ "client" \in End /\ "server" \in End /\ Peer("client") = "server" /\ Peer("server") = "client"
    BY ReadyFacts
  <1>2. Table(s.sigalgs, a) /\ c.strictname = s.strictname /\ c.sigalgs = SigAlgs
    BY <1>1 DEF Tables
  <1>3. /\ p.body = s.hash /\ InExchange(c) /\ c.requirenext = "KEXDH_REPLY" /\ s.sentnewkeys
        /\ c.cookie \in Nat /\ c.cookie >= 1 /\ c.cookie = s.cookie /\ m = 4 * (c.cookie - 1) + 3
        /\ ~c.dataallowed
        /\ ReadAt("server", s, a) = 4 * (c.cookie - 1) + 3 /\ SentAt("client", c, a) = 4 * (c.cookie - 1) + 3
    <2>1. AtReply(c, s, a, p, m)
      BY ReplyPlaces
    <2> QED BY <2>1 DEF AtReply
  <1>4. PICK n \in Nat : n = c.cookie /\ n >= 1
    BY <1>3
  <1>5. PICK h : h = s.hash /\ h = [cookies |-> <<c.cookie, c.cookie>>, pub |-> c.pub, sig |-> SigAlgs[a]]
    BY <1>1, <1>3 DEF Agree
  <1>6. /\ Secured("client", c, u, h) /\ DOMAIN u = Fields /\ u.sigalgs = c.sigalgs
        /\ u.out = Append(<<>>, Pkt("NEWKEYS", 0, c.keys.trans, c.transseq))
        /\ u.transseq = IF c.strict_kex THEN 0 ELSE c.transseq + 1
    <2>1. p.body = h
      BY <1>3, <1>5
    <2>2. ReplyRead(c, u, h)
      BY <1>1, <1>3, <1>5, <2>1, ReadReply
    <2> QED BY <2>2 DEF ReplyRead
  <1>7. u.exited = FALSE
    BY <1>6 DEF Secured
  <1>8. c.strict_kex = c.strictname /\ ~c.ignorenext
    <2>1. (c.strict_kex <=> c.strictname) /\ ~c.ignorenext
      BY <1>1, <1>3 DEF Own, InExchange
    <2>2. c.strict_kex \in BOOLEAN /\ c.strictname \in BOOLEAN
      BY <1>1 DEF Back, IsSession, Flags
    <2> QED BY <2>1, <2>2
  <1>9. ASSUME NEW d, NEW w, Ended("client", u, p, d, x, w) PROVE ~d.exited /\ Both(d, s, w, v, a)
    <2>1. Secured("client", c, d, h) /\ d.sigalgs = u.sigalgs /\ Drained("client", c, h, u, d, x, w)
      <3>1. Drained("client", c, h, u, d, x, w)
        BY <1>1, <1>6, <1>9, SecuredEnds
      <3> QED BY <3>1 DEF Drained
    <2>2. /\ Own("client", d, a) /\ SentMark("client", d, a) = Mark(4 * n, d.transseq, <<h, "c2s">>)
          /\ ReadMark("client", d, a) = Mark(4 * (n - 1) + 3, c.recvseq + 1, c.keys.recv)
          /\ n = 1 => d.session_id = h
          /\ n # 1 => d.session_id = c.session_id
      <3>1. Direction("client") = "c2s"
        BY DEF Direction
      <3>2. Renewed("client", c, d, h, a)
        BY <1>1, <1>3, <1>5, <1>8, <2>1, SecuredOwn
      <3> QED BY <1>4, <3>1, <3>2 DEF Renewed
    <2>3. /\ d.exited = FALSE /\ d.strictname = c.strictname /\ d.hash = h /\ d.dataallowed = TRUE
      BY <2>1 DEF Secured
    <2>4. FromServer(d, s, v, a)
      <3>1. Line("server", v, Mark(m, c.recvseq + 1, c.keys.recv), SentMark("server", s, a), a, s.hash,
                 c.strictname)
        BY <1>1 DEF Taken
      <3> QED BY <1>3, <1>4, <2>2, <2>3, <3>1 DEF FromServer
    <2>5. FromClient(d, s, w, a)
      <3>1. PICK g : g = ReadMark("server", s, a) /\ g.at = 4 * (n - 1) + 3
        BY <1>3, <1>4, MarkFields DEF ReadMark
      <3>2. Line("client", x, g, SentMark("client", c, a), a, c.pub, c.strictname)
        BY <1>1, <3>1 DEF FromClient
      <3>3. PICK e : e = d.pub
        OBVIOUS
      <3>4. /\ x \o u.out \in Seq(Packet)
            /\ Line("client", x \o u.out, g, Mark(4 * n, u.transseq, <<h, "c2s">>), a, e, c.strictname)
        BY <1>1, <1>3, <1>4, <1>6, <1>8, <3>1, <3>2, ReplyLine
      <3>5. PICK o \in Seq(Packet) : o = x \o u.out
        BY <3>4
      <3>6. PICK q \in Seq(Packet) :
               /\ d.transseq = u.transseq + Len(q) /\ w = o \o q
               /\ \E i : FlushOf(q, i, <<h, "c2s">>, u.transseq)
        BY <2>1, <3>5 DEF Direction, Drained
      <3>7. PICK i : FlushOf(q, i, <<h, "c2s">>, u.transseq)
        BY <3>6
      <3>8. Line("client", o \o q, g, Mark(4 * n, d.transseq, <<h, "c2s">>), a, e, c.strictname)
        BY <1>1, <1>4, <3>4, <3>5, <3>6, <3>7, SecuredLine
      <3> QED BY <2>2, <2>3, <3>1, <3>3, <3>6, <3>8 DEF FromClient
    <2>6. Agree(d, s, a)
      <3>1. d.session_id = s.session_id
        <4>1. CASE n = 1
          <5>1. s.session_id = s.hash
            BY <1>1, <1>3, <1>4, <4>1 DEF Own
          <5> QED BY <1>5, <2>2, <4>1, <5>1
        <4>2. CASE n # 1
          <5>1. c.donefirstkex
            BY <1>1, <1>4, <4>2 DEF Own
          <5> QED BY <1>1, <2>2, <4>2, <5>1 DEF Agree
        <4> QED BY <4>1, <4>2
      <3> QED BY <1>5, <2>3, <3>1 DEF Agree
    <2>7. Tables(d, s, a)
      BY <1>2, <1>6, <2>1, <2>3 DEF Tables
    <2> QED BY <1>1, <2>2, <2>3, <2>4, <2>5, <2>6, <2>7 DEF Both
  <1> QED BY <1>3, <1>6, <1>7, <1>9 DEF ClientGoes

-----------------------------------------------------------------------------
(* NEWKEYS.                                                                *)

Switched(e, r, d, m, a) ==
    /\ Own(e, d, a) /\ SentMark(e, d, a) = SentMark(e, r, a)
    /\ ReadMark(e, d, a) = Mark(m, IF r.strictname THEN 0 ELSE r.recvseq + 1, r.newkeys.recv)
    /\ \A f \in {"hash", "pub", "strictname", "cookie", "dataallowed", "donefirstkex", "session_id",
                 "sigalgs", "exited"} : d[f] = r[f]
    /\ d.sentnewkeys = FALSE

AtNewkeys(e, r, m, a) ==
    /\ r.sentnewkeys = TRUE /\ r.sentkexinit = TRUE /\ r.recvkexinit = TRUE
    /\ r.ignorenext = FALSE /\ r.requirenext = "NEWKEYS" /\ r.cookie \in Nat
    /\ r.cookie >= 1 /\ m = 4 * r.cookie /\ r.newkeys.recv = <<r.hash, Direction(Peer(e))>>
    /\ r.newkeys.trans = NoKey /\ r.dataallowed = TRUE /\ r.donefirstkex = TRUE
    /\ r.keys.trans = <<r.hash, Direction(e)>> /\ r.strict_kex = r.strictname
    /\ SentAt(e, r, a) = 4 * r.cookie

LEMMA NewkeysPlaces ==
  ASSUME NEW e \in End, NEW r, NEW z, NEW p, NEW m, NEW y, NEW a, NEW b, Back(e, r), Own(e, r, a),
         Taken(e, r, z, p, m, y, a, b), p.type = "NEWKEYS"
  PROVE  AtNewkeys(e, r, m, a)
  <1>1. PICK k \in Int : ReadAt(e, r, a) = 4 * k + 3 /\ m = 4 * k + 4
    BY DEF Taken, Fits
  <1>2. r.sentnewkeys /\ k = r.cookie - 1 /\ ~r.ignorenext /\ r.requirenext = "NEWKEYS"
    <2>1. AwaitsNewkeys(r, k)
      BY <1>1, NewkeysPlace
    <2> QED BY <2>1 DEF AwaitsNewkeys
  <1>3. r.sentkexinit /\ r.recvkexinit /\ r.dataallowed /\ r.donefirstkex /\ SentAt(e, r, a) = 4 * r.cookie
    BY <1>2, Places
  <1>4. PICK n \in Nat : n = r.cookie /\ n >= 1
    BY DEF Back, IsSession, Own
  <1>5. m = 4 * n
    BY <1>1, <1>2, <1>4
  <1>6. r.newkeys.trans = NoKey
    BY <1>2 DEF Back, Phases
  <1>7. /\ r.newkeys.recv = <<r.hash, Direction(Peer(e))>> /\ r.keys.trans = <<r.hash, Direction(e)>>
        /\ r.strict_kex <=> r.strictname
    BY <1>2, <1>3 DEF Own, InExchange
  <1>8. \A f \in {"sentnewkeys", "sentkexinit", "recvkexinit", "ignorenext", "dataallowed", "donefirstkex",
                  "strict_kex", "strictname"} : r[f] \in BOOLEAN
    BY DEF Back, IsSession, Flags
  <1> QED BY <1>2, <1>3, <1>4, <1>5, <1>6, <1>7, <1>8 DEF AtNewkeys

NewkeysRead(e, r, p, m, a, u) ==
    /\ u.exited = FALSE /\ DOMAIN u = Fields
    /\ \A d, w, x : Ended(e, u, p, d, w, x) => x = w /\ Switched(e, r, d, m, a)

LEMMA ReadNewkeys ==
  ASSUME NEW e \in End, NEW r, NEW p, NEW m, NEW a, NEW t, NEW u, Back(e, r), Own(e, r, a),
         AtNewkeys(e, r, m, a), Opened(r, t), u = Handled(e, t, p), p.type = "NEWKEYS"
  PROVE  NewkeysRead(e, r, p, m, a, u)
  <1>0. /\ r.sentnewkeys = TRUE /\ r.sentkexinit = TRUE /\ r.recvkexinit = TRUE
        /\ r.ignorenext = FALSE /\ r.requirenext = "NEWKEYS" /\ r.cookie \in Nat
        /\ r.cookie >= 1 /\ m = 4 * r.cookie /\ r.newkeys.recv = <<r.hash, Direction(Peer(e))>>
        /\ r.newkeys.trans = NoKey /\ r.dataallowed = TRUE /\ r.donefirstkex = TRUE
        /\ r.keys.trans = <<r.hash, Direction(e)>> /\ r.strict_kex = r.strictname
        /\ SentAt(e, r, a) = 4 * r.cookie
    BY DEF AtNewkeys
  <1>1. \A f \in Fields \ {"recvseq"} : t[f] = r[f]
    BY DEF Opened, Same
  <1>2. t.ignorenext = r.ignorenext /\ DOMAIN t = Fields /\ t.recvseq = r.recvseq + 1
    BY <1>1 DEF Fields, Flags, Opened, Same
  <1>3. PICK v : v = [t EXCEPT !.requirenext = None]
    OBVIOUS
  <1>4. Same(t, v, {"requirenext"}) /\ v.requirenext = None
    BY <1>2, <1>3 DEF Same, Fields, Flags
  <1>5. \A f \in Fields \ {"recvseq", "requirenext"} : v[f] = r[f]
    BY <1>1, <1>4 DEF Same
  <1>6. /\ v.sentkexinit = TRUE /\ v.recvkexinit = TRUE /\ v.sentnewkeys = TRUE /\ v.newkeys = r.newkeys
        /\ v.keys = r.keys /\ v.strict_kex = r.strictname /\ v.recvseq = r.recvseq + 1
    BY <1>0, <1>2, <1>4, <1>5 DEF Same, Fields, Flags
  <1>7. u = recv_msg_newkeys(v)
    BY <1>0, <1>2, <1>3 DEF Handled, handler
  <1>8. /\ Same(v, u, {"sentkexinit", "recvkexinit", "sentnewkeys", "recvnewkeys",
                "our_first_follows_matches", "keys", "newkeys", "recvseq", "recvfirstnewkeys"})
        /\ u.keys = [recv |-> v.newkeys.recv, trans |-> v.keys.trans]
        /\ u.recvseq = IF v.strict_kex THEN 0 ELSE v.recvseq
        /\ \A f \in {"sentkexinit", "recvkexinit", "sentnewkeys", "recvnewkeys",
                       "our_first_follows_matches"} : u[f] = FALSE
    <2>1. DOMAIN v = Fields
      BY <1>4 DEF Same
    <2>2. v.newkeys.recv # NoKey
      <3>1. <<r.hash, Direction(Peer(e))>> # <<>>
        OBVIOUS
      <3> QED BY <1>0, <1>6, <3>1 DEF NoKey
    <2> QED BY <1>0, <1>6, <1>7, <2>1, <2>2, DoesRecvNewkeys, ZenonT(60)
  <1>9. /\ u.keys.recv = r.newkeys.recv /\ u.keys.trans = r.keys.trans
        /\ u.recvseq = IF r.strictname THEN 0 ELSE r.recvseq + 1
    BY <1>6, <1>8
  <1>10. \A f \in Fields \ {"sentkexinit", "recvkexinit", "sentnewkeys", "recvnewkeys", "requirenext",
                "our_first_follows_matches", "keys", "newkeys", "recvseq", "recvfirstnewkeys"} : u[f] = r[f]
    <2>1. \A f \in Fields \ {"sentkexinit", "recvkexinit", "sentnewkeys", "recvnewkeys",
                "our_first_follows_matches", "keys", "newkeys", "recvseq", "recvfirstnewkeys"} : u[f] = v[f]
      BY <1>8 DEF Same
    <2> QED BY <1>5, <2>1
  <1>11. u.requirenext = None
    BY <1>4, <1>8 DEF Same, Fields, Flags
  <1>12. u.out = r.out /\ u.reply_queue = r.reply_queue /\ u.exited = r.exited /\ u.dataallowed = r.dataallowed
    BY <1>10 DEF Fields, Flags
  <1>13. r.out = <<>> /\ r.reply_queue = <<>> /\ r.exited = FALSE
    BY <1>0 DEF Back, IsSession, Flags
  <1>14. ASSUME NEW d, NEW w, NEW x, Ended(e, u, p, d, w, x) PROVE x = w /\ Switched(e, r, d, m, a)
    <2>0. w \in Seq(Packet)
      BY <1>14 DEF Ended
    <2>1. PICK f : /\ Same(u, f, {"lastpacket"}) /\ f.lastpacket = p.type /\ IsSession(f)
                   /\ Finished(e, f, d, w, x)
      BY <1>14 DEF Ended
    <2>2. \A g \in Fields \ {"lastpacket"} : f[g] = u[g]
      BY <2>1 DEF Same
    <2>3. f.out = <<>> /\ f.reply_queue = <<>>
      BY <1>12, <1>13, <2>2 DEF Fields, Flags
    <2>4. Same(f, d, {"out", "reply_queue", "kex_state"}) /\ x = w \o f.out
      BY <2>1, <2>3 DEF Finished, Loops
    <2>5. x = w
      BY <2>0, <2>3, <2>4
    <2>6. \A g \in Fields \ {"lastpacket", "out", "reply_queue", "kex_state"} : d[g] = u[g]
      BY <2>2, <2>4 DEF Same
    <2>7. \A g \in {"donefirstkex", "strict_kex", "strictname", "dataallowed", "ignorenext", "cookie", "pub",
                    "hash", "session_id", "sigalgs", "exited", "transseq"} : d[g] = r[g]
      BY <1>10, <2>6 DEF Fields, Flags
    <2>8. /\ d.sentkexinit = FALSE /\ d.recvkexinit = FALSE /\ d.sentnewkeys = FALSE
          /\ d.our_first_follows_matches = FALSE /\ d.requirenext = None /\ d.keys = u.keys
          /\ d.recvseq = u.recvseq
      <3>1. \A g \in {"sentkexinit", "recvkexinit", "sentnewkeys", "our_first_follows_matches"} : d[g] = FALSE
        BY <1>8, <2>6 DEF Fields, Flags
      <3>2. d.requirenext = u.requirenext /\ d.keys = u.keys /\ d.recvseq = u.recvseq
        BY <2>6 DEF Fields, Flags
      <3> QED BY <1>11, <3>1, <3>2
    <2>9. Own(e, d, a)
      <3>1. None # "KEXINIT" /\ None # "KEXDH_REPLY"
        BY NoneIsNoType DEF PacketType
      <3>2. PICK n \in Nat : n = r.cookie /\ n >= 1
        BY <1>0
      <3>3. (r.session_id = NoHash <=> ~r.donefirstkex) /\ (r.strict_kex => r.strictname)
        BY DEF Own
      <3>4. Done(d) = n /\ n # 0
        BY <2>7, <2>8, <3>2 DEF Done
      <3>5. /\ d.keys.trans = <<d.hash, Direction(e)>> /\ d.cookie = n /\ d.donefirstkex = TRUE
            /\ d.dataallowed = TRUE /\ d.ignorenext = FALSE /\ d.strict_kex = d.strictname
            /\ d.session_id # NoHash
        BY <1>0, <1>9, <2>7, <2>8, <3>2, <3>3
      <3> QED BY <2>8, <3>1, <3>2, <3>4, <3>5 DEF Own, InExchange
    <2>10. SentMark(e, d, a) = SentMark(e, r, a)
      BY <1>0, <1>9, <2>7, <2>8 DEF SentMark, SentAt
    <2>11. ReadAt(e, d, a) = m
      BY <1>0, <2>7, <2>8 DEF ReadAt, Done
    <2>12. ReadMark(e, d, a) = Mark(m, IF r.strictname THEN 0 ELSE r.recvseq + 1, r.newkeys.recv)
      BY <1>9, <2>8, <2>11 DEF ReadMark
    <2> QED BY <2>5, <2>7, <2>8, <2>9, <2>10, <2>12 DEF Switched
  <1>15. u.exited = FALSE /\ DOMAIN u = Fields
    BY <1>8, <1>12, <1>13 DEF Same
  <1> QED BY <1>14, <1>15 DEF NewkeysRead

\* The writer of the NEWKEYS of exchange n has the keys of it and no newer ones:
\* it can be in the next exchange only with its KEXINIT.
LEMMA Past ==
  ASSUME NEW e \in End, NEW r, NEW a, Back(e, r), Own(e, r, a), NEW n \in Nat, n >= 1,
         4 * n <= SentAt(e, r, a), ReadAt(e, r, a) <= 4 * n
  PROVE  r.keys.trans = <<r.hash, Direction(e)>> /\ (r.dataallowed \/ r.cookie > n)
  <1>1. PICK o \in Nat : o = r.cookie
    BY DEF Back, IsSession
  <1>2. PICK i \in Int, j \in Int : i = ReadAt(e, r, a) /\ j = SentAt(e, r, a)
    BY Places
  <1>3. CASE r.dataallowed
    <2>1. ~InExchange(r) /\ r.donefirstkex
      <3>1. InExchange(r) => ~r.dataallowed
        BY Places
      <3> QED BY <1>3, <3>1 DEF Own
    <2> QED BY <1>3, <2>1 DEF Own
  <1>4. CASE ~r.dataallowed
    <2>1. j <= 4 * (o - 1) + 3 /\ 4 * (o - 1) <= i
      <3>1. j = 4 * (o - 1) + (IF e = "server" THEN 1 ELSE IF a = 1 \/ r.recvkexinit THEN 3 ELSE 2)
        BY <1>1, <1>2, <1>4 DEF SentAt
      <3>2. 4 * (o - 1) <= i
        BY <1>1, <1>2, Places
      <3> QED BY <3>1, <3>2
    <2>2. o > n /\ i = 4 * (o - 1)
      BY <1>2, <2>1
    <2>3. ~InExchange(r)
      <3>1. InExchange(r) => i = 4 * (o - 1) + (IF e = "server" /\ a # 1 /\ ~r.ignorenext THEN 2 ELSE 1)
        BY <1>1, <1>2, Places
      <3> QED BY <2>2, <3>1
    <2>4. r.donefirstkex
      BY <1>1, <2>2 DEF Own
    <2> QED BY <1>1, <2>2, <2>3, <2>4 DEF Own
  <1> QED BY <1>3, <1>4

LEMMA ServerNewkeys ==
  ASSUME NEW c, NEW s, NEW x, NEW y, NEW a, Ready(c, s, x, y, a), NEW p, NEW m, NEW v, NEW t, NEW u,
         Taken("server", s, SentMark("client", c, a), p, m, v, a, c.pub), Opened(s, t),
         u = Handled("server", t, p), p.type = "NEWKEYS"
  PROVE  ServerGoes(c, s, v, y, a, p, u)
  <1>1. /\ Own("client", c, a) /\ Own("server", s, a) /\ Agree(c, s, a) /\ Tables(c, s, a)
        /\ FromServer(c, s, y, a) /\ Back("client", c) /\ Back("server", s)
        /\ ReadAt("client", c, a) <= SentAt("server", s, a)
        /\ "client" \in End /\ "server" \in End /\ Peer("client") = "server" /\ Peer("server") = "client"
    BY ReadyFacts
  <1>2. AtNewkeys("server", s, m, a)
    BY <1>1, NewkeysPlaces
  <1>3. /\ s.sentnewkeys = TRUE /\ s.requirenext = "NEWKEYS" /\ m = 4 * s.cookie
        /\ s.newkeys.recv = <<s.hash, Direction("client")>> /\ SentAt("server", s, a) = 4 * s.cookie
    BY <1>1, <1>2 DEF AtNewkeys
  <1>4. NewkeysRead("server", s, p, m, a, u)
    BY <1>1, <1>2, ReadNewkeys
  <1>5. /\ u.exited = FALSE /\ DOMAIN u = Fields
        /\ \A d, w, z : Ended("server", u, p, d, w, z) => z = w /\ Switched("server", s, d, m, a)
    BY <1>4 DEF NewkeysRead
  <1>6. c.keys.trans = <<c.hash, Direction("client")>> /\ (c.dataallowed \/ c.cookie > s.cookie)
    <2>1. PICK n \in Nat : n = s.cookie /\ n >= 1
      BY <1>2 DEF AtNewkeys
    <2>2. 4 * n <= SentAt("client", c, a) /\ ReadAt("client", c, a) <= 4 * n
      <3>1. m <= SentAt("client", c, a)
        BY MarkFields DEF Taken, SentMark
      <3> QED BY <1>1, <1>3, <2>1, <3>1
    <2> QED BY <1>1, <2>1, <2>2, Past
  <1>7. c.hash = s.hash
    BY <1>1, <1>3, <1>6 DEF Agree
  <1>8. ASSUME NEW d, NEW w, Ended("server", u, p, d, y, w) PROVE ~d.exited /\ Both(c, d, v, w, a)
    <2>1. w = y /\ Switched("server", s, d, m, a)
      BY <1>5, <1>8
    <2>2. /\ Own("server", d, a) /\ SentMark("server", d, a) = SentMark("server", s, a)
          /\ ReadMark("server", d, a) = Mark(m, IF s.strictname THEN 0 ELSE s.recvseq + 1, s.newkeys.recv)
          /\ d.hash = s.hash /\ d.strictname = s.strictname /\ d.sigalgs = s.sigalgs
          /\ d.session_id = s.session_id /\ d.exited = s.exited /\ d.sentnewkeys = FALSE
      BY <2>1 DEF Switched
    <2>3. Agree(c, d, a) /\ Tables(c, d, a)
      BY <1>1, <2>2 DEF Agree, Tables
    <2>4. FromServer(c, d, w, a)
      BY <1>1, <2>1, <2>2 DEF FromServer
    <2>5. FromClient(c, d, v, a)
      <3>1. SentMark("client", c, a).key = s.newkeys.recv
        BY <1>3, <1>6, <1>7, MarkFields DEF SentMark
      <3>2. Line("client", v, Mark(m, IF s.strictname THEN 0 ELSE s.recvseq + 1, s.newkeys.recv),
                 SentMark("client", c, a), a, c.pub, s.strictname)
        BY <1>1, <3>1 DEF Taken
      <3> QED BY <1>1, <2>2, <3>2 DEF FromClient, Tables
    <2>6. ~d.exited
      BY <1>1, <2>2 DEF Back
    <2> QED BY <1>1, <2>2, <2>3, <2>4, <2>5, <2>6 DEF Both
  <1> QED BY <1>3, <1>5, <1>8 DEF ServerGoes

LEMMA ClientNewkeys ==
  ASSUME NEW c, NEW s, NEW x, NEW y, NEW a, Ready(c, s, x, y, a), NEW p, NEW m, NEW v, NEW t, NEW u,
         Taken("client", c, SentMark("server", s, a), p, m, v, a, s.hash), Opened(c, t),
         u = Handled("client", t, p), p.type = "NEWKEYS"
  PROVE  ClientGoes(c, s, x, v, a, p, u)
  <1>1. /\ Own("client", c, a) /\ Own("server", s, a) /\ Agree(c, s, a) /\ Tables(c, s, a)
        /\ FromClient(c, s, x, a) /\ Back("client", c) /\ Back("server", s)
        /\ ReadAt("server", s, a) <= SentAt("client", c, a)
        /\ "client" \in End /\ "server" \in End /\ Peer("client") = "server" /\ Peer("server") = "client"
    BY ReadyFacts
  <1>2. AtNewkeys("client", c, m, a)
    BY <1>1, NewkeysPlaces
  <1>3. /\ c.sentnewkeys = TRUE /\ c.requirenext = "NEWKEYS" /\ m = 4 * c.cookie /\ c.dataallowed = TRUE
        /\ c.newkeys.recv = <<c.hash, Direction("server")>> /\ SentAt("client", c, a) = 4 * c.cookie
    BY <1>1, <1>2 DEF AtNewkeys
  <1>4. NewkeysRead("client", c, p, m, a, u)
    BY <1>1, <1>2, ReadNewkeys
  <1>5. /\ u.exited = FALSE /\ DOMAIN u = Fields
        /\ \A d, w, z : Ended("client", u, p, d, w, z) => z = w /\ Switched("client", c, d, m, a)
    BY <1>4 DEF NewkeysRead
  <1>6. s.keys.trans = <<s.hash, Direction("server")>>
    <2>1. PICK n \in Nat : n = c.cookie /\ n >= 1
      BY <1>2 DEF AtNewkeys
    <2>2. 4 * n <= SentAt("server", s, a) /\ ReadAt("server", s, a) <= 4 * n
      <3>1. m <= SentAt("server", s, a)
        BY MarkFields DEF Taken, SentMark
      <3> QED BY <1>1, <1>3, <2>1, <3>1
    <2> QED BY <1>1, <2>1, <2>2, Past
  <1>7. c.hash = s.hash
    BY <1>1, <1>3 DEF Agree
  <1>8. ASSUME NEW d, NEW w, Ended("client", u, p, d, x, w) PROVE ~d.exited /\ Both(d, s, w, v, a)
    <2>1. w = x /\ Switched("client", c, d, m, a)
      BY <1>5, <1>8
    <2>2. /\ Own("client", d, a) /\ SentMark("client", d, a) = SentMark("client", c, a)
          /\ ReadMark("client", d, a) = Mark(m, IF c.strictname THEN 0 ELSE c.recvseq + 1, c.newkeys.recv)
          /\ d.hash = c.hash /\ d.pub = c.pub /\ d.strictname = c.strictname /\ d.sigalgs = c.sigalgs
          /\ d.cookie = c.cookie /\ d.dataallowed = c.dataallowed /\ d.donefirstkex = c.donefirstkex
          /\ d.session_id = c.session_id /\ d.exited = c.exited /\ d.sentnewkeys = FALSE
      BY <2>1 DEF Switched
    <2>3. Agree(d, s, a) /\ Tables(d, s, a)
      BY <1>1, <1>3, <2>2 DEF Agree, Tables
    <2>4. FromClient(d, s, w, a)
      BY <1>1, <2>1, <2>2 DEF FromClient
    <2>5. FromServer(d, s, v, a)
      <3>1. SentMark("server", s, a).key = c.newkeys.recv
        BY <1>3, <1>6, <1>7, MarkFields DEF SentMark
      <3>2. Line("server", v, Mark(m, IF c.strictname THEN 0 ELSE c.recvseq + 1, c.newkeys.recv),
                 SentMark("server", s, a), a, s.hash, c.strictname)
        BY <1>1, <3>1 DEF Taken
      <3> QED BY <2>2, <3>2 DEF FromServer
    <2>6. ~d.exited
      BY <1>1, <2>2 DEF Back
    <2> QED BY <1>1, <2>2, <2>3, <2>4, <2>5, <2>6 DEF Both
  <1> QED BY <1>3, <1>5, <1>8 DEF ClientGoes

-----------------------------------------------------------------------------
(* Every packet is one of these.                                           *)

LEMMA ClientAny ==
  ASSUME NEW c, NEW s, NEW x, NEW y, NEW a, Ready(c, s, x, y, a), NEW p, NEW m, NEW v, NEW t, NEW u,
         Taken("client", c, SentMark("server", s, a), p, m, v, a, s.hash), Opened(c, t),
         u = Handled("client", t, p)
  PROVE  ClientGoes(c, s, x, v, a, p, u)
  <1>1. p.type \in {"KEXINIT", "KEXDH_REPLY", "NEWKEYS", "EXT_INFO", "DATA"}
    BY DEF Taken, Says, Peer
  <1>2. CASE p.type = "KEXINIT"
    BY <1>2, ClientKexinit
  <1>3. CASE p.type = "KEXDH_REPLY"
    BY <1>3, ClientReply
  <1>4. CASE p.type = "NEWKEYS"
    BY <1>4, ClientNewkeys
  <1>5. CASE p.type \in {"DATA", "EXT_INFO"}
    BY <1>5, ClientQuiet
  <1> QED BY <1>1, <1>2, <1>3, <1>4, <1>5

LEMMA ServerAny ==
  ASSUME NEW c, NEW s, NEW x, NEW y, NEW a, Ready(c, s, x, y, a), NEW p, NEW m, NEW v, NEW t, NEW u,
         Taken("server", s, SentMark("client", c, a), p, m, v, a, c.pub), Opened(s, t),
         u = Handled("server", t, p)
  PROVE  ServerGoes(c, s, v, y, a, p, u)
  <1>1. p.type \in {"KEXINIT", "KEXDH_INIT", "NEWKEYS", "DATA"}
    BY DEF Taken, Says, Peer
  <1>2. CASE p.type = "KEXINIT"
    BY <1>2, ServerKexinit
  <1>3. CASE p.type = "KEXDH_INIT" /\ ~s.ignorenext
    BY <1>3, ServerValue
  <1>4. CASE p.type = "NEWKEYS"
    BY <1>4, ServerNewkeys
  <1>5. CASE p.type \in {"DATA", "EXT_INFO"} \/ (p.type = "KEXDH_INIT" /\ s.ignorenext)
    BY <1>5, ServerQuiet
  <1> QED BY <1>1, <1>2, <1>3, <1>4, <1>5

\* The iteration of an end that reads p, in these words.
Iterates(e, u, p) ==
    /\ ses'[Peer(e)] = ses[Peer(e)] /\ wire'[Peer(e)] = Tail(wire[Peer(e)])
    /\ Ended(e, u, p, ses'[e], wire[e], wire'[e])

LEMMA IterateEnds ==
  ASSUME NEW e \in End, DOMAIN ses = End, NEW unread \in [End -> Seq(Packet)], NEW u, NEW p, NEW f,
         unread[e] = wire[e], unread[Peer(e)] = Tail(wire[Peer(e)]), wire[e] \in Seq(Packet),
         Same(u, f, {"lastpacket"}), f.lastpacket = p.type, IsSession(f), ~f.exited, Iterated(e, f, unread)
  PROVE  Iterates(e, u, p)
  <1>1. PICK d, w, x : d = ses'[e] /\ w = wire[e] /\ x = wire'[e]
    OBVIOUS
  <1>2. /\ ses'[Peer(e)] = ses[Peer(e)] /\ wire'[Peer(e)] = unread[Peer(e)]
        /\ ~Loops(e, f) => Flushed(f, ses'[e], unread[e], wire'[e])
        /\ Loops(e, f) /\ ~f.dataallowed =>
              /\ Same(f, ses'[e], {"out", "transseq", "reply_queue", "kex_state", "pub", "pubs"})
              /\ ses'[e].transseq = f.transseq + 1 /\ ses'[e].pub = f.pubs + 1
              /\ wire'[e] = Append(unread[e] \o f.out,
                                   Pkt("KEXDH_INIT", f.pubs + 1, f.keys.trans, f.transseq))
    BY DoesIterate, Zenon
  <1>3. ~Loops(e, f) /\ (~f.dataallowed \/ f.reply_queue = <<>>) =>
           Same(f, ses'[e], {"out", "reply_queue", "kex_state"}) /\ wire'[e] = unread[e] \o f.out
    BY IterateQuiet, Zenon
  <1>4. Finished(e, f, d, w, x)
    BY <1>1, <1>2, <1>3 DEF Finished
  <1>5. Ended(e, u, p, d, w, x)
    BY <1>1, <1>4 DEF Ended
  <1> QED BY <1>1, <1>2, <1>5 DEF Iterates

LEMMA ReceiveIterates ==
  ASSUME KInv, NEW e \in End, Receive(e), NEW p, p = Head(wire[Peer(e)]),
         p.key = ses[e].keys.recv, p.seq = ses[e].recvseq, NEW t, t = [ses[e] EXCEPT !.recvseq = @ + 1],
         NEW u, u = Handled(e, t, p), DOMAIN u = Fields, ~u.exited, p.type # "UNIMPLEMENTED",
         ses[e].requirenext \in {None, p.type}
  PROVE  Iterates(e, u, p)
  <1>1. PICK f : f = process_packet(e, t, p)
    OBVIOUS
  <1>2. IsSession(f) /\ Same(ses[e], t, {"recvseq"})
    BY <1>1, DoesReceive
  <1>3. PICK unread \in [End -> Seq(Packet)] :
           /\ unread[e] = wire[e] /\ unread[Peer(e)] = Tail(wire[Peer(e)])
           /\ Iterated(e, f, unread)
    BY <1>1, DoesReceive
  <1>4. t.requirenext \in {None, p.type}
    BY <1>2 DEF Same, Fields, Flags
  <1>5. f = [u EXCEPT !.lastpacket = p.type]
    <2>1. process_packet(e, t, p) = [Handled(e, t, p) EXCEPT !.lastpacket = p.type]
      BY <1>4 DEF process_packet, Handled
    <2> QED BY <1>1, <2>1
  <1>6. Same(u, f, {"lastpacket"}) /\ f.lastpacket = p.type
    BY <1>5 DEF Same, Fields, Flags
  <1>7. ~f.exited
    BY <1>6 DEF Same, Fields, Flags
  <1>8. DOMAIN ses = End /\ wire[e] \in Seq(Packet)
    BY DEF KInv, Typed
  <1> QED BY <1>2, <1>3, <1>6, <1>7, <1>8, IterateEnds

LEMMA ReceiveTwo ==
  ASSUME KInv, TwoEnds, NEW e \in End, Receive(e)
  PROVE  TwoEnds'
  <1>1. PICK a \in 1..Len(SigAlgs) :
           Both(ses["client"], ses["server"], wire["client"], wire["server"], a)
    BY DEF TwoEnds
  <1>2. \A d \in End : Back(d, ses[d]) /\ wire[d] \in Seq(Packet)
    BY BothBack DEF TwoEnds
  <1>3. PICK c, s, x, y : /\ c = ses["client"] /\ s = ses["server"]
                          /\ x = wire["client"] /\ y = wire["server"]
    OBVIOUS
  <1>4. Ready(c, s, x, y, a)
    BY <1>1, <1>2, <1>3 DEF Ready, End
  <1>5. wire[Peer(e)] # <<>>
    BY DEF Receive
  <1>6. CASE e = "client"
    <2>1. Peer(e) = "server"
      BY <1>6 DEF Peer
    <2>2. PICK p, v : p = Head(y) /\ v = Tail(y)
      OBVIOUS
    <2>3. PICK m : Taken("client", c, SentMark("server", s, a), p, m, v, a, s.hash)
      BY <1>3, <1>4, <1>5, <2>1, <2>2, Reads
    <2>4. /\ p.key = c.keys.recv /\ p.seq = c.recvseq
          /\ p.type \in {"KEXINIT", "KEXDH_REPLY", "NEWKEYS", "EXT_INFO", "DATA"}
      BY <2>3 DEF Taken, Says, Peer
    <2>5. PICK t : t = [c EXCEPT !.recvseq = @ + 1]
      OBVIOUS
    <2>6. PICK u : u = Handled("client", t, p)
      OBVIOUS
    <2>7. Opened(c, t)
      BY <1>3, <1>6, <2>1, <2>2, <2>4, <2>5, DoesReceive DEF Opened
    <2>8. ClientGoes(c, s, x, v, a, p, u)
      BY <1>4, <2>3, <2>6, <2>7, ClientAny
    <2>9. /\ c.requirenext \in {None, p.type} /\ ~u.exited /\ DOMAIN u = Fields
          /\ \A d, w : Ended("client", u, p, d, x, w) => ~d.exited /\ Both(d, s, w, v, a)
      BY <2>8 DEF ClientGoes
    <2>10. Iterates(e, u, p)
      BY <1>3, <1>6, <2>1, <2>2, <2>4, <2>5, <2>6, <2>9, ReceiveIterates
    <2>11. PICK d, w : d = ses'["client"] /\ w = wire'["client"]
      OBVIOUS
    <2>12. Ended("client", u, p, d, x, w) /\ ses'["server"] = s /\ wire'["server"] = v
      BY <1>3, <1>6, <2>1, <2>2, <2>10, <2>11 DEF Iterates
    <2>13. ~d.exited /\ Both(d, s, w, v, a)
      BY <2>9, <2>12
    <2>14. ~s.exited
      BY <1>2, <1>3 DEF Back, End
    <2> QED BY <2>11, <2>12, <2>13, <2>14 DEF TwoEnds, End
  <1>7. CASE e = "server"
    <2>1. Peer(e) = "client"
      BY <1>7 DEF Peer
    <2>2. PICK p, v : p = Head(x) /\ v = Tail(x)
      OBVIOUS
    <2>3. PICK m : Taken("server", s, SentMark("client", c, a), p, m, v, a, c.pub)
      BY <1>3, <1>4, <1>5, <2>1, <2>2, Reads
    <2>4. /\ p.key = s.keys.recv /\ p.seq = s.recvseq
          /\ p.type \in {"KEXINIT", "KEXDH_INIT", "NEWKEYS", "DATA"}
      BY <2>3 DEF Taken, Says, Peer
    <2>5. PICK t : t = [s EXCEPT !.recvseq = @ + 1]
      OBVIOUS
    <2>6. PICK u : u = Handled("server", t, p)
      OBVIOUS
    <2>7. Opened(s, t)
      BY <1>3, <1>7, <2>1, <2>2, <2>4, <2>5, DoesReceive DEF Opened
    <2>8. ServerGoes(c, s, v, y, a, p, u)
      BY <1>4, <2>3, <2>6, <2>7, ServerAny
    <2>9. /\ s.requirenext \in {None, p.type} /\ ~u.exited /\ DOMAIN u = Fields
          /\ \A d, w : Ended("server", u, p, d, y, w) => ~d.exited /\ Both(c, d, v, w, a)
      BY <2>8 DEF ServerGoes
    <2>10. Iterates(e, u, p)
      BY <1>3, <1>7, <2>1, <2>2, <2>4, <2>5, <2>6, <2>9, ReceiveIterates
    <2>11. PICK d, w : d = ses'["server"] /\ w = wire'["server"]
      OBVIOUS
    <2>12. Ended("server", u, p, d, y, w) /\ ses'["client"] = c /\ wire'["client"] = v
      BY <1>3, <1>7, <2>1, <2>2, <2>10, <2>11 DEF Iterates
    <2>13. ~d.exited /\ Both(c, d, v, w, a)
      BY <2>9, <2>12
    <2>14. ~c.exited
      BY <1>2, <1>3 DEF Back, End
    <2> QED BY <2>11, <2>12, <2>13, <2>14 DEF TwoEnds, End
  <1> QED BY <1>6, <1>7 DEF End

-----------------------------------------------------------------------------
(* Both KEXINITs are on their way.                                         *)

LEMMA LineEmpty ==
  ASSUME NEW e \in End, NEW w \in Seq(Packet), w = <<>>, NEW z, z.at \in Int, z.seq \in Int, NEW a, NEW b, NEW strict
  PROVE  Line(e, w, z, z, a, b, strict)
  <1>1. Len(w) = 0 /\ 0..Len(w) = {0} /\ 1..Len(w) = {}
    OBVIOUS
  <1>2. Route(w, z.at, z.at, a, b)
    <2>1. PICK r \in [{0} -> Int] : r = [i \in {0} |-> z.at]
      OBVIOUS
    <2>2. r[0] = z.at /\ \A i, j \in {0} : i <= j => r[i] <= r[j]
      BY <2>1
    <2> QED BY <1>1, <2>2 DEF Route
  <1>3. Counted(w, z.seq, z.seq, strict)
    <2>1. PICK q \in [{0} -> Int] : q = [i \in {0} |-> z.seq]
      OBVIOUS
    <2>2. q[0] = z.seq
      BY <2>1
    <2> QED BY <1>1, <2>2 DEF Counted
  <1>4. Keyed(w, z.key, z.key)
    BY <1>1 DEF Keyed
  <1> QED BY <1>1, <1>2, <1>3, <1>4 DEF Line

First(e, v, out, a, b, strict, list) ==
    /\ Own(e, v, a) /\ v.exited = FALSE /\ v.strictname = strict /\ v.sigalgs = list
    /\ v.sentnewkeys = FALSE /\ v.donefirstkex = FALSE /\ out \in Seq(Packet)
    /\ ReadMark(e, v, a) = Mark(0, 0, NoKey)
    /\ Line(e, out, Mark(0, 0, NoKey), SentMark(e, v, a), a, b, strict)

LEMMA FirstEnd ==
  ASSUME NEW e \in End, NEW strict \in BOOLEAN, NEW list \in Seq(Name), NEW s, Fresh(s, strict, list), NEW a,
         e = "client" => list = SigAlgs, e = "server" => Table(list, a),
         NEW t, t = send_msg_kexinit(e, s), NEW v, v = [t EXCEPT !.out = <<>>], NEW b,
         e = "client" => b = v.pub
  PROVE  First(e, v, t.out, a, b, strict, list)
  <1>1. IsSession(s)
    BY NewSessionTyped
  <1>2. /\ s.out = <<>> /\ s.dataallowed = TRUE /\ s.cookie = 0 /\ s.transseq = 0 /\ s.recvseq = 0
        /\ s.keys = NoKeys /\ s.session_id = NoHash /\ s.exited = FALSE /\ s.recvkexinit = FALSE
        /\ s.sentnewkeys = FALSE /\ s.requirenext = "KEXINIT" /\ s.ignorenext = FALSE
        /\ s.donefirstkex = FALSE /\ s.strict_kex = FALSE /\ s.our_first_follows_matches = FALSE
        /\ s.sigalgs = list /\ s.strictname = strict /\ s.pubs = 0
    BY DEF Fresh, NewSession
  <1>3. DOMAIN s = Fields
    BY <1>1 DEF IsSession
  <1>4. /\ Same(s, t, {"out", "transseq", "pub", "pubs", "cookie", "dataallowed", "sentkexinit", "newkeys"})
        /\ t.out = KexinitOut(e, s)
        /\ t.transseq = s.transseq + (IF e = "client" THEN 2 ELSE 1)
        /\ t.cookie = s.cookie + 1 /\ t.sentkexinit = TRUE /\ t.dataallowed = FALSE
        /\ t.pub = IF e = "client" THEN s.pubs + 1 ELSE s.pub
    <2>1. s.dataallowed /\ s.transseq \in Nat
      BY <1>2
    <2> QED BY <1>3, <2>1, DoesKexinit
  <1>5. Same(t, v, {"out"})
    BY <1>4 DEF Same, Fields, Flags
  <1>6. \A f \in {"recvseq", "keys", "session_id", "exited", "recvkexinit", "sentnewkeys", "requirenext",
                  "ignorenext", "donefirstkex", "strict_kex", "our_first_follows_matches", "sigalgs",
                  "strictname"} : v[f] = s[f]
    BY <1>4, <1>5 DEF Same, Fields, Flags
  <1>7. /\ v.transseq = t.transseq /\ v.cookie = t.cookie /\ v.sentkexinit = TRUE /\ v.dataallowed = FALSE
        /\ v.pub = t.pub
    BY <1>4, <1>5 DEF Same, Fields, Flags
  <1>8. v.cookie = 1 /\ v.transseq = IF e = "client" THEN 2 ELSE 1
    BY <1>2, <1>4, <1>7
  <1>9. Done(v) = 0
    BY <1>7, <1>8 DEF Done
  <1>10. Own(e, v, a)
    BY <1>2, <1>6, <1>7, <1>8, <1>9 DEF Own, InExchange
  <1>11. NoKeys.recv = NoKey /\ NoKeys.trans = NoKey
    BY DEF NoKeys
  <1>12. ReadMark(e, v, a) = Mark(0, 0, NoKey)
    <2>1. ReadAt(e, v, a) = 0
      BY <1>2, <1>6, <1>9 DEF ReadAt
    <2> QED BY <1>2, <1>6, <1>11, <2>1 DEF ReadMark
  <1>13. SentMark(e, v, a) = Mark(4 * 0 + (IF e = "server" THEN 1 ELSE IF a = 1 THEN 3 ELSE 2),
                                  s.transseq + (IF e = "client" THEN 2 ELSE 1), s.keys.trans)
    <2>1. SentAt(e, v, a) = 4 * 0 + (IF e = "server" THEN 1 ELSE IF a = 1 THEN 3 ELSE 2)
      BY <1>2, <1>6, <1>7, <1>8 DEF SentAt
    <2> QED BY <1>4, <1>6, <1>7, <2>1 DEF SentMark
  <1>0. PICK k \in Nat : k = 0
    OBVIOUS
  <1>14. PICK z : z = Mark(0, 0, NoKey)
    OBVIOUS
  <1>15. z.at = 0 /\ z.seq = 0 /\ z = SentMark(e, s, a)
    <2>1. SentAt(e, s, a) = 0
      BY <1>2 DEF SentAt
    <2> QED BY <1>2, <1>11, <1>14, <2>1, MarkFields DEF SentMark
  <1>16. PICK w \in Seq(Packet) : w = <<>>
    <2>1. <<>> \in Seq(Packet)
      OBVIOUS
    <2> QED BY <2>1
  <1>17. Line(e, w, z, SentMark(e, s, a), a, b, s.strictname)
    <2>0. z.at \in Int /\ z.seq \in Int
      BY <1>15
    <2>1. Line(e, w, z, z, a, b, s.strictname)
      BY <1>16, <2>0, LineEmpty
    <2> QED BY <1>15, <2>1
  <1>18. /\ KexinitOut(e, s) \in Seq(Packet)
         /\ Line(e, w \o KexinitOut(e, s), z,
              Mark(4 * k + (IF e = "server" THEN 1 ELSE IF a = 1 THEN 3 ELSE 2),
                   s.transseq + (IF e = "client" THEN 2 ELSE 1), s.keys.trans), a, b, s.strictname)
    <2>1. /\ s.dataallowed /\ k = s.cookie /\ 4 * k - 1 <= z.at
          /\ e = "client" => s.sigalgs = SigAlgs
          /\ e = "server" => Table(s.sigalgs, a)
          /\ e = "client" /\ a = 1 => b = s.pubs + 1
      BY <1>0, <1>2, <1>4, <1>7, <1>15
    <2> QED BY <1>1, <1>2, <1>17, <2>1, LineKexinit
  <1>19. w \o KexinitOut(e, s) = t.out
    BY <1>4, <1>16, <1>18
  <1>20. Line(e, t.out, Mark(0, 0, NoKey), SentMark(e, v, a), a, b, strict)
    BY <1>0, <1>2, <1>13, <1>14, <1>18, <1>19
  <1> QED BY <1>2, <1>4, <1>6, <1>10, <1>12, <1>18, <1>20 DEF First

LEMMA InitTwo == Init => TwoEnds
  <1> SUFFICES ASSUME Init PROVE TwoEnds
    OBVIOUS
  <1>1. PICK usable \in (SUBSET (1..Len(SigAlgs))) \ {{}}, strict \in BOOLEAN :
          LET new(e) == [NewSession EXCEPT
                            !.strictname = strict,
                            !.sigalgs = [i \in 1..Len(@) |-> IF e = "client" \/ i \in usable
                                                             THEN @[i] ELSE None]]
              begun == [e \in End |-> send_msg_kexinit(e, new(e))]
          IN /\ ses = [e \in End |-> [begun[e] EXCEPT !.out = <<>>]]
             /\ wire = [e \in End |-> begun[e].out]
    BY Zenon DEF Init
  <1> DEFINE list(e) == [i \in 1..Len(SigAlgs) |-> IF e = "client" \/ i \in usable THEN SigAlgs[i] ELSE None]
             new(e) == [NewSession EXCEPT !.strictname = strict, !.sigalgs = list(e)]
  <1>2. ASSUME NEW e \in End PROVE list(e) \in Seq(Name)
    <2>1. Len(SigAlgs) \in Nat /\ \A i \in 1..Len(SigAlgs) : SigAlgs[i] \in STRING
      BY AlgsAssumption
    <2>2. list(e) \in [1..Len(SigAlgs) -> Name]
      BY <2>1 DEF Name
    <2> QED BY <2>1, <2>2
  <1>3. \A e \in End : [NewSession EXCEPT
                            !.strictname = strict,
                            !.sigalgs = [i \in 1..Len(@) |-> IF e = "client" \/ i \in usable
                                                             THEN @[i] ELSE None]] = new(e)
    BY DEF NewSession
  <1>4. PICK begun : begun = [e \in End |-> send_msg_kexinit(e, new(e))]
    OBVIOUS
  <1>5. ses = [e \in End |-> [begun[e] EXCEPT !.out = <<>>]] /\ wire = [e \in End |-> begun[e].out]
    BY <1>1, <1>3, <1>4
  <1>6. PICK a \in usable : \A i \in 1..(a - 1) : i \notin usable
    <2>1. usable \subseteq 1..Len(SigAlgs) /\ usable # {}
      OBVIOUS
    <2> QED BY <2>1, FirstPlace
  <1>7. a \in 1..Len(SigAlgs)
    OBVIOUS
  <1>8. PICK full \in Seq(Name), part \in Seq(Name) : full = list("client") /\ part = list("server")
    BY <1>2 DEF End
  <1>9. full = SigAlgs
    <2>1. full = [i \in 1..Len(SigAlgs) |-> SigAlgs[i]]
      BY <1>8
    <2>2. SigAlgs \in Seq(Name)
      BY SigAlgsFacts
    <2> QED BY <2>1, <2>2
  <1>10. Table(part, a)
    <2>1. Len(SigAlgs) \in Nat
      BY SigAlgsFacts
    <2>2. part = [i \in 1..Len(SigAlgs) |-> IF i \in usable THEN SigAlgs[i] ELSE None]
      BY <1>8
    <2>3. Len(part) = Len(SigAlgs)
      BY <2>1, <2>2
    <2>4. \A i \in 1..Len(SigAlgs) : part[i] = IF i \in usable THEN SigAlgs[i] ELSE None
      BY <2>2
    <2>5. \A i \in 1..(a - 1) : i \in 1..Len(SigAlgs)
      BY <1>7, <2>1
    <2> QED BY <1>6, <1>7, <2>3, <2>4, <2>5 DEF Table
  <1>11. PICK f, g : /\ f = [NewSession EXCEPT !.strictname = strict, !.sigalgs = full]
                     /\ g = [NewSession EXCEPT !.strictname = strict, !.sigalgs = part]
    OBVIOUS
  <1>12. Fresh(f, strict, full) /\ Fresh(g, strict, part)
    BY <1>11 DEF Fresh
  <1>13. PICK t, u : t = send_msg_kexinit("client", f) /\ u = send_msg_kexinit("server", g)
    OBVIOUS
  <1>14. begun["client"] = t /\ begun["server"] = u
    BY <1>4, <1>8, <1>11, <1>13 DEF End
  <1> HIDE DEF list, new
  <1>15. PICK c, s, x, y : /\ c = [t EXCEPT !.out = <<>>] /\ s = [u EXCEPT !.out = <<>>]
                           /\ x = t.out /\ y = u.out
    OBVIOUS
  <1>16. ses["client"] = c /\ ses["server"] = s /\ wire["client"] = x /\ wire["server"] = y
    BY <1>5, <1>14, <1>15 DEF End
  <1>17. First("client", c, x, a, c.pub, strict, full) /\ First("server", s, y, a, s.hash, strict, part)
    <2>1. First("client", c, t.out, a, c.pub, strict, full)
      BY <1>9, <1>12, <1>13, <1>15, FirstEnd DEF End
    <2>2. First("server", s, u.out, a, s.hash, strict, part)
      BY <1>10, <1>12, <1>13, <1>15, FirstEnd DEF End
    <2> QED BY <1>15, <2>1, <2>2
  <1>18. /\ Own("client", c, a) /\ Own("server", s, a) /\ ~c.exited /\ ~s.exited
         /\ c.strictname = strict /\ s.strictname = strict /\ c.sigalgs = full /\ s.sigalgs = part
         /\ ~c.sentnewkeys /\ ~s.sentnewkeys /\ ~c.donefirstkex
    BY <1>17 DEF First
  <1>19. Agree(c, s, a) /\ Tables(c, s, a)
    BY <1>9, <1>10, <1>18 DEF Agree, Tables
  <1>20. FromClient(c, s, x, a) /\ FromServer(c, s, y, a)
    BY <1>17 DEF First, FromClient, FromServer
  <1>21. Both(c, s, x, y, a)
    BY <1>18, <1>19, <1>20 DEF Both
  <1> QED BY <1>7, <1>16, <1>18, <1>21 DEF TwoEnds, End

\* At every reachable state neither end has given up, and the two records and
\* the two wires fit together.
LEMMA InvariantTwo == Spec => []TwoEnds
  <1>1. KInv /\ TwoEnds /\ [Next]_vars => TwoEnds'
    <2> SUFFICES ASSUME KInv, TwoEnds, [Next]_vars PROVE TwoEnds'
      OBVIOUS
    <2>1. ASSUME NEW e \in End, SendData(e) PROVE TwoEnds'
      BY <2>1, SendDataTwo
    <2>2. ASSUME NEW e \in End, Rekey(e) PROVE TwoEnds'
      BY <2>2, RekeyTwo
    <2>3. ASSUME NEW e \in End, Receive(e) PROVE TwoEnds'
      BY <2>3, ReceiveTwo
    <2>4. CASE UNCHANGED vars
      BY <2>4 DEF vars, TwoEnds
    <2> QED BY <2>1, <2>2, <2>3, <2>4 DEF Next
  <1> QED BY Invariant, InitTwo, <1>1, PTL DEF Spec

\* Between two ends of this code no dropbear_exit() of the packet layer or of
\* the key exchange is ever reached: every packet that an end reads decrypts
\* (its key and its number are the ones expected), is one that requirenext
\* lets through, and is handled, in every exchange, whoever started it, with
\* and without strict kex, and whichever host keys the server has.
THEOREM NeverExits == Spec => []NoProtocolExit
  <1>1. TwoEnds => NoProtocolExit
    BY DEF TwoEnds, NoProtocolExit
  <1> QED BY InvariantTwo, <1>1, PTL

\* Both ends have the hash of the same first exchange as session identifier,
\* which signatures of the authentication are made over, also after any
\* number of later exchanges.
THEOREM SessionIdsAgree == Spec => []SessionIdAgrees
  <1>1. TwoEnds => SessionIdAgrees
    <2> SUFFICES ASSUME TwoEnds PROVE SessionIdAgrees
      OBVIOUS
    <2>1. PICK a \in 1..Len(SigAlgs) :
             Both(ses["client"], ses["server"], wire["client"], wire["server"], a)
      BY DEF TwoEnds
    <2>2. ses["client"].session_id # NoHash => ses["client"].session_id = ses["server"].session_id
      BY <2>1 DEF Both, Own, Agree
    <2> QED BY <2>2 DEF SessionIdAgrees, End, Peer
  <1> QED BY InvariantTwo, <1>1, PTL
=============================================================================
