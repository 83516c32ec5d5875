--------------------------- MODULE ChannelProofs ---------------------------
(***************************************************************************)
(* Theorems about Channel, for every size of the windows, of a packet and  *)
(* of the queue, and every length of the three streams.                    *)
(*                                                                         *)
(* The proof has three layers.  The first is the protocol: what an end has *)
(* sent and what the other has seen of it agree (Sent), so that neither    *)
(* end meets a packet it exits over.  The second follows what the command  *)
(* prints to the client (OutputOK), the third what the user types to the   *)
(* command (InputOK).                                                      *)
(***************************************************************************)
EXTENDS Channel, FiniteSetTheorems, SequenceTheorems, TLAPS

(* Types. *)
DataTypes == {"DATA", "EXTENDED_DATA"}
Control == {"OPEN", "OPEN_CONFIRMATION", "EXEC", "WINDOW_ADJUST", "EOF", "CLOSE", "EXIT_STATUS"}
Packet == [type : DataTypes, body : Seq(Nat)] \cup [type : Control, body : Nat]

Flags == {"present", "sent_eof", "recv_eof", "sent_close", "recv_close", "errIsWrite",
          "flushing", "pid", "exitpid", "await_open", "died"}
Fds == {"readfd", "writefd", "errfd"}
Counters == {"transwindow", "recvwindow", "recvdonelen"}
Fields == Flags \cup Fds \cup Counters \cup {"writebuf", "extrabuf", "out", "put"}

\* What cbuf_writelen() asserts, without the arithmetic modulo the size.
IsBuffer(e, b) ==
    /\ DOMAIN b = {"data", "used", "readpos", "writepos", "size"}
    /\ b.size = recv_window(e) /\ b.used \in 0..b.size
    /\ b.readpos \in 0..(b.size - 1) /\ b.writepos \in 0..(b.size - 1)
    /\ b.data \in [0..(b.size - 1) -> Nat]
    /\ b.readpos + b.used = b.writepos \/ b.readpos + b.used = b.writepos + b.size

\* The i-th block in the buffer.
Place(s, a) == IF a < s THEN a ELSE a - s
Content(b, i) == b.data[Place(b.size, b.readpos + i - 1)]

IsChannel(e, c) ==
    /\ DOMAIN c = Fields
    /\ \A f \in Flags : c[f] \in BOOLEAN
    /\ \A f \in Fds : c[f] \in Int
    /\ \A f \in Counters : c[f] \in Nat
    /\ IsBuffer(e, c.writebuf) /\ IsBuffer(e, c.extrabuf)
    /\ c.out \in Seq(Packet) /\ c.put \in Seq(Nat)

\* t differs from c in the fields F at most.
Same(c, t, F) == DOMAIN t = Fields /\ \A f \in Fields \ F : t[f] = c[f]

Typed ==
    /\ DOMAIN chan = End /\ \A e \in End : IsChannel(e, chan[e])
    /\ wire \in [End -> Seq(Packet)]
    /\ src \in [Stream -> [read : Nat, closed : BOOLEAN]]
    /\ \A f \in Stream : src[f].read <= total(f)
    /\ snk \in [Stream -> [got : Seq(Nat), broken : BOOLEAN]]
    /\ ~snk["stdout"].broken /\ ~snk["stderr"].broken
    /\ prog \in {"none", "running", "exited", "gone"} /\ status \in BOOLEAN

(* One end. *)

\* The client has 0, 1 and 2, the server three pipes, or nothing before the
\* command is started; a descriptor is closed for good.
FdsOK(e, c) ==
    IF e = "client"
    THEN /\ c.readfd \in {0, FD_CLOSED} /\ c.writefd \in {1, FD_CLOSED}
         /\ c.errfd \in {2, FD_CLOSED} /\ c.errIsWrite /\ ~c.pid /\ ~c.flushing
    ELSE /\ ~c.errIsWrite
         /\ c.pid => /\ c.readfd \in {4, FD_CLOSED} /\ c.writefd \in {3, FD_CLOSED}
                     /\ c.errfd \in {5, FD_CLOSED}
         /\ ~c.pid => /\ c.readfd = c.writefd /\ c.writefd \in {FD_UNINIT, FD_CLOSED}
                      /\ c.errfd = FD_CLOSED

\* What may still come fits into the buffers.
Room(e, c) == c.recvwindow + c.recvdonelen + c.writebuf.used + c.extrabuf.used <= recv_window(e)

\* The flags of a channel in use.
Flagged(c) ==
    /\ c.sent_close => c.sent_eof /\ c.readfd = FD_CLOSED /\ c.writefd = FD_CLOSED
                       /\ c.errfd = FD_CLOSED
    /\ c.sent_eof => NoMoreToSend(c)
    /\ c.recv_close => c.recv_eof
    /\ c.exitpid => c.pid
    /\ ~c.await_open /\ ~c.died

InUse(e, c) == c.present /\ FdsOK(e, c) /\ Room(e, c) /\ Flagged(c)

Unused(e, c) == c = [NoChannel(e) EXCEPT !.out = c.out]

(* One direction: c sends on w, d receives and answers on v. *)
Has(w, types) == \E i \in 1..Len(w) : w[i].type \in types

\* Nothing follows CLOSE, and no data EOF.
Ordered(w) ==
    \A i, j \in 1..Len(w) : i < j =>
        /\ w[i].type # "CLOSE"
        /\ w[i].type = "EOF" => w[j].type \notin DataTypes \cup {"EOF"}

\* A granted window is not exceeded; what the receiver has seen was sent; and
\* who is gone has seen everything.
Sent(w, v, c, d) ==
    /\ Ordered(w)
    /\ c.present /\ Has(w, {"EOF"}) => c.sent_eof
    /\ c.present /\ Has(w, {"CLOSE"}) => c.sent_close
    /\ d.present /\ d.recv_eof => ~Has(w, DataTypes \cup {"EOF"}) /\ (c.present => c.sent_eof)
    /\ d.present /\ d.recv_close => w = <<>> /\ (c.present => c.sent_close)
    /\ d.present => c.transwindow + Load(w, 1, DataTypes) + Load(v, 1, {"WINDOW_ADJUST"})
                        <= d.recvwindow
    /\ ~d.present => w = <<>> /\ (c.present => c.sent_close)

(* The request to run the command, which is sent once. *)
Fresh(c) ==
    /\ c.present /\ c.readfd = FD_UNINIT /\ c.writefd = FD_UNINIT /\ c.errfd = FD_CLOSED
    /\ ~c.sent_eof /\ ~c.recv_eof /\ ~c.pid /\ c.writebuf.used = 0

Types(e) == IF e = "client" THEN {"DATA", "EOF", "CLOSE", "WINDOW_ADJUST", "EXEC"}
            ELSE {"DATA", "EXTENDED_DATA", "EOF", "CLOSE", "WINDOW_ADJUST", "EXIT_STATUS"}

ExecPending == wire["client"] # <<>> /\ wire["client"][1].type = "EXEC"

ExecOK ==
    /\ \A e \in End : \A i \in 1..Len(wire[e]) : wire[e][i].type \in Types(e)
    /\ \A i \in 2..Len(wire["client"]) : wire["client"][i].type # "EXEC"
    /\ ExecPending => Fresh(chan["server"]) /\ wire["server"] = <<>> /\ prog = "none"
    /\ chan["server"].present => /\ chan["server"].pid <=> prog # "none"
                                 /\ chan["server"].exitpid <=> prog = "gone"

(* The first layer. *)
Early ==
    /\ prog = "none" /\ ~status
    /\ \A f \in Stream : src[f].read = 0 /\ snk[f].got = <<>> /\ ~snk[f].broken
    /\ chan["client"] = [newchannel("client") EXCEPT !.await_open = TRUE,
                                                     !.readfd = 0, !.writefd = 0]

Opening ==
    /\ Early /\ chan["server"] = NoChannel("server")
    /\ wire["client"] = <<[type |-> "OPEN", body |-> ClientWindow]>> /\ wire["server"] = <<>>

Confirming ==
    /\ Early /\ chan["server"] = [newchannel("server") EXCEPT !.transwindow = ClientWindow]
    /\ wire["client"] = <<>>
    /\ wire["server"] = <<[type |-> "OPEN_CONFIRMATION", body |-> ServerWindow]>>

Linked(e) ==
    /\ chan[e].out = <<>> /\ chan[e].put = <<>>
    /\ InUse(e, chan[e]) \/ Unused(e, chan[e])
    /\ Sent(wire[e], wire[Peer(e)], chan[e], chan[Peer(e)])

Working == (\A e \in End : Linked(e)) /\ ExecOK

Protocol == Typed /\ (Opening \/ Confirming \/ Working)

(* The second layer: of the blocks 1..n of a stream the first are in got, the *)
(* next in the buffer b, and the others in packets of type t on the wire w.   *)
Last(p) == p.body[1] + Len(p.body) - 1

InOrder(w, t, lo, hi) ==
    /\ lo <= hi
    /\ \A i \in 1..Len(w) : w[i].type = t =>
          /\ Len(w[i].body) > 0 /\ \A k \in 1..Len(w[i].body) : w[i].body[k] = w[i].body[1] + k - 1
          /\ lo < w[i].body[1] /\ Last(w[i]) <= hi
          /\ \A j \in 1..(i - 1) : w[j].type = t => Last(w[j]) < w[i].body[1]
    /\ \A b \in (lo + 1)..hi : \E i \in 1..Len(w) : w[i].type = t /\ b \in w[i].body[1]..Last(w[i])

Tracked(got, b, w, t, n) ==
    /\ \A i \in 1..Len(got) : got[i] = i
    /\ \A i \in 1..b.used : Content(b, i) = Len(got) + i
    /\ InOrder(w, t, Len(got) + b.used, n)

\* The client has lost nothing when it closes a descriptor, and the channel.
Showing(c, w, s, k) ==
    /\ Tracked(k["stdout"].got, c.writebuf, w, "DATA", s["stdout"].read)
    /\ Tracked(k["stderr"].got, c.extrabuf, w, "EXTENDED_DATA", s["stderr"].read)
    /\ c.writefd = FD_CLOSED => c.recv_eof /\ c.writebuf.used = 0
    /\ c.errfd = FD_CLOSED => c.sent_close /\ c.extrabuf.used = 0

OutputOK ==
    IF chan["client"].present THEN Showing(chan["client"], wire["server"], src, snk)
    ELSE prog # "none" => status /\ Arrived("stdout") /\ Arrived("stderr")

\* The server closes what it has read to the end, and sends the status first.
AllRead(s) == s["stdout"].read = MaxOut /\ s["stderr"].read = MaxErr

DrainedBy(c, s) ==
    c.present /\ c.pid => /\ c.readfd = FD_CLOSED => s["stdout"].read = MaxOut
                          /\ c.errfd = FD_CLOSED => s["stderr"].read = MaxErr

Told(c, w, s, st, pr) ==
    pr # "none" /\ (~c.present \/ c.sent_close) =>
        (st \/ Has(w, {"EXIT_STATUS"})) /\ pr = "gone" /\ AllRead(s)

Drained == DrainedBy(chan["server"], src)
StatusOK == Told(chan["server"], wire["server"], src, status, prog)

Output == ~chan["client"].await_open => OutputOK /\ Drained /\ StatusOK

(* The third layer. *)
\* The server closes the command's input when it has all of it.
Finished(s) == s.closed /\ s.read = MaxIn

Reaching(c, w, s, k) ==
    IF c.writefd = FD_CLOSED THEN Finished(s) /\ k.got = [i \in 1..MaxIn |-> i]
    ELSE Tracked(k.got, c.writebuf, w, "DATA", s.read)

\* The command runs or is about to, and has not closed its input itself.
Fed == (ExecPending \/ prog = "running") /\ ~snk["stdin"].broken

InputOK ==
    /\ chan["client"].present /\ chan["client"].readfd = FD_CLOSED => Finished(src["stdin"])
    /\ Fed => Reaching(chan["server"], wire["client"], src["stdin"], snk["stdin"])

Input == ~chan["client"].await_open => InputOK
-----------------------------------------------------------------------------
(* Packets and sequences of them.                                          *)

LEMMA Constants ==
  /\ ServerWindow \in Nat \ {0} /\ ClientWindow \in Nat \ {0} /\ MaxPacket \in Nat \ {0}
  /\ MaxIn \in Nat /\ MaxOut \in Nat /\ MaxErr \in Nat
  BY WindowAssumption

LEMMA Windows == \A e \in End : recv_window(e) \in Nat \ {0}
  BY Constants DEF recv_window

LEMMA Totals ==
  /\ total("stdin") = MaxIn /\ total("stdout") = MaxOut /\ total("stderr") = MaxErr
  /\ \A f \in Stream : total(f) \in Nat
  BY Constants DEF total, Stream

\* The fields of a packet, by its type.
LEMMA PacketFields ==
  ASSUME NEW p \in Packet
  PROVE  /\ p.type \in DataTypes \cup Control
         /\ p.type \in DataTypes => p.body \in Seq(Nat) /\ Len(p.body) \in Nat
         /\ p.type \in Control => p.body \in Nat
         /\ Amount(p) \in Nat
  BY DEF Packet, DataTypes, Control, Amount

LEMMA APacket ==
  /\ \A t \in Control, b \in Nat : [type |-> t, body |-> b] \in Packet
  /\ \A t \in DataTypes, b \in Seq(Nat) : [type |-> t, body |-> b] \in Packet
  BY DEF Packet

LEMMA ConcatFacts ==
  ASSUME NEW S, NEW x \in Seq(S), NEW y \in Seq(S)
  PROVE  /\ x \o y \in Seq(S) /\ Len(x \o y) = Len(x) + Len(y) /\ Len(x) \in Nat /\ Len(y) \in Nat
         /\ \A i \in 1..Len(x) : (x \o y)[i] = x[i]
         /\ \A i \in (Len(x) + 1)..(Len(x) + Len(y)) : (x \o y)[i] = y[i - Len(x)]
         /\ \A i \in 1..Len(y) : (x \o y)[Len(x) + i] = y[i]
  OBVIOUS

LEMMA ConcatTwice ==
  ASSUME NEW x \in Seq(Packet), NEW y \in Seq(Packet), NEW z \in Seq(Packet)
  PROVE  (x \o y) \o z = x \o (y \o z)
  BY ConcatAssociative

LEMMA TailFacts ==
  ASSUME NEW S, NEW x \in Seq(S), x # <<>>
  PROVE  /\ Tail(x) \in Seq(S) /\ Len(x) \in Nat /\ Len(x) > 0 /\ Len(Tail(x)) = Len(x) - 1
         /\ Head(x) = x[1] /\ x[1] \in S
         /\ \A i \in 1..Len(Tail(x)) : Tail(x)[i] = x[i + 1]
         /\ \A i \in 2..Len(x) : x[i] = Tail(x)[i - 1]
  OBVIOUS

LEMMA HasConcat ==
  ASSUME NEW S, NEW x \in Seq(S), NEW y \in Seq(S), NEW T
  PROVE  Has(x \o y, T) <=> Has(x, T) \/ Has(y, T)
  <1>1. PICK z : z = x \o y
    OBVIOUS
  <1>2. /\ Len(z) = Len(x) + Len(y) /\ Len(x) \in Nat /\ Len(y) \in Nat
        /\ \A i \in 1..Len(x) : z[i] = x[i]
        /\ \A i \in (Len(x) + 1)..(Len(x) + Len(y)) : z[i] = y[i - Len(x)]
        /\ \A i \in 1..Len(y) : z[Len(x) + i] = y[i]
    BY <1>1, ConcatFacts
  <1>3. ASSUME NEW i \in 1..Len(z), z[i].type \in T PROVE Has(x, T) \/ Has(y, T)
    <2>1. CASE i \in 1..Len(x)
      BY <1>2, <1>3, <2>1 DEF Has
    <2>2. CASE i \in (Len(x) + 1)..(Len(x) + Len(y))
      <3>1. i - Len(x) \in 1..Len(y)
        BY <1>2, <2>2
      <3> QED BY <1>2, <1>3, <2>2, <3>1 DEF Has
    <2> QED BY <1>2, <2>1, <2>2
  <1>4. ASSUME NEW i \in 1..Len(x), x[i].type \in T PROVE Has(z, T)
    <2>1. i \in 1..Len(z)
      BY <1>2
    <2> QED BY <1>2, <1>4, <2>1 DEF Has
  <1>5. ASSUME NEW i \in 1..Len(y), y[i].type \in T PROVE Has(z, T)
    <2>1. Len(x) + i \in 1..Len(z)
      BY <1>2
    <2> QED BY <1>2, <1>5, <2>1 DEF Has
  <1> QED BY <1>1, <1>3, <1>4, <1>5 DEF Has

LEMMA HasTail ==
  ASSUME NEW S, NEW x \in Seq(S), x # <<>>, NEW T
  PROVE  Has(x, T) <=> x[1].type \in T \/ Has(Tail(x), T)
  <1>1. PICK y : y = Tail(x)
    OBVIOUS
  <1>2. /\ Len(x) \in Nat /\ Len(x) > 0 /\ Len(y) = Len(x) - 1
        /\ \A i \in 1..Len(y) : y[i] = x[i + 1]
        /\ \A i \in 2..Len(x) : x[i] = y[i - 1]
    BY <1>1, TailFacts
  <1>3. ASSUME NEW i \in 1..Len(x), x[i].type \in T PROVE x[1].type \in T \/ Has(y, T)
    <2>1. CASE i \in 2..Len(x)
      <3>1. i - 1 \in 1..Len(y)
        BY <1>2, <2>1
      <3> QED BY <1>2, <1>3, <2>1, <3>1 DEF Has
    <2> QED BY <1>2, <1>3, <2>1
  <1>4. ASSUME NEW i \in 1..Len(y), y[i].type \in T PROVE Has(x, T)
    <2>1. i + 1 \in 1..Len(x)
      BY <1>2
    <2> QED BY <1>2, <1>4, <2>1 DEF Has
  <1>5. 1 \in 1..Len(x)
    BY <1>2
  <1> QED BY <1>1, <1>3, <1>4, <1>5 DEF Has

LEMMA OrderedConcat ==
  ASSUME NEW S, NEW x \in Seq(S), NEW y \in Seq(S), Ordered(x), Ordered(y),
         Has(x, {"CLOSE"}) => y = <<>>, Has(x, {"EOF"}) => ~Has(y, DataTypes \cup {"EOF"})
  PROVE  Ordered(x \o y)
  <1>1. PICK z : z = x \o y
    OBVIOUS
  <1>2. /\ Len(z) = Len(x) + Len(y) /\ Len(x) \in Nat /\ Len(y) \in Nat
        /\ \A i \in 1..Len(x) : z[i] = x[i]
        /\ \A i \in (Len(x) + 1)..(Len(x) + Len(y)) : z[i] = y[i - Len(x)]
    BY <1>1, ConcatFacts
  <1>3. ASSUME NEW i \in 1..Len(z), NEW j \in 1..Len(z), i < j
        PROVE  /\ z[i].type # "CLOSE"
               /\ z[i].type = "EOF" => z[j].type \notin DataTypes \cup {"EOF"}
    <2>1. CASE j \in 1..Len(x)
      <3>1. i \in 1..Len(x)
        BY <1>3, <2>1
      <3> QED BY <1>2, <1>3, <2>1, <3>1 DEF Ordered
    <2>2. CASE i \in 1..Len(x) /\ j \in (Len(x) + 1)..(Len(x) + Len(y))
      <3>1. j - Len(x) \in 1..Len(y) /\ z[j] = y[j - Len(x)] /\ z[i] = x[i]
        BY <1>2, <2>2
      <3>2. y # <<>>
        BY <1>2, <3>1
      <3>3. ~Has(x, {"CLOSE"})
        BY <3>2
      <3> QED BY <2>2, <3>1, <3>3 DEF Has
    <2>3. CASE i \in (Len(x) + 1)..(Len(x) + Len(y))
      <3>1. j \in (Len(x) + 1)..(Len(x) + Len(y))
        BY <1>2, <1>3, <2>3
      <3>2. /\ i - Len(x) \in 1..Len(y) /\ z[i] = y[i - Len(x)]
            /\ j - Len(x) \in 1..Len(y) /\ z[j] = y[j - Len(x)] /\ i - Len(x) < j - Len(x)
        BY <1>2, <1>3, <2>3, <3>1
      <3> QED BY <3>2 DEF Ordered
    <2> QED BY <1>2, <2>1, <2>2, <2>3
  <1> QED BY <1>1, <1>3 DEF Ordered

LEMMA OrderedTail ==
  ASSUME NEW S, NEW x \in Seq(S), x # <<>>, Ordered(x)
  PROVE  /\ Ordered(Tail(x))
         /\ x[1].type = "CLOSE" => Tail(x) = <<>>
         /\ x[1].type = "EOF" => ~Has(Tail(x), DataTypes \cup {"EOF"})
  <1>1. PICK y \in Seq(S) : y = Tail(x)
    BY TailFacts
  <1>2. /\ Len(x) \in Nat /\ Len(x) > 0 /\ Len(y) = Len(x) - 1
        /\ \A i \in 1..Len(y) : y[i] = x[i + 1]
    BY <1>1, TailFacts
  <1>4. Ordered(y)
    <2> SUFFICES ASSUME NEW i \in 1..Len(y), NEW j \in 1..Len(y), i < j
                 PROVE  /\ y[i].type # "CLOSE"
                        /\ y[i].type = "EOF" => y[j].type \notin DataTypes \cup {"EOF"}
      BY DEF Ordered
    <2>1. i + 1 \in 1..Len(x) /\ j + 1 \in 1..Len(x) /\ i + 1 < j + 1
      BY <1>2
    <2> QED BY <1>2, <2>1 DEF Ordered
  <1>5. x[1].type = "CLOSE" => y = <<>>
    <2>1. 1 \in 1..Len(x) /\ (Len(x) > 1 => 2 \in 1..Len(x) /\ 1 < 2)
      BY <1>2
    <2>2. x[1].type = "CLOSE" => Len(y) = 0
      BY <1>2, <2>1 DEF Ordered
    <2> QED BY <1>1, <2>2
  <1>6. x[1].type = "EOF" => ~Has(y, DataTypes \cup {"EOF"})
    <2>1. ASSUME x[1].type = "EOF", NEW i \in 1..Len(y) PROVE y[i].type \notin DataTypes \cup {"EOF"}
      <3>1. 1 \in 1..Len(x) /\ i + 1 \in 1..Len(x) /\ 1 < i + 1
        BY <1>2
      <3> QED BY <1>2, <2>1, <3>1 DEF Ordered
    <2> QED BY <2>1 DEF Has
  <1> QED BY <1>1, <1>4, <1>5, <1>6

(* What the packets carry together.                                        *)

\* Load() is the number of these pairs.
Cells(w, T) == UNION {{i} \X (1..Amount(w[i])) : i \in {j \in 1..Len(w) : w[j].type \in T}}

LEMMA InCells ==
  ASSUME NEW w \in Seq(Packet), NEW T
  PROVE  /\ \A c : c \in Cells(w, T) <=>
               \E i \in 1..Len(w) : \E k \in 1..Amount(w[i]) : w[i].type \in T /\ c = <<i, k>>
         /\ \A i, k : <<i, k>> \in Cells(w, T) <=>
               i \in 1..Len(w) /\ w[i].type \in T /\ k \in 1..Amount(w[i])
  BY DEF Cells

LEMMA OneCell ==
  ASSUME NEW i, NEW n \in Nat
  PROVE  IsFiniteSet({i} \X (1..n)) /\ Cardinality({i} \X (1..n)) = n
  <1>1. IsFiniteSet(1..n) /\ Cardinality(1..n) = n
    BY FS_Interval
  <1>2. IsFiniteSet({i}) /\ Cardinality({i}) = 1
    BY FS_Singleton, Zenon
  <1>3. IsFiniteSet({i} \X (1..n)) /\ Cardinality({i} \X (1..n)) = 1 * n
    BY <1>1, <1>2, FS_Product
  <1> QED BY <1>3

LEMMA CellsFinite ==
  ASSUME NEW w \in Seq(Packet), NEW T
  PROVE  IsFiniteSet(Cells(w, T)) /\ Load(w, 1, T) = Cardinality(Cells(w, T)) /\ Load(w, 1, T) \in Nat
  <1> DEFINE I == {j \in 1..Len(w) : w[j].type \in T}
             F == [i \in I |-> {i} \X (1..Amount(w[i]))]
             S == {{i} \X (1..Amount(w[i])) : i \in I}
  <1>1. IsFiniteSet(I)
    <2>1. IsFiniteSet(1..Len(w)) /\ I \in SUBSET (1..Len(w))
      BY FS_Interval
    <2> QED BY <2>1, FS_Subset
  <1>2. F \in Surjection(I, S)
    BY DEF Surjection
  <1>3. IsFiniteSet(S)
    BY <1>1, <1>2, FS_Surjection
  <1>4. ASSUME NEW i \in I PROVE IsFiniteSet({i} \X (1..Amount(w[i])))
    <2>1. w[i] \in Packet
      OBVIOUS
    <2>2. Amount(w[i]) \in Nat
      BY <2>1, PacketFields
    <2> QED BY <2>2, OneCell
  <1>5. IsFiniteSet(UNION S)
    BY <1>3, <1>4, FS_UNION
  <1>6. Cells(w, T) = UNION S /\ Load(w, 1, T) = Cardinality(UNION S)
    BY DEF Cells, Load
  <1> QED BY <1>5, <1>6, FS_CardinalityType

LEMMA LoadEmpty == \A T : Load(<<>>, 1, T) = 0
  <1> TAKE T
  <1>1. <<>> \in Seq(Packet)
    OBVIOUS
  <1>2. Cells(<<>>, T) = {}
    BY DEF Cells
  <1> QED BY <1>1, <1>2, CellsFinite, FS_EmptySet

LEMMA LoadNone ==
  ASSUME NEW w \in Seq(Packet), NEW T, ~Has(w, T)
  PROVE  Load(w, 1, T) = 0
  <1>1. Cells(w, T) = {}
    BY DEF Cells, Has
  <1> QED BY <1>1, CellsFinite, FS_EmptySet

LEMMA LoadAppend ==
  ASSUME NEW w \in Seq(Packet), NEW p \in Packet, NEW T
  PROVE  Load(w \o <<p>>, 1, T) = Load(w, 1, T) + (IF p.type \in T THEN Amount(p) ELSE 0)
  <1>0. <<p>> \in Seq(Packet) /\ Len(<<p>>) = 1 /\ <<p>>[1] = p
    OBVIOUS
  <1>1. PICK x \in Seq(Packet) : x = w \o <<p>>
    BY <1>0, ConcatFacts
  <1>2. /\ Len(w) \in Nat /\ Len(x) = Len(w) + 1 /\ x[Len(w) + 1] = p
        /\ \A i \in 1..Len(w) : x[i] = w[i]
    BY <1>0, <1>1, ConcatFacts
  <1>3. Amount(p) \in Nat
    BY PacketFields
  <1>4. Load(w, 1, T) \in Nat /\ IsFiniteSet(Cells(w, T))
        /\ Load(w, 1, T) = Cardinality(Cells(w, T)) /\ Load(x, 1, T) = Cardinality(Cells(x, T))
    BY CellsFinite
  <1>5. CASE p.type \in T
    <2> DEFINE N == {Len(w) + 1} \X (1..Amount(p))
    <2>1. ASSUME NEW c PROVE c \in Cells(x, T) <=> c \in Cells(w, T) \/ c \in N
      <3>1. c \in N <=> \E k \in 1..Amount(p) : c = <<Len(w) + 1, k>>
        OBVIOUS
      <3>2. ASSUME NEW i \in 1..Len(x), NEW k \in 1..Amount(x[i]), x[i].type \in T, c = <<i, k>>
            PROVE  c \in Cells(w, T) \/ c \in N
        <4>1. CASE i \in 1..Len(w)
          BY <1>2, <3>2, <4>1, InCells
        <4>2. CASE i = Len(w) + 1
          BY <1>2, <3>1, <3>2, <4>2
        <4> QED BY <1>2, <4>1, <4>2
      <3>3. ASSUME NEW i \in 1..Len(w), NEW k \in 1..Amount(w[i]), w[i].type \in T, c = <<i, k>>
            PROVE  c \in Cells(x, T)
        <4>1. i \in 1..Len(x) /\ x[i] = w[i]
          BY <1>2
        <4> QED BY <3>3, <4>1, InCells
      <3>4. c \in N => c \in Cells(x, T)
        <4>1. Len(w) + 1 \in 1..Len(x)
          BY <1>2
        <4> QED BY <1>2, <1>5, <3>1, <4>1, InCells
      <3> QED BY <3>2, <3>3, <3>4, InCells
    <2>2. Cells(x, T) = Cells(w, T) \cup N
      BY <2>1
    <2>3. Cells(w, T) \cap N = {}
      <3>1. ASSUME NEW c \in N PROVE c \notin Cells(w, T)
        BY <1>2, InCells
      <3> QED BY <3>1
    <2>4. IsFiniteSet(N) /\ Cardinality(N) = Amount(p)
      BY <1>3, OneCell
    <2>5. Cardinality(Cells(w, T) \cup N) = Cardinality(Cells(w, T)) + Cardinality(N) - Cardinality(Cells(w, T) \cap N)
      BY <1>4, <2>4, FS_Union
    <2>6. Cardinality(Cells(w, T) \cap N) = 0
      BY <2>3, FS_EmptySet, Zenon
    <2> HIDE DEF N
    <2>7. Load(x, 1, T) = Load(w, 1, T) + Amount(p) - 0
      BY <1>4, <2>2, <2>4, <2>5, <2>6
    <2>8. Load(x, 1, T) = Load(w, 1, T) + Amount(p)
      BY <1>3, <1>4, <2>7
    <2> QED BY <1>1, <1>5, <2>8
  <1>6. CASE p.type \notin T
    <2>1. ASSUME NEW c PROVE c \in Cells(x, T) <=> c \in Cells(w, T)
      <3>1. ASSUME NEW i \in 1..Len(x), NEW k \in 1..Amount(x[i]), x[i].type \in T, c = <<i, k>>
            PROVE  c \in Cells(w, T)
        <4>1. i \in 1..Len(w)
          BY <1>2, <1>6, <3>1
        <4> QED BY <1>2, <3>1, <4>1, InCells
      <3>2. ASSUME NEW i \in 1..Len(w), NEW k \in 1..Amount(w[i]), w[i].type \in T, c = <<i, k>>
            PROVE  c \in Cells(x, T)
        <4>1. i \in 1..Len(x) /\ x[i] = w[i]
          BY <1>2
        <4> QED BY <3>2, <4>1, InCells
      <3> QED BY <3>1, <3>2, InCells
    <2>2. Cells(x, T) = Cells(w, T)
      BY <2>1
    <2> QED BY <1>1, <1>4, <1>6, <2>2
  <1> QED BY <1>5, <1>6

LEMMA LoadConcat ==
  ASSUME NEW w \in Seq(Packet), NEW q \in Seq(Packet), NEW T, ~Has(q, T)
  PROVE  Load(w \o q, 1, T) = Load(w, 1, T)
  <1>1. PICK x \in Seq(Packet) : x = w \o q
    BY ConcatFacts
  <1>2. /\ Len(w) \in Nat /\ Len(q) \in Nat /\ Len(x) = Len(w) + Len(q)
        /\ \A i \in 1..Len(w) : x[i] = w[i]
        /\ \A i \in (Len(w) + 1)..(Len(w) + Len(q)) : x[i] = q[i - Len(w)]
    BY <1>1, ConcatFacts
  <1>3. ASSUME NEW c PROVE c \in Cells(x, T) <=> c \in Cells(w, T)
    <2>1. ASSUME NEW i \in 1..Len(x), NEW k \in 1..Amount(x[i]), x[i].type \in T, c = <<i, k>>
          PROVE  c \in Cells(w, T)
      <3>1. ASSUME i \in (Len(w) + 1)..(Len(w) + Len(q)) PROVE FALSE
        <4>1. i - Len(w) \in 1..Len(q)
          BY <1>2, <3>1
        <4> QED BY <1>2, <2>1, <3>1, <4>1 DEF Has
      <3>2. i \in 1..Len(w)
        BY <1>2, <3>1
      <3> QED BY <1>2, <2>1, <3>2, InCells
    <2>2. ASSUME NEW i \in 1..Len(w), NEW k \in 1..Amount(w[i]), w[i].type \in T, c = <<i, k>>
          PROVE  c \in Cells(x, T)
      <3>1. i \in 1..Len(x) /\ x[i] = w[i]
        BY <1>2
      <3> QED BY <2>2, <3>1, InCells
    <2> QED BY <2>1, <2>2, InCells
  <1>4. Cells(x, T) = Cells(w, T)
    BY <1>3
  <1> QED BY <1>1, <1>4, CellsFinite

LEMMA LoadTail ==
  ASSUME NEW w \in Seq(Packet), w # <<>>, NEW T
  PROVE  Load(w, 1, T) = Load(Tail(w), 1, T) + (IF w[1].type \in T THEN Amount(w[1]) ELSE 0)
  <1>1. PICK x \in Seq(Packet) : x = Tail(w)
    BY TailFacts
  <1>2. /\ Len(w) \in Nat /\ Len(w) > 0 /\ Len(x) = Len(w) - 1 /\ w[1] \in Packet
        /\ \A i \in 1..Len(x) : x[i] = w[i + 1]
        /\ \A i \in 2..Len(w) : w[i] = x[i - 1]
    BY <1>1, TailFacts
  <1>3. Amount(w[1]) \in Nat
    BY <1>2, PacketFields
  <1>4. /\ IsFiniteSet(Cells(x, T)) /\ Load(x, 1, T) = Cardinality(Cells(x, T)) /\ Load(x, 1, T) \in Nat
        /\ Load(w, 1, T) = Cardinality(Cells(w, T))
    BY CellsFinite
  <1> DEFINE R == {c \in Cells(w, T) : c[1] # 1}
             F == [c \in Cells(x, T) |-> <<c[1] + 1, c[2]>>]
  <1>5. F \in Bijection(Cells(x, T), R)
    <2>1. ASSUME NEW c \in Cells(x, T) PROVE F[c] \in R
      <3>1. PICK i \in 1..Len(x), k \in Nat : k \in 1..Amount(x[i]) /\ x[i].type \in T /\ c = <<i, k>>
        BY InCells
      <3>2. i + 1 \in 1..Len(w) /\ w[i + 1] = x[i] /\ i + 1 # 1
        BY <1>2
      <3>3. <<i + 1, k>> \in Cells(w, T)
        BY <3>1, <3>2, InCells
      <3> QED BY <3>1, <3>2, <3>3
    <2>2. ASSUME NEW c \in Cells(x, T), NEW d \in Cells(x, T), F[c] = F[d] PROVE c = d
      <3>1. PICK i \in 1..Len(x), k \in Nat : k \in 1..Amount(x[i]) /\ c = <<i, k>>
        BY InCells
      <3>2. PICK j \in 1..Len(x), l \in Nat : l \in 1..Amount(x[j]) /\ d = <<j, l>>
        BY InCells
      <3>3. F[c] = <<i + 1, k>> /\ F[d] = <<j + 1, l>>
        BY <3>1, <3>2
      <3>4. i + 1 = j + 1 /\ k = l
        BY <2>2, <3>3
      <3> QED BY <3>1, <3>2, <3>4
    <2>3. ASSUME NEW d \in R PROVE \E c \in Cells(x, T) : F[c] = d
      <3>1. PICK i \in 1..Len(w), k \in Nat : k \in 1..Amount(w[i]) /\ w[i].type \in T /\ d = <<i, k>>
        BY InCells
      <3>2. i \in 2..Len(w) /\ i - 1 \in 1..Len(x) /\ w[i] = x[i - 1]
        BY <1>2, <3>1
      <3>3. <<i - 1, k>> \in Cells(x, T)
        BY <3>1, <3>2, InCells
      <3>4. F[<<i - 1, k>>] = d
        BY <3>1, <3>2, <3>3
      <3> QED BY <3>3, <3>4
    <2>4. F \in [Cells(x, T) -> R]
      BY <2>1
    <2> HIDE DEF F, R
    <2>5. F \in Injection(Cells(x, T), R)
      BY <2>2, <2>4 DEF Injection, IsInjective
    <2>6. F \in Surjection(Cells(x, T), R)
      BY <2>3, <2>4 DEF Surjection
    <2> QED BY <2>5, <2>6 DEF Bijection
  <1>6. IsFiniteSet(R) /\ Cardinality(R) = Load(x, 1, T)
    <2>1. ExistsBijection(Cells(x, T), R)
      BY <1>5 DEF ExistsBijection
    <2> QED BY <1>4, <2>1, FS_Bijection
  <1>7. CASE w[1].type \in T
    <2> DEFINE N == {1} \X (1..Amount(w[1]))
    <2>1. Cells(w, T) = R \cup N
      <3>1. ASSUME NEW c \in Cells(w, T), c[1] = 1 PROVE c \in N
        <4>1. PICK i \in 1..Len(w), k \in Nat : k \in 1..Amount(w[i]) /\ c = <<i, k>>
          BY InCells
        <4> QED BY <3>1, <4>1
      <3>2. ASSUME NEW c \in N PROVE c \in Cells(w, T)
        <4>1. PICK k \in 1..Amount(w[1]) : c = <<1, k>>
          OBVIOUS
        <4>2. 1 \in 1..Len(w)
          BY <1>2
        <4> QED BY <1>7, <4>1, <4>2, InCells
      <3> QED BY <3>1, <3>2
    <2>2. R \cap N = {}
      OBVIOUS
    <2>3. IsFiniteSet(N) /\ Cardinality(N) = Amount(w[1])
      BY <1>3, OneCell
    <2>4. Cardinality(R \cup N) = Cardinality(R) + Cardinality(N) - Cardinality(R \cap N)
      BY <1>6, <2>3, FS_Union
    <2>5. Cardinality(R \cap N) = 0
      BY <2>2, FS_EmptySet, Zenon
    <2> HIDE DEF R, N
    <2> QED BY <1>1, <1>3, <1>4, <1>6, <1>7, <2>1, <2>3, <2>4, <2>5
  <1>8. CASE w[1].type \notin T
    <2>1. ASSUME NEW c \in Cells(w, T) PROVE c \in R
      <3>1. PICK i \in 1..Len(w), k \in Nat : k \in 1..Amount(w[i]) /\ w[i].type \in T /\ c = <<i, k>>
        BY InCells
      <3> QED BY <1>8, <3>1
    <2>2. Cells(w, T) = R
      BY <2>1
    <2> HIDE DEF R
    <2> QED BY <1>1, <1>4, <1>6, <1>8, <2>2
  <1> QED BY <1>7, <1>8

-----------------------------------------------------------------------------
(* The circular buffer.                                                    *)

LEMMA Wraps ==
  ASSUME NEW s \in Nat \ {0}, NEW a \in 0..(s - 1), NEW n \in 0..s
  PROVE  (a + n) % s = Place(s, a + n)
  <1>1. CASE a + n < s
    BY <1>1 DEF Place
  <1>2. CASE a + n >= s
    <2>1. PICK x \in 0..(s - 1) : a + n = x + s
      <3>1. a + n - s \in 0..(s - 1) /\ a + n = (a + n - s) + s
        BY <1>2
      <3> QED BY <3>1
    <2>2. (x + s) % s = x
      OBVIOUS
    <2> QED BY <1>2, <2>1, <2>2 DEF Place
  <1> QED BY <1>1, <1>2

LEMMA Modulo ==
  ASSUME NEW s \in Nat \ {0}, NEW x \in 0..s
  PROVE  (s + x) % s = x % s /\ (2 * s + x) % s = x % s
  <1>1. CASE x < s
    <2>1. x % s = x BY <1>1
    <2>2. (s + x) % s = x BY <1>1
    <2>3. (2 * s + x) % s = x BY <1>1
    <2> QED BY <2>1, <2>2, <2>3
  <1>2. CASE x = s
    <2>1. s % s = 0 OBVIOUS
    <2>2. (s + s) % s = 0 OBVIOUS
    <2>3. (2 * s + s) % s = 0 OBVIOUS
    <2> QED BY <1>2, <2>1, <2>2, <2>3
  <1> QED BY <1>1, <1>2

LEMMA BufferFacts ==
  ASSUME NEW e \in End, NEW b, IsBuffer(e, b)
  PROVE  /\ b.size \in Nat \ {0} /\ b.used \in Nat /\ b.used <= b.size
         /\ b.readpos \in Nat /\ b.writepos \in Nat /\ b.size = recv_window(e)
         /\ b.readpos < b.size /\ b.writepos < b.size
  BY Windows DEF IsBuffer

\* The three assertions of cbuf_writelen() hold.
LEMMA BufferConsistent ==
  ASSUME NEW e \in End, NEW b, IsBuffer(e, b)
  PROVE  CbufConsistent(b)
  <1>1. PICK s \in Nat \ {0}, u \in Nat, rp \in Nat, wp \in Nat :
           /\ s = b.size /\ u = b.used /\ rp = b.readpos /\ wp = b.writepos
           /\ u <= s /\ (rp + u = wp \/ rp + u = wp + s)
    BY BufferFacts DEF IsBuffer
  <1>2. PICK f \in 0..s : f = s - u
    BY <1>1
  <1>3. (s + u) % s = u % s /\ (2 * s + u) % s = u % s
    <2>1. u \in 0..s
      BY <1>1
    <2> QED BY <2>1, Modulo
  <1>4. (s + f) % s = f % s /\ (2 * s + f) % s = f % s
    BY <1>1, Modulo
  <1>5. (2 * s + wp - rp) % s = u % s /\ (2 * s + rp - wp) % s = (s - u) % s
    <2>1. CASE rp + u = wp
      <3>1. 2 * s + wp - rp = 2 * s + u /\ 2 * s + rp - wp = s + f
        BY <1>1, <1>2, <2>1
      <3> QED BY <1>2, <1>3, <1>4, <3>1
    <2>2. CASE rp + u = wp + s
      <3>1. 2 * s + wp - rp = s + u /\ 2 * s + rp - wp = 2 * s + f
        BY <1>1, <1>2, <2>2
      <3> QED BY <1>2, <1>3, <1>4, <3>1
    <2> QED BY <1>1, <2>1, <2>2
  <1> QED BY <1>1, <1>5 DEF CbufConsistent

LEMMA NewBuffer ==
  ASSUME NEW e \in End
  PROVE  IsBuffer(e, cbuf_new(recv_window(e))) /\ cbuf_new(recv_window(e)).used = 0
  BY Windows DEF cbuf_new, IsBuffer

LEMMA BufferRead ==
  ASSUME NEW e \in End, NEW b, IsBuffer(e, b), NEW k \in 0..b.used
  PROVE  LET t == cbuf_incrread(b, k)
         IN  /\ IsBuffer(e, t) /\ t.used = b.used - k
             /\ \A i \in 1..t.used : Content(t, i) = Content(b, i + k)
  <1>1. PICK t : t = cbuf_incrread(b, k)
    OBVIOUS
  <1>2. PICK s \in Nat \ {0}, u \in Nat, rp \in Nat, wp \in Nat :
           /\ s = b.size /\ u = b.used /\ rp = b.readpos /\ wp = b.writepos /\ s = recv_window(e)
           /\ u <= s /\ rp < s /\ wp < s /\ (rp + u = wp \/ rp + u = wp + s)
    BY BufferFacts DEF IsBuffer
  <1>3. /\ DOMAIN t = DOMAIN b /\ t.data = b.data /\ t.used = u - k
        /\ t.readpos = (rp + k) % s /\ t.writepos = wp /\ t.size = s
    BY <1>1, <1>2 DEF cbuf_incrread, IsBuffer
  <1>4. PICK r \in 0..(s - 1) : r = t.readpos /\ r = IF rp + k < s THEN rp + k ELSE rp + k - s
    <2>1. rp \in 0..(s - 1) /\ k \in 0..s
      BY <1>2
    <2>2. t.readpos = Place(s, rp + k)
      BY <1>3, <2>1, Wraps
    <2> QED BY <2>1, <2>2 DEF Place
  <1>5. IsBuffer(e, t)
    <2>1. r + (u - k) = wp \/ r + (u - k) = wp + s
      BY <1>2, <1>4
    <2>2. u - k \in 0..s /\ wp \in 0..(s - 1)
      BY <1>2
    <2> QED BY <1>2, <1>3, <1>4, <2>1, <2>2 DEF IsBuffer
  <1>6. ASSUME NEW i \in 1..t.used PROVE Content(t, i) = Content(b, i + k)
    <2>1. i \in Nat /\ i <= u - k /\ i >= 1
      BY <1>2, <1>3
    <2>2. (IF r + i - 1 < s THEN r + i - 1 ELSE r + i - 1 - s)
            = (IF rp + (i + k) - 1 < s THEN rp + (i + k) - 1 ELSE rp + (i + k) - 1 - s)
      BY <1>2, <1>4, <2>1
    <2> QED BY <1>2, <1>3, <1>4, <2>2 DEF Content, Place
  <1> QED BY <1>1, <1>2, <1>3, <1>5, <1>6

\* The positions of a run of n blocks, in a ring of s with u in use.
Ring(s, u, rp, wp) == u <= s /\ rp < s /\ wp < s /\ (rp + u = wp \/ rp + u = wp + s)
RunLen(s, u, rp, wp) == IF u = s THEN 0 ELSE IF wp < rp THEN rp - wp ELSE s - wp

RunOK(s, u, rp, wp, n) ==
    /\ u + n \in 0..s /\ rp \in 0..(s - 1) /\ wp \in 0..(s - 1) /\ n \in 0..s
    /\ Place(s, wp + n) \in 0..(s - 1)
    /\ rp + (u + n) = Place(s, wp + n) \/ rp + (u + n) = Place(s, wp + n) + s
    /\ \A i \in 1..u : /\ Place(s, rp + i - 1) \in 0..(s - 1)
                       /\ Place(s, rp + i - 1) \notin wp..(wp + n - 1)
    /\ \A i \in 1..n : /\ Place(s, rp + (u + i) - 1) \in 0..(s - 1)
                       /\ Place(s, rp + (u + i) - 1) \in wp..(wp + n - 1)
                       /\ Place(s, rp + (u + i) - 1) - wp + 1 = i
    /\ \A i \in wp..(wp + n - 1) : i - wp + 1 \in 1..n

LEMMA RunPositions ==
  ASSUME NEW s \in Nat \ {0}, NEW u \in Nat, NEW rp \in Nat, NEW wp \in Nat, NEW n \in Nat,
         Ring(s, u, rp, wp), n <= RunLen(s, u, rp, wp)
  PROVE  RunOK(s, u, rp, wp, n)
  <1>1. /\ u + n <= s /\ n <= s
        /\ (rp + u = wp /\ wp + n <= s) \/ (rp + u = wp + s /\ wp + n <= rp)
    BY DEF Ring, RunLen
  <1>2. Place(s, wp + n) = IF wp + n < s THEN wp + n ELSE wp + n - s
    BY DEF Place
  <1>3. /\ u + n \in 0..s /\ rp \in 0..(s - 1) /\ wp \in 0..(s - 1) /\ n \in 0..s
        /\ Place(s, wp + n) \in 0..(s - 1)
    BY <1>1, <1>2 DEF Ring
  <1>4. rp + (u + n) = Place(s, wp + n) \/ rp + (u + n) = Place(s, wp + n) + s
    BY <1>1, <1>2 DEF Ring
  <1>5. ASSUME NEW i \in 1..u
        PROVE  /\ Place(s, rp + i - 1) \in 0..(s - 1)
               /\ Place(s, rp + i - 1) \notin wp..(wp + n - 1)
    BY <1>1 DEF Place, Ring
  <1>6. ASSUME NEW i \in 1..n
        PROVE  /\ Place(s, rp + (u + i) - 1) \in 0..(s - 1)
               /\ Place(s, rp + (u + i) - 1) \in wp..(wp + n - 1)
               /\ Place(s, rp + (u + i) - 1) - wp + 1 = i
    BY <1>1 DEF Place, Ring
  <1> QED BY <1>3, <1>4, <1>5, <1>6 DEF RunOK

\* What does not fit into the first run fits into the second.
LEMMA SecondRun ==
  ASSUME NEW s \in Nat \ {0}, NEW u \in Nat, NEW rp \in Nat, NEW wp \in Nat, NEW l \in Nat, NEW n \in Nat,
         Ring(s, u, rp, wp), l <= s - u, n <= l, n <= RunLen(s, u, rp, wp),
         n = l \/ n = RunLen(s, u, rp, wp)
  PROVE  l - n <= RunLen(s, u + n, rp, Place(s, wp + n))
  BY DEF Ring, RunLen, Place

PointersOK(s, u, rp, n, m) ==
    /\ \A i \in 1..n : rp + i - 1 \in 0..(s - 1) /\ Place(s, rp + i - 1) = rp + i - 1
    /\ \A i \in 1..m : i - 1 \in 0..(s - 1)
    /\ \A i \in 1..u : i > n => /\ i \in (n + 1)..(n + m) /\ i - n \in 1..m
                                /\ Place(s, rp + i - 1) = (i - n) - 1

LEMMA PointerPositions ==
  ASSUME NEW s \in Nat \ {0}, NEW u \in Nat, NEW rp \in Nat, NEW n \in Nat, NEW m \in Nat,
         u <= s, rp < s, n <= u, n <= s - rp, n < u => n = s - rp, m = u - n
  PROVE  PointersOK(s, u, rp, n, m)
  BY DEF Place, PointersOK

\* What fits into one run, and into the buffer.
FitsRun(b, x) == Len(x) <= cbuf_writelen(b)
Fits(b, x) == Len(x) <= cbuf_getavail(b)

LEMMA BufferRun ==
  ASSUME NEW e \in End, NEW b, IsBuffer(e, b), NEW x \in Seq(Nat), FitsRun(b, x)
  PROVE  LET t == cbuf_incrwrite(b, x)
         IN  /\ IsBuffer(e, t) /\ t.used = b.used + Len(x) /\ t.readpos = b.readpos
             /\ t.writepos = Place(b.size, b.writepos + Len(x))
             /\ \A i \in 1..b.used : Content(t, i) = Content(b, i)
             /\ \A i \in 1..Len(x) : Content(t, b.used + i) = x[i]
  <1>1. PICK t : t = cbuf_incrwrite(b, x)
    OBVIOUS
  <1>2. PICK s \in Nat \ {0}, u \in Nat, rp \in Nat, wp \in Nat :
           /\ s = b.size /\ u = b.used /\ rp = b.readpos /\ wp = b.writepos /\ s = recv_window(e)
           /\ Ring(s, u, rp, wp)
    BY BufferFacts DEF IsBuffer, Ring
  <1>3. PICK n \in Nat : n = Len(x) /\ n <= RunLen(s, u, rp, wp)
    BY <1>2 DEF FitsRun, cbuf_writelen, RunLen
  <1>4. RunOK(s, u, rp, wp, n)
    BY <1>2, <1>3, RunPositions
  <1>5. /\ DOMAIN t = DOMAIN b /\ t.used = u + n /\ t.readpos = rp
        /\ t.writepos = (wp + n) % s /\ t.size = s
        /\ t.data = [i \in DOMAIN b.data |-> IF i \in wp..(wp + n - 1)
                                             THEN x[i - wp + 1] ELSE b.data[i]]
    BY <1>1, <1>2, <1>3 DEF cbuf_incrwrite, IsBuffer
  <1>6. t.writepos = Place(s, wp + n)
    <2>1. wp \in 0..(s - 1) /\ n \in 0..s
      BY <1>4 DEF RunOK
    <2> QED BY <1>5, <2>1, Wraps
  <1>7. /\ b.data \in [0..(s - 1) -> Nat] /\ DOMAIN b.data = 0..(s - 1)
        /\ DOMAIN b = {"data", "used", "readpos", "writepos", "size"}
    BY <1>2 DEF IsBuffer
  <1>8. t.data \in [0..(s - 1) -> Nat]
    <2>1. ASSUME NEW i \in wp..(wp + n - 1) PROVE x[i - wp + 1] \in Nat
      <3>1. i - wp + 1 \in 1..Len(x)
        BY <1>3, <1>4 DEF RunOK
      <3> QED BY <3>1
    <2> QED BY <1>5, <1>7, <2>1
  <1>9. \A i \in 0..(s - 1) : t.data[i] = IF i \in wp..(wp + n - 1) THEN x[i - wp + 1] ELSE b.data[i]
    BY <1>5, <1>7
  <1>10. IsBuffer(e, t)
    <2>1. /\ t.used \in 0..s /\ t.readpos \in 0..(s - 1) /\ t.writepos \in 0..(s - 1)
          /\ t.readpos + t.used = t.writepos \/ t.readpos + t.used = t.writepos + s
      BY <1>4, <1>5, <1>6 DEF RunOK
    <2> QED BY <1>2, <1>5, <1>7, <1>8, <2>1 DEF IsBuffer
  <1>11. ASSUME NEW i \in 1..u PROVE Content(t, i) = Content(b, i)
    <2>1. PICK k : k = Place(s, rp + i - 1)
      OBVIOUS
    <2>2. k \in 0..(s - 1) /\ k \notin wp..(wp + n - 1)
      BY <1>4, <2>1 DEF RunOK
    <2>3. Content(t, i) = t.data[k] /\ Content(b, i) = b.data[k]
      BY <1>2, <1>5, <2>1 DEF Content
    <2> QED BY <1>9, <2>2, <2>3
  <1>12. ASSUME NEW i \in 1..n PROVE Content(t, u + i) = x[i]
    <2>1. PICK k : k = Place(s, rp + (u + i) - 1)
      OBVIOUS
    <2>2. k \in 0..(s - 1) /\ k \in wp..(wp + n - 1) /\ k - wp + 1 = i
      BY <1>4, <2>1 DEF RunOK
    <2>4. Content(t, u + i) = t.data[k]
      BY <1>2, <1>5, <2>1 DEF Content
    <2> QED BY <1>9, <2>2, <2>4
  <1> QED BY <1>1, <1>2, <1>3, <1>5, <1>6, <1>10, <1>11, <1>12

LEMMA Pieces ==
  ASSUME NEW s \in Seq(Nat), NEW m \in Nat, NEW n \in Nat, m <= n, n <= Len(s)
  PROVE  /\ SubSeq(s, m + 1, n) \in Seq(Nat) /\ Len(SubSeq(s, m + 1, n)) = n - m
         /\ \A i \in 1..(n - m) : SubSeq(s, m + 1, n)[i] = s[m + i]
  <1>1. ASSUME NEW i \in (m + 1)..n PROVE s[i] \in Nat
    <2>1. i \in 1..Len(s)
      OBVIOUS
    <2> QED BY <2>1
  <1>2. PICK a \in Int : a = m + 1
    OBVIOUS
  <1>3. /\ SubSeq(s, a, n) \in Seq(Nat) /\ Len(SubSeq(s, a, n)) = IF a <= n THEN n - a + 1 ELSE 0
        /\ \A i \in 1..(n - a + 1) : SubSeq(s, a, n)[i] = s[a + i - 1]
    BY <1>1, <1>2, SubSeqProperties
  <1>4. n - a + 1 = n - m /\ (~(a <= n) => n - m = 0) /\ \A i \in 1..(n - m) : a + i - 1 = m + i
    BY <1>2
  <1> QED BY <1>2, <1>3, <1>4

\* A write of at most what is free, in one run or two.
LEMMA BufferWrite ==
  ASSUME NEW e \in End, NEW b, IsBuffer(e, b), NEW z \in Seq(Nat), Fits(b, z)
  PROVE  LET t == cbuf_write(b, z)
         IN  /\ IsBuffer(e, t) /\ t.used = b.used + Len(z)
             /\ \A i \in 1..b.used : Content(t, i) = Content(b, i)
             /\ \A i \in 1..Len(z) : Content(t, b.used + i) = z[i]
  <1>1. PICK s \in Nat \ {0}, u \in Nat, rp \in Nat, wp \in Nat :
           /\ s = b.size /\ u = b.used /\ rp = b.readpos /\ wp = b.writepos
           /\ Ring(s, u, rp, wp)
    BY BufferFacts DEF IsBuffer, Ring
  <1>2. PICK l \in Nat : l = Len(z) /\ l <= s - u
    BY <1>1 DEF Fits, cbuf_getavail
  <1>3. PICK r \in Nat : r = cbuf_writelen(b) /\ r = RunLen(s, u, rp, wp)
    BY <1>1 DEF cbuf_writelen, RunLen, Ring
  <1>4. PICK n \in Nat : n = Lesser(r, l) /\ n <= l /\ n <= r /\ (n = l \/ n = r)
    BY DEF Lesser
  <1>5. PICK x \in Seq(Nat) : x = SubSeq(z, 1, n) /\ Len(x) = n /\ \A i \in 1..n : x[i] = z[i]
    <2>1. 0 \in Nat /\ 0 <= n /\ n <= Len(z) /\ 0 + 1 = 1 /\ n - 0 = n /\ \A i \in 1..n : 0 + i = i
      BY <1>2, <1>4
    <2>2. /\ SubSeq(z, 0 + 1, n) \in Seq(Nat) /\ Len(SubSeq(z, 0 + 1, n)) = n - 0
          /\ \A i \in 1..(n - 0) : SubSeq(z, 0 + 1, n)[i] = z[0 + i]
      BY <2>1, Pieces
    <2> QED BY <2>1, <2>2
  <1>6. PICK y \in Seq(Nat) : /\ y = SubSeq(z, n + 1, l) /\ Len(y) = l - n
                              /\ \A i \in 1..(l - n) : y[i] = z[n + i]
    <2>1. n <= l /\ l <= Len(z)
      BY <1>2, <1>4
    <2>2. /\ SubSeq(z, n + 1, l) \in Seq(Nat) /\ Len(SubSeq(z, n + 1, l)) = l - n
          /\ \A i \in 1..(l - n) : SubSeq(z, n + 1, l)[i] = z[n + i]
      BY <2>1, Pieces
    <2> QED BY <2>2
  <1>7. PICK c : c = cbuf_incrwrite(b, x)
    OBVIOUS
  <1>8. PICK t : t = cbuf_incrwrite(c, y)
    OBVIOUS
  <1>9. FitsRun(b, x)
    BY <1>3, <1>4, <1>5 DEF FitsRun
  <1>10. /\ IsBuffer(e, c) /\ c.used = u + n /\ c.readpos = rp
         /\ c.writepos = Place(s, wp + n)
         /\ \A i \in 1..u : Content(c, i) = Content(b, i)
         /\ \A i \in 1..n : Content(c, u + i) = x[i]
    <2>1. /\ IsBuffer(e, c) /\ c.used = b.used + Len(x) /\ c.readpos = b.readpos
          /\ c.writepos = Place(b.size, b.writepos + Len(x))
          /\ \A i \in 1..b.used : Content(c, i) = Content(b, i)
          /\ \A i \in 1..Len(x) : Content(c, b.used + i) = x[i]
      BY <1>7, <1>9, BufferRun
    <2> QED BY <1>1, <1>5, <2>1
  <1>11. c.size = s
    BY <1>1, <1>10, BufferFacts
  <1>12. FitsRun(c, y)
    <2>1. cbuf_writelen(c) = RunLen(s, u + n, rp, Place(s, wp + n))
      BY <1>10, <1>11 DEF cbuf_writelen, RunLen
    <2>2. l - n <= RunLen(s, u + n, rp, Place(s, wp + n))
      BY <1>1, <1>2, <1>3, <1>4, SecondRun
    <2> QED BY <1>6, <2>1, <2>2 DEF FitsRun
  <1>13. /\ IsBuffer(e, t) /\ t.used = (u + n) + (l - n)
         /\ \A i \in 1..(u + n) : Content(t, i) = Content(c, i)
         /\ \A i \in 1..(l - n) : Content(t, (u + n) + i) = y[i]
    <2>1. /\ IsBuffer(e, t) /\ t.used = c.used + Len(y)
          /\ \A i \in 1..c.used : Content(t, i) = Content(c, i)
          /\ \A i \in 1..Len(y) : Content(t, c.used + i) = y[i]
      BY <1>8, <1>10, <1>12, BufferRun
    <2> QED BY <1>6, <1>10, <2>1
  <1>14. t = cbuf_write(b, z)
    BY <1>2, <1>3, <1>4, <1>5, <1>6, <1>7, <1>8 DEF cbuf_write
  <1>15. t.used = u + l
    BY <1>4, <1>13
  <1>16. ASSUME NEW i \in 1..u PROVE Content(t, i) = Content(b, i)
    <2>1. i \in 1..(u + n)
      OBVIOUS
    <2> QED BY <1>10, <1>13, <2>1
  <1>17. ASSUME NEW i \in 1..l PROVE Content(t, u + i) = z[i]
    <2>1. CASE i <= n
      <3>1. i \in 1..n /\ u + i \in 1..(u + n)
        BY <2>1
      <3> QED BY <1>5, <1>10, <1>13, <3>1
    <2>2. CASE i > n
      <3>1. i - n \in 1..(l - n) /\ (u + n) + (i - n) = u + i /\ n + (i - n) = i
        BY <2>2
      <3> QED BY <1>6, <1>13, <3>1
    <2> QED BY <2>1, <2>2
  <1> QED BY <1>1, <1>2, <1>13, <1>14, <1>15, <1>16, <1>17

LEMMA BufferPointers ==
  ASSUME NEW e \in End, NEW b, IsBuffer(e, b)
  PROVE  /\ cbuf_readptrs(b) \in Seq(Nat) /\ Len(cbuf_readptrs(b)) = b.used
         /\ \A i \in 1..b.used : cbuf_readptrs(b)[i] = Content(b, i)
  <1>1. PICK s \in Nat \ {0}, u \in Nat, rp \in Nat :
           /\ s = b.size /\ u = b.used /\ rp = b.readpos
           /\ u <= s /\ rp < s /\ b.data \in [0..(s - 1) -> Nat]
    BY BufferFacts DEF IsBuffer
  <1>2. PICK n \in Nat : n = Lesser(u, s - rp) /\ n <= u /\ n <= s - rp /\ (n < u => n = s - rp)
    BY <1>1 DEF Lesser
  <1>3. PICK m \in Nat : m = u - n
    BY <1>2
  <1>4. PointersOK(s, u, rp, n, m)
    BY <1>1, <1>2, <1>3, PointerPositions
  <1>5. PICK x : x = [i \in 1..n |-> b.data[rp + i - 1]]
    OBVIOUS
  <1>6. PICK y : y = [i \in 1..m |-> b.data[i - 1]]
    OBVIOUS
  <1>7. x \in Seq(Nat) /\ Len(x) = n /\ \A i \in 1..n : x[i] = b.data[rp + i - 1]
    BY <1>1, <1>4, <1>5 DEF PointersOK
  <1>8. y \in Seq(Nat) /\ Len(y) = m /\ \A i \in 1..m : y[i] = b.data[i - 1]
    <2>1. \A i \in 1..m : b.data[i - 1] \in Nat
      BY <1>1, <1>4 DEF PointersOK
    <2> HIDE <1>1
    <2> QED BY <1>6, <2>1
  <1>9. cbuf_readptrs(b) = x \o y
    BY <1>1, <1>2, <1>3, <1>5, <1>6 DEF cbuf_readptrs
  <1>10. PICK z \in Seq(Nat) : z = x \o y
    BY <1>7, <1>8, ConcatFacts
  <1>11. /\ Len(z) = n + m /\ (\A i \in 1..n : z[i] = x[i])
         /\ \A i \in (n + 1)..(n + m) : z[i] = y[i - n]
    <2>1. x \in Seq(Nat) /\ y \in Seq(Nat)
      BY <1>7, <1>8
    <2>2. /\ Len(z) = Len(x) + Len(y) /\ (\A i \in 1..Len(x) : z[i] = x[i])
          /\ \A i \in (Len(x) + 1)..(Len(x) + Len(y)) : z[i] = y[i - Len(x)]
      BY <1>10, <2>1, ConcatFacts
    <2>3. Len(x) = n /\ Len(y) = m
      BY <1>7, <1>8
    <2> QED BY <2>2, <2>3
  <1>12. ASSUME NEW i \in 1..u PROVE z[i] = Content(b, i)
    <2>0. Content(b, i) = b.data[Place(s, rp + i - 1)]
      BY <1>1 DEF Content
    <2>1. CASE i <= n
      <3>1. i \in 1..n
        BY <2>1
      <3> QED BY <1>4, <1>7, <1>11, <2>0, <3>1 DEF PointersOK
    <2>2. CASE i > n
      <3>1. i \in (n + 1)..(n + m) /\ i - n \in 1..m /\ Place(s, rp + i - 1) = (i - n) - 1
        BY <1>4, <2>2 DEF PointersOK
      <3> QED BY <1>8, <1>11, <2>0, <3>1
    <2> QED BY <2>1, <2>2
  <1>13. n + m = u
    BY <1>2, <1>3
  <1> QED BY <1>1, <1>9, <1>10, <1>11, <1>12, <1>13

-----------------------------------------------------------------------------
(* struct Channel: the types of the fields one by one, for steps that      *)
(* change a few.                                                           *)

HasType(e, f, v) ==
    /\ f \in Flags => v \in BOOLEAN
    /\ f \in Fds => v \in Int
    /\ f \in Counters => v \in Nat
    /\ f \in {"writebuf", "extrabuf"} => IsBuffer(e, v)
    /\ f = "out" => v \in Seq(Packet)
    /\ f = "put" => v \in Seq(Nat)

LEMMA ChannelTypes ==
  ASSUME NEW e, NEW c
  PROVE  IsChannel(e, c) <=> DOMAIN c = Fields /\ \A f \in Fields : HasType(e, f, c[f])
  BY DEF IsChannel, HasType, Fields, Flags, Fds, Counters

LEMMA SameType ==
  ASSUME NEW e, NEW c, NEW t, NEW F, IsChannel(e, c), Same(c, t, F),
         \A f \in F \cap Fields : HasType(e, f, t[f])
  PROVE  IsChannel(e, t)
  <1>1. \A f \in Fields : HasType(e, f, c[f])
    BY ChannelTypes
  <1>2. \A f \in Fields : HasType(e, f, t[f])
    BY <1>1 DEF Same
  <1> QED BY <1>2, ChannelTypes DEF Same

\* The fields of a channel, with their types.
LEMMA ChannelFields ==
  ASSUME NEW e, NEW c, IsChannel(e, c)
  PROVE  /\ DOMAIN c = Fields
         /\ c.present \in BOOLEAN /\ c.sent_eof \in BOOLEAN /\ c.recv_eof \in BOOLEAN
         /\ c.sent_close \in BOOLEAN /\ c.recv_close \in BOOLEAN /\ c.errIsWrite \in BOOLEAN
         /\ c.flushing \in BOOLEAN /\ c.pid \in BOOLEAN /\ c.exitpid \in BOOLEAN
         /\ c.await_open \in BOOLEAN /\ c.died \in BOOLEAN
         /\ c.readfd \in Int /\ c.writefd \in Int /\ c.errfd \in Int
         /\ c.transwindow \in Nat /\ c.recvwindow \in Nat /\ c.recvdonelen \in Nat
         /\ IsBuffer(e, c.writebuf) /\ IsBuffer(e, c.extrabuf)
         /\ c.out \in Seq(Packet) /\ c.put \in Seq(Nat)
  BY DEF IsChannel, Flags, Fds, Counters

LEMMA BufferUsed ==
  ASSUME NEW e \in End, NEW c, IsChannel(e, c)
  PROVE  c.writebuf.used \in Nat /\ c.extrabuf.used \in Nat
  BY BufferFacts DEF IsChannel

LEMMA CloseFd ==
  ASSUME NEW e, NEW c, IsChannel(e, c), NEW fd \in Int
  PROVE  LET t == close_chan_fd(c, fd)
         IN  /\ IsChannel(e, t) /\ Same(c, t, Fds)
             /\ t.readfd = IF c.readfd = fd THEN FD_CLOSED ELSE c.readfd
             /\ t.writefd = IF c.writefd = fd THEN FD_CLOSED ELSE c.writefd
             /\ t.errfd = IF c.errfd = fd THEN FD_CLOSED ELSE c.errfd
  <1>1. PICK t : t = close_chan_fd(c, fd)
    OBVIOUS
  <1>2. DOMAIN c = Fields /\ c.readfd \in Int /\ c.writefd \in Int /\ c.errfd \in Int /\ FD_CLOSED \in Int
    BY ChannelFields DEF FD_CLOSED
  <1>3. /\ Same(c, t, Fds)
        /\ t.readfd = IF c.readfd = fd THEN FD_CLOSED ELSE c.readfd
        /\ t.writefd = IF c.writefd = fd THEN FD_CLOSED ELSE c.writefd
        /\ t.errfd = IF c.errfd = fd THEN FD_CLOSED ELSE c.errfd
    BY <1>1, <1>2 DEF close_chan_fd, Same, Fields, Fds, Flags, Counters
  <1>4. \A f \in Fds : HasType(e, f, t[f])
    BY <1>2, <1>3 DEF HasType, Fds, Flags, Counters
  <1>5. IsChannel(e, t)
    BY <1>3, <1>4, SameType
  <1> QED BY <1>1, <1>3, <1>5

LEMMA SendPacket ==
  ASSUME NEW e, NEW c, IsChannel(e, c), NEW type, NEW body, [type |-> type, body |-> body] \in Packet
  PROVE  LET t == Send(c, type, body)
         IN  /\ IsChannel(e, t) /\ Same(c, t, {"out"})
             /\ t.out = c.out \o <<[type |-> type, body |-> body]>>
  <1>1. PICK t : t = Send(c, type, body)
    OBVIOUS
  <1>2. PICK p \in Packet : p = [type |-> type, body |-> body]
    OBVIOUS
  <1>3. DOMAIN c = Fields /\ c.out \in Seq(Packet)
    BY ChannelFields
  <1>4. Same(c, t, {"out"}) /\ t.out = Append(c.out, p)
    BY <1>1, <1>2, <1>3 DEF Send, Same, Fields, Fds, Flags, Counters
  <1>5. t.out = c.out \o <<p>> /\ t.out \in Seq(Packet)
    BY <1>3, <1>4
  <1>6. HasType(e, "out", t.out)
    BY <1>5 DEF HasType, Fds, Flags, Counters
  <1>7. \A f \in {"out"} : HasType(e, f, t[f])
    BY <1>6
  <1>8. IsChannel(e, t)
    BY <1>4, <1>7, SameType
  <1> QED BY <1>1, <1>2, <1>4, <1>5, <1>8

(* The packets that end a channel.                                         *)
EofPacket == [type |-> "EOF", body |-> 0]
StatusPacket == [type |-> "EXIT_STATUS", body |-> 0]
ClosePacket == [type |-> "CLOSE", body |-> 0]
Farewell == {"EOF", "EXIT_STATUS", "CLOSE"}

LEMMA FarewellPackets ==
  /\ EofPacket \in Packet /\ StatusPacket \in Packet /\ ClosePacket \in Packet
  /\ EofPacket.type = "EOF" /\ StatusPacket.type = "EXIT_STATUS" /\ ClosePacket.type = "CLOSE"
  BY APacket DEF EofPacket, StatusPacket, ClosePacket, Control

LEMMA OnePacket ==
  ASSUME NEW p \in Packet
  PROVE  /\ <<p>> \in Seq(Packet) /\ Len(<<p>>) = 1 /\ <<p>>[1] = p /\ Ordered(<<p>>)
         /\ \A T : Has(<<p>>, T) <=> p.type \in T
  <1>1. <<p>> \in Seq(Packet) /\ Len(<<p>>) = 1 /\ <<p>>[1] = p
    OBVIOUS
  <1>2. PICK x : x = <<p>>
    OBVIOUS
  <1>3. 1..Len(x) = {1} /\ x[1] = p
    BY <1>1, <1>2
  <1>4. Ordered(x) /\ \A T : Has(x, T) <=> p.type \in T
    BY <1>3 DEF Ordered, Has
  <1> QED BY <1>1, <1>2, <1>4

LEMMA NoPacket == /\ <<>> \in Seq(Packet) /\ Ordered(<<>>) /\ \A T : ~Has(<<>>, T)
  BY DEF Ordered, Has

\* send_msg_channel_close(): the status of a command that exited goes first.
CloseSent(e, c, t) ==
    /\ IsChannel(e, t) /\ Same(c, t, Fds \cup {"out", "sent_eof", "sent_close"})
    /\ t.readfd = FD_CLOSED /\ t.writefd = FD_CLOSED /\ t.errfd = FD_CLOSED
    /\ t.sent_eof /\ t.sent_close
    /\ \E q \in Seq(Packet) :
          /\ t.out = c.out \o q /\ Ordered(q) /\ q # <<>>
          /\ \A i \in 1..Len(q) : q[i].type \in {"EXIT_STATUS", "CLOSE"}
          /\ Has(q, {"CLOSE"}) /\ (Has(q, {"EXIT_STATUS"}) <=> e = "server" /\ c.exitpid)

LEMMA SendClose ==
  ASSUME NEW e, NEW c, IsChannel(e, c)
  PROVE  CloseSent(e, c, send_msg_channel_close(e, c))
  <1>0. DOMAIN c = Fields /\ c.out \in Seq(Packet) /\ c.exitpid \in BOOLEAN
    BY ChannelFields
  <1>1. PICK a : a = IF e = "server" /\ c.exitpid THEN Send(c, "EXIT_STATUS", 0) ELSE c
    OBVIOUS
  <1>2. PICK x \in Seq(Packet) : x = IF e = "server" /\ c.exitpid THEN <<StatusPacket>> ELSE <<>>
    <2>1. <<StatusPacket>> \in Seq(Packet) /\ <<>> \in Seq(Packet)
      BY FarewellPackets, OnePacket, NoPacket
    <2> QED BY <2>1
  <1>3. /\ Ordered(x) /\ ~Has(x, {"CLOSE"}) /\ ~Has(x, {"EOF"})
        /\ Has(x, {"EXIT_STATUS"}) <=> e = "server" /\ c.exitpid
        /\ \A i \in 1..Len(x) : x[i].type = "EXIT_STATUS"
    BY <1>2, FarewellPackets, OnePacket, NoPacket
  <1>4. IsChannel(e, a) /\ Same(c, a, {"out"}) /\ a.out = c.out \o x
    <2>1. CASE e = "server" /\ c.exitpid
      <3>1. [type |-> "EXIT_STATUS", body |-> 0] \in Packet
        BY FarewellPackets DEF StatusPacket
      <3> QED BY <1>1, <1>2, <2>1, <3>1, SendPacket DEF StatusPacket
    <2>2. CASE ~(e = "server" /\ c.exitpid)
      <3>1. c.out \o <<>> = c.out
        BY <1>0, ConcatEmptySeq
      <3> QED BY <1>0, <1>1, <1>2, <2>2, <3>1 DEF Same
    <2> QED BY <2>1, <2>2
  <1>5. PICK s : s = Send(a, "CLOSE", 0)
    OBVIOUS
  <1>6. IsChannel(e, s) /\ Same(a, s, {"out"}) /\ s.out = a.out \o <<ClosePacket>>
    <2>1. [type |-> "CLOSE", body |-> 0] \in Packet
      BY FarewellPackets DEF ClosePacket
    <2> QED BY <1>4, <1>5, <2>1, SendPacket DEF ClosePacket
  <1>7. PICK b : b = [s EXCEPT !.sent_eof = TRUE, !.sent_close = TRUE]
    OBVIOUS
  <1>8. Same(s, b, {"sent_eof", "sent_close"}) /\ b.sent_eof = TRUE /\ b.sent_close = TRUE /\ b.out = s.out
    <2>1. DOMAIN s = Fields
      BY <1>6, ChannelFields
    <2> QED BY <1>7, <2>1 DEF Same, Fields, Fds, Flags, Counters
  <1>9. IsChannel(e, b)
    <2>1. \A f \in {"sent_eof", "sent_close"} : HasType(e, f, b[f])
      BY <1>8 DEF HasType, Fds, Flags, Counters
    <2> QED BY <1>6, <1>8, <2>1, SameType
  <1>10. b.readfd \in Int /\ b.writefd \in Int /\ b.errfd \in Int
    BY <1>9, ChannelFields
  <1>11. PICK u : u = close_chan_fd(b, b.readfd)
    OBVIOUS
  <1>12. PICK v : v = close_chan_fd(u, b.errfd)
    OBVIOUS
  <1>13. PICK t : t = close_chan_fd(v, b.writefd)
    OBVIOUS
  <1>14. /\ IsChannel(e, u) /\ Same(b, u, Fds) /\ u.readfd = FD_CLOSED
         /\ (u.writefd = b.writefd \/ u.writefd = FD_CLOSED) /\ (u.errfd = b.errfd \/ u.errfd = FD_CLOSED)
    BY <1>9, <1>10, <1>11, CloseFd
  <1>15. /\ IsChannel(e, v) /\ Same(u, v, Fds) /\ v.readfd = FD_CLOSED /\ v.errfd = FD_CLOSED
         /\ (v.writefd = b.writefd \/ v.writefd = FD_CLOSED)
    BY <1>10, <1>12, <1>14, CloseFd
  <1>16. /\ IsChannel(e, t) /\ Same(v, t, Fds) /\ t.readfd = FD_CLOSED /\ t.errfd = FD_CLOSED
         /\ t.writefd = FD_CLOSED
    <2>1. /\ IsChannel(e, t) /\ Same(v, t, Fds)
          /\ t.readfd = IF v.readfd = b.writefd THEN FD_CLOSED ELSE v.readfd
          /\ t.writefd = IF v.writefd = b.writefd THEN FD_CLOSED ELSE v.writefd
          /\ t.errfd = IF v.errfd = b.writefd THEN FD_CLOSED ELSE v.errfd
      BY <1>10, <1>13, <1>15, CloseFd
    <2> QED BY <1>15, <2>1
  <1>17. t = send_msg_channel_close(e, c)
    BY <1>1, <1>5, <1>7, <1>11, <1>12, <1>13 DEF send_msg_channel_close
  <1>18. /\ Same(c, t, Fds \cup {"out", "sent_eof", "sent_close"})
         /\ t.sent_eof = b.sent_eof /\ t.sent_close = b.sent_close /\ t.out = b.out
    BY <1>4, <1>6, <1>8, <1>14, <1>15, <1>16 DEF Same, Fields, Fds, Flags, Counters
  <1>19. PICK q \in Seq(Packet) : q = x \o <<ClosePacket>>
    BY FarewellPackets, OnePacket, ConcatFacts
  <1>20. t.out = c.out \o q
    <2>1. (c.out \o x) \o <<ClosePacket>> = c.out \o (x \o <<ClosePacket>>)
      <3>1. <<ClosePacket>> \in Seq(Packet)
        BY FarewellPackets, OnePacket
      <3> QED BY <1>0, <3>1, ConcatTwice
    <2> QED BY <1>4, <1>6, <1>8, <1>18, <1>19, <2>1
  <1>21. Ordered(q)
    <2>1. Ordered(<<ClosePacket>>) /\ <<ClosePacket>> \in Seq(Packet)
      BY FarewellPackets, OnePacket
    <2> QED BY <1>3, <1>19, <2>1, OrderedConcat
  <1>22. /\ Has(q, {"CLOSE"}) /\ (Has(q, {"EXIT_STATUS"}) <=> e = "server" /\ c.exitpid)
         /\ \A i \in 1..Len(q) : q[i].type \in {"EXIT_STATUS", "CLOSE"}
    <2>1. /\ <<ClosePacket>> \in Seq(Packet) /\ Has(<<ClosePacket>>, {"CLOSE"})
          /\ ~Has(<<ClosePacket>>, {"EXIT_STATUS"}) /\ Len(<<ClosePacket>>) = 1
          /\ <<ClosePacket>>[1].type = "CLOSE"
      BY FarewellPackets, OnePacket
    <2>2. /\ Has(q, {"CLOSE"}) <=> Has(x, {"CLOSE"}) \/ Has(<<ClosePacket>>, {"CLOSE"})
          /\ Has(q, {"EXIT_STATUS"}) <=> Has(x, {"EXIT_STATUS"}) \/ Has(<<ClosePacket>>, {"EXIT_STATUS"})
      BY <1>19, <2>1, HasConcat
    <2>3. /\ Len(q) = Len(x) + 1 /\ Len(x) \in Nat /\ (\A i \in 1..Len(x) : q[i] = x[i])
          /\ q[Len(x) + 1].type = "CLOSE"
      BY <1>19, <2>1, ConcatFacts
    <2>4. \A i \in 1..Len(q) : q[i].type \in {"EXIT_STATUS", "CLOSE"}
      BY <1>3, <2>3
    <2> QED BY <1>3, <2>1, <2>2, <2>4
  <1>23. q # <<>>
    BY <1>22, NoPacket
  <1> QED BY <1>8, <1>16, <1>17, <1>18, <1>20, <1>21, <1>22, <1>23 DEF CloseSent

-----------------------------------------------------------------------------
(* check_close().                                                          *)

ClosingFields == Fds \cup {"out", "sent_eof", "sent_close", "flushing"}

LEMMA SameClosing ==
  ASSUME NEW c, NEW t, NEW F, Same(c, t, F), F \subseteq ClosingFields
  PROVE  /\ t.present = c.present /\ t.recv_eof = c.recv_eof /\ t.recv_close = c.recv_close
         /\ t.errIsWrite = c.errIsWrite /\ t.pid = c.pid /\ t.exitpid = c.exitpid
         /\ t.await_open = c.await_open /\ t.died = c.died
         /\ t.transwindow = c.transwindow /\ t.recvwindow = c.recvwindow
         /\ t.recvdonelen = c.recvdonelen /\ t.writebuf = c.writebuf /\ t.extrabuf = c.extrabuf
         /\ t.put = c.put /\ Same(c, t, ClosingFields)
         /\ "sent_eof" \notin F => t.sent_eof = c.sent_eof
         /\ "sent_close" \notin F => t.sent_close = c.sent_close
         /\ "flushing" \notin F => t.flushing = c.flushing
         /\ "out" \notin F => t.out = c.out
         /\ "readfd" \notin F => t.readfd = c.readfd
         /\ "writefd" \notin F => t.writefd = c.writefd
         /\ "errfd" \notin F => t.errfd = c.errfd
  BY DEF Same, Fields, ClosingFields, Fds, Flags, Counters

LEMMA SameTwice ==
  ASSUME NEW c, NEW t, NEW u, NEW F, Same(c, t, F), Same(t, u, F)
  PROVE  Same(c, u, F)
  BY DEF Same

\* The descriptor for what arrives is closed.
LEMMA CloseWriteFd ==
  ASSUME NEW e \in End, NEW c, IsChannel(e, c), InUse(e, c)
  PROVE  LET a == close_chan_fd(c, c.writefd)
         IN  /\ IsChannel(e, a) /\ Same(c, a, Fds) /\ InUse(e, a)
             /\ a.writefd = FD_CLOSED /\ a.errfd = c.errfd
             /\ e = "client" \/ c.pid => a.readfd = c.readfd
             /\ c.readfd = FD_CLOSED => a.readfd = FD_CLOSED
  <1>1. PICK a : a = close_chan_fd(c, c.writefd)
    OBVIOUS
  <1>2. c.readfd \in Int /\ c.writefd \in Int /\ c.errfd \in Int
    BY ChannelFields
  <1>3. /\ IsChannel(e, a) /\ Same(c, a, Fds)
        /\ a.readfd = IF c.readfd = c.writefd THEN FD_CLOSED ELSE c.readfd
        /\ a.writefd = FD_CLOSED
        /\ a.errfd = IF c.errfd = c.writefd THEN FD_CLOSED ELSE c.errfd
    BY <1>1, <1>2, CloseFd
  <1>4. FdsOK(e, c) /\ Room(e, c) /\ Flagged(c) /\ c.present
    BY DEF InUse
  <1>5. /\ a.present = c.present /\ a.recv_eof = c.recv_eof /\ a.recv_close = c.recv_close
        /\ a.errIsWrite = c.errIsWrite /\ a.pid = c.pid /\ a.exitpid = c.exitpid
        /\ a.await_open = c.await_open /\ a.died = c.died
        /\ a.recvwindow = c.recvwindow
        /\ a.recvdonelen = c.recvdonelen /\ a.writebuf = c.writebuf /\ a.extrabuf = c.extrabuf
        /\ a.sent_eof = c.sent_eof /\ a.sent_close = c.sent_close /\ a.flushing = c.flushing
    BY <1>3, SameClosing DEF ClosingFields, Fds
  <1>6. /\ a.errfd = c.errfd /\ (e = "client" \/ c.pid => a.readfd = c.readfd)
        /\ c.readfd = FD_CLOSED => a.readfd = FD_CLOSED
    BY <1>3, <1>4 DEF FdsOK, FD_CLOSED, FD_UNINIT, End
  <1>7. FdsOK(e, a)
    BY <1>3, <1>4, <1>5, <1>6 DEF FdsOK, FD_CLOSED, FD_UNINIT, End
  <1>8. Room(e, a) /\ Flagged(a)
    BY <1>3, <1>4, <1>5, <1>6 DEF Room, Flagged, NoMoreToSend
  <1> QED BY <1>1, <1>3, <1>4, <1>5, <1>6, <1>7, <1>8 DEF InUse

\* What becomes of c when end e has sent q and goes on with t.
Kept(e, c, t, q, s) ==
    /\ InUse(e, t) /\ Same(c, t, ClosingFields)
    /\ c.sent_eof \/ Has(q, {"EOF"}) => t.sent_eof
    /\ c.sent_close \/ Has(q, {"CLOSE"}) => t.sent_close
    /\ e = "server" /\ c.exitpid /\ t.sent_close => c.sent_close \/ Has(q, {"EXIT_STATUS"})
    /\ e = "client" =>
          /\ t.readfd = c.readfd
          /\ t.writefd = FD_CLOSED =>
                c.writefd = FD_CLOSED \/ (c.recv_eof /\ c.writebuf.used = 0)
          /\ t.errfd = FD_CLOSED => c.errfd = FD_CLOSED \/ (t.sent_close /\ c.extrabuf.used = 0)
    /\ e = "server" /\ c.pid =>
          /\ t.readfd = FD_CLOSED => c.readfd = FD_CLOSED \/ ~fd_read_pending(s, "stdout")
          /\ t.errfd = FD_CLOSED => c.errfd = FD_CLOSED \/ ~fd_read_pending(s, "stderr")
          /\ t.writefd = FD_CLOSED =>
                c.writefd = FD_CLOSED \/ (c.recv_eof /\ c.writebuf.used = 0) \/ c.exitpid
          /\ c.writefd = FD_CLOSED => t.writefd = FD_CLOSED
          /\ t.sent_close => c.sent_close \/ c.exitpid

\* What is known when it has removed the channel.
Removed(e, c, t, q) ==
    /\ Unused(e, t) /\ c.recv_close
    /\ e = "server" => c.sent_close \/ ~c.pid \/ (c.exitpid /\ Has(q, {"EXIT_STATUS"}))
    /\ e = "client" => /\ c.writefd = FD_CLOSED \/ c.writebuf.used = 0
                       /\ c.errfd = FD_CLOSED \/ c.extrabuf.used = 0

Closing(e, c, t, q, s) ==
    /\ q \in Seq(Packet) /\ Ordered(q) /\ \A i \in 1..Len(q) : q[i].type \in Farewell
    /\ e = "client" => ~Has(q, {"EXIT_STATUS"})
    /\ c.sent_eof => ~Has(q, {"EOF"})
    /\ c.sent_close => q = <<>>
    /\ t.out = c.out \o q
    /\ t.present => Kept(e, c, t, q, s)
    /\ ~t.present => Removed(e, c, t, q)

LEMMA FlushedFds ==
  ASSUME NEW c, IsChannel("server", c), InUse("server", c), NEW s
  PROVE  LET t == Flushed("server", c, s)
         IN  /\ IsChannel("server", t) /\ Same(c, t, Fds) /\ InUse("server", t)
             /\ t.readfd = c.readfd \/ (t.readfd = FD_CLOSED /\ ~fd_read_pending(s, "stdout"))
             /\ t.errfd = c.errfd \/ (t.errfd = FD_CLOSED /\ ~fd_read_pending(s, "stderr"))
             /\ t.writefd = c.writefd
  <1>0. /\ DOMAIN c = Fields /\ c.readfd \in Int /\ c.writefd \in Int /\ c.errfd \in Int
        /\ FdsOK("server", c) /\ Flagged(c) /\ Room("server", c) /\ c.present
    BY ChannelFields DEF InUse
  <1>1. PICK a : a = IF c.readfd >= 0 /\ ~fd_read_pending(s, "stdout")
                     THEN close_chan_fd(c, c.readfd) ELSE c
    OBVIOUS
  <1>2. PICK t : t = IF a.errfd >= 0 /\ ~a.errIsWrite /\ ~fd_read_pending(s, "stderr")
                     THEN close_chan_fd(a, a.errfd) ELSE a
    OBVIOUS
  <1>3. t = Flushed("server", c, s)
    BY <1>1, <1>2 DEF Flushed
  <1>4. /\ IsChannel("server", a) /\ Same(c, a, Fds) /\ a.errfd = c.errfd /\ a.writefd = c.writefd
        /\ a.readfd = c.readfd \/ (a.readfd = FD_CLOSED /\ ~fd_read_pending(s, "stdout"))
    <2>1. CASE c.readfd >= 0 /\ ~fd_read_pending(s, "stdout")
      <3>1. /\ IsChannel("server", a) /\ Same(c, a, Fds)
            /\ a.readfd = FD_CLOSED
            /\ a.writefd = IF c.writefd = c.readfd THEN FD_CLOSED ELSE c.writefd
            /\ a.errfd = IF c.errfd = c.readfd THEN FD_CLOSED ELSE c.errfd
        BY <1>0, <1>1, <2>1, CloseFd
      <3>2. c.writefd # c.readfd /\ c.errfd # c.readfd
        BY <1>0, <2>1 DEF FdsOK, FD_CLOSED, FD_UNINIT
      <3> QED BY <2>1, <3>1, <3>2
    <2>2. CASE ~(c.readfd >= 0 /\ ~fd_read_pending(s, "stdout"))
      BY <1>0, <1>1, <2>2 DEF Same
    <2> QED BY <2>1, <2>2
  <1>5. a.readfd \in Int /\ a.writefd \in Int /\ a.errfd \in Int /\ DOMAIN a = Fields
    BY <1>4, ChannelFields
  <1>6. /\ IsChannel("server", t) /\ Same(a, t, Fds) /\ t.readfd = a.readfd /\ t.writefd = a.writefd
        /\ t.errfd = a.errfd \/ (t.errfd = FD_CLOSED /\ ~fd_read_pending(s, "stderr"))
    <2>1. CASE a.errfd >= 0 /\ ~a.errIsWrite /\ ~fd_read_pending(s, "stderr")
      <3>1. /\ IsChannel("server", t) /\ Same(a, t, Fds)
            /\ t.readfd = IF a.readfd = a.errfd THEN FD_CLOSED ELSE a.readfd
            /\ t.writefd = IF a.writefd = a.errfd THEN FD_CLOSED ELSE a.writefd
            /\ t.errfd = FD_CLOSED
        BY <1>2, <1>4, <1>5, <2>1, CloseFd
      <3>2. a.writefd # a.errfd /\ a.readfd # a.errfd
        BY <1>0, <1>4, <2>1 DEF FdsOK, FD_CLOSED, FD_UNINIT
      <3> QED BY <2>1, <3>1, <3>2
    <2>2. CASE ~(a.errfd >= 0 /\ ~a.errIsWrite /\ ~fd_read_pending(s, "stderr"))
      BY <1>2, <1>4, <1>5, <2>2 DEF Same
    <2> QED BY <2>1, <2>2
  <1>7. Same(c, t, Fds)
    BY <1>4, <1>6, SameTwice
  <1>8. /\ t.present = c.present /\ t.recv_eof = c.recv_eof /\ t.recv_close = c.recv_close
        /\ t.errIsWrite = c.errIsWrite /\ t.pid = c.pid /\ t.exitpid = c.exitpid
        /\ t.await_open = c.await_open /\ t.died = c.died
        /\ t.recvwindow = c.recvwindow
        /\ t.recvdonelen = c.recvdonelen /\ t.writebuf = c.writebuf /\ t.extrabuf = c.extrabuf
        /\ t.sent_eof = c.sent_eof /\ t.sent_close = c.sent_close
    BY <1>7, SameClosing DEF ClosingFields, Fds
  <1>9. FdsOK("server", t)
    <2>1. CASE c.pid
      BY <1>0, <1>4, <1>6, <1>8, <2>1 DEF FdsOK
    <2>2. CASE ~c.pid
      <3>1. ~(c.readfd >= 0) /\ ~(c.errfd >= 0)
        BY <1>0, <2>2 DEF FdsOK, FD_CLOSED, FD_UNINIT
      <3>2. a = c
        BY <1>1, <3>1
      <3>3. t = c
        BY <1>2, <3>1, <3>2
      <3> QED BY <1>0, <3>3
    <2> QED BY <2>1, <2>2
  <1>10. Room("server", t) /\ Flagged(t)
    BY <1>0, <1>4, <1>6, <1>8 DEF Room, Flagged, NoMoreToSend
  <1> QED BY <1>0, <1>3, <1>4, <1>6, <1>7, <1>8, <1>9, <1>10 DEF InUse

\* The three steps of check_close() when the channel stays.
LEMMA HalfCloses ==
  ASSUME NEW e \in End, NEW c, IsChannel(e, c), InUse(e, c), NEW s
  PROVE  LET t == HalfClosed(e, c, sesscheckclose(e, c))
         IN  IsChannel(e, t) /\ t.present /\ \E q : Closing(e, c, t, q, s)
  <1>0. /\ DOMAIN c = Fields /\ c.readfd \in Int /\ c.writefd \in Int /\ c.errfd \in Int
        /\ c.sent_eof \in BOOLEAN /\ c.sent_close \in BOOLEAN /\ c.pid \in BOOLEAN /\ c.exitpid \in BOOLEAN
        /\ c.out \in Seq(Packet) /\ c.writebuf.used \in Nat /\ c.extrabuf.used \in Nat
        /\ FdsOK(e, c) /\ Flagged(c) /\ Room(e, c) /\ c.present
    BY ChannelFields, BufferUsed DEF InUse
  <1>1. PICK al \in BOOLEAN : al = sesscheckclose(e, c)
    BY <1>0 DEF sesscheckclose
  <1>2. al <=> (e = "client" \/ c.sent_close \/ ~c.pid \/ c.exitpid)
    BY <1>1 DEF sesscheckclose
  <1>3. PICK a : a = IF (c.recv_eof /\ ~write_pending(c))
                          \/ (c.writefd # FD_UNINIT /\ e = "server" /\ al)
                     THEN close_chan_fd(c, c.writefd) ELSE c
    OBVIOUS
  <1>4. /\ IsChannel(e, a) /\ Same(c, a, Fds) /\ InUse(e, a) /\ a.errfd = c.errfd
        /\ e = "client" \/ c.pid => a.readfd = c.readfd
        /\ c.readfd = FD_CLOSED => a.readfd = FD_CLOSED
        /\ a.writefd # c.writefd => /\ a.writefd = FD_CLOSED
                                    /\ (c.recv_eof /\ ~write_pending(c)) \/ (e = "server" /\ al)
    <2>1. CASE (c.recv_eof /\ ~write_pending(c)) \/ (c.writefd # FD_UNINIT /\ e = "server" /\ al)
      <3>1. a = close_chan_fd(c, c.writefd)
        BY <1>3, <2>1
      <3> QED BY <2>1, <3>1, CloseWriteFd
    <2>2. CASE ~((c.recv_eof /\ ~write_pending(c)) \/ (c.writefd # FD_UNINIT /\ e = "server" /\ al))
      BY <1>0, <1>3, <2>2 DEF Same
    <2> QED BY <2>1, <2>2
  <1>5. /\ a.present = c.present /\ a.recv_eof = c.recv_eof /\ a.recv_close = c.recv_close
        /\ a.errIsWrite = c.errIsWrite /\ a.pid = c.pid /\ a.exitpid = c.exitpid
        /\ a.writebuf = c.writebuf /\ a.extrabuf = c.extrabuf /\ Same(c, a, ClosingFields)
        /\ a.sent_eof = c.sent_eof /\ a.sent_close = c.sent_close /\ a.out = c.out
    BY <1>4, SameClosing DEF ClosingFields, Fds
  <1>6. PICK b : b = IF ~a.sent_eof /\ NoMoreToSend(a)
                     THEN [Send(a, "EOF", 0) EXCEPT !.sent_eof = TRUE] ELSE a
    OBVIOUS
  <1>7. PICK x \in Seq(Packet) : x = IF ~a.sent_eof /\ NoMoreToSend(a) THEN <<EofPacket>> ELSE <<>>
    <2>1. <<EofPacket>> \in Seq(Packet) /\ <<>> \in Seq(Packet)
      BY FarewellPackets, OnePacket, NoPacket
    <2> QED BY <2>1
  <1>8. /\ Ordered(x) /\ ~Has(x, {"CLOSE"}) /\ ~Has(x, {"EXIT_STATUS"})
        /\ Has(x, {"EOF"}) <=> ~a.sent_eof /\ NoMoreToSend(a)
        /\ \A i \in 1..Len(x) : x[i].type = "EOF"
    BY <1>7, FarewellPackets, OnePacket, NoPacket
  <1>9. /\ IsChannel(e, b) /\ Same(a, b, {"out", "sent_eof"}) /\ b.out = c.out \o x
        /\ b.sent_eof <=> a.sent_eof \/ NoMoreToSend(a)
    <2>1. CASE ~a.sent_eof /\ NoMoreToSend(a)
      <3>1. PICK u : u = Send(a, "EOF", 0)
        OBVIOUS
      <3>2. [type |-> "EOF", body |-> 0] \in Packet
        BY FarewellPackets DEF EofPacket
      <3>3. IsChannel(e, u) /\ Same(a, u, {"out"}) /\ u.out = a.out \o x
        BY <1>4, <1>7, <2>1, <3>1, <3>2, SendPacket DEF EofPacket
      <3>4. b = [u EXCEPT !.sent_eof = TRUE] /\ DOMAIN u = Fields
        BY <1>6, <2>1, <3>1, <3>3, ChannelFields
      <3>5. Same(u, b, {"sent_eof"}) /\ b.sent_eof = TRUE /\ b.out = u.out
        BY <3>4 DEF Same, Fields, Fds, Flags, Counters
      <3>6. \A f \in {"sent_eof"} : HasType(e, f, b[f])
        BY <3>5 DEF HasType, Fds, Flags, Counters
      <3>7. IsChannel(e, b)
        BY <3>3, <3>5, <3>6, SameType
      <3>8. Same(a, b, {"out", "sent_eof"})
        BY <3>3, <3>5 DEF Same
      <3> QED BY <1>5, <2>1, <3>3, <3>5, <3>7, <3>8
    <2>2. CASE ~(~a.sent_eof /\ NoMoreToSend(a))
      <3>1. b = a /\ x = <<>>
        BY <1>6, <1>7, <2>2
      <3>2. c.out \o <<>> = c.out
        BY <1>0, ConcatEmptySeq
      <3>3. Same(a, a, {"out", "sent_eof"}) /\ (a.sent_eof \/ NoMoreToSend(a) <=> a.sent_eof)
        BY <1>4, <2>2, ChannelFields DEF Same
      <3> QED BY <1>4, <1>5, <3>1, <3>2, <3>3
    <2> QED BY <2>1, <2>2
  <1>10. /\ b.present = c.present /\ b.recv_eof = c.recv_eof /\ b.recv_close = c.recv_close
         /\ b.errIsWrite = c.errIsWrite /\ b.pid = c.pid /\ b.exitpid = c.exitpid
         /\ b.await_open = a.await_open /\ b.died = a.died /\ b.recvwindow = a.recvwindow
         /\ b.recvdonelen = a.recvdonelen /\ b.flushing = a.flushing
         /\ b.writebuf = c.writebuf /\ b.extrabuf = c.extrabuf /\ Same(c, b, ClosingFields)
         /\ b.sent_close = c.sent_close /\ b.readfd = a.readfd /\ b.writefd = a.writefd
         /\ b.errfd = a.errfd
    BY <1>5, <1>9, SameClosing, SameTwice DEF ClosingFields, Fds
  <1>11. InUse(e, b)
    <2>1. FdsOK(e, a) /\ Room(e, a) /\ Flagged(a) /\ a.present
      BY <1>4 DEF InUse
    <2>2. FdsOK(e, b) /\ Room(e, b)
      BY <1>5, <1>10, <2>1 DEF FdsOK, Room
    <2>3. Flagged(b)
      BY <1>5, <1>9, <1>10, <2>1 DEF Flagged, NoMoreToSend
    <2> QED BY <1>5, <1>10, <2>1, <2>2, <2>3 DEF InUse
  <1>12. PICK t : t = IF NoMoreToSend(b) /\ b.writefd = FD_CLOSED /\ ~b.sent_close
                            /\ al /\ ~write_pending(b)
                      THEN send_msg_channel_close(e, b) ELSE b
    OBVIOUS
  <1>13. t = HalfClosed(e, c, sesscheckclose(e, c))
    BY <1>1, <1>3, <1>6, <1>12 DEF HalfClosed
  <1>w. /\ e = "client" /\ ~write_pending(c) => c.writefd = FD_CLOSED \/ c.writebuf.used = 0
        /\ e = "client" /\ ~write_pending(c) => c.errfd = FD_CLOSED \/ c.extrabuf.used = 0
        /\ e = "server" /\ c.pid /\ ~write_pending(c) => c.writefd = FD_CLOSED \/ c.writebuf.used = 0
    BY <1>0 DEF write_pending, FdsOK, FD_CLOSED, FD_UNINIT
  <1>14. CASE ~(NoMoreToSend(b) /\ b.writefd = FD_CLOSED /\ ~b.sent_close /\ al /\ ~write_pending(b))
    <2>1. t = b
      BY <1>12, <1>14
    <2>2. Kept(e, c, b, x, s)
      <3>1. e = "client" => /\ b.readfd = c.readfd
                            /\ b.writefd = FD_CLOSED =>
                                  c.writefd = FD_CLOSED \/ (c.recv_eof /\ c.writebuf.used = 0)
                            /\ b.errfd = FD_CLOSED => c.errfd = FD_CLOSED
        BY <1>4, <1>10, <1>w
      <3>2. e = "server" /\ c.pid =>
              /\ b.readfd = c.readfd /\ b.errfd = c.errfd
              /\ b.writefd = FD_CLOSED =>
                    c.writefd = FD_CLOSED \/ (c.recv_eof /\ c.writebuf.used = 0) \/ c.exitpid
              /\ c.writefd = FD_CLOSED => b.writefd = FD_CLOSED
        BY <1>0, <1>2, <1>4, <1>10, <1>w DEF Flagged
      <3> QED BY <1>5, <1>8, <1>9, <1>10, <1>11, <3>1, <3>2 DEF Kept
    <2>3. x = <<>> \/ ~c.sent_close
      BY <1>0, <1>5, <1>7 DEF Flagged
    <2>4. \A i \in 1..Len(x) : x[i].type \in Farewell
      BY <1>8 DEF Farewell
    <2>5. Closing(e, c, b, x, s)
      BY <1>0, <1>5, <1>8, <1>9, <1>10, <2>2, <2>3, <2>4 DEF Closing
    <2> QED BY <1>0, <1>9, <1>10, <1>13, <2>1, <2>5
  <1>15. CASE NoMoreToSend(b) /\ b.writefd = FD_CLOSED /\ ~b.sent_close /\ al /\ ~write_pending(b)
    <2>1. t = send_msg_channel_close(e, b)
      BY <1>12, <1>15
    <2>0. CloseSent(e, b, t)
      BY <1>9, <2>1, SendClose
    <2>2. /\ IsChannel(e, t) /\ Same(b, t, Fds \cup {"out", "sent_eof", "sent_close"})
          /\ t.readfd = FD_CLOSED /\ t.writefd = FD_CLOSED /\ t.errfd = FD_CLOSED
          /\ t.sent_eof /\ t.sent_close
      BY <2>0 DEF CloseSent
    <2>3. PICK q \in Seq(Packet) :
             /\ t.out = b.out \o q /\ Ordered(q) /\ q # <<>>
             /\ \A i \in 1..Len(q) : q[i].type \in {"EXIT_STATUS", "CLOSE"}
             /\ Has(q, {"CLOSE"}) /\ (Has(q, {"EXIT_STATUS"}) <=> e = "server" /\ b.exitpid)
      BY <2>0 DEF CloseSent
    <2>4. /\ t.present = b.present /\ t.recv_eof = b.recv_eof /\ t.recv_close = b.recv_close
          /\ t.errIsWrite = b.errIsWrite /\ t.pid = b.pid /\ t.exitpid = b.exitpid
          /\ t.await_open = b.await_open /\ t.died = b.died /\ t.recvwindow = b.recvwindow
          /\ t.recvdonelen = b.recvdonelen /\ t.flushing = b.flushing
          /\ t.writebuf = b.writebuf /\ t.extrabuf = b.extrabuf /\ Same(b, t, ClosingFields)
      <3>1. PICK F : F = Fds \cup {"out", "sent_eof", "sent_close"}
        OBVIOUS
      <3>2. F \subseteq ClosingFields /\ "flushing" \notin F /\ Same(b, t, F)
        BY <2>2, <3>1 DEF ClosingFields, Fds
      <3> QED BY <3>2, SameClosing
    <2>5. InUse(e, t)
      <3>1. FdsOK(e, b) /\ Room(e, b) /\ Flagged(b) /\ b.present
        BY <1>11 DEF InUse
      <3>2. FdsOK(e, t) /\ Room(e, t) /\ Flagged(t)
        BY <2>2, <2>4, <3>1 DEF FdsOK, Room, Flagged, NoMoreToSend, End
      <3> QED BY <2>4, <3>1, <3>2 DEF InUse
    <2>6. PICK y \in Seq(Packet) : y = x \o q
      BY ConcatFacts
    <2>7. t.out = c.out \o y
      <3>1. (c.out \o x) \o q = c.out \o (x \o q)
        BY <1>0, ConcatTwice
      <3> QED BY <1>9, <2>3, <2>6, <3>1
    <2>8. ~Has(q, {"EOF"}) /\ ~Has(q, DataTypes \cup {"EOF"})
      BY <2>3 DEF Has, DataTypes
    <2>9. /\ Has(y, {"EOF"}) <=> Has(x, {"EOF"})
          /\ Has(y, {"CLOSE"})
          /\ Has(y, {"EXIT_STATUS"}) <=> e = "server" /\ c.exitpid
      <3>1. \A T : Has(y, T) <=> Has(x, T) \/ Has(q, T)
        BY <2>6, HasConcat
      <3> QED BY <1>8, <1>10, <2>3, <2>8, <3>1
    <2>10. Ordered(y)
      BY <1>8, <2>3, <2>6, <2>8, OrderedConcat
    <2>11. \A i \in 1..Len(y) : y[i].type \in Farewell
      <3>1. /\ Len(y) = Len(x) + Len(q) /\ Len(x) \in Nat /\ Len(q) \in Nat
            /\ (\A i \in 1..Len(x) : y[i] = x[i])
            /\ \A i \in (Len(x) + 1)..(Len(x) + Len(q)) : y[i] = q[i - Len(x)]
        BY <2>6, ConcatFacts
      <3> TAKE i \in 1..Len(y)
      <3>2. CASE i \in 1..Len(x)
        BY <1>8, <3>1, <3>2 DEF Farewell
      <3>3. CASE i \in (Len(x) + 1)..(Len(x) + Len(q))
        <4>1. i - Len(x) \in 1..Len(q)
          BY <3>1, <3>3
        <4> QED BY <2>3, <3>1, <3>3, <4>1 DEF Farewell
      <3> QED BY <3>1, <3>2, <3>3
    <2>12. Same(c, t, ClosingFields)
      BY <1>10, <2>4, SameTwice
    <2>13. Kept(e, c, t, y, s)
      <3>1. e = "client" => /\ t.readfd = c.readfd
                            /\ c.writefd = FD_CLOSED \/ (c.recv_eof /\ c.writebuf.used = 0)
        BY <1>4, <1>10, <1>15, <1>w, <2>2 DEF NoMoreToSend
      <3>2. e = "client" => c.errfd = FD_CLOSED \/ c.extrabuf.used = 0
        <4>1. e = "client" => b.errIsWrite /\ b.errfd \in {2, FD_CLOSED} /\ b.errfd = c.errfd
          BY <1>0, <1>4, <1>10 DEF FdsOK
        <4>2. e = "client" => b.errfd = FD_CLOSED \/ ~(b.extrabuf.used > 0)
          BY <1>15, <4>1 DEF write_pending, FD_CLOSED
        <4> QED BY <1>0, <1>10, <4>1, <4>2
      <3>3. e = "server" /\ c.pid =>
              /\ c.readfd = FD_CLOSED /\ c.errfd = FD_CLOSED /\ c.exitpid
        <4>1. e = "server" => ~b.errIsWrite
          BY <1>0, <1>10 DEF FdsOK
        <4> QED BY <1>2, <1>4, <1>10, <1>15, <4>1 DEF NoMoreToSend
      <3> QED BY <2>2, <2>5, <2>9, <2>12, <3>1, <3>2, <3>3 DEF Kept
    <2>14. Closing(e, c, t, y, s)
      <3>1. t.present = TRUE
        BY <1>0, <1>10, <2>4, <2>5 DEF InUse
      <3>2. c.sent_eof => ~Has(y, {"EOF"})
        BY <1>5, <1>8, <2>9
      <3>3. ~c.sent_close
        BY <1>10, <1>15
      <3>4. e = "client" => ~Has(y, {"EXIT_STATUS"})
        BY <2>9
      <3> QED BY <2>7, <2>10, <2>11, <2>13, <3>1, <3>2, <3>3, <3>4 DEF Closing
    <2> QED BY <1>13, <2>2, <2>5, <2>14 DEF InUse
  <1> QED BY <1>14, <1>15

\* A channel that was removed, or not yet there.
LEMMA NewChannel ==
  ASSUME NEW e \in End
  PROVE  /\ IsChannel(e, newchannel(e)) /\ IsChannel(e, NoChannel(e))
         /\ Same(newchannel(e), NoChannel(e), {"present"}) /\ ~NoChannel(e).present
         /\ newchannel(e).present /\ newchannel(e).out = <<>> /\ newchannel(e).put = <<>>
  <1>1. PICK c : c = newchannel(e)
    OBVIOUS
  <1>2. PICK n : n = NoChannel(e)
    OBVIOUS
  <1>3. PICK b : b = cbuf_new(recv_window(e))
    OBVIOUS
  <1>4. IsBuffer(e, b) /\ recv_window(e) \in Nat
    BY <1>3, NewBuffer, Windows
  <1>5. IsChannel(e, c)
    <2>1. /\ c = [present |-> TRUE, readfd |-> FD_UNINIT, writefd |-> FD_UNINIT, errfd |-> FD_CLOSED,
                  sent_eof |-> FALSE, recv_eof |-> FALSE, sent_close |-> FALSE, recv_close |-> FALSE,
                  transwindow |-> 0, recvwindow |-> recv_window(e), recvdonelen |-> 0,
                  writebuf |-> b, extrabuf |-> b, errIsWrite |-> FALSE, flushing |-> FALSE,
                  pid |-> FALSE, exitpid |-> FALSE, await_open |-> FALSE, out |-> <<>>, put |-> <<>>,
                  died |-> FALSE]
      BY <1>1, <1>3 DEF newchannel
    <2>2. DOMAIN c = Fields
      BY <2>1 DEF Fields, Fds, Flags, Counters
    <2>f. /\ c.present = TRUE /\ c.sent_eof = FALSE /\ c.recv_eof = FALSE /\ c.sent_close = FALSE
          /\ c.recv_close = FALSE /\ c.errIsWrite = FALSE /\ c.flushing = FALSE /\ c.pid = FALSE
          /\ c.exitpid = FALSE /\ c.await_open = FALSE /\ c.died = FALSE
      BY <2>1
    <2>3. \A f \in Flags : c[f] \in BOOLEAN
      BY <2>f DEF Flags
    <2>4. (\A f \in Fds : c[f] \in Int) /\ \A f \in Counters : c[f] \in Nat
      BY <1>4, <2>1 DEF Fds, Counters, FD_UNINIT, FD_CLOSED
    <2>5. c.out \in Seq(Packet) /\ c.put \in Seq(Nat) /\ IsBuffer(e, c.writebuf) /\ IsBuffer(e, c.extrabuf)
      BY <1>4, <2>1
    <2> QED BY <2>2, <2>3, <2>4, <2>5 DEF IsChannel
  <1>6. n = [c EXCEPT !.present = FALSE] /\ DOMAIN c = Fields
    BY <1>1, <1>2, <1>5 DEF NoChannel, IsChannel
  <1>7. Same(c, n, {"present"}) /\ n.present = FALSE
    BY <1>6 DEF Same, Fields, Fds, Flags, Counters
  <1>8. \A f \in {"present"} : HasType(e, f, n[f])
    BY <1>7 DEF HasType, Fds, Flags, Counters
  <1>9. IsChannel(e, n)
    BY <1>5, <1>7, <1>8, SameType
  <1>10. c.present /\ c.out = <<>> /\ c.put = <<>>
    BY <1>1 DEF newchannel
  <1> QED BY <1>1, <1>2, <1>5, <1>7, <1>9, <1>10

LEMMA RemovedChannel ==
  ASSUME NEW e \in End, NEW c, IsChannel(e, c)
  PROVE  LET t == remove_channel(e, c)
         IN  IsChannel(e, t) /\ Unused(e, t) /\ ~t.present /\ t.out = c.out
  <1>1. PICK t : t = remove_channel(e, c)
    OBVIOUS
  <1>2. PICK n : n = NoChannel(e)
    OBVIOUS
  <1>3. IsChannel(e, n) /\ ~n.present /\ DOMAIN n = Fields /\ c.out \in Seq(Packet)
    BY <1>2, NewChannel, ChannelFields
  <1>4. t = [n EXCEPT !.out = c.out]
    BY <1>1, <1>2 DEF remove_channel
  <1>5. Same(n, t, {"out"}) /\ t.out = c.out /\ ~t.present
    BY <1>3, <1>4 DEF Same, Fields, Fds, Flags, Counters
  <1>6. \A f \in {"out"} : HasType(e, f, t[f])
    BY <1>3, <1>5 DEF HasType, Fds, Flags, Counters
  <1>7. IsChannel(e, t)
    BY <1>3, <1>5, <1>6, SameType
  <1>8. Unused(e, t)
    BY <1>2, <1>4, <1>5 DEF Unused
  <1> QED BY <1>1, <1>5, <1>7, <1>8

\* What a channel that is not there looks like.
LEMMA UnusedFields ==
  ASSUME NEW e \in End, NEW c, Unused(e, c)
  PROVE  /\ ~c.present /\ c.put = <<>> /\ ~c.died /\ ~c.await_open /\ ~c.pid /\ ~c.exitpid
         /\ ~c.sent_close /\ ~c.recv_eof /\ c.writefd = FD_UNINIT /\ c.transwindow = 0
         /\ c.readfd = FD_UNINIT /\ c.errfd = FD_CLOSED
  BY DEF Unused, NoChannel, newchannel

\* check_close() changes what Closing allows.
LEMMA CheckClose ==
  ASSUME NEW e \in End, NEW c, IsChannel(e, c), InUse(e, c), NEW s
  PROVE  LET t == check_close(e, c, s)
         IN  IsChannel(e, t) /\ \E q : Closing(e, c, t, q, s)
  <1>0. /\ DOMAIN c = Fields /\ c.flushing \in BOOLEAN /\ c.out \in Seq(Packet)
        /\ c.sent_close \in BOOLEAN /\ c.exitpid \in BOOLEAN /\ c.pid \in BOOLEAN
        /\ FdsOK(e, c) /\ Flagged(c) /\ Room(e, c) /\ c.present
    BY ChannelFields DEF InUse
  <1>1. PICK al \in BOOLEAN : al = sesscheckclose(e, c)
    BY <1>0 DEF sesscheckclose
  <1>2. al <=> (e = "client" \/ c.sent_close \/ ~c.pid \/ c.exitpid)
    BY <1>1 DEF sesscheckclose
  <1>3. PICK a : a = [c EXCEPT !.flushing = @ \/ (e = "server" /\ ~c.sent_close /\ c.exitpid)]
    OBVIOUS
  <1>4. /\ Same(c, a, {"flushing"}) /\ a.flushing \in BOOLEAN
        /\ e = "client" => a.flushing = c.flushing
    BY <1>0, <1>3 DEF Same, Fields, Fds, Flags, Counters
  <1>5. IsChannel(e, a)
    <2>1. \A f \in {"flushing"} : HasType(e, f, a[f])
      BY <1>4 DEF HasType, Fds, Flags, Counters
    <2> QED BY <1>4, <2>1, SameType
  <1>6. /\ a.present = c.present /\ a.recv_eof = c.recv_eof /\ a.recv_close = c.recv_close
        /\ a.errIsWrite = c.errIsWrite /\ a.pid = c.pid /\ a.exitpid = c.exitpid
        /\ a.await_open = c.await_open /\ a.died = c.died
        /\ a.recvwindow = c.recvwindow
        /\ a.recvdonelen = c.recvdonelen /\ a.writebuf = c.writebuf /\ a.extrabuf = c.extrabuf
        /\ a.sent_eof = c.sent_eof /\ a.sent_close = c.sent_close /\ a.out = c.out
        /\ a.readfd = c.readfd /\ a.writefd = c.writefd /\ a.errfd = c.errfd
        /\ Same(c, a, ClosingFields)
    BY <1>4, SameClosing DEF ClosingFields, Fds
  <1>7. InUse(e, a)
    <2>1. FdsOK(e, a) /\ Room(e, a)
      BY <1>0, <1>4, <1>6 DEF FdsOK, Room
    <2>2. Flagged(a)
      BY <1>0, <1>6 DEF Flagged, NoMoreToSend
    <2> QED BY <1>0, <1>6, <2>1, <2>2 DEF InUse
  <1>8. PICK b : b = IF a.flushing THEN Flushed(e, a, s) ELSE a
    OBVIOUS
  <1>9. /\ IsChannel(e, b) /\ Same(a, b, Fds) /\ InUse(e, b)
        /\ b.readfd = c.readfd \/ (e = "server" /\ b.readfd = FD_CLOSED /\ ~fd_read_pending(s, "stdout"))
        /\ b.errfd = c.errfd \/ (e = "server" /\ b.errfd = FD_CLOSED /\ ~fd_read_pending(s, "stderr"))
        /\ b.writefd = c.writefd
    <2>1. CASE a.flushing
      <3>1. e = "server"
        BY <1>0, <1>4, <2>1 DEF FdsOK, End
      <3>2. b = Flushed("server", a, s) /\ IsChannel("server", a) /\ InUse("server", a)
        BY <1>5, <1>7, <1>8, <2>1, <3>1
      <3>3. /\ IsChannel("server", b) /\ Same(a, b, Fds) /\ InUse("server", b)
            /\ b.readfd = a.readfd \/ (b.readfd = FD_CLOSED /\ ~fd_read_pending(s, "stdout"))
            /\ b.errfd = a.errfd \/ (b.errfd = FD_CLOSED /\ ~fd_read_pending(s, "stderr"))
            /\ b.writefd = a.writefd
        BY <3>2, FlushedFds
      <3> QED BY <1>6, <3>1, <3>3
    <2>2. CASE ~a.flushing
      BY <1>5, <1>6, <1>7, <1>8, <2>2, ChannelFields DEF Same
    <2> QED BY <2>1, <2>2
  <1>10. /\ b.present = c.present /\ b.recv_eof = c.recv_eof /\ b.recv_close = c.recv_close
         /\ b.errIsWrite = c.errIsWrite /\ b.pid = c.pid /\ b.exitpid = c.exitpid
         /\ b.writebuf = c.writebuf /\ b.extrabuf = c.extrabuf
         /\ b.sent_eof = c.sent_eof /\ b.sent_close = c.sent_close /\ b.out = c.out
         /\ Same(c, b, ClosingFields)
    BY <1>6, <1>9, SameClosing, SameTwice DEF ClosingFields, Fds
  <1>11. al = sesscheckclose(e, b)
    BY <1>1, <1>10 DEF sesscheckclose
  <1>12. PICK t : t = IF b.recv_close /\ ~write_pending(b) /\ al
                      THEN remove_channel(e, IF b.sent_close THEN b ELSE send_msg_channel_close(e, b))
                      ELSE HalfClosed(e, b, al)
    OBVIOUS
  <1>13. t = check_close(e, c, s)
    BY <1>1, <1>3, <1>8, <1>12 DEF check_close
  <1>14. CASE b.recv_close /\ ~write_pending(b) /\ al
    <2>1. PICK u : u = IF b.sent_close THEN b ELSE send_msg_channel_close(e, b)
      OBVIOUS
    <2>2. PICK q \in Seq(Packet) :
             /\ u.out = c.out \o q /\ Ordered(q) /\ IsChannel(e, u)
             /\ \A i \in 1..Len(q) : q[i].type \in {"EXIT_STATUS", "CLOSE"}
             /\ c.sent_close => q = <<>>
             /\ ~c.sent_close => (Has(q, {"EXIT_STATUS"}) <=> e = "server" /\ c.exitpid)
      <3>1. CASE c.sent_close
        <4>1. u = b /\ c.out \o <<>> = c.out
          BY <1>0, <1>10, <2>1, <3>1, ConcatEmptySeq
        <4>2. PICK q \in Seq(Packet) : q = <<>>
          BY NoPacket
        <4>3. Ordered(q) /\ 1..Len(q) = {} /\ u.out = c.out \o q
          BY <1>10, <4>1, <4>2, NoPacket
        <4> QED BY <1>9, <3>1, <4>1, <4>2, <4>3
      <3>2. CASE ~c.sent_close
        <4>1. CloseSent(e, b, u)
          BY <1>9, <1>10, <2>1, <3>2, SendClose
        <4> QED BY <1>10, <3>2, <4>1 DEF CloseSent
      <3> QED BY <3>1, <3>2
    <2>3. t = remove_channel(e, u)
      BY <1>12, <1>14, <2>1
    <2>4. IsChannel(e, t) /\ Unused(e, t) /\ ~t.present /\ t.out = c.out \o q
      BY <2>2, <2>3, RemovedChannel
    <2>5. e = "client" => /\ c.writefd = FD_CLOSED \/ c.writebuf.used = 0
                          /\ c.errfd = FD_CLOSED \/ c.extrabuf.used = 0
      <3>1. c.writebuf.used \in Nat /\ c.extrabuf.used \in Nat
        BY BufferUsed
      <3>2. e = "client" => b.writefd = c.writefd /\ b.errfd = c.errfd /\ b.errIsWrite
        BY <1>0, <1>9, <1>10 DEF FdsOK
      <3> QED BY <1>0, <1>10, <1>14, <3>1, <3>2 DEF write_pending, FdsOK, FD_CLOSED
    <2>6. Removed(e, c, t, q)
      BY <1>2, <1>10, <1>14, <2>2, <2>4, <2>5 DEF Removed
    <2>7. /\ \A i \in 1..Len(q) : q[i].type \in Farewell
          /\ e = "client" => ~Has(q, {"EXIT_STATUS"})
          /\ ~Has(q, {"EOF"})
      <3>1. ~Has(q, {"EOF"}) /\ \A i \in 1..Len(q) : q[i].type \in Farewell
        BY <2>2 DEF Has, Farewell
      <3>2. CASE c.sent_close
        BY <2>2, <3>1, <3>2, NoPacket
      <3>3. CASE ~c.sent_close
        BY <2>2, <3>1, <3>3
      <3> QED BY <3>1, <3>2, <3>3
    <2>8. Closing(e, c, t, q, s)
      BY <2>2, <2>4, <2>6, <2>7 DEF Closing
    <2> QED BY <1>13, <2>4, <2>8
  <1>15. CASE ~(b.recv_close /\ ~write_pending(b) /\ al)
    <2>1. t = HalfClosed(e, b, sesscheckclose(e, b))
      BY <1>11, <1>12, <1>15
    <2>2. IsChannel(e, t) /\ t.present /\ \E q : Closing(e, b, t, q, s)
      BY <1>9, <2>1, HalfCloses
    <2>3. PICK q : Closing(e, b, t, q, s)
      BY <2>2
    <2>4. Kept(e, b, t, q, s)
      BY <2>2, <2>3 DEF Closing
    <2>5. Kept(e, c, t, q, s)
      <3>1. Same(c, t, ClosingFields)
        BY <1>10, <2>4, SameTwice DEF Kept
      <3>2. e = "client" => b.readfd = c.readfd /\ b.errfd = c.errfd
        BY <1>9
      <3> QED BY <1>9, <1>10, <2>4, <3>1, <3>2 DEF Kept
    <2>6. Closing(e, c, t, q, s)
      BY <1>10, <2>2, <2>3, <2>5 DEF Closing
    <2> QED BY <1>13, <2>2, <2>6
  <1> QED BY <1>14, <1>15

-----------------------------------------------------------------------------
(* What the packets q add to the load of a wire.                           *)

Gives(q, T, n) ==
    n \in Nat /\ \A w \in Seq(Packet) : Load(w \o q, 1, T) = Load(w, 1, T) + n

LEMMA GivesNone ==
  ASSUME NEW q \in Seq(Packet), NEW T, ~Has(q, T)
  PROVE  Gives(q, T, 0)
  <1>1. ASSUME NEW w \in Seq(Packet) PROVE Load(w \o q, 1, T) = Load(w, 1, T) + 0
    <2>1. Load(w \o q, 1, T) = Load(w, 1, T)
      BY LoadConcat
    <2>2. Load(w, 1, T) \in Nat
      BY CellsFinite
    <2> QED BY <2>1, <2>2
  <1> QED BY <1>1 DEF Gives

LEMMA GivesOne ==
  ASSUME NEW p \in Packet, NEW T, p.type \in T
  PROVE  Gives(<<p>>, T, Amount(p))
  BY LoadAppend, PacketFields DEF Gives

LEMMA GivesConcat ==
  ASSUME NEW x \in Seq(Packet), NEW y \in Seq(Packet), NEW T, NEW m, NEW n,
         Gives(x, T, m), Gives(y, T, n)
  PROVE  Gives(x \o y, T, m + n)
  <1>1. m \in Nat /\ n \in Nat
    BY DEF Gives
  <1>2. ASSUME NEW w \in Seq(Packet) PROVE Load(w \o (x \o y), 1, T) = Load(w, 1, T) + (m + n)
    <2>1. (w \o x) \o y = w \o (x \o y)
      BY ConcatTwice
    <2>2. PICK u \in Seq(Packet) : u = w \o x
      BY ConcatFacts
    <2>3. Load(u \o y, 1, T) = Load(u, 1, T) + n
      BY DEF Gives
    <2>4. Load(u, 1, T) = Load(w, 1, T) + m
      BY <2>2 DEF Gives
    <2>5. Load(w, 1, T) \in Nat
      BY CellsFinite
    <2>6. PICK k \in Nat : k = Load(w, 1, T)
      BY <2>5
    <2>7. (k + m) + n = k + (m + n)
      BY <1>1
    <2>8. Load(u \o y, 1, T) = (k + m) + n
      BY <2>3, <2>4, <2>6, Zenon
    <2>9. u \o y = w \o (x \o y)
      BY <2>1, <2>2, Zenon
    <2> QED BY <2>6, <2>7, <2>8, <2>9, Zenon
  <1> QED BY <1>1, <1>2 DEF Gives

LEMMA GivesNothing == \A T : Gives(<<>>, T, 0)
  BY NoPacket, GivesNone

\* Packets an end sends, besides those that end the channel.
Grant(g) == [type |-> "WINDOW_ADJUST", body |-> g]

LEMMA GrantPacket ==
  ASSUME NEW g \in Nat
  PROVE  /\ Grant(g) \in Packet /\ <<Grant(g)>> \in Seq(Packet) /\ Ordered(<<Grant(g)>>)
         /\ \A T : Has(<<Grant(g)>>, T) <=> "WINDOW_ADJUST" \in T
         /\ Gives(<<Grant(g)>>, {"WINDOW_ADJUST"}, g) /\ Gives(<<Grant(g)>>, DataTypes, 0)
  <1>1. PICK p : p = Grant(g)
    OBVIOUS
  <1>2. p \in Packet /\ p.type = "WINDOW_ADJUST" /\ p.body = g
    BY <1>1, APacket DEF Grant, Control
  <1>3. Amount(p) = g
    BY <1>2 DEF Amount
  <1>4. <<p>> \in Seq(Packet) /\ Ordered(<<p>>) /\ \A T : Has(<<p>>, T) <=> "WINDOW_ADJUST" \in T
    BY <1>2, OnePacket
  <1>5. Gives(<<p>>, {"WINDOW_ADJUST"}, g)
    BY <1>2, <1>3, GivesOne
  <1>6. Gives(<<p>>, DataTypes, 0)
    BY <1>4, GivesNone DEF DataTypes
  <1> QED BY <1>1, <1>2, <1>4, <1>5, <1>6

-----------------------------------------------------------------------------
(* Data that arrives.                                                      *)

\* q grants g, or is empty.
Grants(q, g) == g \in Nat /\ ((g = 0 /\ q = <<>>) \/ q = <<Grant(g)>>)

LEMMA GrantsFacts ==
  ASSUME NEW q, NEW g, Grants(q, g)
  PROVE  /\ q \in Seq(Packet) /\ Ordered(q) /\ g \in Nat
         /\ Gives(q, {"WINDOW_ADJUST"}, g) /\ Gives(q, DataTypes, 0)
         /\ \A T : "WINDOW_ADJUST" \notin T => ~Has(q, T)
  BY GrantPacket, NoPacket, GivesNothing DEF Grants

Adjusted(e, c, t, q, g) ==
    /\ IsChannel(e, t) /\ Same(c, t, {"out", "recvwindow", "recvdonelen"})
    /\ Grants(q, g) /\ t.out = c.out \o q
    /\ t.recvwindow = c.recvwindow + g /\ t.recvdonelen + g = c.recvdonelen

LEMMA Adjusts ==
  ASSUME NEW e \in End, NEW c, IsChannel(e, c)
  PROVE  \E q, g : Adjusted(e, c, WindowAdjusted(e, c), q, g)
  <1>0. /\ DOMAIN c = Fields /\ c.out \in Seq(Packet)
        /\ c.recvwindow \in Nat /\ c.recvdonelen \in Nat
    BY ChannelFields
  <1>1. PICK t : t = WindowAdjusted(e, c)
    OBVIOUS
  <1>2. CASE c.recvdonelen >= RECV_WINDOWEXTEND(e)
    <2>1. PICK g \in Nat : g = c.recvdonelen
      BY <1>0
    <2>2. PICK u : u = Send(c, "WINDOW_ADJUST", g)
      OBVIOUS
    <2>3. [type |-> "WINDOW_ADJUST", body |-> g] \in Packet
      BY GrantPacket DEF Grant
    <2>4. IsChannel(e, u) /\ Same(c, u, {"out"}) /\ u.out = c.out \o <<Grant(g)>>
      BY <2>2, <2>3, SendPacket DEF Grant
    <2>5. DOMAIN u = Fields /\ u.recvwindow = c.recvwindow
      BY <2>4, ChannelFields DEF Same, Fields, Counters
    <2>6. t = [u EXCEPT !.recvwindow = @ + g, !.recvdonelen = 0]
      BY <1>1, <1>2, <2>1, <2>2 DEF WindowAdjusted
    <2>7. /\ Same(u, t, {"recvwindow", "recvdonelen"}) /\ t.out = u.out
          /\ t.recvwindow = c.recvwindow + g /\ t.recvdonelen = 0
      BY <2>5, <2>6 DEF Same, Fields, Fds, Flags, Counters
    <2>8. \A f \in {"recvwindow", "recvdonelen"} : HasType(e, f, t[f])
      BY <1>0, <2>7 DEF HasType, Fds, Flags, Counters
    <2>9. IsChannel(e, t)
      BY <2>4, <2>7, <2>8, SameType
    <2>10. Same(c, t, {"out", "recvwindow", "recvdonelen"})
      BY <2>4, <2>7 DEF Same
    <2>11. Grants(<<Grant(g)>>, g)
      BY DEF Grants
    <2>12. t.recvdonelen + g = c.recvdonelen
      BY <2>1, <2>7
    <2>13. Adjusted(e, c, t, <<Grant(g)>>, g)
      BY <2>4, <2>7, <2>9, <2>10, <2>11, <2>12 DEF Adjusted
    <2> QED BY <1>1, <2>13
  <1>3. CASE ~(c.recvdonelen >= RECV_WINDOWEXTEND(e))
    <2>1. t = c
      BY <1>1, <1>3 DEF WindowAdjusted
    <2>2. c.out \o <<>> = c.out
      BY <1>0, ConcatEmptySeq
    <2>3. Grants(<<>>, 0) /\ Same(c, c, {"out", "recvwindow", "recvdonelen"})
      BY <1>0 DEF Grants, Same
    <2>4. c.recvwindow = c.recvwindow + 0 /\ c.recvdonelen + 0 = c.recvdonelen
      BY <1>0
    <2>5. Adjusted(e, c, c, <<>>, 0)
      BY <2>2, <2>3, <2>4 DEF Adjusted
    <2> QED BY <1>1, <2>1, <2>5
  <1> QED BY <1>2, <1>3

\* The sum of what may come and what is there, after n blocks were written of
\* which r were in the buffer.
SumsOK(R, rw, u, o, l, n, r, g, rd2) ==
    /\ rw + g <= R /\ rw + g <= R - (u - r) /\ rw + g <= R - o
    /\ (rw + g) + rd2 + (u - r) + o + (l - (n - r)) <= R
    /\ r <= u /\ r <= n /\ n - r <= l /\ n - r >= 0
    /\ Lesser(l, (u + l) - n) = l - (n - r)
    /\ l - (n - r) \in Nat /\ (u - r) + (l - (n - r)) <= R

LEMMA Sums ==
  ASSUME NEW R \in Nat, NEW rw \in Nat, NEW rd \in Nat, NEW u \in Nat, NEW o \in Nat,
         NEW l \in Nat, NEW n \in Nat, NEW r \in Nat, NEW g \in Nat, NEW rd2 \in Nat,
         rw + rd + u + o + l <= R, n <= u + l, r = Lesser(u, n), rd2 + g = rd + n
  PROVE  SumsOK(R, rw, u, o, l, n, r, g, rd2)
  BY DEF Lesser, SumsOK

\* writechannel() of n blocks of the buffer and of what just came.
Wrote(e, c, t, f, more, n, q, g) ==
    /\ IsChannel(e, t)
    /\ Same(c, t, {buffer(f), "recvdonelen", "recvwindow", "out", "put"})
    /\ Grants(q, g) /\ t.out = c.out \o q
    /\ t.recvwindow = c.recvwindow + g /\ t.recvdonelen + g = c.recvdonelen + n
    /\ t[buffer(f)] = cbuf_incrread(c[buffer(f)], Lesser(c[buffer(f)].used, n))
    /\ t.put = SubSeq(cbuf_readptrs(c[buffer(f)]) \o more, 1, n)

LEMMA Writes ==
  ASSUME NEW e \in End, NEW c, IsChannel(e, c), NEW f \in Stream, NEW more \in Seq(Nat),
         NEW n \in Nat, n <= c[buffer(f)].used + Len(more),
         c.recvwindow + c.recvdonelen + c.writebuf.used + c.extrabuf.used + Len(more) <= recv_window(e)
  PROVE  \E q, g : Wrote(e, c, writechannel(e, c, f, more, n), f, more, n, q, g)
  <1>0. /\ DOMAIN c = Fields /\ c.out \in Seq(Packet) /\ IsBuffer(e, c.writebuf) /\ IsBuffer(e, c.extrabuf)
        /\ c.recvwindow \in Nat /\ c.recvdonelen \in Nat
    BY ChannelFields
  <1>k. PICK k : k = buffer(f)
    OBVIOUS
  <1>1. k \in {"writebuf", "extrabuf"} /\ k \in Fields
    BY <1>k DEF buffer, Fields
  <1>2. PICK b : b = c[k]
    OBVIOUS
  <1>3. IsBuffer(e, b) /\ b.used \in Nat /\ b.size = recv_window(e)
    BY <1>0, <1>1, <1>2, BufferFacts
  <1>4. PICK r \in Nat : r = Lesser(b.used, n)
    BY <1>3 DEF Lesser
  <1>5. PICK b2 : b2 = cbuf_incrread(b, r)
    OBVIOUS
  <1>6. IsBuffer(e, b2) /\ b2.used = b.used - r /\ r \in 0..b.used
    <2>1. r \in 0..b.used
      BY <1>3, <1>4 DEF Lesser
    <2> QED BY <1>3, <1>5, <2>1, BufferRead
  <1>7. PICK p : p = SubSeq(cbuf_readptrs(b) \o more, 1, n)
    OBVIOUS
  <1>8. p \in Seq(Nat)
    <2>1. cbuf_readptrs(b) \in Seq(Nat) /\ Len(cbuf_readptrs(b)) = b.used
      BY <1>3, BufferPointers
    <2>0. PICK x \in Seq(Nat) : x = cbuf_readptrs(b)
      BY <2>1
    <2>2. PICK s \in Seq(Nat) : s = x \o more
      BY ConcatFacts
    <2>3. Len(s) = Len(x) + Len(more)
      BY <2>2, ConcatFacts
    <2>4. 0 <= n /\ n <= Len(s) /\ s = cbuf_readptrs(b) \o more
      BY <1>k, <1>2, <2>0, <2>1, <2>2, <2>3
    <2>5. SubSeq(s, 1, n) \in Seq(Nat)
      <3>1. SubSeq(s, 0 + 1, n) \in Seq(Nat) /\ 0 + 1 = 1
        BY <2>4, Pieces
      <3> QED BY <3>1
    <2> QED BY <1>7, <2>4, <2>5, Zenon
  <1>9. PICK d : d = [c EXCEPT ![k] = b2, !.recvdonelen = @ + n, !.put = p]
    OBVIOUS
  <1>10. /\ Same(c, d, {k, "recvdonelen", "put"}) /\ d[k] = b2
         /\ d.recvdonelen = c.recvdonelen + n /\ d.put = p
         /\ d.out = c.out /\ d.recvwindow = c.recvwindow
    BY <1>0, <1>1, <1>9 DEF Same, Fields, Fds, Flags, Counters
  <1>11. IsChannel(e, d)
    <2>1. \A x \in {k, "recvdonelen", "put"} : HasType(e, x, d[x])
      BY <1>0, <1>1, <1>6, <1>8, <1>10 DEF HasType, Fds, Flags, Counters
    <2> QED BY <1>10, <2>1, SameType
  <1>12. PICK a : a = WindowAdjusted(e, d)
    OBVIOUS
  <1>13. PICK q, g : Adjusted(e, d, a, q, g)
    BY <1>11, <1>12, Adjusts
  <1>14. /\ IsChannel(e, a) /\ Same(d, a, {"out", "recvwindow", "recvdonelen"})
         /\ Grants(q, g) /\ a.out = d.out \o q /\ g \in Nat
         /\ a.recvwindow = d.recvwindow + g /\ a.recvdonelen + g = d.recvdonelen
    BY <1>13 DEF Adjusted, Grants
  <1>15. /\ a[k] = b2 /\ a.put = p /\ a.recvdonelen \in Nat /\ a.recvwindow \in Nat
         /\ Same(c, a, {k, "recvdonelen", "recvwindow", "out", "put"})
    BY <1>1, <1>10, <1>14, ChannelFields DEF Same, Fields, Fds, Flags, Counters
  <1>16. WindowConsistent(e, a)
    <2>1. PICK o \in Nat : o = IF k = "writebuf" THEN c.extrabuf.used ELSE c.writebuf.used
      BY BufferUsed
    <2>2. c.writebuf.used + c.extrabuf.used = b.used + o /\ c.writebuf.used \in Nat /\ c.extrabuf.used \in Nat
      BY <1>1, <1>2, <2>1, BufferUsed
    <2>3. PICK l \in Nat : l = Len(more)
      OBVIOUS
    <2>4. PICK R \in Nat : R = recv_window(e)
      BY Windows
    <2>a. PICK rw \in Nat, rd \in Nat, u \in Nat, w \in Nat, x \in Nat, rd2 \in Nat :
             /\ rw = c.recvwindow /\ rd = c.recvdonelen /\ u = b.used
             /\ w = c.writebuf.used /\ x = c.extrabuf.used /\ rd2 = a.recvdonelen
      BY <1>0, <1>3, <1>15, <2>2
    <2>b. rw + rd + w + x + l <= R /\ w + x = u + o
      BY <2>2, <2>3, <2>4, <2>a
    <2>5. rw + rd + u + o + l <= R
      BY <2>b, SMT
    <2>6. n <= u + l /\ rd2 + g = rd + n /\ r = Lesser(u, n)
      BY <1>k, <1>2, <1>4, <1>10, <1>14, <2>3, <2>a
    <2>c. rw + g <= R /\ rw + g <= R - (u - r) /\ rw + g <= R - o
      <3>1. SumsOK(R, rw, u, o, l, n, r, g, rd2)
        BY <1>14, <2>5, <2>6, Sums
      <3> QED BY <3>1 DEF SumsOK
    <2>7. /\ c.recvwindow + g <= R /\ c.recvwindow + g <= R - (b.used - r)
          /\ c.recvwindow + g <= R - o
      BY <2>a, <2>c
    <2>8. CASE k = "writebuf"
      <3>1. a.writebuf = b2 /\ a.extrabuf = c.extrabuf /\ c.extrabuf.size = R
        BY <1>0, <1>15, <2>4, <2>8, BufferFacts DEF Same, Fields
      <3>2. b2.size = R /\ o = c.extrabuf.used
        BY <1>6, <2>1, <2>4, <2>8, BufferFacts
      <3> QED BY <1>6, <1>10, <1>14, <2>4, <2>7, <3>1, <3>2 DEF WindowConsistent, cbuf_getavail
    <2>9. CASE k = "extrabuf"
      <3>1. a.extrabuf = b2 /\ a.writebuf = c.writebuf /\ c.writebuf.size = R
        BY <1>0, <1>15, <2>4, <2>9, BufferFacts DEF Same, Fields
      <3>2. b2.size = R /\ o = c.writebuf.used
        BY <1>6, <2>1, <2>4, <2>9, BufferFacts
      <3> QED BY <1>6, <1>10, <1>14, <2>4, <2>7, <3>1, <3>2 DEF WindowConsistent, cbuf_getavail
    <2> QED BY <1>1, <2>8, <2>9
  <1>17. a = writechannel(e, c, f, more, n)
    BY <1>k, <1>2, <1>4, <1>5, <1>7, <1>9, <1>12, <1>16 DEF writechannel
  <1>18. Wrote(e, c, a, f, more, n, q, g)
    BY <1>k, <1>2, <1>4, <1>5, <1>7, <1>10, <1>14, <1>15 DEF Wrote
  <1> QED BY <1>17, <1>18

\* Block i of what is in the buffer and of what comes after it; and that all of
\* it was put out, or is in the buffer b2, in order.
Flow(b, more, i) == IF i <= b.used THEN Content(b, i) ELSE more[i - b.used]
Moved(b, more, put, b2) ==
    /\ put \in Seq(Nat) /\ Len(put) + b2.used = b.used + Len(more)
    /\ \A i \in 1..Len(put) : put[i] = Flow(b, more, i)
    /\ \A i \in 1..b2.used : Content(b2, i) = Flow(b, more, Len(put) + i)

LEMMA PutOut ==
  ASSUME NEW e \in End, NEW b, IsBuffer(e, b), NEW more \in Seq(Nat), NEW n \in Nat,
         n <= b.used + Len(more)
  PROVE  LET p == SubSeq(cbuf_readptrs(b) \o more, 1, n)
         IN  p \in Seq(Nat) /\ Len(p) = n /\ \A i \in 1..n : p[i] = Flow(b, more, i)
  <1>1. PICK x \in Seq(Nat) : x = cbuf_readptrs(b)
    BY BufferPointers
  <1>2. Len(x) = b.used /\ b.used \in Nat /\ \A i \in 1..b.used : x[i] = Content(b, i)
    BY <1>1, BufferPointers, BufferFacts
  <1>3. PICK s \in Seq(Nat) : s = x \o more
    BY ConcatFacts
  <1>4. /\ Len(s) = Len(x) + Len(more) /\ Len(more) \in Nat
        /\ \A i \in 1..Len(x) : s[i] = x[i]
        /\ \A i \in (Len(x) + 1)..(Len(x) + Len(more)) : s[i] = more[i - Len(x)]
    BY <1>3, ConcatFacts
  <1>5. PICK p : p = SubSeq(s, 1, n)
    OBVIOUS
  <1>6. p \in Seq(Nat) /\ Len(p) = n /\ \A i \in 1..n : p[i] = s[i]
    <2>1. 0 <= n /\ n <= Len(s)
      BY <1>2, <1>4
    <2>2. /\ SubSeq(s, 0 + 1, n) \in Seq(Nat) /\ Len(SubSeq(s, 0 + 1, n)) = n - 0
          /\ \A i \in 1..(n - 0) : SubSeq(s, 0 + 1, n)[i] = s[0 + i]
      BY <2>1, Pieces
    <2>3. 0 + 1 = 1 /\ n - 0 = n /\ \A i \in 1..n : 0 + i = i
      OBVIOUS
    <2> QED BY <1>5, <2>2, <2>3
  <1>7. ASSUME NEW i \in 1..n PROVE s[i] = Flow(b, more, i)
    <2>1. CASE i <= b.used
      <3>1. i \in 1..b.used
        BY <1>2, <2>1
      <3> QED BY <1>2, <1>4, <2>1, <3>1 DEF Flow
    <2>2. CASE ~(i <= b.used)
      <3>1. i \in (Len(x) + 1)..(Len(x) + Len(more))
        BY <1>2, <1>4, <2>2
      <3> QED BY <1>2, <1>4, <2>2, <3>1 DEF Flow
    <2> QED BY <2>1, <2>2
  <1> QED BY <1>1, <1>3, <1>5, <1>6, <1>7, Zenon

\* Only what is in the buffer is written.
LEMMA MovedOut ==
  ASSUME NEW e \in End, NEW b, IsBuffer(e, b), NEW n \in Nat, n <= b.used
  PROVE  Moved(b, <<>>, SubSeq(cbuf_readptrs(b) \o <<>>, 1, n), cbuf_incrread(b, Lesser(b.used, n)))
  <1>1. PICK p : p = SubSeq(cbuf_readptrs(b) \o <<>>, 1, n)
    OBVIOUS
  <1>2. PICK b2 : b2 = cbuf_incrread(b, n)
    OBVIOUS
  <1>3. b.used \in Nat /\ Len(<<>>) = 0 /\ Lesser(b.used, n) = n /\ n \in 0..b.used
    BY BufferFacts DEF Lesser
  <1>4. b2.used = b.used - n /\ \A i \in 1..b2.used : Content(b2, i) = Content(b, i + n)
    BY <1>2, <1>3, BufferRead
  <1>5. p \in Seq(Nat) /\ Len(p) = n /\ \A i \in 1..n : p[i] = Flow(b, <<>>, i)
    <2>0. <<>> \in Seq(Nat)
      OBVIOUS
    <2>1. PICK z \in Seq(Nat) : z = <<>>
      BY <2>0, Zenon
    <2>2. n <= b.used + Len(z)
      BY <1>3, <2>1
    <2> QED BY <1>1, <2>1, <2>2, PutOut
  <1>6. ASSUME NEW i \in 1..b2.used PROVE Content(b2, i) = Flow(b, <<>>, n + i)
    <2>1. n + i = i + n /\ i + n <= b.used
      BY <1>3, <1>4
    <2> QED BY <1>4, <2>1 DEF Flow
  <1>7. Len(p) + b2.used = b.used + Len(<<>>)
    BY <1>3, <1>4, <1>5
  <1>8. Moved(b, <<>>, p, b2)
    BY <1>5, <1>6, <1>7 DEF Moved
  <1> QED BY <1>1, <1>2, <1>3, <1>8

\* Of u blocks in the buffer and l that came n were written, r of those in the
\* buffer, and k of the others are kept.
SplitOK(l, u, n, r, k) ==
    /\ r <= u /\ r <= n /\ k <= l /\ l - k = n - r /\ (r = n \/ r = u) /\ n <= u + l
    /\ n + ((u - r) + k) = u + l /\ r \in 0..u /\ l - k \in Nat /\ l - (l - k) = k
    /\ \A i \in 1..((u - r) + k) :
          /\ i <= u - r => r = n /\ i \in 1..(u - r) /\ i + r = n + i /\ n + i <= u
          /\ ~(i <= u - r) => \E j \in 1..k : /\ i = (u - r) + j /\ ~(n + i <= u)
                                             /\ (n + i) - u = (l - k) + j

LEMMA Split ==
  ASSUME NEW l \in Nat, NEW u \in Nat, NEW n \in Nat, NEW r \in Nat, NEW k \in Nat,
         n <= u + l, r = Lesser(u, n), k = l - (n - r)
  PROVE  SplitOK(l, u, n, r, k)
  <1>1. /\ r <= u /\ r <= n /\ k <= l /\ l - k = n - r /\ (r = n \/ r = u) /\ n <= u + l
        /\ n + ((u - r) + k) = u + l /\ r \in 0..u /\ l - k \in Nat /\ l - (l - k) = k
    BY DEF Lesser
  <1>2. ASSUME NEW i \in 1..((u - r) + k)
        PROVE  /\ i <= u - r => r = n /\ i \in 1..(u - r) /\ i + r = n + i /\ n + i <= u
               /\ ~(i <= u - r) => \E j \in 1..k : /\ i = (u - r) + j /\ ~(n + i <= u)
                                                  /\ (n + i) - u = (l - k) + j
    <2>0. i \in Nat /\ i >= 1 /\ i <= (u - r) + k
      BY <1>1
    <2>1. ASSUME i <= u - r
          PROVE  r = n /\ i \in 1..(u - r) /\ i + r = n + i /\ n + i <= u
      <3>1. r = n
        BY <1>1, <2>0, <2>1
      <3> QED BY <1>1, <2>0, <2>1, <3>1
    <2>2. ASSUME ~(i <= u - r)
          PROVE  \E j \in 1..k : i = (u - r) + j /\ ~(n + i <= u) /\ (n + i) - u = (l - k) + j
      <3>1. PICK j \in Int, d \in Int : d = u - r /\ j = i - d
        OBVIOUS
      <3>4. i > d /\ i <= d + k /\ n - r = l - k
        BY <1>1, <2>0, <2>2, <3>1
      <3>2. j \in 1..k /\ i = (u - r) + j
        BY <2>0, <3>1, <3>4
      <3>3. ~(n + i <= u) /\ (n + i) - u = (l - k) + j
        <4>1. n >= r
          BY <1>1
        <4>2. n + i > r + d /\ r + d = u
          BY <2>0, <3>1, <3>4, <4>1
        <4>3. (n + i) - u = (n - r) + j
          BY <2>0, <3>1
        <4> QED BY <2>0, <3>4, <4>2, <4>3
      <3> QED BY <3>2, <3>3
    <2> QED BY <2>1, <2>2
  <1> QED BY <1>1, <1>2 DEF SplitOK

\* The rest of what came goes into the buffer.
KeptRest(e, b, more, n, r, k) ==
    LET b3 == cbuf_write(cbuf_incrread(b, r), SubSeq(more, Len(more) - k + 1, Len(more)))
    IN  /\ IsBuffer(e, b3) /\ b3.used = (b.used - r) + k
        /\ Moved(b, more, SubSeq(cbuf_readptrs(b) \o more, 1, n), b3)

LEMMA MovedIn ==
  ASSUME NEW e \in End, NEW b, IsBuffer(e, b), NEW more \in Seq(Nat), NEW n \in Nat,
         n <= b.used + Len(more), NEW r \in Nat, r = Lesser(b.used, n),
         (b.used - r) + (Len(more) - (n - r)) <= recv_window(e),
         NEW k \in Nat, k = Len(more) - (n - r)
  PROVE  KeptRest(e, b, more, n, r, k)
  <1>1. PICK p : p = SubSeq(cbuf_readptrs(b) \o more, 1, n)
    OBVIOUS
  <1>2. PICK l \in Nat, u \in Nat : l = Len(more) /\ u = b.used
    BY BufferFacts
  <1>a. n <= u + l /\ r = Lesser(u, n) /\ k = l - (n - r)
    BY <1>2, Zenon
  <1>b. SplitOK(l, u, n, r, k)
    BY <1>a, Split
  <1>3. /\ r \in 0..u /\ n + ((u - r) + k) = u + l /\ l - k \in Nat /\ l - (l - k) = k /\ k <= l
    BY <1>b DEF SplitOK
  <1>4. PICK b2 : b2 = cbuf_incrread(b, r)
    OBVIOUS
  <1>5. /\ IsBuffer(e, b2) /\ b2.used = u - r /\ b2.size = recv_window(e)
        /\ \A i \in 1..(u - r) : Content(b2, i) = Content(b, i + r)
    <2>1. r \in 0..b.used
      BY <1>2, <1>3, Zenon
    <2>2. /\ IsBuffer(e, b2) /\ b2.used = b.used - r
          /\ \A i \in 1..b2.used : Content(b2, i) = Content(b, i + r)
      BY <1>4, <2>1, BufferRead
    <2>3. b2.size = recv_window(e)
      BY <2>2, BufferFacts
    <2> QED BY <1>2, <2>2, <2>3, Zenon
  <1>6. PICK z : z = SubSeq(more, l - k + 1, l)
    OBVIOUS
  <1>7. z \in Seq(Nat) /\ Len(z) = k /\ \A i \in 1..k : z[i] = more[(l - k) + i]
    <2>1. PICK m \in Nat : m = l - k
      BY <1>3
    <2>2. m <= l /\ l <= Len(more) /\ l - m = k
      BY <1>2, <1>3, <2>1
    <2>3. /\ SubSeq(more, m + 1, l) \in Seq(Nat) /\ Len(SubSeq(more, m + 1, l)) = l - m
          /\ \A i \in 1..(l - m) : SubSeq(more, m + 1, l)[i] = more[m + i]
      BY <2>2, Pieces
    <2> QED BY <1>6, <2>1, <2>2, <2>3
  <1>8. PICK b3 : b3 = cbuf_write(b2, z)
    OBVIOUS
  <1>9. /\ IsBuffer(e, b3) /\ b3.used = (u - r) + k
        /\ \A i \in 1..(u - r) : Content(b3, i) = Content(b2, i)
        /\ \A i \in 1..k : Content(b3, (u - r) + i) = z[i]
    <2>0. (u - r) + k <= recv_window(e) /\ recv_window(e) \in Nat
      BY <1>2, Windows
    <2>1. Fits(b2, z)
      <3>1. k <= recv_window(e) - (u - r)
        BY <2>0
      <3> QED BY <1>5, <1>7, <3>1 DEF Fits, cbuf_getavail
    <2>2. /\ IsBuffer(e, b3) /\ b3.used = b2.used + Len(z)
          /\ \A i \in 1..b2.used : Content(b3, i) = Content(b2, i)
          /\ \A i \in 1..Len(z) : Content(b3, b2.used + i) = z[i]
      BY <1>5, <1>7, <1>8, <2>1, BufferWrite
    <2> QED BY <1>5, <1>7, <2>2, Zenon
  <1>10. p \in Seq(Nat) /\ Len(p) = n /\ \A i \in 1..n : p[i] = Flow(b, more, i)
    BY <1>1, PutOut
  <1>11. ASSUME NEW i \in 1..((u - r) + k) PROVE Content(b3, i) = Flow(b, more, n + i)
    <2>1. CASE i <= u - r
      <3>1. r = n /\ i \in 1..(u - r) /\ i + r = n + i /\ n + i <= b.used
        BY <1>2, <1>b, <2>1 DEF SplitOK
      <3> QED BY <1>5, <1>9, <3>1 DEF Flow
    <2>2. CASE ~(i <= u - r)
      <3>1. PICK j \in 1..k : i = (u - r) + j /\ ~(n + i <= u) /\ (n + i) - u = (l - k) + j
        BY <1>b, <2>2 DEF SplitOK
      <3>2. Flow(b, more, n + i) = more[(l - k) + j]
        BY <1>2, <3>1 DEF Flow
      <3> QED BY <1>7, <1>9, <3>1, <3>2
    <2> QED BY <2>1, <2>2
  <1>12. Len(p) + b3.used = b.used + Len(more)
    BY <1>2, <1>3, <1>9, <1>10, Zenon
  <1>13. Moved(b, more, p, b3)
    BY <1>9, <1>10, <1>11, <1>12, Zenon DEF Moved
  <1> QED BY <1>1, <1>2, <1>4, <1>6, <1>8, <1>9, <1>13, Zenon DEF KeptRest

\* A handler of data changes neither flags nor descriptors.
DataFields == Counters \cup {"writebuf", "extrabuf", "out", "put"}

LEMMA SameData ==
  ASSUME NEW c, NEW t, NEW F, Same(c, t, F), F \subseteq DataFields
  PROVE  /\ t.present = c.present /\ t.recv_eof = c.recv_eof /\ t.recv_close = c.recv_close
         /\ t.sent_eof = c.sent_eof /\ t.sent_close = c.sent_close /\ t.flushing = c.flushing
         /\ t.errIsWrite = c.errIsWrite /\ t.pid = c.pid /\ t.exitpid = c.exitpid
         /\ t.await_open = c.await_open /\ t.died = c.died
         /\ t.readfd = c.readfd /\ t.writefd = c.writefd /\ t.errfd = c.errfd
         /\ Same(c, t, DataFields)
         /\ "transwindow" \notin F => t.transwindow = c.transwindow
         /\ "recvwindow" \notin F => t.recvwindow = c.recvwindow
         /\ "recvdonelen" \notin F => t.recvdonelen = c.recvdonelen
         /\ "writebuf" \notin F => t.writebuf = c.writebuf
         /\ "extrabuf" \notin F => t.extrabuf = c.extrabuf
         /\ "out" \notin F => t.out = c.out
         /\ "put" \notin F => t.put = c.put
  BY DEF Same, Fields, DataFields, Fds, Flags, Counters

LEMMA SameUse ==
  ASSUME NEW e, NEW c, NEW t, NEW F, Same(c, t, F), F \subseteq DataFields, InUse(e, c), Room(e, t)
  PROVE  InUse(e, t)
  <1>1. /\ t.present = c.present /\ t.recv_eof = c.recv_eof /\ t.recv_close = c.recv_close
        /\ t.sent_eof = c.sent_eof /\ t.sent_close = c.sent_close /\ t.flushing = c.flushing
        /\ t.errIsWrite = c.errIsWrite /\ t.pid = c.pid /\ t.exitpid = c.exitpid
        /\ t.await_open = c.await_open /\ t.died = c.died
        /\ t.readfd = c.readfd /\ t.writefd = c.writefd /\ t.errfd = c.errfd
    BY SameData
  <1>2. FdsOK(e, t)
    BY <1>1 DEF InUse, FdsOK
  <1>3. Flagged(t)
    BY <1>1 DEF InUse, Flagged, NoMoreToSend
  <1> QED BY <1>1, <1>2, <1>3 DEF InUse

LEMMA RoomConsistent ==
  ASSUME NEW e \in End, NEW c, IsChannel(e, c), Room(e, c)
  PROVE  WindowConsistent(e, c)
  <1>1. PICK R \in Nat, rw \in Nat, rd \in Nat, w \in Nat, x \in Nat :
           /\ R = recv_window(e) /\ rw = c.recvwindow /\ rd = c.recvdonelen
           /\ w = c.writebuf.used /\ x = c.extrabuf.used
    BY Windows, ChannelFields, BufferUsed
  <1>2. c.writebuf.size = R /\ c.extrabuf.size = R
    BY <1>1, ChannelFields, BufferFacts
  <1>3. rw + rd + w + x <= R
    BY <1>1 DEF Room
  <1>4. rw <= R /\ rw <= R - w /\ rw <= R - x
    BY <1>3
  <1> QED BY <1>1, <1>2, <1>4 DEF WindowConsistent, cbuf_getavail

LEMMA LessWindow ==
  ASSUME NEW e \in End, NEW c, IsChannel(e, c), InUse(e, c), NEW k \in Nat, k <= c.recvwindow
  PROVE  LET a == [c EXCEPT !.recvwindow = @ - k]
         IN  /\ IsChannel(e, a) /\ InUse(e, a) /\ Same(c, a, {"recvwindow"})
             /\ a.recvwindow = c.recvwindow - k
             /\ a.recvwindow + a.recvdonelen + a.writebuf.used + a.extrabuf.used + k <= recv_window(e)
  <1>1. PICK a : a = [c EXCEPT !.recvwindow = @ - k]
    OBVIOUS
  <1>2. PICK R \in Nat, rw \in Nat, rd \in Nat, w \in Nat, x \in Nat :
           /\ R = recv_window(e) /\ rw = c.recvwindow /\ rd = c.recvdonelen
           /\ w = c.writebuf.used /\ x = c.extrabuf.used
    BY Windows, ChannelFields, BufferUsed
  <1>3. DOMAIN c = Fields
    BY ChannelFields
  <1>4. Same(c, a, {"recvwindow"}) /\ a.recvwindow = rw - k
    BY <1>1, <1>2, <1>3 DEF Same, Fields, Fds, Flags, Counters
  <1>5. rw - k \in Nat /\ (rw - k) + rd + w + x + k <= R /\ (rw - k) + rd + w + x <= R
    BY <1>2 DEF InUse, Room
  <1>6. \A f \in {"recvwindow"} : HasType(e, f, a[f])
    BY <1>4, <1>5 DEF HasType, Fds, Flags, Counters
  <1>7. IsChannel(e, a)
    BY <1>4, <1>6, SameType
  <1>8. a.recvdonelen = rd /\ a.writebuf.used = w /\ a.extrabuf.used = x
    BY <1>2, <1>4, SameData DEF DataFields, Counters
  <1>9. Room(e, a)
    BY <1>2, <1>4, <1>5, <1>8 DEF Room
  <1>10. InUse(e, a)
    BY <1>4, <1>9, SameUse DEF DataFields, Counters
  <1> QED BY <1>1, <1>2, <1>4, <1>5, <1>7, <1>8, <1>10

\* WindowAdjusted() of a channel in use.
LEMMA AdjustsInUse ==
  ASSUME NEW e \in End, NEW c, IsChannel(e, c), InUse(e, c), NEW t, NEW q, NEW g,
         Adjusted(e, c, t, q, g)
  PROVE  InUse(e, t) /\ WindowConsistent(e, t)
  <1>1. /\ IsChannel(e, t) /\ Same(c, t, {"out", "recvwindow", "recvdonelen"}) /\ g \in Nat
        /\ t.recvwindow = c.recvwindow + g /\ t.recvdonelen + g = c.recvdonelen
    BY DEF Adjusted, Grants
  <1>2. PICK R \in Nat, rw \in Nat, rd \in Nat, w \in Nat, x \in Nat, rd2 \in Nat :
           /\ R = recv_window(e) /\ rw = c.recvwindow /\ rd = c.recvdonelen
           /\ w = c.writebuf.used /\ x = c.extrabuf.used /\ rd2 = t.recvdonelen
    BY <1>1, Windows, ChannelFields, BufferUsed
  <1>3. t.writebuf = c.writebuf /\ t.extrabuf = c.extrabuf
    BY <1>1, SameData DEF DataFields, Counters
  <1>4. (rw + g) + rd2 + w + x <= R
    BY <1>1, <1>2 DEF InUse, Room
  <1>5. Room(e, t)
    BY <1>1, <1>2, <1>3, <1>4 DEF Room
  <1> QED BY <1>1, <1>5, RoomConsistent, SameUse DEF DataFields, Counters

\* A write that fails: the command has closed its stdin.
FailedWrite(c, t, q, g) ==
    /\ IsChannel("server", t) /\ InUse("server", t)
    /\ Same(c, t, Fds \cup {"out", "recvwindow", "recvdonelen"})
    /\ t.writefd = FD_CLOSED /\ t.readfd = c.readfd /\ t.errfd = c.errfd
    /\ Grants(q, g) /\ t.out = c.out \o q /\ t.recvwindow = c.recvwindow + g

LEMMA FailsWrite ==
  ASSUME NEW c, IsChannel("server", c), InUse("server", c), c.writefd >= 0
  PROVE  \E q, g : FailedWrite(c, writechannel_fails("server", c, "stdin"), q, g)
  <1>0. "server" \in End /\ c.writefd \in Int /\ Fd(c, "server", "stdin") = c.writefd
    BY ChannelFields DEF End, Fd, Source
  <1>1. PICK a : a = close_chan_fd(c, c.writefd)
    OBVIOUS
  <1>2. c.pid
    BY <1>0, ChannelFields DEF InUse, FdsOK, FD_UNINIT, FD_CLOSED
  <1>3. /\ IsChannel("server", a) /\ Same(c, a, Fds) /\ InUse("server", a)
        /\ a.writefd = FD_CLOSED /\ a.errfd = c.errfd /\ a.readfd = c.readfd
    BY <1>0, <1>1, <1>2, CloseWriteFd
  <1>4. a.out = c.out /\ a.recvwindow = c.recvwindow
    BY <1>3, SameClosing DEF ClosingFields, Fds
  <1>5. PICK t : t = WindowAdjusted("server", a)
    OBVIOUS
  <1>6. PICK q, g : Adjusted("server", a, t, q, g)
    BY <1>0, <1>3, <1>5, Adjusts
  <1>7. InUse("server", t) /\ WindowConsistent("server", t)
    BY <1>0, <1>3, <1>6, AdjustsInUse
  <1>8. /\ IsChannel("server", t) /\ Same(a, t, {"out", "recvwindow", "recvdonelen"})
        /\ Grants(q, g) /\ t.out = a.out \o q /\ t.recvwindow = a.recvwindow + g
    BY <1>6 DEF Adjusted
  <1>9. t.readfd = a.readfd /\ t.writefd = a.writefd /\ t.errfd = a.errfd
    BY <1>8, SameData DEF DataFields, Counters
  <1>10. Same(c, t, Fds \cup {"out", "recvwindow", "recvdonelen"})
    BY <1>3, <1>8 DEF Same
  <1>11. t = writechannel_fails("server", c, "stdin")
    BY <1>0, <1>1, <1>5, <1>7 DEF writechannel_fails
  <1>12. FailedWrite(c, t, q, g)
    BY <1>3, <1>4, <1>7, <1>8, <1>9, <1>10 DEF FailedWrite
  <1> QED BY <1>11, <1>12

\* Data that is accepted is written or kept.
Received(e, c, t, f, body, q, g) ==
    /\ IsChannel(e, t) /\ InUse(e, t)
    /\ Same(c, t, {buffer(f), "recvdonelen", "recvwindow", "out", "put"})
    /\ Grants(q, g) /\ t.out = c.out \o q
    /\ t.recvwindow + Len(body) = c.recvwindow + g
    /\ Moved(c[buffer(f)], body, t.put, t[buffer(f)])

LEMMA Receives ==
  ASSUME NEW e \in End, NEW c, IsChannel(e, c), InUse(e, c), NEW f \in Stream, NEW body \in Seq(Nat),
         ~c.recv_eof, Fd(c, e, f) >= 0, Len(body) <= c.recvwindow, ~snk[f].broken,
         NEW n \in Nat, n <= c[buffer(f)].used + Len(body)
  PROVE  \E q, g : Received(e, c, recv_data(e, c, f, body, n), f, body, q, g)
  <1>0. /\ DOMAIN c = Fields /\ IsBuffer(e, c.writebuf) /\ IsBuffer(e, c.extrabuf)
        /\ c.recvwindow \in Nat /\ c.recvdonelen \in Nat
    BY ChannelFields
  <1>k. PICK k : k = buffer(f)
    OBVIOUS
  <1>1. k \in {"writebuf", "extrabuf"} /\ k \in Fields
    BY <1>k DEF buffer, Fields
  <1>2. PICK b : b = c[k]
    OBVIOUS
  <1>3. IsBuffer(e, b) /\ b.used \in Nat /\ b.size = recv_window(e)
    BY <1>0, <1>1, <1>2, BufferFacts
  <1>4. PICK l \in Nat : l = Len(body)
    OBVIOUS
  <1>5. PICK a : a = [c EXCEPT !.recvwindow = @ - l]
    OBVIOUS
  <1>6. /\ IsChannel(e, a) /\ InUse(e, a) /\ Same(c, a, {"recvwindow"})
        /\ a.recvwindow = c.recvwindow - l
        /\ a.recvwindow + a.recvdonelen + a.writebuf.used + a.extrabuf.used + l <= recv_window(e)
    BY <1>4, <1>5, LessWindow
  <1>7. /\ a.recvdonelen = c.recvdonelen /\ a.writebuf = c.writebuf /\ a.extrabuf = c.extrabuf
        /\ a.out = c.out /\ a.put = c.put /\ a[k] = b /\ Fd(a, e, f) = Fd(c, e, f)
    BY <1>1, <1>2, <1>6, SameData DEF DataFields, Counters, Fd
  <1>8. PICK t : t = writechannel(e, a, f, body, n)
    OBVIOUS
  <1>9. PICK q, g : Wrote(e, a, t, f, body, n, q, g)
    <2>1. n <= a[buffer(f)].used + Len(body)
      BY <1>k, <1>2, <1>7
    <2> QED BY <1>4, <1>6, <1>8, <2>1, Writes
  <1>10. PICK r \in Nat : r = Lesser(b.used, n)
    BY <1>3 DEF Lesser
  <1>11. PICK b2 : b2 = cbuf_incrread(b, r)
    OBVIOUS
  <1>12. /\ IsChannel(e, t) /\ Same(a, t, {k, "recvdonelen", "recvwindow", "out", "put"})
         /\ Grants(q, g) /\ g \in Nat /\ t.out = a.out \o q
         /\ t.recvwindow = a.recvwindow + g /\ t.recvdonelen + g = a.recvdonelen + n
         /\ t[k] = b2 /\ t.put = SubSeq(cbuf_readptrs(b) \o body, 1, n)
    BY <1>k, <1>7, <1>9, <1>10, <1>11 DEF Wrote, Grants
  <1>13. PICK kk \in Int : kk = Lesser(l, (b.used + l) - n)
    BY <1>3 DEF Lesser
  <1>14. PICK R \in Nat, rw \in Nat, rd \in Nat, w \in Nat, x \in Nat, u \in Nat, rd2 \in Nat :
           /\ R = recv_window(e) /\ rw = a.recvwindow /\ rd = a.recvdonelen
           /\ w = a.writebuf.used /\ x = a.extrabuf.used /\ u = b.used /\ rd2 = t.recvdonelen
    BY <1>3, <1>6, <1>12, Windows, ChannelFields, BufferUsed
  <1>15. PICK o \in Nat : o = IF k = "writebuf" THEN x ELSE w
    BY <1>14
  <1>16. w + x = u + o
    BY <1>1, <1>2, <1>7, <1>14, <1>15
  <1>17. SumsOK(R, rw, u, o, l, n, r, g, rd2)
    <2>1. rw + rd + u + o + l <= R
      <3>1. rw + rd + w + x + l <= R
        BY <1>6, <1>14
      <3> QED BY <1>16, <3>1
    <2>2. n <= u + l /\ rd2 + g = rd + n /\ r = Lesser(u, n)
      BY <1>k, <1>2, <1>4, <1>10, <1>12, <1>14
    <2> QED BY <1>12, <2>1, <2>2, Sums
  <1>18. /\ (rw + g) + rd2 + (u - r) + o + (l - (n - r)) <= R
         /\ r <= u /\ r <= n /\ n - r <= l /\ n - r >= 0 /\ kk = l - (n - r)
    BY <1>13, <1>14, <1>17 DEF SumsOK
  <1>19. kk \in Nat /\ (u - r) + (l - (n - r)) <= R
    BY <1>17, <1>18 DEF SumsOK
  <1>20. PICK b3 : b3 = cbuf_write(b2, SubSeq(body, l - kk + 1, l))
    OBVIOUS
  <1>21. /\ IsBuffer(e, b3) /\ b3.used = (u - r) + kk
         /\ Moved(b, body, t.put, b3)
    <2>1. n <= b.used + Len(body) /\ r = Lesser(b.used, n) /\ kk = Len(body) - (n - r)
      BY <1>k, <1>2, <1>4, <1>10, <1>18, Zenon
    <2>2. (b.used - r) + (Len(body) - (n - r)) <= recv_window(e)
      BY <1>4, <1>14, <1>19, Zenon
    <2>3. PICK b4 : b4 = cbuf_write(cbuf_incrread(b, r), SubSeq(body, Len(body) - kk + 1, Len(body)))
      OBVIOUS
    <2>4. /\ IsBuffer(e, b4) /\ b4.used = (b.used - r) + kk
          /\ Moved(b, body, SubSeq(cbuf_readptrs(b) \o body, 1, n), b4)
      <3>1. KeptRest(e, b, body, n, r, kk)
        BY <1>3, <1>19, <2>1, <2>2, MovedIn
      <3> QED BY <2>3, <3>1, Zenon DEF KeptRest
    <2>5. b4 = b3
      BY <1>4, <1>11, <1>20, <2>3, Zenon
    <2> QED BY <1>12, <1>14, <2>4, <2>5, Zenon
  <1>22. PICK v : v = [t EXCEPT ![k] = b3]
    OBVIOUS
  <1>23. Same(t, v, {k}) /\ v[k] = b3 /\ DOMAIN t = Fields
    BY <1>1, <1>12, <1>22, ChannelFields DEF Same
  <1>24. IsChannel(e, v)
    <2>1. \A z \in {k} : HasType(e, z, v[z])
      BY <1>1, <1>21, <1>23 DEF HasType, Fds, Flags, Counters
    <2> QED BY <1>12, <1>23, <2>1, SameType
  <1>25. /\ v.put = t.put /\ v.out = t.out /\ v.recvwindow = t.recvwindow /\ v.recvdonelen = t.recvdonelen
    BY <1>1, <1>23 DEF Same, Fields, Counters
  <1>26. Same(c, v, {k, "recvdonelen", "recvwindow", "out", "put"})
    BY <1>6, <1>12, <1>23 DEF Same
  <1>27. Room(e, v)
    <2>1. v.recvwindow = rw + g /\ v.recvdonelen = rd2
      BY <1>12, <1>14, <1>25
    <2>2. (rw + g) + rd2 + ((u - r) + kk) + o <= R
      BY <1>12, <1>18
    <2>3. CASE k = "writebuf"
      <3>1. v.writebuf.used = (u - r) + kk /\ v.extrabuf.used = o
        BY <1>7, <1>14, <1>15, <1>21, <1>23, <1>26, <2>3 DEF Same, Fields
      <3> QED BY <1>14, <2>1, <2>2, <3>1 DEF Room
    <2>4. CASE k = "extrabuf"
      <3>1. v.extrabuf.used = (u - r) + kk /\ v.writebuf.used = o
        BY <1>7, <1>14, <1>15, <1>21, <1>23, <1>26, <2>4 DEF Same, Fields
      <3>2. (rw + g) + rd2 + o + ((u - r) + kk) <= R
        BY <1>12, <1>19, <2>2
      <3> QED BY <1>14, <2>1, <3>1, <3>2 DEF Room
    <2> QED BY <1>1, <2>3, <2>4
  <1>28. InUse(e, v)
    <2>1. PICK F : F = {k, "recvdonelen", "recvwindow", "out", "put"}
      OBVIOUS
    <2>2. F \subseteq DataFields /\ Same(c, v, F)
      BY <1>1, <1>26, <2>1 DEF DataFields, Counters
    <2> QED BY <1>27, <2>2, SameUse
  <1>29. v.recvwindow + Len(body) = c.recvwindow + g
    BY <1>0, <1>4, <1>6, <1>12, <1>25
  <1>30. Accepts(e, c, f, body)
    <2>1. WindowConsistent(e, a) /\ a.recvwindow + l = c.recvwindow
      BY <1>0, <1>6, RoomConsistent DEF InUse
    <2>2. l <= recv_window(e) - b.used
      <3>1. rw + rd + w + x + l <= R /\ u <= w + x
        BY <1>6, <1>14, <1>16
      <3>2. l <= R - u
        BY <3>1
      <3> QED BY <1>14, <3>2
    <2> QED BY <1>k, <1>2, <1>3, <1>4, <2>2 DEF Accepts, cbuf_getavail
  <1>31. v = recv_data(e, c, f, body, n)
    <2>1. CbufConsistent(t[k])
      BY <1>1, <1>12, ChannelFields, BufferConsistent
    <2>2. v = [t EXCEPT ![k] = cbuf_write(@, SubSeq(body, l - kk + 1, l))]
      BY <1>12, <1>20, <1>22
    <2>3. ~(Fd(c, e, f) < 0)
      BY ChannelFields DEF Fd
    <2>4. t = writechannel(e, [c EXCEPT !.recvwindow = @ - Len(body)], f, body, n)
      BY <1>4, <1>5, <1>8
    <2>5. kk = Lesser(Len(body), (c[buffer(f)].used + Len(body)) - n)
      BY <1>k, <1>2, <1>4, <1>13
    <2>6. recv_data(e, c, f, body, n) =
             [t EXCEPT ![buffer(f)] = cbuf_write(@, SubSeq(body, Len(body) - kk + 1, Len(body)))]
      BY <1>k, <1>30, <2>1, <2>3, <2>4, <2>5, Zenon DEF recv_data
    <2> QED BY <1>k, <1>4, <2>2, <2>6, Zenon
  <1>32. Received(e, c, v, f, body, q, g)
    BY <1>k, <1>2, <1>7, <1>12, <1>21, <1>23, <1>24, <1>25, <1>26, <1>28, <1>29 DEF Received
  <1> QED BY <1>31, <1>32

-----------------------------------------------------------------------------
(* Data that is sent.                                                      *)

DataType(f) == IF f = "stderr" THEN "EXTENDED_DATA" ELSE "DATA"
Blocks(r, m) == [i \in 1..m |-> r + i]
DataPacket(f, r, m) == [type |-> DataType(f), body |-> Blocks(r, m)]

LEMMA DataPackets ==
  ASSUME NEW f, NEW r \in Nat, NEW m \in Nat
  PROVE  LET p == DataPacket(f, r, m)
         IN  /\ p \in Packet /\ p.type = DataType(f) /\ p.body \in Seq(Nat) /\ Len(p.body) = m
             /\ \A i \in 1..m : p.body[i] = r + i
             /\ <<p>> \in Seq(Packet) /\ Ordered(<<p>>) /\ \A T : Has(<<p>>, T) <=> DataType(f) \in T
             /\ Gives(<<p>>, DataTypes, m) /\ Gives(<<p>>, {"WINDOW_ADJUST"}, 0)
  <1>1. PICK b : b = Blocks(r, m)
    OBVIOUS
  <1>2. b \in Seq(Nat) /\ Len(b) = m /\ \A i \in 1..m : b[i] = r + i
    BY <1>1 DEF Blocks
  <1>3. DataType(f) \in DataTypes /\ DataType(f) # "WINDOW_ADJUST"
    BY DEF DataType, DataTypes
  <1>4. PICK p : p = DataPacket(f, r, m)
    OBVIOUS
  <1>5. p \in Packet /\ p.type = DataType(f) /\ p.body = b
    BY <1>1, <1>2, <1>3, <1>4, APacket DEF DataPacket
  <1>6. Amount(p) = m
    BY <1>2, <1>3, <1>5 DEF Amount, DataTypes
  <1>7. <<p>> \in Seq(Packet) /\ Ordered(<<p>>) /\ \A T : Has(<<p>>, T) <=> DataType(f) \in T
    BY <1>5, OnePacket
  <1>8. Gives(<<p>>, DataTypes, m)
    BY <1>3, <1>5, <1>6, GivesOne
  <1>9. ~Has(<<p>>, {"WINDOW_ADJUST"})
    BY <1>3, <1>7
  <1>10. Gives(<<p>>, {"WINDOW_ADJUST"}, 0)
    BY <1>7, <1>9, GivesNone
  <1> QED BY <1>2, <1>4, <1>5, <1>7, <1>8, <1>10

\* A descriptor that can be read belongs to an end that may send.
LEMMA MaySend ==
  ASSUME NEW e \in End, NEW c, IsChannel(e, c), InUse(e, c), NEW f \in Stream, Source(f) = e,
         Fd(c, e, f) >= 0
  PROVE  /\ ~c.sent_eof /\ ~c.sent_close /\ (e = "server" => c.pid) /\ Fd(c, e, f) \in Int
         /\ Fd(c, e, f) = IF f = "stderr" THEN c.errfd ELSE c.readfd
         /\ f = "stdin" <=> e = "client"
  <1>0. c.readfd \in Int /\ c.writefd \in Int /\ c.errfd \in Int
    BY ChannelFields
  <1>1. /\ Fd(c, e, f) = IF f = "stderr" THEN c.errfd ELSE c.readfd
        /\ f = "stdin" <=> e = "client"
    BY DEF Fd, Source, Stream, End
  <1>2. ~NoMoreToSend(c)
    BY <1>0, <1>1 DEF NoMoreToSend, InUse, FdsOK, FD_CLOSED, FD_UNINIT, Stream, End
  <1>3. ~c.sent_eof /\ ~c.sent_close
    BY <1>2 DEF InUse, Flagged
  <1>4. e = "server" => c.pid
    BY <1>0, <1>1 DEF InUse, FdsOK, FD_CLOSED, FD_UNINIT
  <1> QED BY <1>0, <1>1, <1>3, <1>4

\* The end of a stream: its descriptor is closed.
Shut(e, c, b, f) ==
    /\ IsChannel(e, b) /\ InUse(e, b) /\ Same(c, b, Fds) /\ b.writefd = c.writefd
    /\ b.errfd = IF f = "stderr" THEN FD_CLOSED ELSE c.errfd
    /\ b.readfd = IF f = "stderr" THEN c.readfd ELSE FD_CLOSED

\* m blocks after the first r are sent.
SentBlocks(e, c, b, f, r, m) ==
    /\ IsChannel(e, b) /\ InUse(e, b) /\ Same(c, b, {"out", "transwindow"})
    /\ m \in Nat \ {0} /\ b.transwindow + m = c.transwindow
    /\ b.out = c.out \o <<DataPacket(f, r, m)>>

LEMMA SendsData ==
  ASSUME NEW e \in End, NEW c, IsChannel(e, c), InUse(e, c), NEW f \in Stream, Source(f) = e,
         Fd(c, e, f) >= 0, c.transwindow > 0, src[f].read \in Nat, NEW avail \in Nat
  PROVE  LET b == send_msg_channel_data(e, c, f, avail)
         IN  \/ avail = 0 /\ Shut(e, c, b, f)
             \/ \E m : m <= avail /\ SentBlocks(e, c, b, f, src[f].read, m)
  <1>0. /\ ~c.sent_close /\ (e = "server" => c.pid) /\ Fd(c, e, f) \in Int
        /\ Fd(c, e, f) = IF f = "stderr" THEN c.errfd ELSE c.readfd
        /\ f = "stdin" <=> e = "client"
    BY MaySend
  <1>1. /\ DOMAIN c = Fields /\ c.readfd \in Int /\ c.writefd \in Int /\ c.errfd \in Int
        /\ c.transwindow \in Nat /\ c.out \in Seq(Packet)
    BY ChannelFields
  <1>2. PICK b : b = send_msg_channel_data(e, c, f, avail)
    OBVIOUS
  <1>3. PICK m \in Nat : m = Lesser(Lesser(c.transwindow, MaxPacket), avail)
    BY <1>1, Constants DEF Lesser
  <1>4. (m = 0 <=> avail = 0) /\ m <= avail /\ m <= c.transwindow
    BY <1>1, <1>3, Constants DEF Lesser
  <1>5. PICK r \in Nat : r = src[f].read
    OBVIOUS
  <1>6. b = IF m = 0 THEN close_chan_fd(c, Fd(c, e, f))
            ELSE [Send(c, DataType(f), Blocks(r, m)) EXCEPT !.transwindow = @ - m]
    BY <1>0, <1>2, <1>3, <1>5 DEF send_msg_channel_data, DataType, Blocks
  <1>7. CASE m = 0
    <2>1. /\ IsChannel(e, b) /\ Same(c, b, Fds)
          /\ b.readfd = IF c.readfd = Fd(c, e, f) THEN FD_CLOSED ELSE c.readfd
          /\ b.writefd = IF c.writefd = Fd(c, e, f) THEN FD_CLOSED ELSE c.writefd
          /\ b.errfd = IF c.errfd = Fd(c, e, f) THEN FD_CLOSED ELSE c.errfd
      <3>1. PICK fd \in Int : fd = Fd(c, e, f)
        BY <1>0
      <3>2. b = close_chan_fd(c, fd)
        BY <1>6, <1>7, <3>1
      <3>3. /\ IsChannel(e, b) /\ Same(c, b, Fds)
            /\ b.readfd = IF c.readfd = fd THEN FD_CLOSED ELSE c.readfd
            /\ b.writefd = IF c.writefd = fd THEN FD_CLOSED ELSE c.writefd
            /\ b.errfd = IF c.errfd = fd THEN FD_CLOSED ELSE c.errfd
        BY <3>2, CloseFd
      <3> QED BY <3>1, <3>3
    <2>2. /\ b.writefd = c.writefd
          /\ b.errfd = IF f = "stderr" THEN FD_CLOSED ELSE c.errfd
          /\ b.readfd = IF f = "stderr" THEN c.readfd ELSE FD_CLOSED
      BY <1>0, <1>1, <2>1 DEF InUse, FdsOK, FD_CLOSED, FD_UNINIT, End, Stream
    <2>3. /\ b.present = c.present /\ b.recv_eof = c.recv_eof /\ b.recv_close = c.recv_close
          /\ b.errIsWrite = c.errIsWrite /\ b.pid = c.pid /\ b.exitpid = c.exitpid
          /\ b.await_open = c.await_open /\ b.died = c.died
          /\ b.recvwindow = c.recvwindow
          /\ b.recvdonelen = c.recvdonelen /\ b.writebuf = c.writebuf /\ b.extrabuf = c.extrabuf
          /\ b.sent_eof = c.sent_eof /\ b.sent_close = c.sent_close /\ b.flushing = c.flushing
      BY <2>1, SameClosing DEF ClosingFields, Fds
    <2>4. InUse(e, b)
      <3>1. FdsOK(e, c) /\ Room(e, c) /\ Flagged(c) /\ c.present
        BY DEF InUse
      <3>2. FdsOK(e, b)
        BY <1>0, <2>2, <2>3, <3>1 DEF FdsOK, End, Stream
      <3>3. Room(e, b) /\ Flagged(b)
        BY <2>2, <2>3, <3>1 DEF Room, Flagged, NoMoreToSend
      <3> QED BY <2>3, <3>1, <3>2, <3>3 DEF InUse
    <2>5. Shut(e, c, b, f)
      BY <2>1, <2>2, <2>4 DEF Shut
    <2> QED BY <1>2, <1>4, <1>7, <2>5
  <1>8. CASE m # 0
    <2>1. PICK p \in Packet : p = DataPacket(f, r, m)
      BY DataPackets
    <2>2. PICK u : u = Send(c, DataType(f), Blocks(r, m))
      OBVIOUS
    <2>3. [type |-> DataType(f), body |-> Blocks(r, m)] \in Packet
      BY <2>1 DEF DataPacket
    <2>4. IsChannel(e, u) /\ Same(c, u, {"out"}) /\ u.out = c.out \o <<p>>
      BY <2>1, <2>2, <2>3, SendPacket DEF DataPacket
    <2>5. u.transwindow = c.transwindow /\ DOMAIN u = Fields
      BY <2>4, ChannelFields DEF Same, Fields, Counters
    <2>6. b = [u EXCEPT !.transwindow = @ - m]
      BY <1>6, <1>8, <2>2
    <2>7. Same(u, b, {"transwindow"}) /\ b.transwindow = c.transwindow - m /\ b.out = u.out
      BY <2>5, <2>6 DEF Same, Fields, Fds, Flags, Counters
    <2>8. b.transwindow \in Nat /\ b.transwindow + m = c.transwindow
      BY <1>1, <1>4, <2>7
    <2>9. IsChannel(e, b)
      <3>1. \A z \in {"transwindow"} : HasType(e, z, b[z])
        BY <2>8 DEF HasType, Fds, Flags, Counters
      <3> QED BY <2>4, <2>7, <3>1, SameType
    <2>10. Same(c, b, {"out", "transwindow"})
      BY <2>4, <2>7 DEF Same
    <2>11. InUse(e, b)
      <3>1. Room(e, b)
        <4>1. /\ b.recvwindow = c.recvwindow /\ b.recvdonelen = c.recvdonelen
              /\ b.writebuf = c.writebuf /\ b.extrabuf = c.extrabuf
          BY <2>10, SameData DEF DataFields, Counters
        <4> QED BY <4>1 DEF InUse, Room
      <3> QED BY <2>10, <3>1, SameUse DEF DataFields, Counters
    <2>12. SentBlocks(e, c, b, f, r, m)
      BY <1>8, <2>1, <2>4, <2>7, <2>8, <2>9, <2>10, <2>11 DEF SentBlocks
    <2> QED BY <1>2, <1>4, <1>5, <2>12
  <1> QED BY <1>7, <1>8

-----------------------------------------------------------------------------
(* One end acts: it sends t.out, n blocks and g of window among it, and may *)
(* take a packet from the wire of its peer.                                *)

Acted(e, c, t, n, g) ==
    /\ IsChannel(e, t) /\ (InUse(e, t) \/ Unused(e, t)) /\ Ordered(t.out)
    /\ \A i \in 1..Len(t.out) : t.out[i].type \in Types(e) \ {"EXEC"}
    /\ Gives(t.out, DataTypes, n) /\ Gives(t.out, {"WINDOW_ADJUST"}, g)
    /\ c.sent_close => t.out = <<>>
    /\ c.sent_eof => ~Has(t.out, DataTypes \cup {"EOF"})
    /\ t.present => /\ c.sent_eof \/ Has(t.out, {"EOF"}) => t.sent_eof
                    /\ c.sent_close \/ Has(t.out, {"CLOSE"}) => t.sent_close

Took(v, v2, T) == v # <<>> /\ v2 = Tail(v) /\ v[1].type \in T

Saw(c, t, v, v2) ==
    /\ v2 = v \/ (v # <<>> /\ v2 = Tail(v))
    /\ t.present /\ t.recv_eof => c.recv_eof \/ Took(v, v2, {"EOF", "CLOSE"})
    /\ t.recv_close \/ ~t.present => c.recv_close \/ Took(v, v2, {"CLOSE"})

\* Sent depends on these fields only.
LEMMA SentFields ==
  ASSUME NEW w, NEW v, NEW c, NEW d, NEW x, NEW y,
         x.present = c.present, x.sent_eof = c.sent_eof, x.sent_close = c.sent_close,
         x.transwindow = c.transwindow,
         y.present = d.present, y.recv_eof = d.recv_eof, y.recv_close = d.recv_close,
         y.recvwindow = d.recvwindow, Sent(w, v, c, d)
  PROVE  Sent(w, v, x, y)
  BY DEF Sent

LEMMA SenderStep ==
  ASSUME NEW e \in End, NEW c, NEW d, NEW t, NEW n, NEW g, IsChannel(e, c), c.present,
         IsChannel(Peer(e), d), Acted(e, c, t, n, g),
         NEW w \in Seq(Packet), NEW v \in Seq(Packet), NEW v2 \in Seq(Packet), Sent(w, v, c, d),
         t.transwindow + n + Load(v2, 1, {"WINDOW_ADJUST"})
             <= c.transwindow + Load(v, 1, {"WINDOW_ADJUST"})
  PROVE  Sent(w \o t.out, v2, t, d)
  <1>0. /\ IsChannel(e, t) /\ t.out \in Seq(Packet) /\ t.transwindow \in Nat /\ c.transwindow \in Nat
        /\ d.recvwindow \in Nat /\ n \in Nat
    BY ChannelFields DEF Acted, Gives
  <1>1. PICK q \in Seq(Packet) : q = t.out
    BY <1>0
  <1>2. /\ c.sent_close => q = <<>>
        /\ c.sent_eof => ~Has(q, DataTypes \cup {"EOF"})
        /\ t.present => /\ c.sent_eof \/ Has(q, {"EOF"}) => t.sent_eof
                        /\ c.sent_close \/ Has(q, {"CLOSE"}) => t.sent_close
        /\ Ordered(q) /\ Gives(q, DataTypes, n)
    BY <1>1 DEF Acted
  <1>3. PICK z \in Seq(Packet) : z = w \o q
    BY ConcatFacts
  <1>4. \A T : Has(z, T) <=> Has(w, T) \/ Has(q, T)
    BY <1>3, HasConcat
  <1>5. Ordered(z)
    <2>1. Ordered(w) /\ (Has(w, {"CLOSE"}) => q = <<>>)
          /\ (Has(w, {"EOF"}) => ~Has(q, DataTypes \cup {"EOF"}))
      BY <1>2 DEF Sent
    <2> QED BY <1>2, <1>3, <2>1, OrderedConcat
  <1>6. t.present => (Has(z, {"EOF"}) => t.sent_eof) /\ (Has(z, {"CLOSE"}) => t.sent_close)
    BY <1>2, <1>4 DEF Sent
  <1>7. d.present /\ d.recv_eof => ~Has(z, DataTypes \cup {"EOF"}) /\ (t.present => t.sent_eof)
    BY <1>2, <1>4 DEF Sent
  <1>8. (d.present /\ d.recv_close) \/ ~d.present => z = <<>> /\ (t.present => t.sent_close)
    <2>1. ASSUME (d.present /\ d.recv_close) \/ ~d.present PROVE w = <<>> /\ c.sent_close
      BY <2>1 DEF Sent
    <2>2. <<>> \o <<>> = <<>>
      BY NoPacket, ConcatEmptySeq
    <2> QED BY <1>2, <1>3, <2>1, <2>2
  <1>9. d.present => t.transwindow + Load(z, 1, DataTypes) + Load(v2, 1, {"WINDOW_ADJUST"}) <= d.recvwindow
    <2>1. Load(w, 1, DataTypes) \in Nat /\ Load(v, 1, {"WINDOW_ADJUST"}) \in Nat
          /\ Load(v2, 1, {"WINDOW_ADJUST"}) \in Nat /\ Load(z, 1, DataTypes) = Load(w, 1, DataTypes) + n
      BY <1>2, <1>3, CellsFinite DEF Gives
    <2>2. PICK a \in Nat, b \in Nat, b2 \in Nat, tw \in Nat, cw \in Nat, rw \in Nat :
             /\ a = Load(w, 1, DataTypes) /\ b = Load(v, 1, {"WINDOW_ADJUST"})
             /\ b2 = Load(v2, 1, {"WINDOW_ADJUST"}) /\ tw = t.transwindow /\ cw = c.transwindow
             /\ rw = d.recvwindow
      BY <1>0, <2>1
    <2>3. d.present => cw + a + b <= rw
      BY <2>2 DEF Sent
    <2>4. tw + n + b2 <= cw + b
      BY <2>2
    <2>5. d.present => tw + (a + n) + b2 <= rw
      BY <1>0, <2>3, <2>4
    <2> QED BY <2>1, <2>2, <2>5
  <1>10. Sent(z, v2, t, d)
    BY <1>5, <1>6, <1>7, <1>8, <1>9 DEF Sent
  <1> QED BY <1>1, <1>3, <1>10

LEMMA ReceiverStep ==
  ASSUME NEW e \in End, NEW c, NEW d, NEW t, NEW n, NEW g, IsChannel(e, c), c.present,
         IsChannel(Peer(e), d), InUse(Peer(e), d) \/ Unused(Peer(e), d), Acted(e, c, t, n, g),
         NEW w \in Seq(Packet), NEW v \in Seq(Packet), NEW v2 \in Seq(Packet), Sent(v, w, d, c),
         Saw(c, t, v, v2),
         t.present => Load(v2, 1, DataTypes) + g + c.recvwindow <= Load(v, 1, DataTypes) + t.recvwindow
  PROVE  Sent(v2, w \o t.out, d, t)
  <1>0. /\ IsChannel(e, t) /\ t.out \in Seq(Packet) /\ t.recvwindow \in Nat /\ c.recvwindow \in Nat
        /\ d.transwindow \in Nat /\ g \in Nat
    BY ChannelFields DEF Acted, Gives
  <1>1. PICK q \in Seq(Packet) : q = t.out
    BY <1>0
  <1>2. PICK z \in Seq(Packet) : z = w \o q
    BY ConcatFacts
  <1>d. d.present /\ d.sent_close => d.sent_eof
    <2>1. ASSUME d.present PROVE InUse(Peer(e), d)
      BY <2>1, UnusedFields DEF Peer, End
    <2> QED BY <2>1 DEF InUse, Flagged
  <1>3. Ordered(v) /\ Ordered(v2) /\ \A T : Has(v2, T) => Has(v, T)
    <2>1. CASE v2 = v
      BY <2>1 DEF Sent
    <2>2. CASE v # <<>> /\ v2 = Tail(v)
      BY <2>2, OrderedTail, HasTail DEF Sent
    <2> QED BY <2>1, <2>2 DEF Saw
  <1>4. d.present => (Has(v2, {"EOF"}) => d.sent_eof) /\ (Has(v2, {"CLOSE"}) => d.sent_close)
    BY <1>3 DEF Sent
  <1>5. ASSUME Took(v, v2, {"EOF", "CLOSE"})
        PROVE  /\ ~Has(v2, DataTypes \cup {"EOF"}) /\ (d.present => d.sent_eof)
               /\ Took(v, v2, {"CLOSE"}) => v2 = <<>> /\ (d.present => d.sent_close)
    <2>1. v # <<>> /\ v2 = Tail(v) /\ v[1].type \in {"EOF", "CLOSE"}
      BY <1>5 DEF Took
    <2>2. CASE v[1].type = "CLOSE"
      <3>1. v2 = <<>> /\ Has(v, {"CLOSE"})
        BY <1>3, <2>1, <2>2, OrderedTail, HasTail
      <3>2. d.present => d.sent_close
        BY <3>1 DEF Sent
      <3> QED BY <1>d, <3>1, <3>2, NoPacket
    <2>3. CASE v[1].type = "EOF"
      <3>1. ~Has(v2, DataTypes \cup {"EOF"}) /\ Has(v, {"EOF"})
        BY <1>3, <2>1, <2>3, OrderedTail, HasTail
      <3>2. d.present => d.sent_eof
        BY <3>1 DEF Sent
      <3>3. ~Took(v, v2, {"CLOSE"})
        BY <2>3 DEF Took
      <3> QED BY <3>1, <3>2, <3>3
    <2> QED BY <2>1, <2>2, <2>3
  <1>6. t.present /\ t.recv_eof => ~Has(v2, DataTypes \cup {"EOF"}) /\ (d.present => d.sent_eof)
    <2>1. CASE c.recv_eof
      BY <1>3, <2>1 DEF Sent
    <2> QED BY <1>5, <2>1 DEF Saw
  <1>7. t.recv_close \/ ~t.present => v2 = <<>> /\ (d.present => d.sent_close)
    <2>1. CASE c.recv_close
      <3>1. v = <<>> /\ (d.present => d.sent_close)
        BY <2>1 DEF Sent
      <3> QED BY <3>1 DEF Saw
    <2>2. CASE Took(v, v2, {"CLOSE"})
      BY <1>5, <2>2 DEF Took
    <2> QED BY <2>1, <2>2 DEF Saw
  <1>8. t.present => d.transwindow + Load(v2, 1, DataTypes) + Load(z, 1, {"WINDOW_ADJUST"}) <= t.recvwindow
    <2>0. Gives(q, {"WINDOW_ADJUST"}, g)
      BY <1>1 DEF Acted
    <2>1. /\ Load(v, 1, DataTypes) \in Nat /\ Load(v2, 1, DataTypes) \in Nat
          /\ Load(w, 1, {"WINDOW_ADJUST"}) \in Nat
          /\ Load(z, 1, {"WINDOW_ADJUST"}) = Load(w, 1, {"WINDOW_ADJUST"}) + g
      BY <1>2, <2>0, CellsFinite DEF Gives
    <2>2. PICK a \in Nat, a2 \in Nat, b \in Nat, tw \in Nat, cw \in Nat, rw \in Nat :
             /\ a = Load(v, 1, DataTypes) /\ a2 = Load(v2, 1, DataTypes)
             /\ b = Load(w, 1, {"WINDOW_ADJUST"}) /\ tw = d.transwindow /\ cw = c.recvwindow
             /\ rw = t.recvwindow
      BY <1>0, <2>1
    <2>3. tw + a + b <= cw
      BY <2>2 DEF Sent
    <2>4. t.present => a2 + g + cw <= a + rw
      BY <2>2
    <2>5. t.present => tw + a2 + (b + g) <= rw
      BY <1>0, <2>3, <2>4
    <2> QED BY <2>1, <2>2, <2>5
  <1>9. Sent(v2, z, d, t)
    BY <1>3, <1>4, <1>6, <1>7, <1>8 DEF Sent
  <1> QED BY <1>1, <1>2, <1>9

\* What a handler has done before it calls check_close(), if it does.
Before(e, c, b, n, g) ==
    /\ IsChannel(e, b) /\ InUse(e, b) /\ Ordered(b.out)
    /\ \A i \in 1..Len(b.out) : b.out[i].type \in Types(e) \ {"EXEC"}
    /\ ~Has(b.out, {"EOF"}) /\ ~Has(b.out, {"CLOSE"})
    /\ Gives(b.out, DataTypes, n) /\ Gives(b.out, {"WINDOW_ADJUST"}, g)
    /\ c.sent_close => b.out = <<>>
    /\ c.sent_eof => ~Has(b.out, DataTypes \cup {"EOF"})
    /\ b.sent_eof = c.sent_eof /\ b.sent_close = c.sent_close

LEMMA NothingSent ==
  ASSUME NEW e, NEW c, NEW b, IsChannel(e, b), InUse(e, b), b.out = <<>>,
         b.sent_eof = c.sent_eof, b.sent_close = c.sent_close
  PROVE  Before(e, c, b, 0, 0)
  <1>1. 1..Len(b.out) = {}
    OBVIOUS
  <1> QED BY <1>1, NoPacket, GivesNothing DEF Before

LEMMA GrantSent ==
  ASSUME NEW e \in End, NEW c, NEW b, NEW g, IsChannel(e, b), InUse(e, b), Grants(b.out, g),
         b.sent_eof = c.sent_eof, b.sent_close = c.sent_close, ~c.sent_close
  PROVE  Before(e, c, b, 0, g)
  <1>1. PICK q : q = b.out
    OBVIOUS
  <1>2. /\ q \in Seq(Packet) /\ Ordered(q) /\ g \in Nat
        /\ Gives(q, {"WINDOW_ADJUST"}, g) /\ Gives(q, DataTypes, 0)
        /\ \A T : "WINDOW_ADJUST" \notin T => ~Has(q, T)
    BY <1>1, GrantsFacts
  <1>3. \A i \in 1..Len(q) : q[i].type = "WINDOW_ADJUST"
    <2>1. CASE q = <<>>
      BY <2>1
    <2>2. CASE q = <<Grant(g)>>
      BY <2>2 DEF Grant
    <2> QED BY <1>1, <2>1, <2>2 DEF Grants
  <1>4. \A i \in 1..Len(q) : q[i].type \in Types(e) \ {"EXEC"}
    BY <1>3 DEF Types
  <1>5. ~Has(q, {"EOF"}) /\ ~Has(q, {"CLOSE"}) /\ ~Has(q, DataTypes \cup {"EOF"})
    BY <1>2 DEF DataTypes
  <1> QED BY <1>1, <1>2, <1>4, <1>5 DEF Before

LEMMA DataSent ==
  ASSUME NEW e \in End, NEW c, IsChannel(e, c), c.out = <<>>, NEW b, NEW f \in Stream, Source(f) = e,
         NEW r \in Nat, NEW m, SentBlocks(e, c, b, f, r, m), ~c.sent_eof, ~c.sent_close
  PROVE  Before(e, c, b, m, 0)
  <1>1. PICK p : p = DataPacket(f, r, m)
    OBVIOUS
  <1>2. /\ IsChannel(e, b) /\ InUse(e, b) /\ Same(c, b, {"out", "transwindow"})
        /\ m \in Nat /\ b.out = c.out \o <<p>>
    BY <1>1 DEF SentBlocks
  <1>3. /\ p.type = DataType(f) /\ p \in Packet
        /\ <<p>> \in Seq(Packet) /\ Ordered(<<p>>) /\ \A T : Has(<<p>>, T) <=> DataType(f) \in T
        /\ Gives(<<p>>, DataTypes, m) /\ Gives(<<p>>, {"WINDOW_ADJUST"}, 0)
    BY <1>1, <1>2, DataPackets
  <1>4. b.out = <<p>>
    <2>1. <<>> \o <<p>> = <<p>>
      BY <1>3, ConcatEmptySeq
    <2> QED BY <1>2, <2>1
  <1>5. b.sent_eof = c.sent_eof /\ b.sent_close = c.sent_close
    BY <1>2, SameData DEF DataFields, Counters
  <1>6. DataType(f) \in Types(e) \ {"EXEC"} /\ DataType(f) \notin {"EOF", "CLOSE"}
    BY DEF DataType, Types, Source, Stream
  <1>7. \A i \in 1..Len(b.out) : b.out[i].type \in Types(e) \ {"EXEC"}
    BY <1>3, <1>4, <1>6
  <1>8. ~Has(b.out, {"EOF"}) /\ ~Has(b.out, {"CLOSE"})
    BY <1>3, <1>4, <1>6
  <1>9. Ordered(b.out) /\ Gives(b.out, DataTypes, m) /\ Gives(b.out, {"WINDOW_ADJUST"}, 0)
    BY <1>3, <1>4
  <1> QED BY <1>2, <1>5, <1>7, <1>8, <1>9 DEF Before

LEMMA ActsOnly ==
  ASSUME NEW e, NEW c, NEW b, NEW n, NEW g, Before(e, c, b, n, g)
  PROVE  Acted(e, c, b, n, g)
  BY DEF Before, Acted

LEMMA ActsAndCloses ==
  ASSUME NEW e \in End, NEW c, NEW b, NEW n, NEW g, Before(e, c, b, n, g), NEW s, NEW q,
         NEW t, IsChannel(e, t), Closing(e, b, t, q, s)
  PROVE  Acted(e, c, t, n, g)
  <1>0. b.out \in Seq(Packet) /\ IsChannel(e, b) /\ c.sent_eof \in BOOLEAN /\ c.sent_close \in BOOLEAN
    BY ChannelFields DEF Before
  <1>1. PICK x \in Seq(Packet) : x = b.out
    BY <1>0
  <1>2. /\ q \in Seq(Packet) /\ Ordered(q) /\ (\A i \in 1..Len(q) : q[i].type \in Farewell)
        /\ (e = "client" => ~Has(q, {"EXIT_STATUS"})) /\ (c.sent_eof => ~Has(q, {"EOF"}))
        /\ (c.sent_close => q = <<>>) /\ t.out = x \o q
        /\ (t.present => Kept(e, b, t, q, s)) /\ (~t.present => Removed(e, b, t, q))
    BY <1>1 DEF Closing, Before
  <1>3. /\ Ordered(x) /\ (\A i \in 1..Len(x) : x[i].type \in Types(e) \ {"EXEC"})
        /\ ~Has(x, {"EOF"}) /\ ~Has(x, {"CLOSE"})
        /\ Gives(x, DataTypes, n) /\ Gives(x, {"WINDOW_ADJUST"}, g)
        /\ (c.sent_close => x = <<>>) /\ (c.sent_eof => ~Has(x, DataTypes \cup {"EOF"}))
    BY <1>1 DEF Before
  <1>4. PICK z \in Seq(Packet) : z = x \o q
    BY <1>2, ConcatFacts
  <1>5. \A T : Has(z, T) <=> Has(x, T) \/ Has(q, T)
    BY <1>2, <1>4, HasConcat
  <1>6. ~Has(q, DataTypes) /\ ~Has(q, {"WINDOW_ADJUST"})
    BY <1>2 DEF Has, Farewell, DataTypes
  <1>7. Ordered(z)
    BY <1>2, <1>3, <1>4, OrderedConcat
  <1>8. Gives(z, DataTypes, n) /\ Gives(z, {"WINDOW_ADJUST"}, g)
    <2>1. Gives(q, DataTypes, 0) /\ Gives(q, {"WINDOW_ADJUST"}, 0)
      BY <1>2, <1>6, GivesNone
    <2>2. Gives(z, DataTypes, n + 0) /\ Gives(z, {"WINDOW_ADJUST"}, g + 0)
      BY <1>2, <1>3, <1>4, <2>1, GivesConcat
    <2>3. n + 0 = n /\ g + 0 = g
      BY <1>3 DEF Gives
    <2> QED BY <2>2, <2>3
  <1>9. \A i \in 1..Len(z) : z[i].type \in Types(e) \ {"EXEC"}
    <2>0. \A i \in 1..Len(q) : q[i].type \in Types(e) \ {"EXEC"}
      BY <1>2 DEF Farewell, Types, Has, End
    <2>1. /\ Len(z) = Len(x) + Len(q) /\ Len(x) \in Nat /\ Len(q) \in Nat
          /\ (\A i \in 1..Len(x) : z[i] = x[i])
          /\ \A i \in (Len(x) + 1)..(Len(x) + Len(q)) : z[i] = q[i - Len(x)]
      BY <1>2, <1>4, ConcatFacts
    <2> TAKE i \in 1..Len(z)
    <2>2. CASE i \in 1..Len(x)
      BY <1>3, <2>1, <2>2
    <2>3. CASE i \in (Len(x) + 1)..(Len(x) + Len(q))
      <3>1. i - Len(x) \in 1..Len(q)
        BY <2>1, <2>3
      <3> QED BY <2>0, <2>1, <2>3, <3>1
    <2> QED BY <2>1, <2>2, <2>3
  <1>10. c.sent_close => z = <<>>
    <2>1. <<>> \o <<>> = <<>>
      BY NoPacket, ConcatEmptySeq
    <2> QED BY <1>2, <1>3, <1>4, <2>1
  <1>11. c.sent_eof => ~Has(z, DataTypes \cup {"EOF"})
    <2>1. c.sent_eof => ~Has(q, DataTypes \cup {"EOF"})
      BY <1>2, <1>6 DEF Has
    <2> QED BY <1>3, <1>5, <2>1
  <1>12. t.present => /\ c.sent_eof \/ Has(z, {"EOF"}) => t.sent_eof
                      /\ c.sent_close \/ Has(z, {"CLOSE"}) => t.sent_close
    BY <1>2, <1>3, <1>5 DEF Kept, Before
  <1>13. InUse(e, t) \/ Unused(e, t)
    BY <1>2 DEF Kept, Removed
  <1> QED BY <1>2, <1>4, <1>7, <1>8, <1>9, <1>10, <1>11, <1>12, <1>13 DEF Acted

-----------------------------------------------------------------------------
(* The state after end e acted, with v2 left on the wire of its peer.      *)

Acting(e, t, v2, n, g) ==
    /\ InUse(e, chan[e]) /\ Acted(e, chan[e], t, n, g)
    /\ v2 \in Seq(Packet) /\ Saw(chan[e], t, wire[Peer(e)], v2)
    /\ t.transwindow + n + Load(v2, 1, {"WINDOW_ADJUST"})
           <= chan[e].transwindow + Load(wire[Peer(e)], 1, {"WINDOW_ADJUST"})
    /\ t.present => Load(v2, 1, DataTypes) + g + chan[e].recvwindow
                        <= Load(wire[Peer(e)], 1, DataTypes) + t.recvwindow

\* What Done() leaves in the two variables.
After(e, t, v2) ==
    /\ DOMAIN chan' = End /\ (\A i \in End : IsChannel(i, chan'[i])) /\ wire' \in [End -> Seq(Packet)]
    /\ chan'[Peer(e)] = chan[Peer(e)] /\ Same(t, chan'[e], {"out", "put"})
    /\ chan'[e] = [t EXCEPT !.out = <<>>, !.put = <<>>]
    /\ chan'[e].out = <<>> /\ chan'[e].put = <<>>
    /\ wire'[e] = wire[e] \o t.out /\ wire'[Peer(e)] = v2

LEMMA Peers ==
  ASSUME NEW e \in End
  PROVE  /\ Peer(e) \in End /\ Peer(e) # e /\ Peer(Peer(e)) = e /\ (\A i \in End : i = e \/ i = Peer(e))
         /\ e = "server" <=> Peer(e) = "client"
  BY DEF End, Peer

LEMMA DoneFacts ==
  ASSUME Typed, NEW e \in End, NEW t, IsChannel(e, t), NEW v2 \in Seq(Packet), NEW u,
         u = [wire EXCEPT ![Peer(e)] = v2], Done(e, t, u)
  PROVE  After(e, t, v2)
  <1>0. /\ DOMAIN chan = End /\ (\A i \in End : IsChannel(i, chan[i])) /\ wire \in [End -> Seq(Packet)]
        /\ DOMAIN t = Fields /\ t.out \in Seq(Packet)
    BY ChannelFields DEF Typed
  <1>1. PICK x : x = [t EXCEPT !.out = <<>>, !.put = <<>>]
    OBVIOUS
  <1>2. Same(t, x, {"out", "put"}) /\ x.out = <<>> /\ x.put = <<>>
    BY <1>0, <1>1 DEF Same, Fields, Fds, Flags, Counters
  <1>3. IsChannel(e, x)
    <2>0. x.out \in Seq(Packet) /\ x.put \in Seq(Nat)
      BY <1>2
    <2>1. \A f \in {"out", "put"} : HasType(e, f, x[f])
      BY <2>0 DEF HasType, Fds, Flags, Counters
    <2> QED BY <1>2, <2>1, SameType
  <1>4. chan' = [chan EXCEPT ![e] = x] /\ wire' = [u EXCEPT ![e] = @ \o t.out]
    BY <1>1 DEF Done
  <1>5. Peer(e) \in End /\ Peer(e) # e
    BY Peers
  <1>6. DOMAIN chan' = End /\ chan'[e] = x /\ \A i \in End : i # e => chan'[i] = chan[i]
    BY <1>0, <1>4
  <1>7. PICK z \in Seq(Packet) : z = wire[e] \o t.out
    BY <1>0, ConcatFacts
  <1>8. u \in [End -> Seq(Packet)] /\ u[e] = wire[e] /\ u[Peer(e)] = v2
    BY <1>0, <1>5
  <1>9. wire' = [u EXCEPT ![e] = z]
    BY <1>4, <1>7, <1>8
  <1>10. wire' \in [End -> Seq(Packet)] /\ wire'[e] = z /\ wire'[Peer(e)] = v2
    BY <1>5, <1>8, <1>9
  <1>11. \A i \in End : IsChannel(i, chan'[i])
    BY <1>0, <1>3, <1>6
  <1> QED BY <1>1, <1>2, <1>5, <1>6, <1>7, <1>10, <1>11 DEF After

\* The packets an end sends on top of what it has under way.
LEMMA SameAfter ==
  ASSUME NEW t, NEW x, Same(t, x, {"out", "put"})
  PROVE  /\ x.present = t.present /\ x.recv_eof = t.recv_eof /\ x.recv_close = t.recv_close
         /\ x.sent_eof = t.sent_eof /\ x.sent_close = t.sent_close /\ x.flushing = t.flushing
         /\ x.errIsWrite = t.errIsWrite /\ x.pid = t.pid /\ x.exitpid = t.exitpid
         /\ x.await_open = t.await_open /\ x.died = t.died
         /\ x.readfd = t.readfd /\ x.writefd = t.writefd /\ x.errfd = t.errfd
         /\ x.transwindow = t.transwindow /\ x.recvwindow = t.recvwindow
         /\ x.recvdonelen = t.recvdonelen /\ x.writebuf = t.writebuf /\ x.extrabuf = t.extrabuf
  BY SameData DEF DataFields, Counters

LEMMA Emptied ==
  ASSUME NEW D, NEW n, n = [f \in D |-> n[f]], n["put"] = <<>>, NEW o
  PROVE  [[n EXCEPT !["out"] = o] EXCEPT !["out"] = <<>>, !["put"] = <<>>] = [n EXCEPT !["out"] = <<>>]
  OBVIOUS

LEMMA UnusedAfter ==
  ASSUME NEW e \in End, NEW t, Unused(e, t)
  PROVE  Unused(e, [t EXCEPT !.out = <<>>, !.put = <<>>])
  <1>1. PICK x : x = [t EXCEPT !.out = <<>>, !.put = <<>>]
    OBVIOUS
  <1>2. t = [NoChannel(e) EXCEPT !.out = t.out]
    BY DEF Unused
  <1>3. x = [NoChannel(e) EXCEPT !.out = <<>>]
    <2>1. PICK o, k, b : o = t.out /\ k = recv_window(e) /\ b = cbuf_new(recv_window(e))
      OBVIOUS
    <2>2. PICK n : n = NoChannel(e)
      OBVIOUS
    <2>3. n = [present |-> FALSE, readfd |-> FD_UNINIT, writefd |-> FD_UNINIT, errfd |-> FD_CLOSED,
               sent_eof |-> FALSE, recv_eof |-> FALSE, sent_close |-> FALSE, recv_close |-> FALSE,
               transwindow |-> 0, recvwindow |-> k, recvdonelen |-> 0,
               writebuf |-> b, extrabuf |-> b, errIsWrite |-> FALSE, flushing |-> FALSE,
               pid |-> FALSE, exitpid |-> FALSE, await_open |-> FALSE, out |-> <<>>, put |-> <<>>,
               died |-> FALSE]
      BY <2>1, <2>2 DEF NoChannel, newchannel
    <2>4. t = [n EXCEPT !.out = o]
      BY <1>2, <2>1, <2>2
    <2>5. x = [n EXCEPT !.out = <<>>]
      <3>1. DOMAIN n = Fields /\ n["put"] = <<>> /\ n = [f \in DOMAIN n |-> n[f]]
        <4>1. "server" \in End /\ IsChannel(e, n) /\ DOMAIN n = Fields
          BY <2>2, NewChannel, ChannelFields DEF End
        <4>2. n["put"] = <<>>
          BY <2>3
        <4>3. n = [f \in DOMAIN n |-> n[f]]
          BY <2>3, Zenon
        <4> QED BY <4>1, <4>2, <4>3
      <3> QED BY <1>1, <2>4, <3>1, Emptied
    <2> QED BY <2>2, <2>5
  <1>4. x.out = <<>>
    BY <1>3 DEF NoChannel, newchannel
  <1> QED BY <1>1, <1>3, <1>4 DEF Unused

LEMMA EndActs ==
  ASSUME Typed, Working, NEW e \in End, NEW t, NEW v2, NEW n, NEW g, Acting(e, t, v2, n, g),
         After(e, t, v2)
  PROVE  \A i \in End : Linked(i)'
  <1>0. PICK p \in End : p = Peer(e) /\ p # e /\ Peer(p) = e /\ \A i \in End : i = e \/ i = p
    BY Peers
  <1>1. PICK c, d, w, v, x, z :
           /\ c = chan[e] /\ d = chan[p] /\ w = wire[e] /\ v = wire[p] /\ x = chan'[e] /\ z = w \o t.out
    OBVIOUS
  <1>2. /\ IsChannel(e, c) /\ IsChannel(p, d) /\ w \in Seq(Packet) /\ v \in Seq(Packet)
        /\ v2 \in Seq(Packet) /\ InUse(e, c) /\ c.present
    BY <1>0, <1>1 DEF Typed, Acting, InUse
  <1>3. /\ d.out = <<>> /\ d.put = <<>> /\ (InUse(p, d) \/ Unused(p, d))
        /\ Sent(w, v, c, d) /\ Sent(v, w, d, c)
    BY <1>0, <1>1 DEF Working, Linked
  <1>4. /\ Acted(e, c, t, n, g) /\ Saw(c, t, v, v2)
        /\ t.transwindow + n + Load(v2, 1, {"WINDOW_ADJUST"})
               <= c.transwindow + Load(v, 1, {"WINDOW_ADJUST"})
        /\ t.present => Load(v2, 1, DataTypes) + g + c.recvwindow <= Load(v, 1, DataTypes) + t.recvwindow
    BY <1>0, <1>1 DEF Acting
  <1>5. Sent(z, v2, t, d)
    BY <1>0, <1>1, <1>2, <1>3, <1>4, SenderStep
  <1>6. Sent(v2, z, d, t)
    BY <1>0, <1>1, <1>2, <1>3, <1>4, ReceiverStep
  <1>7. /\ Same(t, x, {"out", "put"}) /\ x.out = <<>> /\ x.put = <<>>
        /\ x = [t EXCEPT !.out = <<>>, !.put = <<>>]
        /\ wire'[e] = z /\ wire'[p] = v2 /\ chan'[p] = d /\ chan'[e] = x
    BY <1>0, <1>1 DEF After
  <1>8. /\ x.present = t.present /\ x.recv_eof = t.recv_eof /\ x.recv_close = t.recv_close
        /\ x.sent_eof = t.sent_eof /\ x.sent_close = t.sent_close
        /\ x.transwindow = t.transwindow /\ x.recvwindow = t.recvwindow
    BY <1>7, SameAfter
  <1>9. Sent(z, v2, x, d) /\ Sent(v2, z, d, x)
    BY <1>5, <1>6, <1>8, SentFields
  <1>10. InUse(e, x) \/ Unused(e, x)
    <2>1. CASE InUse(e, t)
      <3>1. Room(e, x)
        BY <1>7, <2>1, SameAfter DEF InUse, Room
      <3> QED BY <1>7, <2>1, <3>1, SameUse DEF DataFields
    <2>2. CASE Unused(e, t)
      BY <1>7, <2>2, UnusedAfter
    <2> QED BY <1>4, <2>1, <2>2 DEF Acted
  <1>11. Linked(e)' /\ Linked(p)'
    BY <1>0, <1>3, <1>7, <1>9, <1>10 DEF Linked
  <1> QED BY <1>0, <1>11

\* The request for the command stays first on its wire, and alone.
LEMMA ExecKept ==
  ASSUME Typed, Working, NEW e \in End, NEW t, NEW v2, NEW n, NEW g, Acting(e, t, v2, n, g),
         After(e, t, v2),
         e = "client" => prog' = prog,
         e = "server" => ~ExecPending \/ (wire["client"] # <<>> /\ v2 = Tail(wire["client"])),
         e = "server" /\ t.present => (t.pid <=> prog' # "none") /\ (t.exitpid <=> prog' = "gone")
  PROVE  ExecOK'
  <1>0. PICK p \in End : p = Peer(e) /\ p # e /\ Peer(p) = e /\ \A i \in End : i = e \/ i = p
    BY Peers
  <1>1. PICK w, v, x, z : w = wire[e] /\ v = wire[p] /\ x = chan'[e] /\ z = wire'[e]
    OBVIOUS
  <1>2. /\ w \in Seq(Packet) /\ v \in Seq(Packet) /\ v2 \in Seq(Packet) /\ t.out \in Seq(Packet)
        /\ z = w \o t.out /\ wire'[p] = v2 /\ chan'[p] = chan[p] /\ chan'[e] = x
        /\ Same(t, x, {"out", "put"})
    BY <1>0, <1>1, ChannelFields DEF Typed, Acting, Acted, After
  <1>3. /\ \A i \in 1..Len(w) : w[i].type \in Types(e)
        /\ \A i \in 1..Len(v) : v[i].type \in Types(p)
        /\ \A i \in 1..Len(t.out) : t.out[i].type \in Types(e) \ {"EXEC"}
    BY <1>0, <1>1 DEF Working, ExecOK, Acting, Acted
  <1>4. v2 = v \/ (v # <<>> /\ v2 = Tail(v))
    BY <1>0, <1>1 DEF Acting, Saw
  <1>5. /\ Len(z) = Len(w) + Len(t.out) /\ Len(w) \in Nat /\ Len(t.out) \in Nat
        /\ (\A i \in 1..Len(w) : z[i] = w[i])
        /\ \A i \in (Len(w) + 1)..(Len(w) + Len(t.out)) :
              i - Len(w) \in 1..Len(t.out) /\ z[i] = t.out[i - Len(w)]
    BY <1>2, ConcatFacts
  <1>6. ASSUME v # <<>>, v2 = Tail(v)
        PROVE  Len(v) \in Nat /\ \A i \in 1..Len(v2) : i + 1 \in 2..Len(v) /\ v2[i] = v[i + 1]
    BY <1>2, <1>6, TailFacts
  <1>7. \A i \in 1..Len(z) : z[i].type \in Types(e)
    <2> TAKE i \in 1..Len(z)
    <2>1. CASE i \in 1..Len(w)
      BY <1>3, <1>5, <2>1
    <2>2. CASE i \in (Len(w) + 1)..(Len(w) + Len(t.out))
      BY <1>3, <1>5, <2>2
    <2> QED BY <1>5, <2>1, <2>2
  <1>8. \A i \in 1..Len(v2) : v2[i].type \in Types(p)
    <2>1. CASE v2 = v
      BY <1>3, <2>1
    <2>2. CASE v # <<>> /\ v2 = Tail(v)
      BY <1>3, <1>6, <2>2
    <2> QED BY <1>4, <2>1, <2>2
  <1>9. \A i \in End : \A j \in 1..Len(wire'[i]) : wire'[i][j].type \in Types(i)
    BY <1>0, <1>1, <1>2, <1>7, <1>8
  <1>10. CASE e = "client"
    <2>0. p = "server"
      BY <1>0, <1>10 DEF Peer
    <2>1. \A i \in 2..Len(w) : w[i].type # "EXEC"
      BY <1>1, <1>10 DEF Working, ExecOK
    <2>2. \A i \in 2..Len(z) : z[i].type # "EXEC"
      <3> TAKE i \in 2..Len(z)
      <3>1. CASE i \in 2..Len(w)
        BY <1>5, <2>1, <3>1
      <3>2. CASE i \in (Len(w) + 1)..(Len(w) + Len(t.out))
        BY <1>3, <1>5, <3>2
      <3> QED BY <1>5, <3>1, <3>2
    <2>3. ASSUME z # <<>>, z[1].type = "EXEC"
          PROVE  Fresh(chan'["server"]) /\ wire'["server"] = <<>> /\ prog' = "none"
      <3>1. CASE w = <<>>
        <4>1. Len(w) = 0 /\ 1 \in 1..Len(z)
          BY <1>2, <1>5, <2>3, <3>1
        <4>2. z[1] = t.out[1] /\ 1 \in 1..Len(t.out)
          BY <1>5, <4>1
        <4> QED BY <1>3, <2>3, <4>2
      <3>2. CASE w # <<>>
        <4>1. 1 \in 1..Len(w) /\ z[1] = w[1]
          BY <1>2, <1>5, <3>2
        <4>2. ExecPending
          BY <1>1, <1>10, <2>3, <3>2, <4>1 DEF ExecPending
        <4>3. Fresh(chan["server"]) /\ v = <<>> /\ prog = "none"
          BY <1>1, <2>0, <4>2 DEF Working, ExecOK
        <4> QED BY <1>2, <1>4, <1>10, <2>0, <4>3
      <3> QED BY <3>1, <3>2
    <2>4. chan'["server"].present => /\ chan'["server"].pid <=> prog' # "none"
                                     /\ chan'["server"].exitpid <=> prog' = "gone"
      BY <1>2, <1>10, <2>0 DEF Working, ExecOK
    <2> QED BY <1>1, <1>9, <1>10, <2>2, <2>3, <2>4 DEF ExecOK, ExecPending
  <1>11. CASE e = "server"
    <2>0. p = "client"
      BY <1>0, <1>11 DEF Peer
    <2>1. \A i \in 2..Len(v) : v[i].type # "EXEC"
      BY <1>1, <2>0 DEF Working, ExecOK
    <2>2. (\A i \in 2..Len(v2) : v2[i].type # "EXEC") /\ ~(v2 # <<>> /\ v2[1].type = "EXEC")
      <3>1. CASE v # <<>> /\ v2 = Tail(v)
        <4>1. \A i \in 1..Len(v2) : v2[i].type # "EXEC"
          BY <1>6, <2>1, <3>1
        <4>2. v2 # <<>> => 1 \in 1..Len(v2)
          BY <1>2
        <4>3. \A i \in 2..Len(v2) : i \in 1..Len(v2)
          BY <1>2
        <4> QED BY <4>1, <4>2, <4>3
      <3>2. CASE v2 = v /\ ~ExecPending
        BY <1>1, <2>0, <2>1, <3>2 DEF ExecPending
      <3> QED BY <1>1, <1>4, <1>11, <2>0, <3>1, <3>2
    <2>3. chan'["server"].present => /\ chan'["server"].pid <=> prog' # "none"
                                     /\ chan'["server"].exitpid <=> prog' = "gone"
      BY <1>2, <1>11, SameAfter
    <2> QED BY <1>2, <1>9, <2>0, <2>2, <2>3 DEF ExecOK, ExecPending
  <1> QED BY <1>10, <1>11 DEF End

\* Neither data nor a window was taken from the wire.
LEMMA QuietActs ==
  ASSUME Typed, NEW e \in End, NEW t, NEW v2 \in Seq(Packet), NEW n, NEW g, InUse(e, chan[e]),
         Acted(e, chan[e], t, n, g), Saw(chan[e], t, wire[Peer(e)], v2),
         v2 = wire[Peer(e)] \/ Head(wire[Peer(e)]).type \notin DataTypes \cup {"WINDOW_ADJUST"},
         t.transwindow + n <= chan[e].transwindow,
         t.present => g + chan[e].recvwindow <= t.recvwindow
  PROVE  Acting(e, t, v2, n, g)
  <1>1. PICK v \in Seq(Packet) : v = wire[Peer(e)]
    BY Peers DEF Typed
  <1>2. Load(v2, 1, {"WINDOW_ADJUST"}) = Load(v, 1, {"WINDOW_ADJUST"})
        /\ Load(v2, 1, DataTypes) = Load(v, 1, DataTypes)
    <2>1. CASE v2 = v
      BY <2>1
    <2>2. CASE v # <<>> /\ v2 = Tail(v) /\ Head(v).type \notin DataTypes \cup {"WINDOW_ADJUST"}
      <3>1. v[1].type \notin DataTypes /\ v[1].type \notin {"WINDOW_ADJUST"}
        BY <2>2, TailFacts
      <3>2. /\ Load(v, 1, {"WINDOW_ADJUST"}) = Load(v2, 1, {"WINDOW_ADJUST"}) + 0
            /\ Load(v, 1, DataTypes) = Load(v2, 1, DataTypes) + 0
        BY <2>2, <3>1, LoadTail
      <3>3. Load(v2, 1, {"WINDOW_ADJUST"}) \in Nat /\ Load(v2, 1, DataTypes) \in Nat
        BY CellsFinite
      <3> QED BY <3>2, <3>3
    <2> QED BY <1>1, <2>1, <2>2 DEF Saw
  <1>3. PICK a \in Nat, b \in Nat : a = Load(v, 1, {"WINDOW_ADJUST"}) /\ b = Load(v, 1, DataTypes)
    BY CellsFinite
  <1>4. /\ t.transwindow \in Nat /\ n \in Nat /\ g \in Nat /\ t.recvwindow \in Nat
        /\ chan[e].transwindow \in Nat /\ chan[e].recvwindow \in Nat
    BY ChannelFields DEF Acted, Gives, Typed
  <1>5. t.transwindow + n + a <= chan[e].transwindow + a
    <2>1. PICK x \in Nat, y \in Nat, k \in Nat : x = t.transwindow /\ y = chan[e].transwindow /\ k = n
      BY <1>4
    <2>2. x + k <= y
      BY <2>1
    <2>3. x + k + a <= y + a
      BY <2>2
    <2> QED BY <2>1, <2>3
  <1>6. t.present => b + g + chan[e].recvwindow <= b + t.recvwindow
    <2>1. PICK x \in Nat, y \in Nat, k \in Nat : x = t.recvwindow /\ y = chan[e].recvwindow /\ k = g
      BY <1>4
    <2>2. t.present => k + y <= x
      BY <2>1
    <2>3. t.present => b + k + y <= b + x
      BY <2>2
    <2> QED BY <2>1, <2>3
  <1> QED BY <1>1, <1>2, <1>3, <1>5, <1>6 DEF Acting

\* Fields that are set by a handler of the packets for the end of a channel.
LEMMA Ending ==
  ASSUME NEW e \in End, NEW c, IsChannel(e, c), InUse(e, c)
  PROVE  /\ LET b == [c EXCEPT !.recv_eof = TRUE]
            IN  /\ IsChannel(e, b) /\ InUse(e, b) /\ Same(c, b, {"recv_eof", "recv_close"})
                /\ b.recv_eof /\ b.recv_close = c.recv_close
         /\ LET b == [c EXCEPT !.recv_eof = TRUE, !.recv_close = TRUE]
            IN  /\ IsChannel(e, b) /\ InUse(e, b) /\ Same(c, b, {"recv_eof", "recv_close"})
                /\ b.recv_eof /\ b.recv_close
  <1>0. DOMAIN c = Fields /\ c.recv_close \in BOOLEAN
    BY ChannelFields
  <1>1. ASSUME NEW b, Same(c, b, {"recv_eof", "recv_close"}), b.recv_eof = TRUE, b.recv_close \in BOOLEAN
        PROVE  IsChannel(e, b) /\ InUse(e, b)
    <2>1. \A f \in {"recv_eof", "recv_close"} : HasType(e, f, b[f])
      BY <1>1 DEF HasType, Fds, Flags, Counters
    <2>2. IsChannel(e, b)
      BY <1>1, <2>1, SameType
    <2>3. /\ b.present = c.present /\ b.sent_eof = c.sent_eof /\ b.sent_close = c.sent_close
          /\ b.flushing = c.flushing
          /\ b.errIsWrite = c.errIsWrite /\ b.pid = c.pid /\ b.exitpid = c.exitpid
          /\ b.await_open = c.await_open /\ b.died = c.died
          /\ b.readfd = c.readfd /\ b.writefd = c.writefd /\ b.errfd = c.errfd
          /\ b.recvwindow = c.recvwindow
          /\ b.recvdonelen = c.recvdonelen /\ b.writebuf = c.writebuf /\ b.extrabuf = c.extrabuf
      BY <1>1 DEF Same, Fields, Fds, Flags, Counters
    <2>4. FdsOK(e, b) /\ Room(e, b)
      BY <2>3 DEF InUse, FdsOK, Room
    <2>5. Flagged(b)
      BY <1>1, <2>3 DEF InUse, Flagged, NoMoreToSend
    <2> QED BY <2>2, <2>3, <2>4, <2>5 DEF InUse
  <1>2. PICK b : b = [c EXCEPT !.recv_eof = TRUE]
    OBVIOUS
  <1>3. Same(c, b, {"recv_eof", "recv_close"}) /\ b.recv_eof = TRUE /\ b.recv_close = c.recv_close
    BY <1>0, <1>2 DEF Same, Fields, Fds, Flags, Counters
  <1>4. IsChannel(e, b) /\ InUse(e, b)
    BY <1>0, <1>1, <1>3
  <1>5. PICK x : x = [c EXCEPT !.recv_eof = TRUE, !.recv_close = TRUE]
    OBVIOUS
  <1>6. Same(c, x, {"recv_eof", "recv_close"}) /\ x.recv_eof = TRUE /\ x.recv_close = TRUE
    BY <1>0, <1>5 DEF Same, Fields, Fds, Flags, Counters
  <1>7. IsChannel(e, x) /\ InUse(e, x)
    BY <1>0, <1>1, <1>6
  <1> QED BY <1>2, <1>3, <1>4, <1>5, <1>6, <1>7

\* The channel a handler of a packet finds.
LEMMA Addressed ==
  ASSUME Typed, Working, NEW e \in End, CanReceive(e)
  PROVE  LET v == wire[Peer(e)]
         IN  /\ InUse(e, chan[e]) /\ IsChannel(e, chan[e]) /\ chan[e].present /\ chan[e].out = <<>>
             /\ chan[e].put = <<>>
             /\ v \in Seq(Packet) /\ v # <<>> /\ Head(v) = v[1] /\ v[1] \in Packet /\ Tail(v) \in Seq(Packet)
             /\ Head(v).type \in Types(Peer(e))
             /\ e = "server" /\ ExecPending => Head(v).type = "EXEC"
  <1>1. PICK p \in End : p = Peer(e) /\ Peer(p) = e
    BY Peers
  <1>2. PICK v \in Seq(Packet) : v = wire[p]
    BY DEF Typed
  <1>3. v # <<>> /\ Sent(v, wire[e], chan[p], chan[e])
    BY <1>1, <1>2 DEF CanReceive, Working, Linked
  <1>4. chan[e].present
    BY <1>3 DEF Sent
  <1>5. InUse(e, chan[e]) /\ IsChannel(e, chan[e]) /\ chan[e].out = <<>> /\ chan[e].put = <<>>
    BY <1>4, UnusedFields DEF Working, Linked, Typed
  <1>6. Head(v) = v[1] /\ v[1] \in Packet /\ Tail(v) \in Seq(Packet) /\ 1 \in 1..Len(v)
    BY <1>3, TailFacts
  <1>7. v[1].type \in Types(p)
    BY <1>2, <1>6 DEF Working, ExecOK
  <1>8. e = "server" => p = "client"
    BY <1>1, Peers
  <1> QED BY <1>1, <1>2, <1>3, <1>4, <1>5, <1>6, <1>7, <1>8 DEF ExecPending

LEMMA Closed ==
  ASSUME NEW e \in End, NEW b, IsChannel(e, b), NEW t, NEW q, NEW s, Closing(e, b, t, q, s)
  PROVE  /\ t.transwindow <= b.transwindow /\ t.transwindow \in Nat
         /\ t.present => /\ t.recvwindow = b.recvwindow /\ t.recv_eof = b.recv_eof
                         /\ t.recv_close = b.recv_close /\ t.pid = b.pid /\ t.exitpid = b.exitpid
                         /\ t.writebuf = b.writebuf /\ t.extrabuf = b.extrabuf /\ t.put = b.put
                         /\ Kept(e, b, t, q, s)
         /\ ~t.present => b.recv_close /\ ~t.recv_eof /\ ~t.recv_close /\ Removed(e, b, t, q)
         /\ ~t.died
  <1>0. b.transwindow \in Nat
    BY ChannelFields
  <1>1. CASE t.present
    <2>1. Kept(e, b, t, q, s)
      BY <1>1 DEF Closing
    <2>2. Same(b, t, ClosingFields) /\ InUse(e, t)
      BY <2>1 DEF Kept
    <2>3. /\ t.transwindow = b.transwindow /\ t.recvwindow = b.recvwindow /\ t.recv_eof = b.recv_eof
          /\ t.recv_close = b.recv_close /\ t.pid = b.pid /\ t.exitpid = b.exitpid
          /\ t.writebuf = b.writebuf /\ t.extrabuf = b.extrabuf /\ t.put = b.put
      BY <2>2, SameClosing
    <2> QED BY <1>0, <1>1, <2>1, <2>2, <2>3 DEF InUse, Flagged
  <1>2. CASE ~t.present
    <2>1. Removed(e, b, t, q)
      BY <1>2 DEF Closing
    <2>2. t.transwindow = 0 /\ ~t.recv_eof /\ ~t.died
      BY <2>1, UnusedFields DEF Removed
    <2>3. ~t.recv_close
      BY <2>1 DEF Removed, Unused, NoChannel, newchannel
    <2>4. t.transwindow <= b.transwindow /\ t.transwindow \in Nat /\ b.recv_close
      BY <1>0, <2>1, <2>2 DEF Removed
    <2> QED BY <1>2, <2>1, <2>2, <2>3, <2>4
  <1> QED BY <1>1, <1>2

Ended(e, c, b, p) ==
    /\ IsChannel(e, b) /\ InUse(e, b) /\ Same(c, b, {"recv_eof", "recv_close"})
    /\ b.recv_eof /\ (b.recv_close <=> c.recv_close \/ p.type = "CLOSE")

Informed(e, c, t, p) ==
    \/ p.type = "WINDOW_ADJUST" /\ Same(c, t, {"transwindow"}) /\ t.out = <<>>
    \/ p.type = "EXIT_STATUS" /\ t = c
    \/ /\ p.type \in {"EOF", "CLOSE"}
       /\ \E b, q : Ended(e, c, b, p) /\ Closing(e, b, t, q, src)

ControlEffect(e, t) ==
    /\ Acting(e, t, Tail(wire[Peer(e)]), 0, 0) /\ After(e, t, Tail(wire[Peer(e)]))
    /\ Informed(e, chan[e], t, Head(wire[Peer(e)])) /\ ~t.died
    /\ (t.present => t.pid = chan[e].pid /\ t.exitpid = chan[e].exitpid)
    /\ status' = (status \/ Head(wire[Peer(e)]).type = "EXIT_STATUS")
    /\ Head(wire[Peer(e)]).type \in {"WINDOW_ADJUST", "EOF", "CLOSE", "EXIT_STATUS"}

LEMMA ControlActs ==
  ASSUME Typed, Working, NEW e \in End, RecvControl(e)
  PROVE  \E t : ControlEffect(e, t)
  <1>0. PICK c, v, p : c = chan[e] /\ v = wire[Peer(e)] /\ p = Head(wire[Peer(e)])
    OBVIOUS
  <1>1. /\ InUse(e, c) /\ IsChannel(e, c) /\ c.present /\ c.out = <<>>
        /\ v \in Seq(Packet) /\ v # <<>> /\ p = v[1] /\ p = Head(v) /\ p \in Packet /\ Tail(v) \in Seq(Packet)
        /\ p.type \in Types(Peer(e))
    BY <1>0, Addressed DEF RecvControl, Incoming
  <1>2. PICK t : t = Handled(e, c, p)
    OBVIOUS
  <1>3. /\ Done(e, t, [wire EXCEPT ![Peer(e)] = Tail(@)])
        /\ status' = (status \/ (p.type = "EXIT_STATUS" /\ ~t.died))
    BY <1>0, <1>2 DEF RecvControl, Unread
  <1>4. Done(e, t, [wire EXCEPT ![Peer(e)] = Tail(v)])
    BY <1>0, <1>3
  <1>5. p.type \in {"WINDOW_ADJUST", "EOF", "CLOSE", "EXIT_STATUS"}
    BY <1>0, <1>1 DEF RecvControl, Incoming, Types
  <1>u. PICK v2 \in Seq(Packet) : v2 = Tail(v)
    BY <1>1
  <1>6. c.transwindow \in Nat /\ c.recvwindow \in Nat /\ DOMAIN c = Fields
    BY <1>1, ChannelFields
  <1>7. CASE p.type = "WINDOW_ADJUST"
    <2>1. t = [c EXCEPT !.transwindow = @ + p.body]
      BY <1>1, <1>2, <1>7 DEF Handled
    <2>2. p.body \in Nat /\ Amount(p) = p.body
      BY <1>1, <1>7, PacketFields DEF Control, Amount
    <2>3. Same(c, t, {"transwindow"}) /\ t.transwindow = c.transwindow + p.body
      BY <1>6, <2>1 DEF Same, Fields, Fds, Flags, Counters
    <2>4. IsChannel(e, t)
      <3>1. \A f \in {"transwindow"} : HasType(e, f, t[f])
        BY <1>6, <2>2, <2>3 DEF HasType, Fds, Flags, Counters
      <3> QED BY <1>1, <2>3, <3>1, SameType
    <2>5. /\ t.present = c.present /\ t.recv_eof = c.recv_eof /\ t.recv_close = c.recv_close
          /\ t.sent_eof = c.sent_eof /\ t.sent_close = c.sent_close /\ t.pid = c.pid
          /\ t.exitpid = c.exitpid /\ t.died = c.died /\ t.recvwindow = c.recvwindow
          /\ t.recvdonelen = c.recvdonelen /\ t.writebuf = c.writebuf /\ t.extrabuf = c.extrabuf
          /\ t.out = c.out
      BY <2>3, SameData DEF DataFields, Counters
    <2>6. InUse(e, t)
      <3>1. Room(e, t)
        BY <1>1, <2>5 DEF InUse, Room
      <3> QED BY <1>1, <2>3, <3>1, SameUse DEF DataFields, Counters
    <2>7. Acted(e, c, t, 0, 0)
      BY <1>1, <2>4, <2>5, <2>6, NothingSent, ActsOnly
    <2>8. Saw(c, t, v, v2)
      BY <1>1, <1>u, <2>5 DEF Saw
    <2>9. /\ t.transwindow + 0 + Load(v2, 1, {"WINDOW_ADJUST"}) <= c.transwindow + Load(v, 1, {"WINDOW_ADJUST"})
          /\ Load(v2, 1, DataTypes) + 0 + c.recvwindow <= Load(v, 1, DataTypes) + t.recvwindow
      <3>1. /\ Load(v, 1, {"WINDOW_ADJUST"}) = Load(v2, 1, {"WINDOW_ADJUST"}) + p.body
            /\ Load(v, 1, DataTypes) = Load(v2, 1, DataTypes) + 0
        BY <1>1, <1>7, <1>u, <2>2, LoadTail DEF DataTypes
      <3>2. PICK a \in Nat, b \in Nat, x \in Nat, y \in Nat, k \in Nat :
               /\ a = Load(v2, 1, {"WINDOW_ADJUST"}) /\ b = Load(v2, 1, DataTypes)
               /\ x = c.transwindow /\ y = c.recvwindow /\ k = p.body
        BY <1>6, <2>2, CellsFinite
      <3>3. (x + k) + 0 + a <= x + (a + k) /\ b + 0 + y <= (b + 0) + y
        OBVIOUS
      <3> QED BY <2>3, <2>5, <3>1, <3>2, <3>3
    <2>10. Acting(e, t, v2, 0, 0)
      BY <1>0, <1>1, <2>7, <2>8, <2>9 DEF Acting
    <2>11. After(e, t, v2)
      BY <1>4, <1>u, <2>4, DoneFacts
    <2>12. ~t.died /\ Informed(e, c, t, p)
      BY <1>1, <1>7, <2>3, <2>5 DEF InUse, Flagged, Informed
    <2> QED BY <1>0, <1>3, <1>5, <1>7, <1>u, <2>5, <2>10, <2>11, <2>12 DEF ControlEffect
  <1>8. CASE p.type = "EXIT_STATUS"
    <2>1. t = c
      BY <1>1, <1>2, <1>8 DEF Handled
    <2>2. Acted(e, c, t, 0, 0)
      BY <1>1, <2>1, NothingSent, ActsOnly
    <2>3. Saw(c, t, v, v2)
      BY <1>1, <1>u, <2>1 DEF Saw
    <2>4. t.transwindow + 0 <= c.transwindow /\ 0 + c.recvwindow <= t.recvwindow
      BY <1>6, <2>1
    <2>5. Head(v).type \notin DataTypes \cup {"WINDOW_ADJUST"}
      BY <1>1, <1>8 DEF DataTypes
    <2>6. Acting(e, t, v2, 0, 0)
      BY <1>0, <1>1, <1>u, <2>2, <2>3, <2>4, <2>5, QuietActs
    <2>7. After(e, t, v2)
      BY <1>1, <1>4, <1>u, <2>1, DoneFacts
    <2>8. ~t.died /\ Informed(e, c, t, p)
      BY <1>1, <1>8, <2>1 DEF InUse, Flagged, Informed
    <2> QED BY <1>0, <1>3, <1>5, <1>8, <1>u, <2>1, <2>6, <2>7, <2>8 DEF ControlEffect
  <1>9. CASE p.type \in {"EOF", "CLOSE"}
    <2>1. PICK b : b = IF p.type = "EOF" THEN [c EXCEPT !.recv_eof = TRUE]
                       ELSE [c EXCEPT !.recv_eof = TRUE, !.recv_close = TRUE]
      OBVIOUS
    <2>2. t = check_close(e, b, src)
      BY <1>1, <1>2, <1>9, <2>1 DEF Handled
    <2>3. Ended(e, c, b, p)
      <3>1. CASE p.type = "EOF"
        BY <1>1, <2>1, <3>1, Ending DEF Ended
      <3>2. CASE p.type = "CLOSE"
        BY <1>1, <2>1, <3>2, Ending DEF Ended
      <3> QED BY <1>9, <3>1, <3>2
    <2>4. IsChannel(e, t) /\ \E q : Closing(e, b, t, q, src)
      BY <2>2, <2>3, CheckClose DEF Ended
    <2>5. PICK q : Closing(e, b, t, q, src)
      BY <2>4
    <2>6. /\ b.out = c.out /\ b.sent_eof = c.sent_eof /\ b.sent_close = c.sent_close
          /\ b.transwindow = c.transwindow /\ b.recvwindow = c.recvwindow /\ b.pid = c.pid
          /\ b.exitpid = c.exitpid
      BY <2>3 DEF Ended, Same, Fields, Fds, Flags, Counters
    <2>7. Before(e, c, b, 0, 0)
      BY <1>1, <2>3, <2>6, NothingSent DEF Ended
    <2>8. Acted(e, c, t, 0, 0)
      BY <2>4, <2>5, <2>7, ActsAndCloses
    <2>9. /\ t.transwindow <= c.transwindow /\ t.transwindow \in Nat
          /\ t.present => /\ t.recvwindow = c.recvwindow /\ t.recv_eof = b.recv_eof
                          /\ t.recv_close = b.recv_close /\ t.pid = c.pid /\ t.exitpid = c.exitpid
          /\ ~t.present => b.recv_close /\ ~t.recv_eof /\ ~t.recv_close
          /\ ~t.died
      BY <2>3, <2>5, <2>6, Closed DEF Ended
    <2>10. Saw(c, t, v, v2)
      BY <1>1, <1>9, <1>u, <2>3, <2>9 DEF Saw, Took, Ended
    <2>11. t.transwindow + 0 <= c.transwindow /\ (t.present => 0 + c.recvwindow <= t.recvwindow)
      BY <1>6, <2>9
    <2>12. Head(v).type \notin DataTypes \cup {"WINDOW_ADJUST"}
      BY <1>1, <1>9 DEF DataTypes
    <2>13. Acting(e, t, v2, 0, 0)
      BY <1>0, <1>1, <1>u, <2>8, <2>10, <2>11, <2>12, QuietActs
    <2>14. After(e, t, v2)
      BY <1>4, <1>u, <2>4, DoneFacts
    <2>15. Informed(e, c, t, p)
      BY <1>9, <2>3, <2>5 DEF Informed
    <2> QED BY <1>0, <1>3, <1>5, <1>9, <1>u, <2>9, <2>13, <2>14, <2>15 DEF ControlEffect
  <1> QED BY <1>5, <1>7, <1>8, <1>9

\* What RecvData does with the blocks in body.
Arriving(e, f, t, body) ==
    \/ Fd(chan[e], e, f) < 0 /\ t = chan[e]
    \/ Fd(chan[e], e, f) >= 0 /\ ~snk[f].broken /\ \E q, g : Received(e, chan[e], t, f, body, q, g)
    \/ e = "server" /\ snk["stdin"].broken /\ t.put = <<>>

DataEffect(e, f, t, g) ==
    /\ Acting(e, t, Tail(wire[Peer(e)]), 0, g) /\ After(e, t, Tail(wire[Peer(e)]))
    /\ f \in Stream /\ Source(f) # e /\ Head(wire[Peer(e)]).type = DataType(f)
    /\ snk' = [snk EXCEPT ![f].got = @ \o t.put]
    /\ Arriving(e, f, t, Head(wire[Peer(e)]).body) /\ IsChannel(e, t) /\ InUse(e, t)
    /\ t.pid = chan[e].pid /\ t.exitpid = chan[e].exitpid /\ t.recv_eof = chan[e].recv_eof
    /\ t.sent_close = chan[e].sent_close /\ t.readfd = chan[e].readfd /\ t.errfd = chan[e].errfd
    /\ ~Has(t.out, {"EXIT_STATUS"} \cup DataTypes)
    /\ e = "client" => t.writefd = chan[e].writefd

LEMMA DataActs ==
  ASSUME Typed, Working, NEW e \in End, RecvData(e)
  PROVE  \E f, t, g : DataEffect(e, f, t, g)
  <1>0. PICK c, v, p : c = chan[e] /\ v = wire[Peer(e)] /\ p = Head(wire[Peer(e)])
    OBVIOUS
  <1>1. /\ InUse(e, c) /\ IsChannel(e, c) /\ c.present /\ c.out = <<>> /\ c.put = <<>>
        /\ v \in Seq(Packet) /\ v # <<>> /\ p = v[1] /\ p = Head(v) /\ p \in Packet /\ Tail(v) \in Seq(Packet)
        /\ p.type \in Types(Peer(e)) /\ p.type \in DataTypes
    BY <1>0, Addressed DEF RecvData, Incoming, DataTypes
  <1>u. PICK v2 \in Seq(Packet) : v2 = Tail(v)
    BY <1>1
  <1>2. PICK f : f = IF p.type = "EXTENDED_DATA" THEN "stderr"
                     ELSE IF e = "server" THEN "stdin" ELSE "stdout"
    OBVIOUS
  <1>3. f \in Stream /\ Source(f) # e /\ p.type = DataType(f) /\ (e = "server" => f = "stdin")
    BY <1>1, <1>2 DEF Stream, Source, DataType, DataTypes, Types, Peer, End
  <1>4. PICK body \in Seq(Nat) : body = p.body
    BY <1>1, PacketFields
  <1>5. PICK n, t :
           /\ n \in 0..(IF Fd(c, e, f) < 0 \/ snk[f].broken THEN 0 ELSE c[buffer(f)].used + Len(body))
           /\ t = recv_data(e, c, f, body, n)
           /\ Done(e, t, [wire EXCEPT ![Peer(e)] = Tail(@)]) /\ Put(f, t)
    <2>1. PICK p1 \in {p} : \E f1 \in {IF p1.type = "EXTENDED_DATA" THEN "stderr"
                                      ELSE IF e = "server" THEN "stdin" ELSE "stdout"} :
             \E n \in 0..(IF Fd(chan[e], e, f1) < 0 \/ snk[f1].broken THEN 0
                          ELSE chan[e][buffer(f1)].used + Len(p1.body)) :
             \E t \in {IF chan[e].present THEN recv_data(e, chan[e], f1, p1.body, n)
                       ELSE dropbear_exit(chan[e])} :
                Done(e, t, Unread(e)) /\ Put(f1, t)
      BY <1>0 DEF RecvData
    <2>2. \E n \in 0..(IF Fd(c, e, f) < 0 \/ snk[f].broken THEN 0 ELSE c[buffer(f)].used + Len(body)) :
          \E t \in {recv_data(e, c, f, body, n)} : Done(e, t, Unread(e)) /\ Put(f, t)
      BY <1>0, <1>1, <1>2, <1>4, <2>1
    <2> QED BY <2>2 DEF Unread
  <1>6. Done(e, t, [wire EXCEPT ![Peer(e)] = v2]) /\ snk' = [snk EXCEPT ![f].got = @ \o t.put]
    BY <1>0, <1>5, <1>u DEF Put
  <1>7. c.transwindow \in Nat /\ c.recvwindow \in Nat /\ DOMAIN c = Fields /\ Fd(c, e, f) \in Int
        /\ c.readfd \in Int /\ c.writefd \in Int /\ c.errfd \in Int
    BY <1>1, ChannelFields DEF Fd
  <1>8. /\ Load(v, 1, DataTypes) = Load(v2, 1, DataTypes) + Len(body)
        /\ Load(v, 1, {"WINDOW_ADJUST"}) = Load(v2, 1, {"WINDOW_ADJUST"}) + 0
        /\ Load(v2, 1, DataTypes) \in Nat /\ Load(v2, 1, {"WINDOW_ADJUST"}) \in Nat
        /\ Len(body) \in Nat
    <2>1. Amount(p) = Len(body)
      BY <1>1, <1>4 DEF Amount, DataTypes
    <2>2. p.type \notin {"WINDOW_ADJUST"}
      BY <1>1 DEF DataTypes
    <2>3. /\ Load(v, 1, DataTypes) = Load(v2, 1, DataTypes) + (IF p.type \in DataTypes THEN Amount(p) ELSE 0)
          /\ Load(v, 1, {"WINDOW_ADJUST"}) = Load(v2, 1, {"WINDOW_ADJUST"})
                 + (IF p.type \in {"WINDOW_ADJUST"} THEN Amount(p) ELSE 0)
      BY <1>1, <1>u, LoadTail
    <2>4. Load(v2, 1, DataTypes) \in Nat /\ Load(v2, 1, {"WINDOW_ADJUST"}) \in Nat /\ Len(body) \in Nat
      BY CellsFinite
    <2> QED BY <1>1, <2>1, <2>2, <2>3, <2>4
  <1>9. ~c.recv_eof /\ Len(body) <= c.recvwindow
    <2>1. PICK o \in End : o = Peer(e) /\ Peer(o) = e
      BY Peers
    <2>2. Sent(v, wire[e], chan[o], c)
      BY <1>0, <2>1 DEF Working, Linked
    <2>3. Has(v, DataTypes \cup {"EOF"})
      BY <1>1, HasTail
    <2>4. PICK x \in Nat, y \in Nat, l \in Nat, k \in Nat, r \in Nat :
             /\ x = chan[o].transwindow /\ y = Load(v2, 1, DataTypes) /\ l = Len(body)
             /\ k = Load(wire[e], 1, {"WINDOW_ADJUST"}) /\ r = c.recvwindow
      BY <1>7, <1>8, CellsFinite, ChannelFields DEF Typed
    <2>5. x + (y + l) + k <= r
      BY <1>1, <1>8, <2>2, <2>4 DEF Sent
    <2>6. l <= r
      BY <2>5
    <2> QED BY <1>1, <2>2, <2>3, <2>4, <2>6 DEF Sent
  <1>10. ASSUME NEW g, Acted(e, c, t, 0, g), InUse(e, t), IsChannel(e, t),
                t.transwindow = c.transwindow, t.recv_eof = c.recv_eof, t.recv_close = c.recv_close,
                g \in Nat, g + c.recvwindow <= t.recvwindow + Len(body)
         PROVE  Acting(e, t, v2, 0, g) /\ After(e, t, v2)
    <2>1. Saw(c, t, v, v2)
      BY <1>1, <1>10, <1>u DEF Saw, InUse
    <2>2. PICK a \in Nat, b \in Nat, x \in Nat, y \in Nat, l \in Nat, r \in Nat, k \in Nat :
             /\ a = Load(v2, 1, {"WINDOW_ADJUST"}) /\ b = Load(v2, 1, DataTypes)
             /\ x = c.transwindow /\ y = c.recvwindow /\ l = Len(body) /\ r = t.recvwindow /\ k = g
      BY <1>7, <1>8, <1>10, ChannelFields
    <2>3. k + y <= r + l
      BY <1>10, <2>2
    <2>4. x + 0 + a <= x + (a + 0) /\ b + k + y <= (b + l) + r
      BY <2>3
    <2>5. Acting(e, t, v2, 0, g)
      BY <1>0, <1>1, <1>8, <1>10, <2>1, <2>2, <2>4 DEF Acting
    <2>6. After(e, t, v2)
      BY <1>6, <1>10, DoneFacts
    <2> QED BY <2>5, <2>6
  <1>11. CASE Fd(c, e, f) < 0
    <2>1. t = c
      BY <1>5, <1>9, <1>11 DEF recv_data
    <2>2. Acted(e, c, t, 0, 0)
      BY <1>1, <2>1, NothingSent, ActsOnly
    <2>3. 0 + c.recvwindow <= t.recvwindow + Len(body)
      BY <1>7, <1>8, <2>1
    <2>4. Acting(e, t, v2, 0, 0) /\ After(e, t, v2)
      BY <1>1, <1>10, <2>1, <2>2, <2>3
    <2>5. Arriving(e, f, t, body)
      BY <1>0, <1>11, <2>1 DEF Arriving
    <2>6. ~Has(t.out, {"EXIT_STATUS"} \cup DataTypes)
      BY <1>1, <2>1, NoPacket
    <2>7. DataEffect(e, f, t, 0)
      BY <1>0, <1>1, <1>3, <1>4, <1>6, <1>u, <2>1, <2>4, <2>5, <2>6 DEF DataEffect
    <2> QED BY <2>7
  <1>12. ASSUME Fd(c, e, f) >= 0 PROVE ~c.sent_close
    BY <1>1, <1>3, <1>7, <1>12 DEF Fd, Source, InUse, Flagged, FD_CLOSED
  <1>13. CASE Fd(c, e, f) >= 0 /\ ~snk[f].broken
    <2>1. n \in Nat /\ n <= c[buffer(f)].used + Len(body)
      <3>1. c[buffer(f)].used \in Nat
        BY <1>1, BufferUsed DEF buffer
      <3> QED BY <1>5, <1>7, <1>8, <1>13, <3>1
    <2>2. PICK q, g : Received(e, c, t, f, body, q, g)
      BY <1>1, <1>3, <1>5, <1>9, <1>13, <2>1, Receives
    <2>3. /\ IsChannel(e, t) /\ InUse(e, t) /\ Grants(q, g) /\ g \in Nat /\ t.out = c.out \o q
          /\ t.recvwindow + Len(body) = c.recvwindow + g
          /\ Same(c, t, {buffer(f), "recvdonelen", "recvwindow", "out", "put"})
      BY <2>2 DEF Received, Grants
    <2>4. t.out = q
      BY <1>1, <2>3, GrantsFacts, ConcatEmptySeq
    <2>5. /\ t.transwindow = c.transwindow /\ t.recv_eof = c.recv_eof /\ t.recv_close = c.recv_close
          /\ t.sent_eof = c.sent_eof /\ t.sent_close = c.sent_close
          /\ t.pid = c.pid /\ t.exitpid = c.exitpid
          /\ t.readfd = c.readfd /\ t.errfd = c.errfd /\ t.writefd = c.writefd
      <3>1. PICK F : F = {buffer(f), "recvdonelen", "recvwindow", "out", "put"}
        OBVIOUS
      <3>2. F \subseteq DataFields /\ "transwindow" \notin F /\ Same(c, t, F)
        BY <2>3, <3>1 DEF DataFields, Counters, buffer
      <3> QED BY <3>2, SameData
    <2>6. Acted(e, c, t, 0, g)
      BY <1>12, <1>13, <2>3, <2>4, <2>5, GrantSent, ActsOnly
    <2>7. g + c.recvwindow <= t.recvwindow + Len(body)
      BY <1>7, <2>3
    <2>8. Acting(e, t, v2, 0, g) /\ After(e, t, v2)
      BY <1>10, <2>3, <2>5, <2>6, <2>7
    <2>9. Arriving(e, f, t, body)
      BY <1>0, <1>13, <2>2 DEF Arriving
    <2>10. ~Has(t.out, {"EXIT_STATUS"} \cup DataTypes)
      BY <2>3, <2>4, GrantsFacts DEF DataTypes
    <2>11. DataEffect(e, f, t, g)
      BY <1>0, <1>1, <1>3, <1>4, <1>6, <1>u, <2>3, <2>5, <2>8, <2>9, <2>10 DEF DataEffect
    <2> QED BY <2>11
  <1>14. CASE Fd(c, e, f) >= 0 /\ snk[f].broken
    <2>1. f = "stdin" /\ e = "server" /\ Fd(c, e, f) = c.writefd
      BY <1>3, <1>14 DEF Typed, Stream, Source, Fd, End
    <2>2. PICK l \in Nat : l = Len(body)
      BY <1>8
    <2>3. PICK a : a = [c EXCEPT !.recvwindow = @ - l]
      OBVIOUS
    <2>4. IsChannel(e, a) /\ InUse(e, a) /\ Same(c, a, {"recvwindow"}) /\ a.recvwindow = c.recvwindow - l
      BY <1>1, <1>9, <2>2, <2>3, LessWindow
    <2>5. /\ a.writefd = c.writefd /\ a.readfd = c.readfd /\ a.errfd = c.errfd /\ a.out = c.out
          /\ a.put = c.put /\ a.sent_eof = c.sent_eof /\ a.sent_close = c.sent_close
          /\ a.recv_eof = c.recv_eof /\ a.recv_close = c.recv_close /\ a.transwindow = c.transwindow
          /\ a.pid = c.pid /\ a.exitpid = c.exitpid
      BY <2>4, SameData DEF DataFields, Counters
    <2>6. t = writechannel_fails("server", a, "stdin")
      <3>1. Accepts(e, c, f, body)
        <4>1. c.recvwindow <= cbuf_getavail(c.writebuf) /\ buffer(f) = "writebuf"
          BY <1>1, <2>1, RoomConsistent DEF InUse, WindowConsistent, buffer
        <4>2. Len(body) <= cbuf_getavail(c.writebuf)
          <5>1. c.writebuf.size \in Nat /\ c.writebuf.used \in Nat
            BY <1>1, ChannelFields, BufferFacts
          <5> QED BY <1>7, <1>8, <1>9, <4>1, <5>1 DEF cbuf_getavail
        <4> QED BY <1>9, <1>14, <4>1, <4>2 DEF Accepts
      <3>2. ~(Fd(c, e, f) < 0)
        BY <1>7, <1>14
      <3> QED BY <1>5, <1>9, <1>14, <2>1, <2>2, <2>3, <3>1, <3>2 DEF recv_data
    <2>7. PICK q, g : FailedWrite(a, t, q, g)
      BY <1>14, <2>1, <2>4, <2>5, <2>6, FailsWrite
    <2>8. /\ IsChannel(e, t) /\ InUse(e, t) /\ Grants(q, g) /\ g \in Nat /\ t.out = a.out \o q
          /\ t.recvwindow = a.recvwindow + g /\ t.readfd = a.readfd /\ t.errfd = a.errfd
          /\ Same(a, t, Fds \cup {"out", "recvwindow", "recvdonelen"})
      BY <2>1, <2>7 DEF FailedWrite, Grants
    <2>9. t.out = q
      BY <1>1, <2>5, <2>8, GrantsFacts, ConcatEmptySeq
    <2>10. /\ t.transwindow = a.transwindow /\ t.recv_eof = a.recv_eof /\ t.recv_close = a.recv_close
           /\ t.sent_eof = a.sent_eof /\ t.sent_close = a.sent_close
           /\ t.pid = a.pid /\ t.exitpid = a.exitpid /\ t.put = a.put
      BY <2>8 DEF Same, Fields, Fds, Flags, Counters
    <2>11. Acted(e, c, t, 0, g)
      BY <1>12, <1>14, <2>5, <2>8, <2>9, <2>10, GrantSent, ActsOnly
    <2>12. g + c.recvwindow <= t.recvwindow + Len(body)
      BY <1>7, <2>2, <2>4, <2>8
    <2>13. Acting(e, t, v2, 0, g) /\ After(e, t, v2)
      BY <1>10, <2>5, <2>8, <2>10, <2>11, <2>12
    <2>14. Arriving(e, f, t, body)
      BY <1>1, <1>14, <2>1, <2>5, <2>10 DEF Arriving
    <2>15. ~Has(t.out, {"EXIT_STATUS"} \cup DataTypes)
      BY <2>8, <2>9, GrantsFacts DEF DataTypes
    <2>16. DataEffect(e, f, t, g)
      BY <1>0, <1>1, <1>3, <1>4, <1>6, <1>u, <2>1, <2>5, <2>8, <2>10, <2>13, <2>14, <2>15 DEF DataEffect
    <2> QED BY <2>16
  <1> QED BY <1>7, <1>11, <1>13, <1>14

\* What the buffer holds is written, as if an empty packet had come.
LEMMA WritesOut ==
  ASSUME NEW e \in End, NEW c, IsChannel(e, c), InUse(e, c), NEW f \in Stream,
         NEW n \in Nat, n <= c[buffer(f)].used
  PROVE  \E q, g : Received(e, c, writechannel(e, c, f, <<>>, n), f, <<>>, q, g)
  <1>k. PICK k : k = buffer(f)
    OBVIOUS
  <1>1. k \in {"writebuf", "extrabuf"} /\ k \in Fields
    BY <1>k DEF buffer, Fields
  <1>2. PICK b : b = c[k]
    OBVIOUS
  <1>3. IsBuffer(e, b) /\ b.used \in Nat
    BY <1>1, <1>2, ChannelFields, BufferFacts
  <1>z. PICK z \in Seq(Nat) : z = <<>>
    <2>1. <<>> \in Seq(Nat)
      OBVIOUS
    <2> QED BY <2>1, Zenon
  <1>l. Len(z) = 0
    BY <1>z
  <1>4. PICK R \in Nat, rw \in Nat, rd \in Nat, w \in Nat, x \in Nat, u \in Nat :
           /\ R = recv_window(e) /\ rw = c.recvwindow /\ rd = c.recvdonelen
           /\ w = c.writebuf.used /\ x = c.extrabuf.used /\ u = b.used
    BY <1>3, Windows, ChannelFields, BufferUsed
  <1>5. rw + rd + w + x <= R /\ n <= u
    BY <1>k, <1>2, <1>4 DEF InUse, Room
  <1>6. PICK t : t = writechannel(e, c, f, <<>>, n)
    OBVIOUS
  <1>7. PICK q, g : Wrote(e, c, t, f, z, n, q, g)
    <2>1. rw + rd + w + x + 0 <= R /\ n <= u + 0
      BY <1>5
    <2>2. n <= c[buffer(f)].used + Len(z)
      BY <1>k, <1>2, <1>4, <1>l, <2>1
    <2>3. c.recvwindow + c.recvdonelen + c.writebuf.used + c.extrabuf.used + Len(z) <= recv_window(e)
      BY <1>4, <1>l, <2>1
    <2> QED BY <1>6, <1>z, <2>2, <2>3, Writes
  <1>8. /\ IsChannel(e, t) /\ Same(c, t, {k, "recvdonelen", "recvwindow", "out", "put"})
        /\ Grants(q, g) /\ g \in Nat /\ t.out = c.out \o q
        /\ t.recvwindow = c.recvwindow + g /\ t.recvdonelen + g = c.recvdonelen + n
        /\ t[k] = cbuf_incrread(b, Lesser(b.used, n)) /\ t.put = SubSeq(cbuf_readptrs(b) \o <<>>, 1, n)
    BY <1>k, <1>2, <1>7, <1>z DEF Wrote, Grants
  <1>9. Moved(b, <<>>, t.put, t[k])
    BY <1>3, <1>4, <1>5, <1>8, MovedOut
  <1>10. t[k].used = u - n /\ t.recvdonelen \in Nat
    <2>1. Lesser(b.used, n) = n /\ n \in 0..b.used
      BY <1>3, <1>4, <1>5 DEF Lesser
    <2> QED BY <1>3, <1>4, <1>8, <2>1, BufferRead, ChannelFields
  <1>11. PICK rd2 \in Nat : rd2 = t.recvdonelen
    BY <1>10
  <1>12. rd2 + g = rd + n
    BY <1>4, <1>8, <1>11
  <1>13. Room(e, t)
    <2>1. CASE k = "writebuf"
      <3>1. t.writebuf.used = w - n /\ t.extrabuf.used = x
        BY <1>2, <1>4, <1>8, <1>10, <2>1 DEF Same, Fields
      <3>2. (rw + g) + rd2 + (w - n) + x <= R
        BY <1>5, <1>8, <1>12
      <3> QED BY <1>4, <1>8, <1>11, <3>1, <3>2 DEF Room
    <2>2. CASE k = "extrabuf"
      <3>1. t.extrabuf.used = x - n /\ t.writebuf.used = w
        BY <1>2, <1>4, <1>8, <1>10, <2>2 DEF Same, Fields
      <3>2. (rw + g) + rd2 + w + (x - n) <= R
        BY <1>5, <1>8, <1>12
      <3> QED BY <1>4, <1>8, <1>11, <3>1, <3>2 DEF Room
    <2> QED BY <1>1, <2>1, <2>2
  <1>14. InUse(e, t)
    <2>1. PICK F : F = {k, "recvdonelen", "recvwindow", "out", "put"}
      OBVIOUS
    <2>2. F \subseteq DataFields /\ Same(c, t, F)
      BY <1>1, <1>8, <2>1 DEF DataFields, Counters
    <2> QED BY <1>13, <2>2, SameUse
  <1>15. t.recvwindow + Len(<<>>) = c.recvwindow + g
    <2>1. t.recvwindow + 0 = t.recvwindow /\ Len(<<>>) = 0
      BY <1>8, ChannelFields
    <2> QED BY <1>8, <2>1
  <1>16. Received(e, c, t, f, <<>>, q, g)
    BY <1>k, <1>2, <1>8, <1>9, <1>14, <1>15 DEF Received
  <1> QED BY <1>6, <1>16

\* What follows from check_close() after a step without a packet received.
LEMMA LocalActs ==
  ASSUME Typed, Working, NEW e \in End, InUse(e, chan[e]), NEW b, NEW n, NEW g,
         Before(e, chan[e], b, n, g), NEW t, NEW q, NEW s, t = check_close(e, b, s),
         Closing(e, b, t, q, s), IsChannel(e, t),
         b.transwindow + n <= chan[e].transwindow, g + chan[e].recvwindow <= b.recvwindow,
         b.recv_eof = chan[e].recv_eof, b.recv_close = chan[e].recv_close, Done(e, t, wire)
  PROVE  Acting(e, t, wire[Peer(e)], n, g) /\ After(e, t, wire[Peer(e)])
  <1>1. PICK v \in Seq(Packet) : v = wire[Peer(e)]
    BY Peers DEF Typed
  <1>2. wire = [wire EXCEPT ![Peer(e)] = v]
    BY <1>1, Peers DEF Typed
  <1>3. After(e, t, v)
    BY <1>2, DoneFacts
  <1>4. Acted(e, chan[e], t, n, g) /\ n \in Nat /\ g \in Nat
    BY ActsAndCloses DEF Before, Gives
  <1>5. /\ t.transwindow <= b.transwindow /\ t.transwindow \in Nat
        /\ t.present => /\ t.recvwindow = b.recvwindow /\ t.recv_eof = b.recv_eof
                        /\ t.recv_close = b.recv_close
        /\ ~t.present => b.recv_close /\ ~t.recv_eof /\ ~t.recv_close
    BY Closed DEF Before
  <1>6. Saw(chan[e], t, v, v)
    BY <1>5 DEF Saw
  <1>7. t.transwindow + n <= chan[e].transwindow
    <2>1. PICK x \in Nat, y \in Nat, z \in Nat, k \in Nat :
             x = t.transwindow /\ y = b.transwindow /\ z = chan[e].transwindow /\ k = n
      BY <1>4, <1>5, ChannelFields DEF Before, Typed
    <2>2. x <= y /\ y + k <= z
      BY <1>5, <2>1
    <2>3. x + k <= z
      BY <2>2
    <2> QED BY <2>1, <2>3
  <1>8. Acting(e, t, v, n, g)
    BY <1>1, <1>4, <1>5, <1>6, <1>7, QuietActs
  <1> QED BY <1>1, <1>3, <1>8

\* A channel that is there is in use.
LEMMA Live ==
  ASSUME Typed, Working, NEW e \in End, chan[e].present
  PROVE  /\ InUse(e, chan[e]) /\ IsChannel(e, chan[e]) /\ chan[e].out = <<>> /\ chan[e].put = <<>>
  BY UnusedFields DEF Working, Linked, Typed

\* channelio() reads: the end of the stream, or m blocks of it.
Reading(e, f, b, m) ==
    \/ m = 0 /\ Shut(e, chan[e], b, f) /\ src[f].read = total(f) /\ src[f].closed
    \/ SentBlocks(e, chan[e], b, f, src[f].read, m) /\ m <= total(f) - src[f].read

ReadEffect(e, f, b, q, t, m) ==
    /\ Acting(e, t, wire[Peer(e)], m, 0) /\ After(e, t, wire[Peer(e)])
    /\ Source(f) = e /\ Fd(chan[e], e, f) >= 0 /\ chan[e].present
    /\ Reading(e, f, b, m) /\ m \in Nat
    /\ src' = [src EXCEPT ![f].read = @ + m] /\ src' \in [Stream -> [read : Nat, closed : BOOLEAN]]
    /\ (\A h \in Stream : src'[h].read <= total(h)) /\ src'[f].read = src[f].read + m
    /\ Closing(e, b, t, q, src') /\ IsChannel(e, t)
    /\ (t.present => t.pid = chan[e].pid /\ t.exitpid = chan[e].exitpid) /\ ~t.died
    /\ (e = "server" => chan[e].pid)

LEMMA ReadActs ==
  ASSUME Typed, Working, NEW e \in End, NEW f \in Stream, ReadFd(e, f)
  PROVE  \E b, q, t, m : ReadEffect(e, f, b, q, t, m)
  <1>0. PICK c : c = chan[e]
    OBVIOUS
  <1>1. /\ c.present /\ Source(f) = e /\ Fd(c, e, f) >= 0 /\ c.transwindow > 0
        /\ (src[f].read < total(f) \/ src[f].closed)
    BY <1>0 DEF ReadFd, CanRead, fd_read_pending
  <1>2. InUse(e, c) /\ IsChannel(e, c) /\ c.out = <<>> /\ c.put = <<>> /\ c.transwindow \in Nat
        /\ c.recvwindow \in Nat
    BY <1>0, <1>1, Live, ChannelFields
  <1>3. PICK r \in Nat, T \in Nat : r = src[f].read /\ T = total(f) /\ r <= T
    BY Totals DEF Typed
  <1>4. PICK avail \in Lesser(1, T - r)..(T - r) :
           \E b \in {send_msg_channel_data(e, c, f, avail)} :
           \E s \in {[src EXCEPT ![f].read = @ + chan[e].transwindow - b.transwindow]} :
           \E t \in {check_close(e, b, s)} : Done(e, t, wire) /\ src' = s
    BY <1>0, <1>3 DEF ReadFd
  <1>5. PICK b, t : /\ b = send_msg_channel_data(e, c, f, avail)
                    /\ src' = [src EXCEPT ![f].read = @ + c.transwindow - b.transwindow]
                    /\ t = check_close(e, b, src') /\ Done(e, t, wire)
    BY <1>0, <1>4
  <1>6. avail \in Nat /\ (avail = 0 => r = T) /\ avail <= T - r
    BY <1>3, <1>4 DEF Lesser
  <1>7. ~c.sent_eof /\ ~c.sent_close /\ (e = "server" => c.pid)
    BY <1>1, <1>2, MaySend
  <1>8. \/ avail = 0 /\ Shut(e, c, b, f)
        \/ \E m : m <= avail /\ SentBlocks(e, c, b, f, r, m)
    BY <1>1, <1>2, <1>3, <1>5, <1>6, SendsData
  <1>9. PICK m \in Nat :
           /\ Reading(e, f, b, m) /\ Before(e, c, b, m, 0) /\ b.transwindow + m = c.transwindow
           /\ b.recvwindow = c.recvwindow /\ b.recv_eof = c.recv_eof /\ b.recv_close = c.recv_close
           /\ b.pid = c.pid /\ b.exitpid = c.exitpid /\ IsChannel(e, b) /\ InUse(e, b) /\ r + m <= T
    <2>1. CASE avail = 0 /\ Shut(e, c, b, f)
      <3>1. /\ IsChannel(e, b) /\ InUse(e, b) /\ Same(c, b, Fds)
        BY <2>1 DEF Shut
      <3>2. /\ b.transwindow = c.transwindow /\ b.out = c.out /\ b.sent_eof = c.sent_eof
            /\ b.sent_close = c.sent_close
            /\ b.recvwindow = c.recvwindow /\ b.recv_eof = c.recv_eof /\ b.recv_close = c.recv_close
            /\ b.pid = c.pid /\ b.exitpid = c.exitpid
        BY <3>1 DEF Same, Fields, Fds, Flags, Counters
      <3>3. Before(e, c, b, 0, 0)
        BY <1>2, <3>1, <3>2, NothingSent
      <3>4. Reading(e, f, b, 0)
        BY <1>0, <1>1, <1>3, <1>6, <2>1 DEF Reading
      <3>5. b.transwindow + 0 = c.transwindow /\ r + 0 <= T
        BY <1>2, <1>3, <3>2
      <3> QED BY <3>1, <3>2, <3>3, <3>4, <3>5
    <2>2. CASE \E m : m <= avail /\ SentBlocks(e, c, b, f, r, m)
      <3>1. PICK m : m <= avail /\ SentBlocks(e, c, b, f, r, m)
        BY <2>2
      <3>2. /\ IsChannel(e, b) /\ InUse(e, b) /\ Same(c, b, {"out", "transwindow"}) /\ m \in Nat
            /\ b.transwindow + m = c.transwindow
        BY <3>1 DEF SentBlocks
      <3>3. /\ b.recvwindow = c.recvwindow /\ b.recv_eof = c.recv_eof /\ b.recv_close = c.recv_close
            /\ b.pid = c.pid /\ b.exitpid = c.exitpid
        BY <3>2, SameData DEF DataFields, Counters
      <3>4. Before(e, c, b, m, 0)
        BY <1>1, <1>2, <1>7, <3>1, DataSent
      <3>5. r + m <= T /\ m <= T - r
        BY <1>3, <1>6, <3>1, <3>2
      <3>6. Reading(e, f, b, m)
        BY <1>0, <1>3, <3>1, <3>5 DEF Reading
      <3> QED BY <3>2, <3>3, <3>4, <3>5, <3>6
    <2> QED BY <1>8, <2>1, <2>2
  <1>10. src' = [src EXCEPT ![f].read = @ + m]
    <2>1. PICK x \in Nat, y \in Nat : x = c.transwindow /\ y = b.transwindow
      BY <1>2, <1>9, ChannelFields
    <2>2. x = y + m
      BY <1>9, <2>1
    <2>3. r + x - y = r + m
      BY <2>2
    <2>4. src' = [src EXCEPT ![f].read = r + x - y]
      BY <1>3, <1>5, <2>1
    <2> QED BY <1>3, <2>3, <2>4
  <1>11. /\ src' \in [Stream -> [read : Nat, closed : BOOLEAN]]
         /\ (\A h \in Stream : src'[h].read <= total(h)) /\ src'[f].read = src[f].read + m
    <2>1. src \in [Stream -> [read : Nat, closed : BOOLEAN]] /\ \A h \in Stream : src[h].read <= total(h)
      BY DEF Typed
    <2>2. PICK k \in Nat : k = r + m
      BY <1>3, <1>9
    <2>3. src' = [src EXCEPT ![f] = [src[f] EXCEPT !.read = k]]
      BY <1>3, <1>10, <2>2
    <2>4. [src[f] EXCEPT !.read = k] \in [read : Nat, closed : BOOLEAN]
      BY <2>1
    <2>5. src' \in [Stream -> [read : Nat, closed : BOOLEAN]]
      BY <2>1, <2>3, <2>4
    <2>6. src'[f].read = k /\ \A h \in Stream : h # f => src'[h] = src[h]
      BY <2>1, <2>3
    <2>7. k <= total(f)
      BY <1>3, <1>9, <2>2
    <2> QED BY <1>3, <2>1, <2>2, <2>5, <2>6, <2>7
  <1>12. IsChannel(e, t) /\ \E q : Closing(e, b, t, q, src')
    BY <1>5, <1>9, CheckClose
  <1>13. PICK q : Closing(e, b, t, q, src')
    BY <1>12
  <1>14. Acting(e, t, wire[Peer(e)], m, 0) /\ After(e, t, wire[Peer(e)])
    <2>1. b.transwindow + m <= c.transwindow /\ 0 + c.recvwindow <= b.recvwindow
      BY <1>2, <1>9
    <2> QED BY <1>0, <1>2, <1>5, <1>9, <1>12, <1>13, <2>1, LocalActs
  <1>15. (t.present => t.pid = c.pid /\ t.exitpid = c.exitpid) /\ ~t.died
    BY <1>9, <1>13, Closed
  <1>16. ReadEffect(e, f, b, q, t, m)
    BY <1>0, <1>1, <1>7, <1>9, <1>10, <1>11, <1>12, <1>13, <1>14, <1>15 DEF ReadEffect
  <1> QED BY <1>16

\* channelio() writes what is in the buffer of stream f.
Writing(e, f, b) ==
    \/ ~snk[f].broken /\ \E q, g : Received(e, chan[e], b, f, <<>>, q, g)
    \/ e = "server" /\ snk["stdin"].broken /\ b.put = <<>>

WriteEffect(e, f, b, q, t, g) ==
    /\ Acting(e, t, wire[Peer(e)], 0, g) /\ After(e, t, wire[Peer(e)])
    /\ Source(f) # e /\ Fd(chan[e], e, f) >= 0 /\ chan[e].present
    /\ Writing(e, f, b) /\ Grants(b.out, g) /\ snk' = [snk EXCEPT ![f].got = @ \o b.put]
    /\ IsChannel(e, b) /\ InUse(e, b) /\ b.pid = chan[e].pid /\ b.exitpid = chan[e].exitpid
    /\ b.recv_eof = chan[e].recv_eof /\ b.recv_close = chan[e].recv_close
    /\ b.sent_eof = chan[e].sent_eof /\ b.sent_close = chan[e].sent_close
    /\ b.readfd = chan[e].readfd /\ b.errfd = chan[e].errfd
    /\ (e = "client" => b.writefd = chan[e].writefd)
    /\ Closing(e, b, t, q, src) /\ IsChannel(e, t)
    /\ (t.present => t.pid = chan[e].pid /\ t.exitpid = chan[e].exitpid) /\ ~t.died
    /\ (e = "server" => chan[e].pid)

LEMMA WriteActs ==
  ASSUME Typed, Working, NEW e \in End, NEW f \in Stream, WriteFd(e, f)
  PROVE  \E b, q, t, g : WriteEffect(e, f, b, q, t, g)
  <1>0. PICK c : c = chan[e]
    OBVIOUS
  <1>1. c.present /\ Source(f) # e /\ Fd(c, e, f) >= 0
    BY <1>0 DEF WriteFd, CanWrite
  <1>2. InUse(e, c) /\ IsChannel(e, c) /\ c.out = <<>> /\ c.put = <<>> /\ c.transwindow \in Nat
        /\ c.recvwindow \in Nat /\ c.readfd \in Int /\ c.writefd \in Int /\ c.errfd \in Int
    BY <1>0, <1>1, Live, ChannelFields
  <1>3. PICK n, b, t :
           /\ n \in 1..c[buffer(f)].used
           /\ b = IF snk[f].broken THEN writechannel_fails(e, c, f) ELSE writechannel(e, c, f, <<>>, n)
           /\ t = check_close(e, b, src) /\ Done(e, t, wire) /\ Put(f, b)
    BY <1>0 DEF WriteFd
  <1>4. snk' = [snk EXCEPT ![f].got = @ \o b.put]
    BY <1>3 DEF Put
  <1>5. /\ ~c.sent_close /\ (e = "server" => c.pid /\ f = "stdin" /\ Fd(c, e, f) = c.writefd)
    BY <1>1, <1>2 DEF Fd, Source, InUse, Flagged, FdsOK, FD_CLOSED, FD_UNINIT, Stream, End
  <1>6. PICK g \in Nat :
           /\ Writing(e, f, b) /\ Grants(b.out, g) /\ IsChannel(e, b) /\ InUse(e, b)
           /\ b.recvwindow = c.recvwindow + g /\ b.transwindow = c.transwindow
           /\ b.pid = c.pid /\ b.exitpid = c.exitpid
           /\ b.recv_eof = c.recv_eof /\ b.recv_close = c.recv_close
           /\ b.sent_eof = c.sent_eof /\ b.sent_close = c.sent_close
           /\ b.readfd = c.readfd /\ b.errfd = c.errfd /\ (e = "client" => b.writefd = c.writefd)
    <2>1. CASE ~snk[f].broken
      <3>1. n \in Nat /\ n <= c[buffer(f)].used
        BY <1>2, <1>3, BufferUsed DEF buffer
      <3>2. PICK q, g : Received(e, c, b, f, <<>>, q, g)
        BY <1>2, <1>3, <2>1, <3>1, WritesOut
      <3>3. /\ IsChannel(e, b) /\ InUse(e, b) /\ Grants(q, g) /\ g \in Nat /\ b.out = c.out \o q
            /\ b.recvwindow + Len(<<>>) = c.recvwindow + g
            /\ Same(c, b, {buffer(f), "recvdonelen", "recvwindow", "out", "put"})
        BY <3>2 DEF Received, Grants
      <3>4. b.out = q
        BY <1>2, <3>3, GrantsFacts, ConcatEmptySeq
      <3>5. /\ b.transwindow = c.transwindow /\ b.pid = c.pid /\ b.exitpid = c.exitpid
            /\ b.recv_eof = c.recv_eof /\ b.recv_close = c.recv_close
            /\ b.sent_eof = c.sent_eof /\ b.sent_close = c.sent_close
            /\ b.readfd = c.readfd /\ b.errfd = c.errfd /\ b.writefd = c.writefd
        <4>1. PICK F : F = {buffer(f), "recvdonelen", "recvwindow", "out", "put"}
          OBVIOUS
        <4>2. F \subseteq DataFields /\ "transwindow" \notin F /\ Same(c, b, F)
          BY <3>3, <4>1 DEF DataFields, Counters, buffer
        <4> QED BY <4>2, SameData
      <3>6. b.recvwindow = c.recvwindow + g
        <4>1. Len(<<>>) = 0 /\ b.recvwindow \in Nat
          BY <3>3, ChannelFields
        <4> QED BY <3>3, <4>1
      <3>7. Writing(e, f, b)
        BY <1>0, <2>1, <3>2 DEF Writing
      <3> QED BY <3>3, <3>4, <3>5, <3>6, <3>7
    <2>2. CASE snk[f].broken
      <3>1. f = "stdin" /\ e = "server" /\ Fd(c, e, f) = c.writefd
        BY <1>1, <2>2 DEF Typed, Stream, Source, Fd, End
      <3>2. PICK q, g : FailedWrite(c, b, q, g)
        BY <1>1, <1>2, <1>3, <2>2, <3>1, FailsWrite
      <3>3. /\ IsChannel(e, b) /\ InUse(e, b) /\ Grants(q, g) /\ g \in Nat /\ b.out = c.out \o q
            /\ b.recvwindow = c.recvwindow + g /\ b.readfd = c.readfd /\ b.errfd = c.errfd
            /\ Same(c, b, Fds \cup {"out", "recvwindow", "recvdonelen"})
        BY <3>1, <3>2 DEF FailedWrite, Grants
      <3>4. b.out = q
        BY <1>2, <3>3, GrantsFacts, ConcatEmptySeq
      <3>5. /\ b.transwindow = c.transwindow /\ b.pid = c.pid /\ b.exitpid = c.exitpid
            /\ b.recv_eof = c.recv_eof /\ b.recv_close = c.recv_close
            /\ b.sent_eof = c.sent_eof /\ b.sent_close = c.sent_close /\ b.put = c.put
        BY <3>3 DEF Same, Fields, Fds, Flags, Counters
      <3>6. Writing(e, f, b)
        BY <1>2, <2>2, <3>1, <3>5 DEF Writing
      <3> QED BY <3>1, <3>3, <3>4, <3>5, <3>6
    <2> QED BY <2>1, <2>2
  <1>7. Before(e, c, b, 0, g)
    BY <1>5, <1>6, GrantSent
  <1>8. IsChannel(e, t) /\ \E q : Closing(e, b, t, q, src)
    BY <1>3, <1>6, CheckClose
  <1>9. PICK q : Closing(e, b, t, q, src)
    BY <1>8
  <1>10. Acting(e, t, wire[Peer(e)], 0, g) /\ After(e, t, wire[Peer(e)])
    <2>1. b.transwindow + 0 <= c.transwindow /\ g + c.recvwindow <= b.recvwindow
      BY <1>2, <1>6
    <2> QED BY <1>0, <1>2, <1>3, <1>6, <1>7, <1>8, <1>9, <2>1, LocalActs
  <1>11. (t.present => t.pid = c.pid /\ t.exitpid = c.exitpid) /\ ~t.died
    BY <1>6, <1>9, Closed
  <1>12. WriteEffect(e, f, b, q, t, g)
    BY <1>0, <1>1, <1>4, <1>5, <1>6, <1>8, <1>9, <1>10, <1>11 DEF WriteEffect
  <1> QED BY <1>12

\* svr_chansess_checksignal() and check_close().
ExitEffect(b, q, t) ==
    /\ Acting("server", t, wire["client"], 0, 0) /\ After("server", t, wire["client"])
    /\ IsChannel("server", b) /\ InUse("server", b) /\ Same(chan["server"], b, {"exitpid"}) /\ b.exitpid
    /\ Closing("server", b, t, q, src) /\ IsChannel("server", t) /\ chan["server"].pid
    /\ (t.present => t.pid /\ t.exitpid) /\ ~t.died

LEMMA ExitActs ==
  ASSUME Typed, Working, NoticeExit, chan["server"].present
  PROVE  \E b, q, t : ExitEffect(b, q, t)
  <1>0. PICK c, e : c = chan["server"] /\ e = "server" /\ e \in End /\ Peer(e) = "client"
    BY DEF End, Peer
  <1>1. prog = "exited" /\ Done("server", check_close("server", [c EXCEPT !.exitpid = TRUE], src), wire)
    BY <1>0 DEF NoticeExit, CanNotice
  <1>2. InUse(e, c) /\ IsChannel(e, c) /\ c.out = <<>> /\ c.put = <<>> /\ c.transwindow \in Nat
        /\ c.recvwindow \in Nat /\ DOMAIN c = Fields
    BY <1>0, Live, ChannelFields
  <1>3. c.pid
    BY <1>0, <1>1 DEF Working, ExecOK
  <1>4. PICK b : b = [c EXCEPT !.exitpid = TRUE]
    OBVIOUS
  <1>5. Same(c, b, {"exitpid"}) /\ b.exitpid = TRUE
    BY <1>2, <1>4 DEF Same, Fields, Fds, Flags, Counters
  <1>6. IsChannel(e, b)
    <2>1. \A f \in {"exitpid"} : HasType(e, f, b[f])
      BY <1>5 DEF HasType, Fds, Flags, Counters
    <2> QED BY <1>2, <1>5, <2>1, SameType
  <1>7. /\ b.present = c.present /\ b.sent_eof = c.sent_eof /\ b.sent_close = c.sent_close
        /\ b.recv_eof = c.recv_eof /\ b.recv_close = c.recv_close /\ b.flushing = c.flushing
        /\ b.errIsWrite = c.errIsWrite /\ b.pid = c.pid
        /\ b.await_open = c.await_open /\ b.died = c.died /\ b.out = c.out
        /\ b.readfd = c.readfd /\ b.writefd = c.writefd /\ b.errfd = c.errfd
        /\ b.recvwindow = c.recvwindow /\ b.transwindow = c.transwindow
        /\ b.recvdonelen = c.recvdonelen /\ b.writebuf = c.writebuf /\ b.extrabuf = c.extrabuf
    BY <1>5 DEF Same, Fields, Fds, Flags, Counters
  <1>8. InUse(e, b)
    <2>1. FdsOK(e, b) /\ Room(e, b)
      BY <1>2, <1>7 DEF InUse, FdsOK, Room
    <2>2. Flagged(b)
      BY <1>2, <1>3, <1>7 DEF InUse, Flagged, NoMoreToSend
    <2> QED BY <1>2, <1>7, <2>1, <2>2 DEF InUse
  <1>9. Before(e, c, b, 0, 0)
    BY <1>2, <1>6, <1>7, <1>8, NothingSent
  <1>10. PICK t : t = check_close(e, b, src) /\ Done(e, t, wire)
    BY <1>0, <1>1, <1>4
  <1>11. IsChannel(e, t) /\ \E q : Closing(e, b, t, q, src)
    BY <1>0, <1>6, <1>8, <1>10, CheckClose
  <1>12. PICK q : Closing(e, b, t, q, src)
    BY <1>11
  <1>13. Acting(e, t, wire[Peer(e)], 0, 0) /\ After(e, t, wire[Peer(e)])
    <2>1. b.transwindow + 0 <= c.transwindow /\ 0 + c.recvwindow <= b.recvwindow
      BY <1>2, <1>7
    <2> QED BY <1>0, <1>2, <1>7, <1>9, <1>10, <1>11, <1>12, <2>1, LocalActs
  <1>14. (t.present => t.pid /\ t.exitpid) /\ ~t.died
    BY <1>0, <1>3, <1>5, <1>6, <1>7, <1>12, Closed
  <1>15. ExitEffect(b, q, t)
    BY <1>0, <1>3, <1>5, <1>6, <1>8, <1>11, <1>12, <1>13, <1>14 DEF ExitEffect
  <1> QED BY <1>15

\* The request for the command.
ExecEffect(ok, t) ==
    /\ Acting("server", t, Tail(wire["client"]), 0, 0) /\ After("server", t, Tail(wire["client"]))
    /\ Same(chan["server"], t, Fds \cup {"pid"}) /\ InUse("server", t) /\ IsChannel("server", t)
    /\ ExecPending /\ Head(wire["client"]).type = "EXEC" /\ t.out = <<>>
    /\ ok => t.pid /\ t.readfd = 4 /\ t.writefd = 3 /\ t.errfd = 5
    /\ ~ok => t = chan["server"]

LEMMA ExecActs ==
  ASSUME Typed, Working, NEW ok \in BOOLEAN, RecvExec(ok)
  PROVE  \E t : ExecEffect(ok, t)
  <1>0. PICK c, e, v : c = chan["server"] /\ e = "server" /\ e \in End /\ Peer(e) = "client"
                       /\ v = wire["client"]
    BY DEF End, Peer
  <1>1. /\ InUse(e, c) /\ IsChannel(e, c) /\ c.present /\ c.out = <<>> /\ c.put = <<>>
        /\ v \in Seq(Packet) /\ v # <<>> /\ Head(v) = v[1] /\ v[1] \in Packet /\ Tail(v) \in Seq(Packet)
    BY <1>0, Addressed DEF RecvExec, Incoming
  <1>2. v[1].type = "EXEC"
    BY <1>0, <1>1 DEF RecvExec, Incoming
  <1>3. ExecPending /\ Fresh(c)
    BY <1>0, <1>1, <1>2 DEF ExecPending, Working, ExecOK
  <1>4. PICK t : /\ t = IF ok THEN noptycommand(c) ELSE c
                 /\ Done(e, t, [wire EXCEPT ![Peer(e)] = Tail(@)])
    BY <1>0 DEF RecvExec, Unread
  <1>5. DOMAIN c = Fields /\ c.transwindow \in Nat /\ c.recvwindow \in Nat
    BY <1>1, ChannelFields
  <1>6. /\ Same(c, t, Fds \cup {"pid"})
        /\ ok => t.pid = TRUE /\ t.readfd = 4 /\ t.writefd = 3 /\ t.errfd = 5
        /\ ~ok => t = c
    BY <1>4, <1>5 DEF noptycommand, Same, Fields, Fds, Flags, Counters
  <1>7. IsChannel(e, t)
    <2>1. CASE ok
      <3>0. t.pid \in BOOLEAN /\ t.readfd \in Int /\ t.writefd \in Int /\ t.errfd \in Int
        <4>1. t.pid = TRUE
          BY <1>6, <2>1, Zenon
        <4>2. t.readfd = 4 /\ t.writefd = 3 /\ t.errfd = 5
          BY <1>6, <2>1
        <4>3. t.pid \in BOOLEAN
          BY <4>1, Zenon
        <4> QED BY <4>2, <4>3
      <3>1. \A f \in Fds \cup {"pid"} : HasType(e, f, t[f])
        BY <3>0 DEF HasType, Fds, Flags, Counters
      <3> QED BY <1>1, <1>6, <3>1, SameType
    <2> QED BY <1>1, <1>6, <2>1
  <1>8. /\ t.present = c.present /\ t.sent_eof = c.sent_eof /\ t.sent_close = c.sent_close
        /\ t.recv_eof = c.recv_eof /\ t.recv_close = c.recv_close /\ t.flushing = c.flushing
        /\ t.errIsWrite = c.errIsWrite /\ t.exitpid = c.exitpid
        /\ t.await_open = c.await_open /\ t.died = c.died /\ t.out = c.out
        /\ t.recvwindow = c.recvwindow /\ t.transwindow = c.transwindow
        /\ t.recvdonelen = c.recvdonelen /\ t.writebuf = c.writebuf /\ t.extrabuf = c.extrabuf
    BY <1>6 DEF Same, Fields, Fds, Flags, Counters
  <1>9. InUse(e, t)
    <2>1. CASE ok
      <3>1. FdsOK(e, t) /\ Room(e, t)
        BY <1>0, <1>1, <1>6, <1>8, <2>1 DEF InUse, FdsOK, Room
      <3>2. Flagged(t)
        BY <1>1, <1>3, <1>6, <1>8, <2>1 DEF InUse, Flagged, NoMoreToSend, Fresh
      <3> QED BY <1>1, <1>8, <3>1, <3>2 DEF InUse
    <2> QED BY <1>1, <1>6, <2>1
  <1>10. PICK v2 \in Seq(Packet) : v2 = Tail(v)
    BY <1>1
  <1>11. After(e, t, v2)
    BY <1>0, <1>4, <1>7, <1>10, DoneFacts
  <1>12. Acted(e, c, t, 0, 0)
    BY <1>1, <1>7, <1>8, <1>9, NothingSent, ActsOnly
  <1>13. Saw(c, t, v, v2)
    BY <1>1, <1>8, <1>10 DEF Saw
  <1>14. t.transwindow + 0 <= c.transwindow /\ 0 + c.recvwindow <= t.recvwindow
    BY <1>5, <1>8
  <1>15. Head(v).type \notin DataTypes \cup {"WINDOW_ADJUST"}
    BY <1>1, <1>2 DEF DataTypes
  <1>16. Acting(e, t, v2, 0, 0)
    BY <1>0, <1>1, <1>12, <1>13, <1>14, <1>15, QuietActs
  <1>17. ExecEffect(ok, t)
    BY <1>0, <1>1, <1>2, <1>3, <1>6, <1>7, <1>8, <1>9, <1>10, <1>11, <1>16 DEF ExecEffect
  <1> QED BY <1>17

LEMMA UnchangedField ==
  ASSUME NEW n, n = [f \in DOMAIN n |-> n[f]]
  PROVE  [n EXCEPT !["out"] = n["out"]] = n
  OBVIOUS

LEMMA NoChannelUnused ==
  ASSUME NEW e \in End
  PROVE  Unused(e, NoChannel(e)) /\ NoChannel(e).out = <<>> /\ NoChannel(e).put = <<>>
  <1>1. PICK n : n = NoChannel(e)
    OBVIOUS
  <1>2. n = [f \in DOMAIN n |-> n[f]]
    BY <1>1, Zenon DEF NoChannel, newchannel
  <1>3. [n EXCEPT !.out = n.out] = n
    BY <1>2, UnchangedField
  <1>4. n.out = <<>> /\ n.put = <<>>
    BY <1>1, NewChannel DEF Same, Fields
  <1> QED BY <1>1, <1>3, <1>4 DEF Unused

-----------------------------------------------------------------------------
(* Every step keeps the protocol.                                          *)

LEMMA SinkTyped ==
  ASSUME Typed, NEW f \in Stream, NEW x \in Seq(Nat), snk' = [snk EXCEPT ![f].got = @ \o x]
  PROVE  /\ snk' \in [Stream -> [got : Seq(Nat), broken : BOOLEAN]]
         /\ \A h \in Stream : snk'[h].broken = snk[h].broken
         /\ snk'[f].got = snk[f].got \o x /\ \A h \in Stream : h # f => snk'[h] = snk[h]
  <1>1. snk \in [Stream -> [got : Seq(Nat), broken : BOOLEAN]]
    BY DEF Typed
  <1>2. PICK y \in Seq(Nat) : y = snk[f].got \o x
    BY <1>1, ConcatFacts
  <1>3. PICK r : r = [snk[f] EXCEPT !.got = y]
    OBVIOUS
  <1>4. r \in [got : Seq(Nat), broken : BOOLEAN] /\ r.got = y /\ r.broken = snk[f].broken
    BY <1>1, <1>3
  <1>5. snk' = [snk EXCEPT ![f] = r]
    BY <1>2, <1>3
  <1> QED BY <1>1, <1>2, <1>4, <1>5

\* The variables of the user and of the command are typed.
Outside ==
    /\ src \in [Stream -> [read : Nat, closed : BOOLEAN]]
    /\ \A f \in Stream : src[f].read <= total(f)
    /\ snk \in [Stream -> [got : Seq(Nat), broken : BOOLEAN]]
    /\ ~snk["stdout"].broken /\ ~snk["stderr"].broken
    /\ prog \in {"none", "running", "exited", "gone"} /\ status \in BOOLEAN

LEMMA Proceeds ==
  ASSUME Typed, Working, NEW e \in End, NEW t, NEW v2, NEW n, NEW g, Acting(e, t, v2, n, g),
         After(e, t, v2), Outside',
         e = "client" => prog' = prog,
         e = "server" => ~ExecPending \/ (wire["client"] # <<>> /\ v2 = Tail(wire["client"])),
         e = "server" /\ t.present => (t.pid <=> prog' # "none") /\ (t.exitpid <=> prog' = "gone")
  PROVE  Typed' /\ Working'
  <1>1. \A i \in End : Linked(i)'
    BY EndActs
  <1>2. ExecOK'
    BY ExecKept
  <1>3. Typed'
    BY DEF After, Typed, Outside
  <1> QED BY <1>1, <1>2, <1>3 DEF Working

\* A server that does anything but start the command has started it.
LEMMA NotPending ==
  ASSUME Typed, Working, chan["server"].present, chan["server"].pid
  PROVE  ~ExecPending
  BY DEF Working, ExecOK, Fresh

LEMMA ProgKept ==
  ASSUME Typed, Working, chan["server"].present, prog' = prog
  PROVE  /\ chan["server"].pid <=> prog' # "none"
         /\ chan["server"].exitpid <=> prog' = "gone"
  BY DEF Working, ExecOK

LEMMA WorkingStep ==
  ASSUME Typed, Working, Next
  PROVE  Typed' /\ Working'
  <1>0. Outside /\ "server" \in End /\ "client" \in End /\ Peer("server") = "client" /\ Peer("client") = "server"
    BY DEF Typed, Outside, End, Peer
  <1>1. ASSUME NEW e \in End, RecvControl(e) PROVE Typed' /\ Working'
    <2>1. PICK t : ControlEffect(e, t)
      BY <1>1, ControlActs
    <2>2. src' = src /\ snk' = snk /\ prog' = prog
      BY <1>1 DEF RecvControl
    <2>3. /\ Acting(e, t, Tail(wire[Peer(e)]), 0, 0) /\ After(e, t, Tail(wire[Peer(e)]))
          /\ (t.present => t.pid = chan[e].pid /\ t.exitpid = chan[e].exitpid) /\ status' \in BOOLEAN
      BY <1>0, <2>1 DEF ControlEffect, Outside
    <2>4. Outside'
      BY <1>0, <2>2, <2>3 DEF Outside
    <2>5. wire[Peer(e)] # <<>> /\ chan[e].present
      BY <1>1, Addressed DEF RecvControl, Incoming, CanReceive
    <2> QED BY <1>0, <2>2, <2>3, <2>4, <2>5, Proceeds, ProgKept
  <1>2. ASSUME NEW e \in End, RecvData(e) PROVE Typed' /\ Working'
    <2>1. PICK f, t, g : DataEffect(e, f, t, g)
      BY <1>2, DataActs
    <2>2. src' = src /\ status' = status /\ prog' = prog
      BY <1>2 DEF RecvData
    <2>3. /\ Acting(e, t, Tail(wire[Peer(e)]), 0, g) /\ After(e, t, Tail(wire[Peer(e)])) /\ f \in Stream
          /\ snk' = [snk EXCEPT ![f].got = @ \o t.put] /\ IsChannel(e, t)
          /\ t.pid = chan[e].pid /\ t.exitpid = chan[e].exitpid
      BY <2>1 DEF DataEffect
    <2>4. t.put \in Seq(Nat)
      BY <2>3, ChannelFields
    <2>5. Outside'
      BY <1>0, <2>2, <2>3, <2>4, SinkTyped DEF Outside, Stream
    <2>6. wire[Peer(e)] # <<>> /\ chan[e].present
      BY <1>2, Addressed DEF RecvData, Incoming, CanReceive
    <2> QED BY <1>0, <2>2, <2>3, <2>5, <2>6, Proceeds, ProgKept
  <1>3. ASSUME NEW e \in End, NEW f \in Stream, ReadFd(e, f) PROVE Typed' /\ Working'
    <2>1. PICK b, q, t, m : ReadEffect(e, f, b, q, t, m)
      BY <1>3, ReadActs
    <2>2. snk' = snk /\ status' = status /\ prog' = prog
      BY <1>3 DEF ReadFd
    <2>3. /\ Acting(e, t, wire[Peer(e)], m, 0) /\ After(e, t, wire[Peer(e)]) /\ chan[e].present
          /\ src' \in [Stream -> [read : Nat, closed : BOOLEAN]]
          /\ (\A h \in Stream : src'[h].read <= total(h))
          /\ (t.present => t.pid = chan[e].pid /\ t.exitpid = chan[e].exitpid)
          /\ (e = "server" => chan[e].pid)
      BY <2>1 DEF ReadEffect
    <2>4. Outside'
      BY <1>0, <2>2, <2>3 DEF Outside
    <2> QED BY <2>2, <2>3, <2>4, Proceeds, ProgKept, NotPending
  <1>4. ASSUME NEW e \in End, NEW f \in Stream, WriteFd(e, f) PROVE Typed' /\ Working'
    <2>1. PICK b, q, t, g : WriteEffect(e, f, b, q, t, g)
      BY <1>4, WriteActs
    <2>2. src' = src /\ status' = status /\ prog' = prog
      BY <1>4 DEF WriteFd
    <2>3. /\ Acting(e, t, wire[Peer(e)], 0, g) /\ After(e, t, wire[Peer(e)]) /\ chan[e].present
          /\ snk' = [snk EXCEPT ![f].got = @ \o b.put] /\ IsChannel(e, b)
          /\ (t.present => t.pid = chan[e].pid /\ t.exitpid = chan[e].exitpid)
          /\ (e = "server" => chan[e].pid)
      BY <2>1 DEF WriteEffect
    <2>4. b.put \in Seq(Nat)
      BY <2>3, ChannelFields
    <2>5. Outside'
      BY <1>0, <2>2, <2>3, <2>4, SinkTyped DEF Outside, Stream
    <2> QED BY <2>2, <2>3, <2>5, Proceeds, ProgKept, NotPending
  <1>5. ASSUME NEW ok \in BOOLEAN, RecvExec(ok) PROVE Typed' /\ Working'
    <2>1. PICK t : ExecEffect(ok, t)
      BY <1>5, ExecActs
    <2>2. src' = src /\ snk' = snk /\ status' = status /\ prog' = IF ok THEN "running" ELSE prog
      BY <1>5 DEF RecvExec
    <2>3. /\ Acting("server", t, Tail(wire["client"]), 0, 0) /\ After("server", t, Tail(wire["client"]))
          /\ ExecPending /\ (ok => t.pid) /\ (~ok => t = chan["server"])
          /\ Same(chan["server"], t, Fds \cup {"pid"})
      BY <2>1 DEF ExecEffect
    <2>4. Outside'
      BY <1>0, <2>2 DEF Outside
    <2>5. prog = "none" /\ wire["client"] # <<>> /\ chan["server"].present
      BY <2>3 DEF Working, ExecOK, ExecPending, Fresh
    <2>6. ~chan["server"].pid /\ ~chan["server"].exitpid /\ t.exitpid = chan["server"].exitpid
      BY <2>3, <2>5 DEF Working, ExecOK, Same, Fields, Flags, Fds
    <2>7. (t.pid <=> prog' # "none") /\ (t.exitpid <=> prog' = "gone")
      BY <2>2, <2>3, <2>5, <2>6
    <2> QED BY <1>0, <2>3, <2>4, <2>5, <2>7, Proceeds
  <1>6. CASE NoticeExit
    <2>1. src' = src /\ snk' = snk /\ status' = status /\ prog' = "gone" /\ prog = "exited"
      BY <1>6 DEF NoticeExit, CanNotice
    <2>2. Outside'
      BY <1>0, <2>1 DEF Outside
    <2>3. CASE chan["server"].present
      <3>1. PICK b, q, t : ExitEffect(b, q, t)
        BY <1>6, <2>3, ExitActs
      <3>2. /\ Acting("server", t, wire["client"], 0, 0) /\ After("server", t, wire["client"])
            /\ chan["server"].pid /\ (t.present => t.pid /\ t.exitpid)
        BY <3>1 DEF ExitEffect
      <3> QED BY <1>0, <2>1, <2>2, <2>3, <3>2, Proceeds, NotPending
    <2>4. CASE ~chan["server"].present
      <3>1. chan' = chan /\ wire' = wire
        BY <1>6, <2>4 DEF NoticeExit
      <3>2. Typed'
        BY <2>2, <3>1 DEF Typed, Outside
      <3>3. \A i \in End : Linked(i)'
        BY <3>1 DEF Working, Linked
      <3>4. ExecOK'
        BY <2>1, <2>4, <3>1 DEF Working, ExecOK, ExecPending
      <3> QED BY <3>2, <3>3, <3>4 DEF Working
    <2> QED BY <2>3, <2>4
  <1>7. CASE RemoteClosed
    <2>1. /\ ~chan["client"].present /\ chan' = [chan EXCEPT !["server"] = NoChannel("server")]
          /\ wire' = [e \in End |-> <<>>]
          /\ src' = src /\ snk' = snk /\ status' = status /\ prog' = prog
      BY <1>7 DEF RemoteClosed, Online
    <2>2. Outside'
      BY <1>0, <2>1 DEF Outside
    <2>3. PICK n : n = NoChannel("server") /\ IsChannel("server", n) /\ Unused("server", n)
                   /\ n.out = <<>> /\ n.put = <<>>
      BY <1>0, NewChannel, NoChannelUnused
    <2>4. PICK d : d = chan["client"] /\ IsChannel("client", d) /\ Unused("client", d) /\ d.out = <<>>
                   /\ d.put = <<>>
      BY <1>0, <2>1 DEF Typed, Working, Linked, InUse
    <2>5. DOMAIN chan' = End /\ chan'["server"] = n /\ chan'["client"] = d
      BY <1>0, <2>1, <2>3, <2>4 DEF Typed, End
    <2>6. wire'["server"] = <<>> /\ wire'["client"] = <<>> /\ wire' \in [End -> Seq(Packet)]
      <3>1. <<>> \in Seq(Packet)
        OBVIOUS
      <3> QED BY <1>0, <2>1, <3>1, Zenon
    <2>7. Typed'
      BY <2>2, <2>3, <2>4, <2>5, <2>6 DEF Typed, Outside, End
    <2>8. Sent(<<>>, <<>>, n, d) /\ Sent(<<>>, <<>>, d, n)
      BY <1>0, <2>3, <2>4, UnusedFields, NoPacket DEF Sent
    <2>9. Linked("server")' /\ Linked("client")'
      BY <1>0, <2>3, <2>4, <2>5, <2>6, <2>8 DEF Linked
    <2>10. ExecOK'
      <3>1. 1..Len(<<>>) = {} /\ 2..Len(<<>>) = {} /\ ~chan'["server"].present
        BY <1>0, <2>3, <2>5, UnusedFields
      <3>2. \A e \in End : wire'[e] = <<>>
        BY <2>6 DEF End
      <3> QED BY <2>6, <3>1, <3>2 DEF ExecOK, ExecPending
    <2> QED BY <2>7, <2>9, <2>10 DEF Working, End
  <1>8. ASSUME UserEof \/ Detaches \/ \E held \in BOOLEAN : Exits(held) PROVE Typed' /\ Working'
    <2>1. /\ chan' = chan /\ wire' = wire /\ status' = status
          /\ prog' = prog \/ (prog = "running" /\ prog' = "exited")
      BY <1>8 DEF UserEof, Detaches, Exits
    <2>2. Outside'
      <3>1. CASE UserEof
        BY <1>0, <3>1 DEF UserEof, Outside, Stream
      <3>2. CASE Detaches
        BY <1>0, <3>2 DEF Detaches, Outside, Stream
      <3>3. ASSUME NEW held \in BOOLEAN, Exits(held) PROVE Outside'
        BY <1>0, <3>3 DEF Exits, Outside, Stream
      <3> QED BY <1>8, <3>1, <3>2, <3>3
    <2>3. Typed'
      BY <2>1, <2>2 DEF Typed, Outside
    <2>4. \A i \in End : Linked(i)'
      BY <2>1 DEF Working, Linked
    <2>5. ExecOK'
      BY <2>1 DEF Working, ExecOK, ExecPending
    <2> QED BY <2>3, <2>4, <2>5 DEF Working
  <1>9. ~RecvOpen
    <2>1. ASSUME RecvOpen PROVE FALSE
      BY <1>0, <2>1, Addressed DEF RecvOpen, Incoming, Types
    <2> QED BY <2>1
  <1> QED BY <1>1, <1>2, <1>3, <1>4, <1>5, <1>6, <1>7, <1>8, <1>9 DEF Next

(* Setting up. *)
LEMMA NewFields ==
  ASSUME NEW e \in End, NEW c, c = newchannel(e)
  PROVE  /\ IsChannel(e, c) /\ DOMAIN c = Fields
         /\ c.present /\ c.readfd = FD_UNINIT /\ c.writefd = FD_UNINIT /\ c.errfd = FD_CLOSED
         /\ ~c.sent_eof /\ ~c.recv_eof /\ ~c.sent_close /\ ~c.recv_close
         /\ c.transwindow = 0 /\ c.recvwindow = recv_window(e) /\ c.recvdonelen = 0
         /\ c.writebuf.used = 0 /\ c.extrabuf.used = 0 /\ ~c.errIsWrite /\ ~c.flushing
         /\ ~c.pid /\ ~c.exitpid /\ ~c.await_open /\ c.out = <<>> /\ c.put = <<>> /\ ~c.died
  <1>1. IsChannel(e, c) /\ DOMAIN c = Fields
    BY NewChannel, ChannelFields
  <1> QED BY <1>1 DEF newchannel, cbuf_new

\* The client's channel before it is confirmed, and the server's after it is opened.
Asked(c) == c = [newchannel("client") EXCEPT !.await_open = TRUE, !.readfd = 0, !.writefd = 0]
Opened(c) == c = [newchannel("server") EXCEPT !.transwindow = ClientWindow]

LEMMA AskedFields ==
  ASSUME NEW c, Asked(c)
  PROVE  /\ IsChannel("client", c) /\ c.present /\ c.transwindow = 0 /\ c.recvwindow = ClientWindow
         /\ c.writebuf.used = 0 /\ c.extrabuf.used = 0 /\ c.await_open /\ ~c.died
         /\ ~c.sent_eof /\ ~c.recv_eof /\ ~c.sent_close /\ ~c.recv_close /\ c.recvdonelen = 0
         /\ ~c.pid /\ ~c.exitpid /\ ~c.flushing /\ c.out = <<>> /\ c.put = <<>>
  <1>1. PICK n : n = newchannel("client") /\ "client" \in End
    BY DEF End
  <1>2. IsChannel("client", n) /\ DOMAIN n = Fields
    BY <1>1, NewFields
  <1>3. /\ Same(n, c, {"await_open", "readfd", "writefd"})
        /\ c.await_open = TRUE /\ c.readfd = 0 /\ c.writefd = 0
    BY <1>1, <1>2 DEF Asked, Same, Fields, Flags, Fds, Counters
  <1>4. c.await_open \in BOOLEAN
    BY <1>3, Zenon
  <1>5. \A f \in {"await_open", "readfd", "writefd"} : HasType("client", f, c[f])
    BY <1>3, <1>4 DEF HasType, Fds, Flags, Counters
  <1>6. IsChannel("client", c)
    BY <1>2, <1>3, <1>5, SameType
  <1>7. /\ c.present = n.present /\ c.transwindow = n.transwindow /\ c.recvwindow = n.recvwindow
        /\ c.writebuf = n.writebuf /\ c.extrabuf = n.extrabuf /\ c.died = n.died
        /\ c.sent_eof = n.sent_eof /\ c.recv_eof = n.recv_eof /\ c.sent_close = n.sent_close
        /\ c.recv_close = n.recv_close /\ c.recvdonelen = n.recvdonelen /\ c.pid = n.pid
        /\ c.exitpid = n.exitpid /\ c.flushing = n.flushing /\ c.out = n.out /\ c.put = n.put
    BY <1>3 DEF Same, Fields, Flags, Fds, Counters
  <1>8. recv_window("client") = ClientWindow
    BY DEF recv_window
  <1> QED BY <1>1, <1>3, <1>6, <1>7, <1>8, NewFields

LEMMA OpenedFields ==
  ASSUME NEW c, Opened(c)
  PROVE  /\ IsChannel("server", c) /\ InUse("server", c) /\ Fresh(c)
         /\ c.transwindow = ClientWindow /\ c.recvwindow = ServerWindow
         /\ ~c.recv_close /\ ~c.sent_close /\ ~c.exitpid /\ c.out = <<>> /\ c.put = <<>>
  <1>1. PICK n : n = newchannel("server") /\ "server" \in End
    BY DEF End
  <1>2. IsChannel("server", n) /\ DOMAIN n = Fields
    BY <1>1, NewFields
  <1>3. Same(n, c, {"transwindow"}) /\ c.transwindow = ClientWindow /\ c.transwindow \in Nat
    BY <1>1, <1>2, Constants DEF Opened, Same, Fields, Flags, Fds, Counters
  <1>5. \A f \in {"transwindow"} : HasType("server", f, c[f])
    BY <1>3 DEF HasType, Fds, Flags, Counters
  <1>6. IsChannel("server", c)
    BY <1>2, <1>3, <1>5, SameType
  <1>7. /\ c.present = n.present /\ c.recvwindow = n.recvwindow /\ c.await_open = n.await_open
        /\ c.writebuf = n.writebuf /\ c.extrabuf = n.extrabuf /\ c.died = n.died
        /\ c.sent_eof = n.sent_eof /\ c.recv_eof = n.recv_eof /\ c.sent_close = n.sent_close
        /\ c.recv_close = n.recv_close /\ c.recvdonelen = n.recvdonelen /\ c.pid = n.pid
        /\ c.exitpid = n.exitpid /\ c.flushing = n.flushing /\ c.out = n.out /\ c.put = n.put
        /\ c.readfd = n.readfd /\ c.writefd = n.writefd /\ c.errfd = n.errfd
        /\ c.errIsWrite = n.errIsWrite
    BY <1>3, SameData DEF DataFields, Counters
  <1>8. recv_window("server") = ServerWindow /\ ServerWindow \in Nat
    BY Constants DEF recv_window
  <1>9. /\ c.present /\ c.readfd = FD_UNINIT /\ c.writefd = FD_UNINIT /\ c.errfd = FD_CLOSED
        /\ ~c.sent_eof /\ ~c.recv_eof /\ ~c.sent_close /\ ~c.recv_close
        /\ c.recvwindow = ServerWindow /\ c.recvdonelen = 0
        /\ c.writebuf.used = 0 /\ c.extrabuf.used = 0 /\ ~c.errIsWrite /\ ~c.flushing
        /\ ~c.pid /\ ~c.exitpid /\ ~c.await_open /\ c.out = <<>> /\ c.put = <<>> /\ ~c.died
    BY <1>1, <1>7, <1>8, NewFields
  <1>10. FdsOK("server", c) /\ Flagged(c)
    BY <1>9 DEF FdsOK, Flagged
  <1>11. Room("server", c)
    BY <1>8, <1>9 DEF Room
  <1> QED BY <1>3, <1>6, <1>9, <1>10, <1>11 DEF InUse, Fresh

LEMMA Initially ==
  ASSUME Init
  PROVE  Typed /\ Opening
  <1>0. "server" \in End /\ "client" \in End /\ "server" # "client"
    BY DEF End
  <1>1. DOMAIN chan = End /\ chan["server"] = NoChannel("server") /\ Asked(chan["client"])
    BY <1>0 DEF Init, Asked
  <1>2. IsChannel("server", chan["server"]) /\ IsChannel("client", chan["client"])
    BY <1>0, <1>1, NewChannel, AskedFields
  <1>3. PICK p : p = [type |-> "OPEN", body |-> ClientWindow] /\ p \in Packet
    BY Constants, APacket DEF Control
  <1>4. wire["server"] = <<>> /\ wire["client"] = <<p>> /\ DOMAIN wire = End
    BY <1>0, <1>3 DEF Init
  <1>5. wire \in [End -> Seq(Packet)]
    <2>1. <<>> \in Seq(Packet) /\ <<p>> \in Seq(Packet)
      BY <1>3
    <2>2. wire = [e \in End |-> wire[e]]
      BY Zenon DEF Init
    <2>3. \A e \in End : wire[e] \in Seq(Packet)
      BY <1>4, <2>1 DEF End
    <2> QED BY <2>2, <2>3
  <1>6. /\ src \in [Stream -> [read : Nat, closed : BOOLEAN]]
        /\ snk \in [Stream -> [got : Seq(Nat), broken : BOOLEAN]]
        /\ \A f \in Stream : src[f].read = 0 /\ snk[f].got = <<>> /\ ~snk[f].broken
    <2>1. <<>> \in Seq(Nat)
      OBVIOUS
    <2>2. \A f \in Stream : src[f] = [read |-> 0, closed |-> FALSE] /\ snk[f] = [got |-> <<>>, broken |-> FALSE]
      BY DEF Init
    <2>3. [read |-> 0, closed |-> FALSE] \in [read : Nat, closed : BOOLEAN]
      OBVIOUS
    <2>4. [got |-> <<>>, broken |-> FALSE] \in [got : Seq(Nat), broken : BOOLEAN]
      BY <2>1
    <2> QED BY <2>2, <2>3, <2>4 DEF Init
  <1>7. \A f \in Stream : src[f].read <= total(f)
    BY <1>6, Totals
  <1>8. prog = "none" /\ status = FALSE
    BY DEF Init
  <1>9. Typed
    BY <1>1, <1>2, <1>5, <1>6, <1>7, <1>8 DEF Typed, End, Stream
  <1>10. Opening
    BY <1>1, <1>3, <1>4, <1>6, <1>8 DEF Opening, Early, Asked
  <1> QED BY <1>9, <1>10

LEMMA Restored ==
  ASSUME NEW n, n = [f \in DOMAIN n |-> n[f]], n["out"] = <<>>, n["put"] = <<>>, NEW o
  PROVE  [[n EXCEPT !["out"] = o] EXCEPT !["out"] = <<>>, !["put"] = <<>>] = n
  OBVIOUS

LEMMA OpeningStep ==
  ASSUME Typed, Opening, Next
  PROVE  Typed' /\ (Opening' \/ Confirming')
  <1>0. /\ "server" \in End /\ "client" \in End /\ Peer("server") = "client" /\ Peer("client") = "server"
        /\ "server" # "client" /\ \A e \in End : e = "server" \/ e = "client"
    BY DEF End, Peer
  <1>p. PICK p : p = [type |-> "OPEN", body |-> ClientWindow]
    OBVIOUS
  <1>1. p = [type |-> "OPEN", body |-> ClientWindow] /\ p.type = "OPEN" /\ p.body = ClientWindow
    BY <1>p
  <1>2. /\ wire["client"] = <<p>> /\ wire["server"] = <<>> /\ Head(<<p>>) = p /\ Tail(<<p>>) = <<>>
        /\ prog = "none" /\ ~status /\ Asked(chan["client"]) /\ chan["server"] = NoChannel("server")
    BY <1>1 DEF Opening, Early, Asked
  <1>3. ~chan["server"].present
    BY <1>0, <1>2, NewChannel
  <1>4. /\ chan["client"].present /\ ~chan["client"].died /\ chan["client"].transwindow = 0
        /\ chan["client"].writebuf.used = 0 /\ chan["client"].extrabuf.used = 0
    BY <1>2, AskedFields
  <1>5. CASE RecvOpen
    <2>1. PICK o : o = [newchannel("server") EXCEPT !.transwindow = ClientWindow]
      OBVIOUS
    <2>2. Opened(o) /\ IsChannel("server", o) /\ DOMAIN o = Fields /\ o.out = <<>> /\ o.put = <<>>
      BY <2>1, OpenedFields, ChannelFields DEF Opened
    <2>3. o = [f \in DOMAIN o |-> o[f]]
      BY <2>1, Zenon
    <2>4. PICK r : /\ r = [type |-> "OPEN_CONFIRMATION", body |-> ServerWindow] /\ r \in Packet
      BY Constants, APacket DEF Control
    <2>5. Append(<<>>, r) = <<r>> /\ <<r>> \in Seq(Packet) /\ <<>> \in Seq(Packet)
      BY <2>4
    <2>6. PICK c : c = recv_msg_channel_open(Head(wire["client"]).body) /\ Done("server", c, Unread("server"))
      BY <1>5 DEF RecvOpen
    <2>7. c = [o EXCEPT !.out = <<r>>]
      BY <1>1, <1>2, <2>1, <2>2, <2>4, <2>5, <2>6 DEF recv_msg_channel_open, Send
    <2>8. Same(o, c, {"out"}) /\ c.out = <<r>>
      BY <2>2, <2>7 DEF Same, Fields, Flags, Fds, Counters
    <2>9. IsChannel("server", c)
      <3>1. \A f \in {"out"} : HasType("server", f, c[f])
        BY <2>5, <2>8 DEF HasType, Fds, Flags, Counters
      <3> QED BY <2>2, <2>8, <3>1, SameType
    <2>10. PICK v2 \in Seq(Packet) : v2 = <<>>
      BY <2>5, Zenon
    <2>11. Done("server", c, [wire EXCEPT !["client"] = v2])
      BY <1>0, <1>2, <2>6, <2>10 DEF Unread
    <2>12. After("server", c, v2)
      BY <1>0, <2>9, <2>11, DoneFacts
    <2>13. chan'["server"] = o
      <3>1. chan'["server"] = [c EXCEPT !.out = <<>>, !.put = <<>>]
        BY <2>12 DEF After
      <3> QED BY <2>2, <2>3, <2>7, <3>1, Restored
    <2>14. chan'["client"] = chan["client"] /\ wire'["server"] = wire["server"] \o c.out /\ wire'["client"] = v2
      BY <1>0, <2>12 DEF After
    <2>15. <<>> \o <<r>> = <<r>>
      BY <2>5, ConcatEmptySeq
    <2>16. wire'["server"] = <<r>> /\ wire'["client"] = <<>>
      BY <1>2, <2>8, <2>10, <2>14, <2>15
    <2>17. src' = src /\ snk' = snk /\ prog' = prog /\ status' = status
      BY <1>5 DEF RecvOpen
    <2>18. Confirming'
      BY <1>2, <2>1, <2>4, <2>13, <2>14, <2>16, <2>17 DEF Confirming, Early, Opening, Asked
    <2>19. Typed'
      BY <2>12, <2>17 DEF Typed, After
    <2> QED BY <2>18, <2>19
  <1>6. CASE UserEof
    <2>1. chan' = chan /\ wire' = wire /\ snk' = snk /\ prog' = prog /\ status' = status
      BY <1>6 DEF UserEof
    <2>2. /\ src' \in [Stream -> [read : Nat, closed : BOOLEAN]]
          /\ \A f \in Stream : src'[f].read = src[f].read
      BY <1>6 DEF UserEof, Typed, Stream
    <2>3. Typed'
      BY <2>1, <2>2 DEF Typed
    <2>4. Opening'
      BY <2>1, <2>2 DEF Opening, Early
    <2> QED BY <2>3, <2>4
  <1>7. ASSUME NEW e \in End, NEW T, Incoming(e, T) PROVE e = "server" /\ "OPEN" \in T
    BY <1>0, <1>1, <1>2, <1>7 DEF Incoming, CanReceive
  <1>8. ASSUME NEW ok \in BOOLEAN, RecvExec(ok) PROVE FALSE
    BY <1>0, <1>7, <1>8 DEF RecvExec
  <1>9. ASSUME NEW e \in End, RecvControl(e) \/ RecvData(e) PROVE FALSE
    BY <1>7, <1>9 DEF RecvControl, RecvData
  <1>10. ASSUME NEW e \in End, NEW f \in Stream, ReadFd(e, f) \/ WriteFd(e, f) PROVE FALSE
    <2>1. e = "client"
      BY <1>0, <1>3, <1>10 DEF ReadFd, WriteFd, CanRead, CanWrite
    <2>2. CASE ReadFd(e, f)
      BY <1>4, <2>1, <2>2 DEF ReadFd, CanRead
    <2>3. CASE WriteFd(e, f)
      BY <1>4, <2>1, <2>3 DEF WriteFd, CanWrite, buffer
    <2> QED BY <1>10, <2>2, <2>3
  <1>11. ~NoticeExit /\ ~RemoteClosed /\ ~Detaches /\ \A held \in BOOLEAN : ~Exits(held)
    BY <1>2, <1>3 DEF NoticeExit, CanNotice, RemoteClosed, Detaches, Exits
  <1> QED BY <1>5, <1>6, <1>8, <1>9, <1>10, <1>11 DEF Next

\* The channel is confirmed: the client asks for the command.
LEMMA Confirmed ==
  ASSUME NEW c, Asked(c), NEW t, t = recv_msg_channel_open_confirmation(c, ServerWindow)
  PROVE  /\ IsChannel("client", t) /\ t.out = <<[type |-> "EXEC", body |-> 0]>> /\ t.present
         /\ ~t.recv_eof /\ ~t.recv_close /\ ~t.sent_eof /\ ~t.sent_close
         /\ t.transwindow = ServerWindow /\ t.recvwindow = ClientWindow /\ InUse("client", t)
         /\ t.writebuf.used = 0 /\ t.extrabuf.used = 0 /\ t.readfd = 0 /\ t.writefd = 1 /\ t.errfd = 2
  <1>1. /\ IsChannel("client", c) /\ c.present /\ c.transwindow = 0 /\ c.recvwindow = ClientWindow
        /\ c.writebuf.used = 0 /\ c.extrabuf.used = 0 /\ c.await_open /\ ~c.died
        /\ ~c.sent_eof /\ ~c.recv_eof /\ ~c.sent_close /\ ~c.recv_close /\ c.recvdonelen = 0
        /\ ~c.pid /\ ~c.exitpid /\ ~c.flushing /\ c.out = <<>> /\ c.put = <<>> /\ DOMAIN c = Fields
    BY AskedFields, ChannelFields
  <1>2. PICK r : /\ r = [type |-> "EXEC", body |-> 0] /\ r \in Packet
    BY Constants, APacket DEF Control
  <1>3. Append(<<>>, r) = <<r>> /\ <<r>> \in Seq(Packet)
    BY <1>2
  <1>4. PICK F : F = {"await_open", "transwindow", "readfd", "writefd", "errfd", "errIsWrite", "out"}
    OBVIOUS
  <1>5. /\ Same(c, t, F) /\ t.out = <<r>> /\ t.await_open = FALSE /\ t.transwindow = ServerWindow
        /\ t.readfd = 0 /\ t.writefd = 1 /\ t.errfd = 2 /\ t.errIsWrite = TRUE
    <2>1. t = Send([c EXCEPT !.await_open = FALSE, !.transwindow = ServerWindow,
                             !.readfd = 0, !.writefd = 1, !.errfd = 2, !.errIsWrite = TRUE], "EXEC", 0)
      BY <1>1 DEF recv_msg_channel_open_confirmation
    <2>2. PICK a : a = [c EXCEPT !.await_open = FALSE, !.transwindow = ServerWindow,
                                 !.readfd = 0, !.writefd = 1, !.errfd = 2, !.errIsWrite = TRUE]
      OBVIOUS
    <2>3. /\ Same(c, a, F) /\ a.out = <<>> /\ a.await_open = FALSE /\ a.transwindow = ServerWindow
          /\ a.readfd = 0 /\ a.writefd = 1 /\ a.errfd = 2 /\ a.errIsWrite = TRUE
      BY <1>1, <1>4, <2>2 DEF Same, Fields, Flags, Fds, Counters
    <2>4. t = [a EXCEPT !.out = <<r>>]
      BY <1>2, <1>3, <2>1, <2>2, <2>3 DEF Send
    <2>5. Same(a, t, {"out"}) /\ t.out = <<r>>
      BY <2>3, <2>4 DEF Same, Fields
    <2>6. Same(c, t, F)
      BY <1>4, <2>3, <2>5 DEF Same
    <2> QED BY <2>3, <2>5, <2>6 DEF Same, Fields, Flags, Fds, Counters
  <1>6. t.await_open \in BOOLEAN /\ t.errIsWrite \in BOOLEAN
    BY <1>5, Zenon
  <1>7. IsChannel("client", t)
    <2>0. t.transwindow \in Nat /\ t.readfd \in Int /\ t.writefd \in Int /\ t.errfd \in Int
      BY <1>5, Constants
    <2>2. t.out \in Seq(Packet)
      BY <1>3, <1>5
    <2>1. \A f \in F : HasType("client", f, t[f])
      BY <1>4, <1>6, <2>0, <2>2 DEF HasType, Fds, Flags, Counters
    <2> QED BY <1>1, <1>5, <2>1, SameType
  <1>8. /\ t.present = c.present /\ t.recvwindow = c.recvwindow
        /\ t.writebuf = c.writebuf /\ t.extrabuf = c.extrabuf /\ t.died = c.died
        /\ t.sent_eof = c.sent_eof /\ t.recv_eof = c.recv_eof /\ t.sent_close = c.sent_close
        /\ t.recv_close = c.recv_close /\ t.recvdonelen = c.recvdonelen /\ t.pid = c.pid
        /\ t.exitpid = c.exitpid /\ t.flushing = c.flushing
    BY <1>4, <1>5 DEF Same, Fields, Flags, Fds, Counters
  <1>9. FdsOK("client", t) /\ Flagged(t)
    BY <1>1, <1>5, <1>8 DEF FdsOK, Flagged
  <1>10. Room("client", t)
    <2>1. recv_window("client") = ClientWindow /\ ClientWindow \in Nat
      BY Constants DEF recv_window
    <2> QED BY <1>1, <1>8, <2>1 DEF Room
  <1> QED BY <1>1, <1>2, <1>5, <1>7, <1>8, <1>9, <1>10 DEF InUse

\* The channel is open at both ends, and the command asked for.
Started ==
    /\ prog = "none" /\ wire["server"] = <<>> /\ chan["client"].present /\ Fresh(chan["server"])
    /\ chan["client"].writebuf.used = 0 /\ chan["client"].extrabuf.used = 0
    /\ chan["client"].readfd = 0 /\ chan["client"].writefd = 1 /\ chan["client"].errfd = 2
    /\ wire["client"] \in Seq(Packet) /\ ~Has(wire["client"], DataTypes)
    /\ \A f \in Stream : src[f].read = 0 /\ snk[f].got = <<>>

LEMMA ConfirmingStep ==
  ASSUME Typed, Confirming, Next
  PROVE  Typed' /\ (Confirming' \/ (Working' /\ Started'))
  <1>0. /\ "server" \in End /\ "client" \in End /\ Peer("server") = "client" /\ Peer("client") = "server"
        /\ "server" # "client" /\ \A e \in End : e = "server" \/ e = "client"
    BY DEF End, Peer
  <1>p. PICK p : p = [type |-> "OPEN_CONFIRMATION", body |-> ServerWindow]
    OBVIOUS
  <1>1. p.type = "OPEN_CONFIRMATION" /\ p.body = ServerWindow
    BY <1>p
  <1>2. /\ wire["server"] = <<p>> /\ wire["client"] = <<>> /\ Head(<<p>>) = p /\ Tail(<<p>>) = <<>>
        /\ prog = "none" /\ ~status /\ Asked(chan["client"]) /\ Opened(chan["server"])
    BY <1>p DEF Confirming, Early, Asked, Opened
  <1>3. PICK d : /\ d = chan["server"] /\ IsChannel("server", d) /\ InUse("server", d) /\ Fresh(d)
                 /\ d.transwindow = ClientWindow /\ d.recvwindow = ServerWindow
                 /\ ~d.recv_close /\ ~d.sent_close /\ ~d.exitpid /\ d.out = <<>> /\ d.put = <<>>
    BY <1>2, OpenedFields
  <1>4. PICK c : /\ c = chan["client"] /\ c.present /\ ~c.died /\ c.transwindow = 0
                 /\ c.writebuf.used = 0 /\ c.extrabuf.used = 0
    BY <1>2, AskedFields
  <1>7. ASSUME NEW e \in End, NEW T, Incoming(e, T) PROVE e = "client" /\ "OPEN_CONFIRMATION" \in T
    BY <1>0, <1>1, <1>2, <1>7 DEF Incoming, CanReceive
  <1>5. CASE RecvControl("client")
    <2>1. PICK t : t = Handled("client", c, p) /\ Done("client", t, Unread("client"))
                   /\ status' = (status \/ (p.type = "EXIT_STATUS" /\ ~t.died))
      BY <1>0, <1>2, <1>4, <1>5 DEF RecvControl
    <2>2. t = recv_msg_channel_open_confirmation(c, ServerWindow)
      BY <1>1, <1>4, <2>1 DEF Handled
    <2>3. PICK r : r = [type |-> "EXEC", body |-> 0]
      OBVIOUS
    <2>4. /\ IsChannel("client", t) /\ t.out = <<r>> /\ t.present
          /\ ~t.recv_eof /\ ~t.recv_close /\ ~t.sent_eof /\ ~t.sent_close
          /\ t.transwindow = ServerWindow /\ t.recvwindow = ClientWindow /\ InUse("client", t)
          /\ t.writebuf.used = 0 /\ t.extrabuf.used = 0 /\ t.readfd = 0 /\ t.writefd = 1 /\ t.errfd = 2
      BY <1>2, <1>4, <2>2, <2>3, Confirmed
    <2>5. <<>> \in Seq(Packet) /\ r \in Packet /\ r.type = "EXEC"
      BY <2>3, APacket DEF Control
    <2>6. PICK v2 \in Seq(Packet) : v2 = <<>>
      BY <2>5, Zenon
    <2>7. Done("client", t, [wire EXCEPT !["server"] = v2])
      BY <1>0, <1>2, <2>1, <2>6 DEF Unread
    <2>8. After("client", t, v2)
      BY <1>0, <2>4, <2>7, DoneFacts
    <2>9. PICK x : /\ x = chan'["client"] /\ Same(t, x, {"out", "put"}) /\ x.out = <<>> /\ x.put = <<>>
                   /\ chan'["server"] = d /\ wire'["client"] = wire["client"] \o t.out
                   /\ wire'["server"] = v2
      BY <1>0, <1>3, <2>8 DEF After
    <2>10. <<r>> \in Seq(Packet) /\ Ordered(<<r>>) /\ \A T : Has(<<r>>, T) <=> "EXEC" \in T
      BY <2>5, OnePacket
    <2>11. <<>> \o <<r>> = <<r>>
      BY <2>10, ConcatEmptySeq
    <2>12. wire'["client"] = <<r>> /\ wire'["server"] = <<>>
      BY <1>2, <2>4, <2>6, <2>9, <2>11
    <2>13. /\ x.present = t.present /\ x.recv_eof = t.recv_eof /\ x.recv_close = t.recv_close
           /\ x.sent_eof = t.sent_eof /\ x.sent_close = t.sent_close
           /\ x.transwindow = t.transwindow /\ x.recvwindow = t.recvwindow
           /\ x.recvdonelen = t.recvdonelen /\ x.writebuf = t.writebuf /\ x.extrabuf = t.extrabuf
           /\ x.readfd = t.readfd /\ x.writefd = t.writefd /\ x.errfd = t.errfd
      BY <2>9, SameAfter
    <2>14. InUse("client", x)
      <3>1. Room("client", x)
        BY <2>4, <2>13 DEF InUse, Room
      <3> QED BY <2>4, <2>9, <3>1, SameUse DEF DataFields
    <2>15. /\ Load(<<r>>, 1, DataTypes) = 0 /\ Load(<<r>>, 1, {"WINDOW_ADJUST"}) = 0
           /\ Load(<<>>, 1, DataTypes) = 0 /\ Load(<<>>, 1, {"WINDOW_ADJUST"}) = 0
      BY <2>10, LoadEmpty, LoadNone DEF DataTypes
    <2>16. ServerWindow + 0 + 0 <= ServerWindow /\ ClientWindow + 0 + 0 <= ClientWindow
      BY Constants
    <2>17. Sent(<<r>>, <<>>, x, d)
      BY <1>3, <2>4, <2>10, <2>13, <2>15, <2>16 DEF Sent, Fresh, InUse
    <2>18. Sent(<<>>, <<r>>, d, x)
      BY <1>3, <2>4, <2>13, <2>15, <2>16, NoPacket DEF Sent
    <2>19. Linked("client")' /\ Linked("server")'
      BY <1>0, <1>3, <2>9, <2>12, <2>14, <2>17, <2>18 DEF Linked
    <2>20. src' = src /\ snk' = snk /\ prog' = prog
      BY <1>5 DEF RecvControl
    <2>21. ExecOK'
      <3>1. /\ 1..Len(<<>>) = {} /\ 1..Len(<<r>>) = {1} /\ 2..Len(<<r>>) = {} /\ <<r>>[1] = r
        OBVIOUS
      <3>2. \A e \in End : \A i \in 1..Len(wire'[e]) : wire'[e][i].type \in Types(e)
        BY <1>0, <2>5, <2>12, <3>1 DEF Types
      <3>3. \A i \in 2..Len(wire'["client"]) : wire'["client"][i].type # "EXEC"
        BY <2>12, <3>1
      <3>4. Fresh(chan'["server"]) /\ ~chan'["server"].pid /\ ~chan'["server"].exitpid /\ prog' = "none"
        BY <1>2, <1>3, <2>9, <2>20 DEF Fresh
      <3> QED BY <2>12, <3>2, <3>3, <3>4 DEF ExecOK
    <2>22. status' \in BOOLEAN
      BY <1>1, <1>2, <2>1
    <2>23. Typed'
      BY <2>8, <2>20, <2>22 DEF Typed, After
    <2>24. Started'
      <3>1. wire'["client"] \in Seq(Packet) /\ ~Has(wire'["client"], DataTypes)
        BY <2>10, <2>12 DEF DataTypes
      <3>2. \A f \in Stream : src[f].read = 0 /\ snk[f].got = <<>>
        BY DEF Confirming, Early
      <3>3. \A f \in Stream : src'[f].read = 0 /\ snk'[f].got = <<>>
        BY <2>20, <3>2
      <3> QED BY <1>2, <1>3, <2>4, <2>9, <2>12, <2>13, <2>20, <3>1, <3>3 DEF Started
    <2> QED BY <1>0, <2>19, <2>21, <2>23, <2>24 DEF Working
  <1>6. CASE UserEof
    <2>1. chan' = chan /\ wire' = wire /\ snk' = snk /\ prog' = prog /\ status' = status
      BY <1>6 DEF UserEof
    <2>2. /\ src' \in [Stream -> [read : Nat, closed : BOOLEAN]]
          /\ \A f \in Stream : src'[f].read = src[f].read
      BY <1>6 DEF UserEof, Typed, Stream
    <2>3. Typed'
      BY <2>1, <2>2 DEF Typed
    <2>4. Confirming'
      BY <2>1, <2>2 DEF Confirming, Early
    <2> QED BY <2>3, <2>4
  <1>8. ASSUME RecvOpen \/ \E ok \in BOOLEAN : RecvExec(ok) PROVE FALSE
    BY <1>0, <1>7, <1>8 DEF RecvExec, RecvOpen
  <1>9. ASSUME NEW e \in End, RecvData(e) \/ (e = "server" /\ RecvControl(e)) PROVE FALSE
    BY <1>0, <1>7, <1>9 DEF RecvControl, RecvData
  <1>10. ASSUME NEW e \in End, NEW f \in Stream, ReadFd(e, f) \/ WriteFd(e, f) PROVE FALSE
    <2>1. e = "client"
      BY <1>0, <1>3, <1>10 DEF ReadFd, WriteFd, CanRead, CanWrite, Fd, Fresh, FD_UNINIT, FD_CLOSED
    <2>2. CASE ReadFd(e, f)
      BY <1>4, <2>1, <2>2 DEF ReadFd, CanRead
    <2>3. CASE WriteFd(e, f)
      BY <1>4, <2>1, <2>3 DEF WriteFd, CanWrite, buffer
    <2> QED BY <1>10, <2>2, <2>3
  <1>11. ~NoticeExit /\ ~RemoteClosed /\ ~Detaches /\ \A held \in BOOLEAN : ~Exits(held)
    BY <1>2, <1>4 DEF NoticeExit, CanNotice, RemoteClosed, Online, Detaches, Exits
  <1> QED BY <1>0, <1>5, <1>6, <1>8, <1>9, <1>10, <1>11 DEF Next

LEMMA ProtocolStep ==
  ASSUME Protocol, [Next]_vars
  PROVE  Protocol'
  <1>1. CASE Next
    BY <1>1, OpeningStep, ConfirmingStep, WorkingStep DEF Protocol
  <1>2. CASE UNCHANGED vars
    <2>1. chan' = chan /\ wire' = wire /\ src' = src /\ snk' = snk /\ prog' = prog /\ status' = status
      BY <1>2 DEF vars
    <2>2. Typed'
      BY <2>1 DEF Protocol, Typed
    <2>3. (Opening => Opening') /\ (Confirming => Confirming')
      BY <2>1 DEF Opening, Confirming, Early
    <2>4. Working => Working'
      BY <2>1 DEF Working, Linked, ExecOK, ExecPending
    <2> QED BY <2>2, <2>3, <2>4 DEF Protocol
  <1> QED BY <1>1, <1>2

\* The two ends agree on the state of the channel through every packet under way:
\* data fits the window it was sent under, nothing follows an EOF or a CLOSE, a
\* channel that was removed is sent nothing, and the command is asked for once
\* (what common-channel.c relies on when it handles a packet).
THEOREM ProtocolKept == Spec => []Protocol
  <1>1. Init => Protocol
    BY Initially DEF Protocol
  <1>2. Protocol /\ [Next]_vars => Protocol'
    BY ProtocolStep
  <1> QED BY <1>1, <1>2, PTL DEF Spec

\* Neither end ever exits over the channel: no assertion of common-channel.c
\* fails, and no packet comes oversized, after the end of file or for a channel
\* that is gone.
THEOREM NobodyDies == Spec => []NoneDies
  <1>1. Protocol => NoneDies
    <2>1. ASSUME Typed, Working, NEW e \in End PROVE ~chan[e].died
      BY <2>1, UnusedFields DEF Working, Linked, InUse, Flagged
    <2>2. ASSUME Early PROVE ~chan["client"].died
      BY <2>2, AskedFields DEF Early, Asked
    <2>3. ASSUME Opening PROVE ~chan["server"].died
      BY <2>3, NoChannelUnused, UnusedFields DEF Opening, End
    <2>4. ASSUME Confirming PROVE ~chan["server"].died
      BY <2>4, OpenedFields DEF Confirming, Opened, InUse, Flagged
    <2> QED BY <2>1, <2>2, <2>3, <2>4 DEF Protocol, NoneDies, Opening, Confirming, End
  <1> QED BY <1>1, ProtocolKept, PTL

\* A sender never has more to send, under way and granted than the receiver's
\* window, and that window never exceeds the room in the receiver's buffers.
THEOREM WindowsKept == Spec => []WindowsAgree
  <1>1. Protocol => WindowsAgree
    <2>1. ASSUME Typed, Working, NEW e \in End, chan[e].present, chan[Peer(e)].present
          PROVE  /\ chan[e].transwindow + Load(wire[e], 1, {"DATA", "EXTENDED_DATA"})
                        + Load(wire[Peer(e)], 1, {"WINDOW_ADJUST"}) <= chan[Peer(e)].recvwindow
                 /\ WindowConsistent(Peer(e), chan[Peer(e)])
      <3>1. PICK p \in End : p = Peer(e)
        BY Peers
      <3>2. InUse(p, chan[p]) /\ IsChannel(p, chan[p])
        BY <2>1, <3>1, Live
      <3>3. WindowConsistent(p, chan[p])
        BY <3>2, RoomConsistent DEF InUse
      <3>4. Sent(wire[e], wire[p], chan[e], chan[p])
        BY <2>1, <3>1 DEF Working, Linked
      <3> QED BY <2>1, <3>1, <3>3, <3>4 DEF Sent, DataTypes
    <2>2. ASSUME Opening \/ Confirming PROVE chan["client"].await_open
      BY <2>2, AskedFields DEF Opening, Confirming, Early, Asked
    <2>3. \A e \in End : e = "client" \/ Peer(e) = "client"
      BY DEF End, Peer
    <2> QED BY <2>1, <2>2, <2>3 DEF Protocol, WindowsAgree
  <1> QED BY <1>1, ProtocolKept, PTL

-----------------------------------------------------------------------------
(* Blocks in order.                                                        *)

LEMMA BlockFacts ==
  ASSUME NEW p \in Packet, p.type \in DataTypes, Len(p.body) > 0
  PROVE  /\ p.body[1] \in Nat /\ Len(p.body) \in Nat /\ Last(p) \in Nat /\ p.body[1] <= Last(p)
         /\ Last(p) = p.body[1] + Len(p.body) - 1
  <1>1. p.body \in Seq(Nat) /\ Len(p.body) \in Nat
    BY PacketFields
  <1>2. PICK l \in Nat : l = Len(p.body) /\ l > 0
    BY <1>1
  <1>3. 1 \in 1..Len(p.body)
    BY <1>2
  <1>4. PICK a \in Nat : a = p.body[1]
    BY <1>1, <1>3
  <1>5. a + l - 1 \in Nat /\ a <= a + l - 1
    BY <1>2
  <1> QED BY <1>1, <1>2, <1>4, <1>5 DEF Last

LEMMA FirstRun ==
  ASSUME NEW p \in Packet, p.type \in DataTypes, Len(p.body) > 0, NEW lo \in Nat, p.body[1] = lo + 1
  PROVE  Last(p) = lo + Len(p.body)
  <1>1. PICK l \in Nat, a \in Nat : l = Len(p.body) /\ a = p.body[1]
    BY BlockFacts
  <1>2. Last(p) = a + l - 1
    BY <1>1, BlockFacts
  <1>3. a = lo + 1
    BY <1>1
  <1>4. a + l - 1 = lo + l
    BY <1>3
  <1> QED BY <1>1, <1>2, <1>4

LEMMA Runs ==
  ASSUME NEW w \in Seq(Packet), NEW t \in DataTypes, NEW lo \in Nat, NEW hi \in Nat, InOrder(w, t, lo, hi),
         NEW i \in 1..Len(w), w[i].type = t
  PROVE  /\ w[i] \in Packet /\ Len(w[i].body) > 0
         /\ w[i].body[1] \in Nat /\ Len(w[i].body) \in Nat /\ Last(w[i]) \in Nat
         /\ w[i].body[1] <= Last(w[i]) /\ Last(w[i]) = w[i].body[1] + Len(w[i].body) - 1
         /\ lo < w[i].body[1] /\ Last(w[i]) <= hi
         /\ \A k \in 1..Len(w[i].body) : w[i].body[k] = w[i].body[1] + k - 1
         /\ \A j \in 1..(i - 1) : w[j].type = t => Last(w[j]) < w[i].body[1]
  <1>1. w[i] \in Packet
    OBVIOUS
  <1>2. /\ Len(w[i].body) > 0 /\ lo < w[i].body[1] /\ Last(w[i]) <= hi
        /\ \A k \in 1..Len(w[i].body) : w[i].body[k] = w[i].body[1] + k - 1
        /\ \A j \in 1..(i - 1) : w[j].type = t => Last(w[j]) < w[i].body[1]
    BY DEF InOrder
  <1> QED BY <1>1, <1>2, BlockFacts

LEMMA InOrderNothing ==
  ASSUME NEW w \in Seq(Packet), NEW t, NEW lo \in Nat, NEW hi \in Nat, ~Has(w, {t})
  PROVE  InOrder(w, t, lo, hi) <=> lo = hi
  <1>1. \A i \in 1..Len(w) : w[i].type # t
    BY DEF Has
  <1>2. ASSUME lo = hi PROVE InOrder(w, t, lo, hi)
    <2>1. lo <= hi /\ (lo + 1)..hi = {}
      BY <1>2
    <2> QED BY <1>1, <2>1 DEF InOrder
  <1>3. ASSUME InOrder(w, t, lo, hi) PROVE lo = hi
    <2>1. lo <= hi /\ \A b \in (lo + 1)..hi : FALSE
      BY <1>1, <1>3 DEF InOrder
    <2>2. ~(lo + 1 \in (lo + 1)..hi)
      BY <2>1
    <2> QED BY <2>1, <2>2
  <1> QED BY <1>2, <1>3

\* Packets of other types, behind the ones under way.
LEMMA InOrderMore ==
  ASSUME NEW w \in Seq(Packet), NEW q \in Seq(Packet), NEW t \in DataTypes, NEW lo \in Nat, NEW hi \in Nat,
         InOrder(w, t, lo, hi), ~Has(q, {t})
  PROVE  InOrder(w \o q, t, lo, hi)
  <1>1. PICK z \in Seq(Packet) : z = w \o q
    BY ConcatFacts
  <1>2. PICK m \in Nat, n \in Nat : m = Len(w) /\ n = Len(q)
    BY ConcatFacts
  <1>3. /\ Len(z) = m + n /\ (\A i \in 1..m : z[i] = w[i])
        /\ \A i \in (m + 1)..(m + n) : z[i] = q[i - m]
    BY <1>1, <1>2, ConcatFacts
  <1>4. ASSUME NEW i \in 1..Len(z), z[i].type = t PROVE i \in 1..m /\ z[i] = w[i]
    <2>1. ASSUME i \in (m + 1)..(m + n) PROVE FALSE
      <3>1. i - m \in 1..n /\ z[i] = q[i - m]
        BY <1>3, <2>1
      <3> QED BY <1>2, <1>4, <3>1 DEF Has
    <2>2. i \in 1..m
      BY <1>3, <2>1
    <2> QED BY <1>3, <2>2
  <1>5. ASSUME NEW i \in 1..Len(z), z[i].type = t
        PROVE  /\ Len(z[i].body) > 0 /\ \A k \in 1..Len(z[i].body) : z[i].body[k] = z[i].body[1] + k - 1
               /\ lo < z[i].body[1] /\ Last(z[i]) <= hi
               /\ \A j \in 1..(i - 1) : z[j].type = t => Last(z[j]) < z[i].body[1]
    <2>1. i \in 1..m /\ z[i] = w[i] /\ i \in 1..Len(w)
      BY <1>2, <1>4, <1>5
    <2>2. /\ Len(z[i].body) > 0 /\ \A k \in 1..Len(z[i].body) : z[i].body[k] = z[i].body[1] + k - 1
          /\ lo < z[i].body[1] /\ Last(z[i]) <= hi
          /\ \A j \in 1..(i - 1) : w[j].type = t => Last(w[j]) < z[i].body[1]
      BY <1>5, <2>1, Runs
    <2>3. \A j \in 1..(i - 1) : j \in 1..m
      BY <2>1
    <2> QED BY <1>3, <2>2, <2>3
  <1>6. ASSUME NEW b \in (lo + 1)..hi
        PROVE  \E i \in 1..Len(z) : z[i].type = t /\ b \in z[i].body[1]..Last(z[i])
    <2>1. PICK i \in 1..Len(w) : w[i].type = t /\ b \in w[i].body[1]..Last(w[i])
      BY DEF InOrder
    <2>2. i \in 1..Len(z) /\ z[i] = w[i]
      BY <1>2, <1>3
    <2> QED BY <2>1, <2>2
  <1>7. InOrder(z, t, lo, hi)
    BY <1>5, <1>6 DEF InOrder
  <1> QED BY <1>1, <1>7

CarriesBlocks(p, f, r, m) ==
    /\ p \in Packet /\ p.type = DataType(f) /\ p.body \in Seq(Nat) /\ Len(p.body) = m
    /\ \A i \in 1..m : p.body[i] = r + i

LEMMA BlocksOf ==
  ASSUME NEW f, NEW r \in Nat, NEW m \in Nat \ {0}
  PROVE  CarriesBlocks(DataPacket(f, r, m), f, r, m)
  <1>1. PICK k \in Nat : k = m
    OBVIOUS
  <1>2. PICK b : b = Blocks(r, k)
    OBVIOUS
  <1>3. b \in Seq(Nat) /\ Len(b) = k /\ \A i \in 1..k : b[i] = r + i
    BY <1>2 DEF Blocks
  <1>4. PICK p : p = DataPacket(f, r, k)
    OBVIOUS
  <1>5. p.type = DataType(f) /\ p.body = b /\ DataType(f) \in DataTypes
    BY <1>2, <1>4 DEF DataPacket, DataType, DataTypes
  <1>6. p \in Packet
    BY <1>2, <1>3, <1>4, <1>5, APacket DEF DataPacket
  <1>7. CarriesBlocks(p, f, r, k)
    BY <1>3, <1>5, <1>6, Zenon DEF CarriesBlocks
  <1> QED BY <1>1, <1>4, <1>7, Zenon

\* The next blocks of the stream.
LEMMA InOrderNew ==
  ASSUME NEW w \in Seq(Packet), NEW f, NEW lo \in Nat, NEW r \in Nat, NEW m \in Nat \ {0},
         InOrder(w, DataType(f), lo, r)
  PROVE  InOrder(w \o <<DataPacket(f, r, m)>>, DataType(f), lo, r + m)
  <1>0. PICK p, t : p = DataPacket(f, r, m) /\ t = DataType(f) /\ t \in DataTypes
    BY DEF DataType, DataTypes
  <1>1. /\ p \in Packet /\ p.type = t /\ p.body \in Seq(Nat) /\ Len(p.body) = m
        /\ \A i \in 1..m : p.body[i] = r + i
    BY <1>0, BlocksOf, Zenon DEF CarriesBlocks
  <1>2. p.body[1] = r + 1 /\ Last(p) = r + m
    <2>1. p.body[1] = r + 1
      BY <1>1
    <2> QED BY <1>1, <2>1 DEF Last
  <1>3. <<p>> \in Seq(Packet) /\ Len(<<p>>) = 1 /\ <<p>>[1] = p
    BY <1>1, OnePacket
  <1>4. PICK z \in Seq(Packet), n \in Nat : z = w \o <<p>> /\ n = Len(w)
    BY <1>3, ConcatFacts
  <1>5. Len(z) = n + 1 /\ (\A i \in 1..n : z[i] = w[i]) /\ z[n + 1] = p
    BY <1>3, <1>4, ConcatFacts
  <1>6. lo <= r /\ lo <= r + m
    BY DEF InOrder
  <1>7. ASSUME NEW i \in 1..Len(z), z[i].type = t
        PROVE  /\ Len(z[i].body) > 0 /\ \A k \in 1..Len(z[i].body) : z[i].body[k] = z[i].body[1] + k - 1
               /\ lo < z[i].body[1] /\ Last(z[i]) <= r + m
               /\ \A j \in 1..(i - 1) : z[j].type = t => Last(z[j]) < z[i].body[1]
    <2>1. CASE i = n + 1
      <3>1. z[i] = p
        BY <1>5, <2>1
      <3>2. \A k \in 1..m : p.body[k] = r + k /\ r + k = (r + 1) + k - 1
        BY <1>1
      <3>3. \A k \in 1..Len(z[i].body) : z[i].body[k] = z[i].body[1] + k - 1
        BY <1>1, <1>2, <3>1, <3>2
      <3>4. ASSUME NEW j \in 1..(i - 1), z[j].type = t PROVE Last(z[j]) < z[i].body[1]
        <4>1. j \in 1..Len(w) /\ z[j] = w[j]
          BY <1>4, <1>5, <2>1
        <4>2. Last(w[j]) \in Nat /\ Last(w[j]) <= r
          BY <1>0, <3>4, <4>1, Runs
        <4> QED BY <1>2, <3>1, <4>1, <4>2
      <3> QED BY <1>1, <1>2, <1>6, <3>1, <3>3, <3>4
    <2>2. CASE i \in 1..n
      <3>1. i \in 1..Len(w) /\ z[i] = w[i]
        BY <1>4, <1>5, <2>2
      <3>2. /\ Len(w[i].body) > 0 /\ \A k \in 1..Len(w[i].body) : w[i].body[k] = w[i].body[1] + k - 1
            /\ lo < w[i].body[1] /\ Last(w[i]) <= r /\ Last(w[i]) \in Nat
            /\ \A j \in 1..(i - 1) : w[j].type = t => Last(w[j]) < w[i].body[1]
        BY <1>0, <1>7, <3>1, Runs
      <3>3. Last(w[i]) <= r + m
        BY <3>2
      <3>4. \A j \in 1..(i - 1) : z[j] = w[j]
        BY <1>5, <2>2
      <3> QED BY <3>1, <3>2, <3>3, <3>4
    <2> QED BY <1>5, <2>1, <2>2
  <1>8. ASSUME NEW b \in (lo + 1)..(r + m)
        PROVE  \E i \in 1..Len(z) : z[i].type = t /\ b \in z[i].body[1]..Last(z[i])
    <2>1. CASE b <= r
      <3>1. b \in (lo + 1)..r
        BY <2>1
      <3>2. PICK i \in 1..Len(w) : w[i].type = t /\ b \in w[i].body[1]..Last(w[i])
        BY <1>0, <3>1 DEF InOrder
      <3>3. i \in 1..Len(z) /\ z[i] = w[i]
        BY <1>4, <1>5
      <3> QED BY <3>2, <3>3
    <2>2. CASE b > r
      <3>1. b \in (r + 1)..(r + m) /\ n + 1 \in 1..Len(z)
        BY <1>5, <2>2
      <3> QED BY <1>1, <1>2, <1>5, <3>1
    <2> QED BY <2>1, <2>2
  <1>9. InOrder(z, t, lo, r + m)
    BY <1>6, <1>7, <1>8 DEF InOrder
  <1> QED BY <1>0, <1>4, <1>9

\* The first packet is taken from the wire.
LEMMA InOrderPass ==
  ASSUME NEW w \in Seq(Packet), w # <<>>, NEW t \in DataTypes, NEW lo \in Nat, NEW hi \in Nat,
         InOrder(w, t, lo, hi), w[1].type # t
  PROVE  InOrder(Tail(w), t, lo, hi)
  <1>1. PICK x \in Seq(Packet), n \in Nat : x = Tail(w) /\ n = Len(x)
    BY TailFacts
  <1>2. Len(w) = n + 1 /\ \A i \in 1..n : x[i] = w[i + 1]
    BY <1>1, TailFacts
  <1>3. ASSUME NEW i \in 1..Len(x), x[i].type = t
        PROVE  /\ Len(x[i].body) > 0 /\ \A k \in 1..Len(x[i].body) : x[i].body[k] = x[i].body[1] + k - 1
               /\ lo < x[i].body[1] /\ Last(x[i]) <= hi
               /\ \A j \in 1..(i - 1) : x[j].type = t => Last(x[j]) < x[i].body[1]
    <2>1. PICK l \in 1..Len(w) : l = i + 1 /\ x[i] = w[l]
      BY <1>1, <1>2
    <2>r. /\ Len(w[l].body) > 0 /\ \A k \in 1..Len(w[l].body) : w[l].body[k] = w[l].body[1] + k - 1
          /\ lo < w[l].body[1] /\ Last(w[l]) <= hi
          /\ \A j \in 1..(l - 1) : w[j].type = t => Last(w[j]) < w[l].body[1]
      <3>1. w[l].type = t
        BY <1>3, <2>1
      <3> QED BY <3>1, Runs
    <2>2. /\ Len(x[i].body) > 0 /\ \A k \in 1..Len(x[i].body) : x[i].body[k] = x[i].body[1] + k - 1
          /\ lo < x[i].body[1] /\ Last(x[i]) <= hi
          /\ \A j \in 1..(l - 1) : w[j].type = t => Last(w[j]) < x[i].body[1]
      BY <2>1, <2>r, Zenon
    <2>3. \A j \in 1..(i - 1) : j + 1 \in 1..(l - 1) /\ x[j] = w[j + 1]
      BY <1>1, <1>2, <2>1
    <2> QED BY <2>2, <2>3
  <1>4. ASSUME NEW b \in (lo + 1)..hi
        PROVE  \E i \in 1..Len(x) : x[i].type = t /\ b \in x[i].body[1]..Last(x[i])
    <2>1. PICK i \in 1..Len(w) : w[i].type = t /\ b \in w[i].body[1]..Last(w[i])
      BY DEF InOrder
    <2>2. i # 1
      BY <2>1
    <2>3. PICK l \in 1..Len(x) : l = i - 1 /\ x[l] = w[i]
      BY <1>1, <1>2, <2>2
    <2> QED BY <2>1, <2>3
  <1>5. InOrder(x, t, lo, hi)
    BY <1>3, <1>4 DEF InOrder
  <1> QED BY <1>1, <1>5

LEMMA InOrderTake ==
  ASSUME NEW w \in Seq(Packet), w # <<>>, NEW t \in DataTypes, NEW lo \in Nat, NEW hi \in Nat,
         InOrder(w, t, lo, hi), w[1].type = t, NEW l \in Nat, l = Len(w[1].body)
  PROVE  /\ \A k \in 1..l : w[1].body[k] = lo + k
         /\ InOrder(Tail(w), t, lo + l, hi)
  <1>1. PICK x \in Seq(Packet), n \in Nat : x = Tail(w) /\ n = Len(x)
    BY TailFacts
  <1>2. Len(w) = n + 1 /\ \A i \in 1..n : x[i] = w[i + 1]
    BY <1>1, TailFacts
  <1>3. 1 \in 1..Len(w)
    BY <1>2
  <1>4. PICK a \in Nat, z \in Nat : a = w[1].body[1] /\ z = Last(w[1])
    BY <1>3, Runs
  <1>5. /\ l > 0 /\ lo < a /\ z = a + l - 1 /\ z <= hi
        /\ \A k \in 1..l : w[1].body[k] = a + k - 1
    BY <1>3, <1>4, Runs
  <1>6. a = lo + 1
    <2>1. lo + 1 \in (lo + 1)..hi
      BY <1>5
    <2>2. PICK i \in 1..Len(w) : w[i].type = t /\ lo + 1 \in w[i].body[1]..Last(w[i])
      BY <2>1 DEF InOrder
    <2>3. CASE i = 1
      BY <1>4, <1>5, <2>2, <2>3
    <2>4. CASE i # 1
      <3>1. PICK b \in Nat : b = w[i].body[1] /\ b <= lo + 1
        BY <2>2, Runs
      <3>2. 1 \in 1..(i - 1)
        BY <1>2, <2>4
      <3>3. z < b
        BY <1>4, <2>2, <3>1, <3>2, Runs
      <3> QED BY <1>5, <3>1, <3>3
    <2> QED BY <2>3, <2>4
  <1>7. z = lo + l
    <2>1. w[1] \in Packet /\ w[1].type \in DataTypes /\ Len(w[1].body) > 0 /\ w[1].body[1] = lo + 1
      BY <1>3, <1>4, <1>5, <1>6
    <2> QED BY <1>4, <2>1, FirstRun, Zenon
  <1>8. \A k \in 1..l : w[1].body[k] = lo + k
    <2>1. \A k \in 1..l : a + k - 1 = lo + k
      BY <1>6
    <2>2. \A k \in 1..l : w[1].body[k] = a + k - 1
      BY <1>5
    <2> QED BY <2>1, <2>2, Zenon
  <1>9. ASSUME NEW i \in 1..Len(x), x[i].type = t
        PROVE  /\ Len(x[i].body) > 0 /\ \A k \in 1..Len(x[i].body) : x[i].body[k] = x[i].body[1] + k - 1
               /\ lo + l < x[i].body[1] /\ Last(x[i]) <= hi
               /\ \A j \in 1..(i - 1) : x[j].type = t => Last(x[j]) < x[i].body[1]
    <2>1. PICK m \in 1..Len(w) : m = i + 1 /\ x[i] = w[m]
      BY <1>1, <1>2
    <2>r. /\ Len(w[m].body) > 0 /\ \A k \in 1..Len(w[m].body) : w[m].body[k] = w[m].body[1] + k - 1
          /\ Last(w[m]) <= hi
          /\ \A j \in 1..(m - 1) : w[j].type = t => Last(w[j]) < w[m].body[1]
      <3>1. w[m].type = t
        BY <1>9, <2>1
      <3> QED BY <3>1, Runs
    <2>2. /\ Len(x[i].body) > 0 /\ \A k \in 1..Len(x[i].body) : x[i].body[k] = x[i].body[1] + k - 1
          /\ Last(x[i]) <= hi
          /\ \A j \in 1..(m - 1) : w[j].type = t => Last(w[j]) < x[i].body[1]
      BY <2>1, <2>r, Zenon
    <2>3. \A j \in 1..(i - 1) : j + 1 \in 1..(m - 1) /\ x[j] = w[j + 1]
      BY <1>1, <1>2, <2>1
    <2>4. 1 \in 1..(m - 1)
      BY <1>1, <2>1
    <2>5. lo + l < x[i].body[1]
      BY <1>4, <1>7, <2>2, <2>4
    <2> QED BY <2>2, <2>3, <2>5
  <1>10. ASSUME NEW b \in (lo + l + 1)..hi
         PROVE  \E i \in 1..Len(x) : x[i].type = t /\ b \in x[i].body[1]..Last(x[i])
    <2>0. b \in (lo + 1)..hi /\ b > z
      BY <1>7
    <2>1. PICK i \in 1..Len(w) : w[i].type = t /\ b \in w[i].body[1]..Last(w[i])
      BY <2>0 DEF InOrder
    <2>2. i # 1
      BY <1>4, <2>0, <2>1
    <2>3. PICK m \in 1..Len(x) : m = i - 1 /\ x[m] = w[i]
      BY <1>1, <1>2, <2>2
    <2> QED BY <2>1, <2>3
  <1>11. InOrder(x, t, lo + l, hi)
    <2>1. lo + l <= hi
      BY <1>5, <1>7
    <2> QED BY <1>9, <1>10, <2>1 DEF InOrder
  <1> QED BY <1>1, <1>8, <1>11

\* Blocks that are in order stay so when the buffer and a packet move on.
LEMMA TrackedMoved ==
  ASSUME NEW got \in Seq(Nat), NEW b, b.used \in Nat, NEW w, NEW t, NEW n, Tracked(got, b, w, t, n),
         NEW more \in Seq(Nat), NEW put, NEW b2, b2.used \in Nat, Moved(b, more, put, b2),
         \A k \in 1..Len(more) : more[k] = Len(got) + b.used + k,
         NEW w2, InOrder(w2, t, Len(got) + b.used + Len(more), n)
  PROVE  Tracked(got \o put, b2, w2, t, n)
  <1>0. put \in Seq(Nat)
    BY DEF Moved
  <1>1. PICK L \in Nat, u \in Nat, l \in Nat, P \in Nat, v \in Nat :
           L = Len(got) /\ u = b.used /\ l = Len(more) /\ P = Len(put) /\ v = b2.used
    BY <1>0
  <1>2. P + v = u + l
    BY <1>1 DEF Moved
  <1>3. ASSUME NEW i \in 1..(u + l) PROVE Flow(b, more, i) = L + i
    <2>1. CASE i <= u
      <3>1. i \in 1..b.used
        BY <1>1, <2>1
      <3> QED BY <1>1, <2>1, <3>1 DEF Tracked, Flow
    <2>2. CASE i > u
      <3>1. i - u \in 1..l
        BY <2>2
      <3>2. more[i - u] = L + u + (i - u)
        BY <1>1, <3>1
      <3>3. L + u + (i - u) = L + i /\ ~(i <= u)
        BY <2>2
      <3> QED BY <1>1, <3>2, <3>3 DEF Flow
    <2> QED BY <2>1, <2>2
  <1>4. PICK z \in Seq(Nat) : z = got \o put
    BY <1>0, ConcatFacts
  <1>5. Len(z) = L + P /\ (\A i \in 1..L : z[i] = got[i]) /\ \A i \in (L + 1)..(L + P) : z[i] = put[i - L]
    BY <1>0, <1>1, <1>4, ConcatFacts
  <1>6. ASSUME NEW i \in 1..Len(z) PROVE z[i] = i
    <2>1. CASE i \in 1..L
      BY <1>1, <1>5, <2>1 DEF Tracked
    <2>2. CASE i \in (L + 1)..(L + P)
      <3>1. i - L \in 1..P /\ i - L \in 1..(u + l)
        BY <1>2, <2>2
      <3>2. put[i - L] = Flow(b, more, i - L)
        BY <1>1, <3>1 DEF Moved
      <3>3. Flow(b, more, i - L) = L + (i - L)
        BY <1>3, <3>1
      <3>4. L + (i - L) = i
        BY <2>2
      <3> QED BY <1>5, <2>2, <3>2, <3>3, <3>4
    <2> QED BY <1>5, <2>1, <2>2
  <1>7. ASSUME NEW i \in 1..b2.used PROVE Content(b2, i) = Len(z) + i
    <2>1. Content(b2, i) = Flow(b, more, P + i)
      BY <1>1 DEF Moved
    <2>2. P + i \in 1..(u + l) /\ L + (P + i) = (L + P) + i
      BY <1>1, <1>2
    <2> QED BY <1>3, <1>5, <2>1, <2>2
  <1>8. Len(z) + b2.used = Len(got) + b.used + Len(more)
    <2>1. (L + P) + v = L + u + l
      BY <1>2
    <2> QED BY <1>1, <1>5, <2>1
  <1>9. Tracked(z, b2, w2, t, n)
    BY <1>6, <1>7, <1>8 DEF Tracked
  <1> QED BY <1>4, <1>9

LEMMA TrackedOn ==
  ASSUME NEW got, NEW b, NEW w, NEW t, NEW n, Tracked(got, b, w, t, n), NEW w2, NEW n2,
         InOrder(w2, t, Len(got) + b.used, n2)
  PROVE  Tracked(got, b, w2, t, n2)
  BY DEF Tracked

\* A stream without a block in the buffer or under way has come out.
LEMMA TrackedAll ==
  ASSUME NEW got \in Seq(Nat), NEW b, b.used = 0, NEW w \in Seq(Packet), NEW t, NEW n \in Nat,
         Tracked(got, b, w, t, n), ~Has(w, {t})
  PROVE  got = [i \in 1..n |-> i]
  <1>1. PICK L \in Nat : L = Len(got)
    OBVIOUS
  <1>2. InOrder(w, t, L, n)
    <2>1. L + 0 = L
      OBVIOUS
    <2> QED BY <1>1, <2>1 DEF Tracked
  <1>3. L = n
    BY <1>2, InOrderNothing
  <1>4. \A i \in 1..n : got[i] = i
    BY <1>1, <1>3 DEF Tracked
  <1>5. got = [i \in 1..Len(got) |-> got[i]]
    OBVIOUS
  <1>6. got = [i \in 1..n |-> got[i]]
    BY <1>1, <1>3, <1>5, Zenon
  <1>7. [i \in 1..n |-> got[i]] = [i \in 1..n |-> i]
    BY <1>4, Zenon
  <1> QED BY <1>6, <1>7, Zenon

-----------------------------------------------------------------------------
(* The output: what the client shows, and what the server has told it.     *)

\* Showing depends on these fields only.
LEMMA ShowingFields ==
  ASSUME NEW c, NEW x, x.writebuf = c.writebuf, x.extrabuf = c.extrabuf, x.writefd = c.writefd,
         x.errfd = c.errfd, x.recv_eof = c.recv_eof, x.sent_close = c.sent_close,
         NEW w, NEW s, NEW k, Showing(c, w, s, k)
  PROVE  Showing(x, w, s, k)
  BY DEF Showing

\* The types the operands of Showing have.
Shows(c, w, s, k) ==
    /\ IsChannel("client", c) /\ w \in Seq(Packet)
    /\ s["stdout"].read \in Nat /\ s["stderr"].read \in Nat
    /\ k["stdout"].got \in Seq(Nat) /\ k["stderr"].got \in Seq(Nat)
    /\ Showing(c, w, s, k)

LEMMA ShowsParts ==
  ASSUME NEW c, NEW w, NEW s, NEW k, Shows(c, w, s, k)
  PROVE  /\ c.writebuf.used \in Nat /\ c.extrabuf.used \in Nat
         /\ Len(k["stdout"].got) + c.writebuf.used \in Nat
         /\ Len(k["stderr"].got) + c.extrabuf.used \in Nat
         /\ InOrder(w, "DATA", Len(k["stdout"].got) + c.writebuf.used, s["stdout"].read)
         /\ InOrder(w, "EXTENDED_DATA", Len(k["stderr"].got) + c.extrabuf.used, s["stderr"].read)
         /\ Tracked(k["stdout"].got, c.writebuf, w, "DATA", s["stdout"].read)
         /\ Tracked(k["stderr"].got, c.extrabuf, w, "EXTENDED_DATA", s["stderr"].read)
  <1>1. c.writebuf.used \in Nat /\ c.extrabuf.used \in Nat
    BY BufferUsed DEF Shows, End
  <1>2. /\ Tracked(k["stdout"].got, c.writebuf, w, "DATA", s["stdout"].read)
        /\ Tracked(k["stderr"].got, c.extrabuf, w, "EXTENDED_DATA", s["stderr"].read)
    BY DEF Shows, Showing
  <1>3. Len(k["stdout"].got) \in Nat /\ Len(k["stderr"].got) \in Nat
    BY DEF Shows
  <1>4. /\ Len(k["stdout"].got) + c.writebuf.used \in Nat
        /\ Len(k["stderr"].got) + c.extrabuf.used \in Nat
    <2>1. PICK a \in Nat, b \in Nat, x \in Nat, y \in Nat :
             /\ a = Len(k["stdout"].got) /\ b = Len(k["stderr"].got)
             /\ x = c.writebuf.used /\ y = c.extrabuf.used
      BY <1>1, <1>3, Zenon
    <2>2. a + x \in Nat /\ b + y \in Nat
      OBVIOUS
    <2> QED BY <2>1, <2>2, Zenon
  <1> QED BY <1>1, <1>2, <1>4 DEF Tracked

\* A wire on which the blocks of both streams stay as they were.
LEMMA ShowsOn ==
  ASSUME NEW c, NEW w, NEW s, NEW k, Shows(c, w, s, k), NEW w2 \in Seq(Packet), NEW s2,
         s2["stdout"].read \in Nat, s2["stderr"].read \in Nat,
         InOrder(w2, "DATA", Len(k["stdout"].got) + c.writebuf.used, s2["stdout"].read),
         InOrder(w2, "EXTENDED_DATA", Len(k["stderr"].got) + c.extrabuf.used, s2["stderr"].read)
  PROVE  Shows(c, w2, s2, k)
  <1>1. /\ Tracked(k["stdout"].got, c.writebuf, w2, "DATA", s2["stdout"].read)
        /\ Tracked(k["stderr"].got, c.extrabuf, w2, "EXTENDED_DATA", s2["stderr"].read)
    BY ShowsParts, TrackedOn
  <1> QED BY <1>1 DEF Shows, Showing

LEMMA ShowsMore ==
  ASSUME NEW c, NEW w, NEW s, NEW k, Shows(c, w, s, k), NEW q \in Seq(Packet), ~Has(q, DataTypes)
  PROVE  Shows(c, w \o q, s, k)
  <1>1. w \in Seq(Packet) /\ s["stdout"].read \in Nat /\ s["stderr"].read \in Nat
    BY DEF Shows
  <1>2. ~Has(q, {"DATA"}) /\ ~Has(q, {"EXTENDED_DATA"}) /\ "DATA" \in DataTypes /\ "EXTENDED_DATA" \in DataTypes
    BY DEF Has, DataTypes
  <1>3. w \o q \in Seq(Packet)
    BY <1>1, ConcatFacts
  <1>4. /\ InOrder(w \o q, "DATA", Len(k["stdout"].got) + c.writebuf.used, s["stdout"].read)
        /\ InOrder(w \o q, "EXTENDED_DATA", Len(k["stderr"].got) + c.extrabuf.used, s["stderr"].read)
    BY <1>1, <1>2, ShowsParts, InOrderMore
  <1> QED BY <1>1, <1>3, <1>4, ShowsOn

LEMMA ShowsPass ==
  ASSUME NEW c, NEW w, NEW s, NEW k, Shows(c, w, s, k), w # <<>>, w[1].type \notin DataTypes
  PROVE  Shows(c, Tail(w), s, k)
  <1>1. w \in Seq(Packet) /\ s["stdout"].read \in Nat /\ s["stderr"].read \in Nat
    BY DEF Shows
  <1>2. "DATA" \in DataTypes /\ "EXTENDED_DATA" \in DataTypes /\ w[1].type # "DATA" /\ w[1].type # "EXTENDED_DATA"
    BY DEF DataTypes
  <1>3. Tail(w) \in Seq(Packet)
    BY <1>1, TailFacts
  <1>4. /\ InOrder(Tail(w), "DATA", Len(k["stdout"].got) + c.writebuf.used, s["stdout"].read)
        /\ InOrder(Tail(w), "EXTENDED_DATA", Len(k["stderr"].got) + c.extrabuf.used, s["stderr"].read)
    BY <1>1, <1>2, ShowsParts, InOrderPass
  <1> QED BY <1>1, <1>3, <1>4, ShowsOn

\* m more blocks of stream f are under way.
LEMMA ShowsNew ==
  ASSUME NEW c, NEW w, NEW s, NEW k, Shows(c, w, s, k), NEW f \in {"stdout", "stderr"},
         NEW m \in Nat \ {0}, NEW s2, s2[f].read = s[f].read + m,
         \A h \in {"stdout", "stderr"} : h # f => s2[h] = s[h]
  PROVE  Shows(c, w \o <<DataPacket(f, s[f].read, m)>>, s2, k)
  <1>1. w \in Seq(Packet) /\ s["stdout"].read \in Nat /\ s["stderr"].read \in Nat
    BY DEF Shows
  <1>p. PICK p : p = DataPacket(f, s[f].read, m)
    OBVIOUS
  <1>2. PICK r \in Nat : r = s[f].read /\ p = DataPacket(f, r, m)
    BY <1>1, <1>p
  <1>3. CarriesBlocks(p, f, r, m)
    BY <1>2, BlocksOf
  <1>4. p \in Packet /\ p.type = DataType(f)
    BY <1>3 DEF CarriesBlocks
  <1>5. <<p>> \in Seq(Packet) /\ \A T : Has(<<p>>, T) <=> DataType(f) \in T
    BY <1>4, OnePacket
  <1>6. PICK z \in Seq(Packet) : z = w \o <<p>>
    BY <1>1, <1>5, ConcatFacts
  <1>7. PICK a \in Nat, b \in Nat : /\ a = Len(k["stdout"].got) + c.writebuf.used
                                    /\ b = Len(k["stderr"].got) + c.extrabuf.used
    BY ShowsParts
  <1>8. InOrder(w, "DATA", a, s["stdout"].read) /\ InOrder(w, "EXTENDED_DATA", b, s["stderr"].read)
    BY <1>7, ShowsParts
  <1>9. r + m \in Nat /\ s2[f].read = r + m
    BY <1>2
  <1>10. CASE f = "stdout"
    <2>1. DataType(f) = "DATA" /\ "EXTENDED_DATA" \in DataTypes /\ s2["stderr"] = s["stderr"]
      BY <1>10 DEF DataType, DataTypes
    <2>2. InOrder(z, "DATA", a, r + m)
      BY <1>1, <1>2, <1>6, <1>8, <1>10, <2>1, InOrderNew
    <2>3. ~Has(<<p>>, {"EXTENDED_DATA"})
      BY <1>5, <2>1
    <2>4. InOrder(z, "EXTENDED_DATA", b, s["stderr"].read)
      BY <1>1, <1>5, <1>6, <1>8, <2>1, <2>3, InOrderMore
    <2>5. Shows(c, z, s2, k)
      BY <1>1, <1>7, <1>9, <1>10, <2>1, <2>2, <2>4, ShowsOn
    <2> QED BY <1>2, <1>6, <2>5
  <1>11. CASE f = "stderr"
    <2>1. DataType(f) = "EXTENDED_DATA" /\ "DATA" \in DataTypes /\ s2["stdout"] = s["stdout"]
      BY <1>11 DEF DataType, DataTypes
    <2>2. InOrder(z, "EXTENDED_DATA", b, r + m)
      BY <1>1, <1>2, <1>6, <1>8, <1>11, <2>1, InOrderNew
    <2>3. ~Has(<<p>>, {"DATA"})
      BY <1>5, <2>1
    <2>4. InOrder(z, "DATA", a, s["stdout"].read)
      BY <1>1, <1>5, <1>6, <1>8, <2>1, <2>3, InOrderMore
    <2>5. Shows(c, z, s2, k)
      BY <1>1, <1>7, <1>9, <1>11, <2>1, <2>2, <2>4, ShowsOn
    <2> QED BY <1>2, <1>6, <2>5
  <1> QED BY <1>10, <1>11

\* The client writes out of the buffer of stream f, after it has put more into it.
MovesOn(c, s, k, f, t, more, put, k2, w2) ==
    /\ Moved(c[buffer(f)], more, put, t[buffer(f)])
    /\ \A h \in {"stdout", "stderr"} : h # f => t[buffer(h)] = c[buffer(h)]
    /\ t.writefd = c.writefd /\ t.errfd = c.errfd /\ t.recv_eof = c.recv_eof /\ t.sent_close = c.sent_close
    /\ IF f = "stdout" THEN c.writefd # FD_CLOSED ELSE c.errfd # FD_CLOSED
    /\ k2[f].got = k[f].got \o put
    /\ \A h \in {"stdout", "stderr"} : h # f => k2[h].got = k[h].got
    /\ \A j \in 1..Len(more) : more[j] = Len(k[f].got) + c[buffer(f)].used + j
    /\ InOrder(w2, DataType(f), Len(k[f].got) + c[buffer(f)].used + Len(more), s[f].read)
    /\ \A h \in {"stdout", "stderr"} : h # f =>
          InOrder(w2, DataType(h), Len(k[h].got) + c[buffer(h)].used, s[h].read)

LEMMA ShowsMoved ==
  ASSUME NEW c, NEW w, NEW s, NEW k, Shows(c, w, s, k), NEW f \in {"stdout", "stderr"}, NEW t,
         IsChannel("client", t), NEW more \in Seq(Nat), NEW put, NEW k2, NEW w2 \in Seq(Packet),
         MovesOn(c, s, k, f, t, more, put, k2, w2)
  PROVE  Shows(t, w2, s, k2)
  <1>m. /\ Moved(c[buffer(f)], more, put, t[buffer(f)])
        /\ \A h \in {"stdout", "stderr"} : h # f => t[buffer(h)] = c[buffer(h)]
        /\ t.writefd = c.writefd /\ t.errfd = c.errfd /\ t.recv_eof = c.recv_eof /\ t.sent_close = c.sent_close
        /\ IF f = "stdout" THEN c.writefd # FD_CLOSED ELSE c.errfd # FD_CLOSED
        /\ k2[f].got = k[f].got \o put
        /\ \A h \in {"stdout", "stderr"} : h # f => k2[h].got = k[h].got
        /\ \A j \in 1..Len(more) : more[j] = Len(k[f].got) + c[buffer(f)].used + j
        /\ InOrder(w2, DataType(f), Len(k[f].got) + c[buffer(f)].used + Len(more), s[f].read)
        /\ \A h \in {"stdout", "stderr"} : h # f =>
              InOrder(w2, DataType(h), Len(k[h].got) + c[buffer(h)].used, s[h].read)
    BY DEF MovesOn
  <1>0. /\ IsChannel("client", c) /\ s["stdout"].read \in Nat /\ s["stderr"].read \in Nat
        /\ k["stdout"].got \in Seq(Nat) /\ k["stderr"].got \in Seq(Nat) /\ "client" \in End
        /\ c.writefd = FD_CLOSED => c.recv_eof /\ c.writebuf.used = 0
        /\ c.errfd = FD_CLOSED => c.sent_close /\ c.extrabuf.used = 0
    BY DEF Shows, Showing, End
  <1>1. /\ c.writebuf.used \in Nat /\ c.extrabuf.used \in Nat
        /\ t.writebuf.used \in Nat /\ t.extrabuf.used \in Nat
    BY <1>0, BufferUsed
  <1>2. put \in Seq(Nat)
    BY <1>m DEF Moved
  <1>3. /\ Tracked(k["stdout"].got, c.writebuf, w, "DATA", s["stdout"].read)
        /\ Tracked(k["stderr"].got, c.extrabuf, w, "EXTENDED_DATA", s["stderr"].read)
    BY DEF Shows, Showing
  <1>4. CASE f = "stdout"
    <2>1. /\ buffer(f) = "writebuf" /\ buffer("stderr") = "extrabuf"
          /\ DataType(f) = "DATA" /\ DataType("stderr") = "EXTENDED_DATA"
      BY <1>4 DEF buffer, DataType
    <2>2. Tracked(k["stdout"].got \o put, t.writebuf, w2, "DATA", s["stdout"].read)
      <3>1. PICK g, b, b2, r : g = k["stdout"].got /\ b = c.writebuf /\ b2 = t.writebuf /\ r = s["stdout"].read
        OBVIOUS
      <3>2. g \in Seq(Nat) /\ b.used \in Nat /\ b2.used \in Nat
        BY <1>0, <1>1, <3>1, Zenon
      <3>3. Tracked(g, b, w, "DATA", r) /\ Moved(b, more, put, b2)
        BY <1>3, <1>4, <1>m, <2>1, <3>1, Zenon
      <3>4. (\A j \in 1..Len(more) : more[j] = Len(g) + b.used + j)
            /\ InOrder(w2, "DATA", Len(g) + b.used + Len(more), r)
        BY <1>4, <1>m, <2>1, <3>1, Zenon
      <3>5. Tracked(g \o put, b2, w2, "DATA", r)
        BY <3>2, <3>3, <3>4, TrackedMoved, Zenon
      <3> QED BY <3>1, <3>5, Zenon
    <2>3. Tracked(k["stderr"].got, t.extrabuf, w2, "EXTENDED_DATA", s["stderr"].read)
      <3>1. t.extrabuf = c.extrabuf
        BY <1>4, <1>m, <2>1
      <3>2. InOrder(w2, "EXTENDED_DATA", Len(k["stderr"].got) + c.extrabuf.used, s["stderr"].read)
        BY <1>4, <1>m, <2>1
      <3> QED BY <1>3, <3>1, <3>2, TrackedOn
    <2>4. k2["stdout"].got = k["stdout"].got \o put /\ k2["stderr"].got = k["stderr"].got
      BY <1>4, <1>m
    <2>5. k2["stdout"].got \in Seq(Nat) /\ k2["stderr"].got \in Seq(Nat)
      BY <1>0, <1>2, <2>4, ConcatFacts
    <2>6. t.errfd = FD_CLOSED => t.sent_close /\ t.extrabuf.used = 0
      BY <1>0, <1>4, <1>m, <2>1
    <2>7. Showing(t, w2, s, k2)
      BY <1>4, <1>m, <2>2, <2>3, <2>4, <2>6 DEF Showing
    <2> QED BY <1>0, <2>5, <2>7 DEF Shows
  <1>5. CASE f = "stderr"
    <2>1. /\ buffer(f) = "extrabuf" /\ buffer("stdout") = "writebuf"
          /\ DataType(f) = "EXTENDED_DATA" /\ DataType("stdout") = "DATA"
      BY <1>5 DEF buffer, DataType
    <2>2. Tracked(k["stderr"].got \o put, t.extrabuf, w2, "EXTENDED_DATA", s["stderr"].read)
      <3>1. PICK g, b, b2, r : g = k["stderr"].got /\ b = c.extrabuf /\ b2 = t.extrabuf /\ r = s["stderr"].read
        OBVIOUS
      <3>2. g \in Seq(Nat) /\ b.used \in Nat /\ b2.used \in Nat
        BY <1>0, <1>1, <3>1, Zenon
      <3>3. Tracked(g, b, w, "EXTENDED_DATA", r) /\ Moved(b, more, put, b2)
        BY <1>3, <1>5, <1>m, <2>1, <3>1, Zenon
      <3>4. (\A j \in 1..Len(more) : more[j] = Len(g) + b.used + j)
            /\ InOrder(w2, "EXTENDED_DATA", Len(g) + b.used + Len(more), r)
        BY <1>5, <1>m, <2>1, <3>1, Zenon
      <3>5. Tracked(g \o put, b2, w2, "EXTENDED_DATA", r)
        BY <3>2, <3>3, <3>4, TrackedMoved, Zenon
      <3> QED BY <3>1, <3>5, Zenon
    <2>3. Tracked(k["stdout"].got, t.writebuf, w2, "DATA", s["stdout"].read)
      <3>1. t.writebuf = c.writebuf
        BY <1>5, <1>m, <2>1
      <3>2. InOrder(w2, "DATA", Len(k["stdout"].got) + c.writebuf.used, s["stdout"].read)
        BY <1>5, <1>m, <2>1
      <3> QED BY <1>3, <3>1, <3>2, TrackedOn
    <2>4. k2["stderr"].got = k["stderr"].got \o put /\ k2["stdout"].got = k["stdout"].got
      BY <1>5, <1>m
    <2>5. k2["stdout"].got \in Seq(Nat) /\ k2["stderr"].got \in Seq(Nat)
      BY <1>0, <1>2, <2>4, ConcatFacts
    <2>6. t.writefd = FD_CLOSED => t.recv_eof /\ t.writebuf.used = 0
      BY <1>0, <1>5, <1>m, <2>1
    <2>7. Showing(t, w2, s, k2)
      BY <1>5, <1>m, <2>2, <2>3, <2>4, <2>6 DEF Showing
    <2> QED BY <1>0, <2>5, <2>7 DEF Shows
  <1> QED BY <1>4, <1>5

\* check_close() at the client.
LEMMA ShowsClosing ==
  ASSUME NEW c, NEW w, NEW s, NEW k, Shows(c, w, s, k), NEW t, IsChannel("client", t), NEW q, NEW s0,
         Closing("client", c, t, q, s0), t.present
  PROVE  Shows(t, w, s, k)
  <1>0. "client" \in End /\ IsChannel("client", c)
    BY DEF End, Shows
  <1>1. /\ t.recv_eof = c.recv_eof /\ t.writebuf = c.writebuf /\ t.extrabuf = c.extrabuf
        /\ Kept("client", c, t, q, s0)
    BY <1>0, Closed
  <1>2. /\ t.writefd = FD_CLOSED => c.writefd = FD_CLOSED \/ (c.recv_eof /\ c.writebuf.used = 0)
        /\ t.errfd = FD_CLOSED => c.errfd = FD_CLOSED \/ (t.sent_close /\ c.extrabuf.used = 0)
        /\ c.sent_close => t.sent_close
    BY <1>1 DEF Kept
  <1>3. Showing(t, w, s, k)
    BY <1>1, <1>2 DEF Shows, Showing
  <1> QED BY <1>3 DEF Shows

LEMMA ShowsRemoved ==
  ASSUME NEW c, NEW w, NEW s, NEW k, Shows(c, w, s, k), NEW t, NEW q, NEW s0,
         Closing("client", c, t, q, s0), ~t.present, ~Has(w, DataTypes), AllRead(s)
  PROVE  /\ k["stdout"].got = [i \in 1..MaxOut |-> i]
         /\ k["stderr"].got = [i \in 1..MaxErr |-> i]
  <1>0. /\ k["stdout"].got \in Seq(Nat) /\ k["stderr"].got \in Seq(Nat) /\ w \in Seq(Packet)
        /\ c.writefd = FD_CLOSED => c.writebuf.used = 0
        /\ c.errfd = FD_CLOSED => c.extrabuf.used = 0
    BY DEF Shows, Showing
  <1>1. Removed("client", c, t, q)
    BY DEF Closing
  <1>2. c.writebuf.used = 0 /\ c.extrabuf.used = 0
    BY <1>0, <1>1 DEF Removed
  <1>3. /\ Tracked(k["stdout"].got, c.writebuf, w, "DATA", MaxOut)
        /\ Tracked(k["stderr"].got, c.extrabuf, w, "EXTENDED_DATA", MaxErr)
    BY DEF Shows, Showing, AllRead
  <1>4. ~Has(w, {"DATA"}) /\ ~Has(w, {"EXTENDED_DATA"})
    BY DEF Has, DataTypes
  <1> QED BY <1>0, <1>2, <1>3, <1>4, TrackedAll, Constants

\* check_close() at the server.
LEMMA DrainsClosing ==
  ASSUME NEW c, IsChannel("server", c), NEW t, NEW q, NEW s, Closing("server", c, t, q, s), DrainedBy(c, s),
         s["stdout"].read \in Nat, s["stderr"].read \in Nat,
         s["stdout"].read <= MaxOut, s["stderr"].read <= MaxErr, c.present
  PROVE  DrainedBy(t, s)
  <1>1. SUFFICES ASSUME t.present, t.pid PROVE /\ t.readfd = FD_CLOSED => s["stdout"].read = MaxOut
                                               /\ t.errfd = FD_CLOSED => s["stderr"].read = MaxErr
    BY DEF DrainedBy
  <1>2. Kept("server", c, t, q, s) /\ c.pid
    BY <1>1, Closed DEF End
  <1>3. /\ t.readfd = FD_CLOSED => c.readfd = FD_CLOSED \/ ~fd_read_pending(s, "stdout")
        /\ t.errfd = FD_CLOSED => c.errfd = FD_CLOSED \/ ~fd_read_pending(s, "stderr")
    BY <1>2 DEF Kept
  <1>4. ~fd_read_pending(s, "stdout") => s["stdout"].read = MaxOut
    BY Constants, Totals DEF fd_read_pending
  <1>5. ~fd_read_pending(s, "stderr") => s["stderr"].read = MaxErr
    BY Constants, Totals DEF fd_read_pending
  <1> QED BY <1>2, <1>3, <1>4, <1>5 DEF DrainedBy

LEMMA TellsClosing ==
  ASSUME NEW c, IsChannel("server", c), InUse("server", c), NEW t, IsChannel("server", t), NEW q, NEW s,
         Closing("server", c, t, q, s), DrainedBy(t, s),
         NEW w \in Seq(Packet), NEW st \in BOOLEAN, NEW pr,
         c.sent_close => Told(c, w, s, st, pr), c.pid <=> pr # "none", c.exitpid => pr = "gone",
         c.recv_close /\ c.pid => AllRead(s)
  PROVE  Told(t, w \o t.out, s, st, pr)
  <1>1. SUFFICES ASSUME pr # "none", ~t.present \/ t.sent_close
                 PROVE  (st \/ Has(w \o t.out, {"EXIT_STATUS"})) /\ pr = "gone" /\ AllRead(s)
    BY DEF Told
  <1>2. t.out \in Seq(Packet) /\ c.out \in Seq(Packet) /\ q \in Seq(Packet) /\ t.out = c.out \o q
        /\ c.sent_close \in BOOLEAN /\ c.present
    BY ChannelFields DEF Closing, InUse
  <1>3. \A T : Has(w \o t.out, T) <=> Has(w, T) \/ Has(c.out, T) \/ Has(q, T)
    <2>1. \A T : Has(w \o t.out, T) <=> Has(w, T) \/ Has(t.out, T)
      BY <1>2, HasConcat
    <2>2. \A T : Has(t.out, T) <=> Has(c.out, T) \/ Has(q, T)
      BY <1>2, HasConcat
    <2> QED BY <2>1, <2>2
  <1>4. CASE c.sent_close
    BY <1>1, <1>3, <1>4 DEF Told
  <1>5. CASE ~c.sent_close /\ ~t.present
    <2>1. Removed("server", c, t, q)
      BY <1>5 DEF Closing
    <2> QED BY <1>1, <1>3, <1>5, <2>1 DEF Removed
  <1>6. CASE ~c.sent_close /\ t.present
    <2>1. Kept("server", c, t, q, s) /\ t.sent_close /\ t.pid = c.pid
      BY <1>1, <1>6, Closed DEF End
    <2>2. c.exitpid /\ Has(q, {"EXIT_STATUS"})
      BY <1>1, <1>6, <2>1 DEF Kept
    <2>3. t.readfd = FD_CLOSED /\ t.errfd = FD_CLOSED
      BY <2>1 DEF Kept, InUse, Flagged
    <2>4. AllRead(s)
      BY <1>1, <1>6, <2>1, <2>3 DEF DrainedBy, AllRead
    <2> QED BY <1>3, <2>2, <2>4
  <1> QED BY <1>2, <1>4, <1>5, <1>6

LEMMA Awaits ==
  ASSUME Typed, Working, NEW e \in End
  PROVE  ~chan[e].await_open
  BY UnusedFields DEF Working, Linked, InUse, Flagged

LEMMA ShowsNow ==
  ASSUME Typed, Working, OutputOK, chan["client"].present
  PROVE  Shows(chan["client"], wire["server"], src, snk) /\ InUse("client", chan["client"])
  <1>1. IsChannel("client", chan["client"]) /\ wire["server"] \in Seq(Packet) /\ "client" \in End
    BY DEF Typed, End
  <1>2. /\ src["stdout"].read \in Nat /\ src["stderr"].read \in Nat
        /\ snk["stdout"].got \in Seq(Nat) /\ snk["stderr"].got \in Seq(Nat)
    BY DEF Typed, Stream
  <1> QED BY <1>1, <1>2, Live DEF Shows, OutputOK

\* A client that has seen CLOSE, or has it before it, has seen everything.
LEMMA SeenAll ==
  ASSUME Typed, Working, StatusOK, prog # "none", chan["client"].present,
         chan["client"].recv_close \/ (wire["server"] # <<>> /\ wire["server"][1].type = "CLOSE")
  PROVE  status /\ AllRead(src) /\ ~Has(wire["server"], DataTypes)
  <1>0. PICK w \in Seq(Packet) : w = wire["server"]
    BY DEF Typed, End
  <1>1. Sent(w, wire["client"], chan["server"], chan["client"])
    BY <1>0 DEF Working, Linked, End, Peer
  <1>2. /\ ~chan["server"].present \/ chan["server"].sent_close
        /\ ~Has(w, {"EXIT_STATUS"}) /\ ~Has(w, DataTypes)
    <2>1. CASE chan["client"].recv_close
      BY <1>1, <2>1, NoPacket DEF Sent
    <2>2. CASE w # <<>> /\ w[1].type = "CLOSE"
      <3>1. Has(w, {"CLOSE"}) /\ 1 \in 1..Len(w)
        BY <2>2, TailFacts DEF Has
      <3>2. \A i \in 1..Len(w) : i = 1
        BY <1>1, <2>2, <3>1 DEF Sent, Ordered
      <3>3. ~Has(w, {"EXIT_STATUS"}) /\ ~Has(w, DataTypes)
        BY <2>2, <3>2 DEF Has, DataTypes
      <3> QED BY <1>1, <3>1, <3>3 DEF Sent
    <2> QED BY <1>0, <2>1, <2>2
  <1> QED BY <1>0, <1>2 DEF StatusOK, Told

\* A server that has seen CLOSE, or has it before it, has sent everything.
LEMMA SentAll ==
  ASSUME Typed, Working, OutputOK, Drained, chan["server"].present, chan["server"].pid,
         chan["server"].recv_close \/ Has(wire["client"], {"CLOSE"})
  PROVE  AllRead(src)
  <1>1. /\ Sent(wire["client"], wire["server"], chan["client"], chan["server"])
        /\ Sent(wire["server"], wire["client"], chan["server"], chan["client"])
    BY DEF Working, Linked, End, Peer
  <1>2. InUse("server", chan["server"])
    BY Live DEF End
  <1>3. chan["server"].sent_eof
    <2>1. CASE chan["client"].present
      <3>1. chan["client"].sent_close
        BY <1>1, <2>1 DEF Sent
      <3>2. chan["client"].writefd = FD_CLOSED
        BY <2>1, <3>1, ShowsNow DEF InUse, Flagged
      <3>3. chan["client"].recv_eof
        BY <2>1, <3>2 DEF OutputOK, Showing
      <3> QED BY <1>1, <2>1, <3>3 DEF Sent
    <2>2. CASE ~chan["client"].present
      BY <1>1, <1>2, <2>2 DEF Sent, InUse, Flagged
    <2> QED BY <2>1, <2>2
  <1>4. chan["server"].readfd = FD_CLOSED /\ chan["server"].errfd = FD_CLOSED
    BY <1>2, <1>3 DEF InUse, Flagged, FdsOK, NoMoreToSend
  <1> QED BY <1>4 DEF Drained, DrainedBy, AllRead

\* The client acts: nothing changes for the server.
LEMMA ClientKeeps ==
  ASSUME Typed, Working, Drained, StatusOK, NEW t, NEW v2, After("client", t, v2),
         prog' = prog, status => status',
         Has(wire["server"], {"EXIT_STATUS"}) => status' \/ Has(v2, {"EXIT_STATUS"}),
         src'["stdout"] = src["stdout"], src'["stderr"] = src["stderr"]
  PROVE  Drained' /\ StatusOK'
  <1>1. chan'["server"] = chan["server"] /\ wire'["server"] = v2
    BY DEF After, Peer
  <1>2. Drained'
    BY <1>1 DEF Drained, DrainedBy
  <1>3. StatusOK'
    BY <1>1 DEF StatusOK, Told, AllRead
  <1> QED BY <1>2, <1>3

\* What the client shows after it acted.
LEMMA ClientShows ==
  ASSUME NEW t, NEW v2, After("client", t, v2), NEW s, NEW k,
         t.present => Shows(t, v2, s, k), s = src', k = snk',
         ~t.present /\ prog' # "none" => status' /\ Arrived("stdout")' /\ Arrived("stderr")'
  PROVE  OutputOK'
  <1>1. Same(t, chan'["client"], {"out", "put"}) /\ wire'["server"] = v2
    BY DEF After, Peer
  <1>2. PICK x : x = chan'["client"]
    OBVIOUS
  <1>3. /\ x.present = t.present /\ x.writebuf = t.writebuf /\ x.extrabuf = t.extrabuf
        /\ x.writefd = t.writefd /\ x.errfd = t.errfd /\ x.recv_eof = t.recv_eof
        /\ x.sent_close = t.sent_close
    BY <1>1, <1>2, SameAfter
  <1>4. t.present => Showing(x, v2, s, k)
    BY <1>3, ShowingFields DEF Shows
  <1> QED BY <1>1, <1>2, <1>3, <1>4 DEF OutputOK

\* The server acts: the client shows what it did.
LEMMA ServerShows ==
  ASSUME OutputOK, NEW t, NEW v2, After("server", t, v2), NEW s, NEW k, s = src', k = snk',
         chan["client"].present => Shows(chan["client"], wire["server"] \o t.out, s, k),
         snk'["stdout"] = snk["stdout"], snk'["stderr"] = snk["stderr"],
         status => status', chan["client"].present \/ (prog' # "none" => prog # "none")
  PROVE  OutputOK'
  <1>1. chan'["client"] = chan["client"] /\ wire'["server"] = wire["server"] \o t.out
    BY DEF After, Peer
  <1> QED BY <1>1 DEF OutputOK, Shows, Arrived

\* Told and DrainedBy of a channel, and of what Done() leaves of it.
LEMMA ServerLeaves ==
  ASSUME NEW t, NEW v2, After("server", t, v2), DrainedBy(t, src'),
         Told(t, wire["server"] \o t.out, src', status', prog')
  PROVE  Drained' /\ StatusOK'
  <1>1. Same(t, chan'["server"], {"out", "put"}) /\ wire'["server"] = wire["server"] \o t.out
    BY DEF After
  <1>2. PICK x : x = chan'["server"]
    OBVIOUS
  <1>3. /\ x.present = t.present /\ x.pid = t.pid /\ x.readfd = t.readfd /\ x.errfd = t.errfd
        /\ x.sent_close = t.sent_close
    BY <1>1, <1>2, SameAfter
  <1>4. Drained'
    BY <1>2, <1>3 DEF Drained, DrainedBy
  <1>5. StatusOK'
    BY <1>1, <1>2, <1>3 DEF StatusOK, Told
  <1> QED BY <1>4, <1>5

\* check_close() at the client, after it acted: it is still there and shows what
\* it has, or it is gone and has shown everything.
LEMMA ClientCloses ==
  ASSUME Typed, Working, StatusOK, chan["client"].present, NEW b, NEW v2, Shows(b, v2, src, snk'),
         NEW t, IsChannel("client", t), NEW q, NEW s0, Closing("client", b, t, q, s0),
         After("client", t, v2), prog' = prog, status => status',
         src'["stdout"] = src["stdout"], src'["stderr"] = src["stderr"],
         b.recv_close => chan["client"].recv_close
                         \/ (wire["server"] # <<>> /\ wire["server"][1].type = "CLOSE"),
         Has(v2, DataTypes) => Has(wire["server"], DataTypes)
  PROVE  OutputOK'
  <1>0. IsChannel("client", b) /\ "client" \in End
    BY DEF Shows, End
  <1>1. Shows(b, v2, src', snk')
    BY DEF Shows, Showing
  <1>2. t.present => Shows(t, v2, src', snk')
    BY <1>1, ShowsClosing
  <1>3. ASSUME ~t.present, prog' # "none" PROVE status' /\ Arrived("stdout")' /\ Arrived("stderr")'
    <2>1. b.recv_close
      BY <1>0, <1>3, Closed
    <2>2. status /\ AllRead(src) /\ ~Has(wire["server"], DataTypes)
      BY <1>3, <2>1, SeenAll
    <2>3. /\ snk'["stdout"].got = [i \in 1..MaxOut |-> i]
          /\ snk'["stderr"].got = [i \in 1..MaxErr |-> i]
      BY <1>3, <2>2, ShowsRemoved
    <2> QED BY <2>2, <2>3, Totals DEF Arrived
  <1> QED BY <1>2, <1>3, ClientShows

\* check_close() at the server.
LEMMA ServerCloses ==
  ASSUME NEW b, IsChannel("server", b), InUse("server", b), DrainedBy(b, src'),
         NEW t, IsChannel("server", t), NEW q, Closing("server", b, t, q, src'),
         NEW v2, After("server", t, v2), Outside', wire["server"] \in Seq(Packet),
         b.sent_close => Told(b, wire["server"], src', status', prog'),
         b.pid <=> prog' # "none", b.exitpid => prog' = "gone", b.recv_close /\ b.pid => AllRead(src')
  PROVE  Drained' /\ StatusOK'
  <1>1. /\ src'["stdout"].read \in Nat /\ src'["stderr"].read \in Nat
        /\ src'["stdout"].read <= MaxOut /\ src'["stderr"].read <= MaxErr /\ status' \in BOOLEAN
    BY Totals DEF Outside, Stream
  <1>2. DrainedBy(t, src')
    BY <1>1, DrainsClosing DEF InUse
  <1>3. Told(t, wire["server"] \o t.out, src', status', prog')
    BY <1>1, <1>2, TellsClosing
  <1> QED BY <1>2, <1>3, ServerLeaves

LEMMA ClientControl ==
  ASSUME Typed, Working, OutputOK, Drained, StatusOK, RecvControl("client")
  PROVE  OutputOK' /\ Drained' /\ StatusOK'
  <1>0. "client" \in End /\ Peer("client") = "server"
    BY DEF End, Peer
  <1>c. PICK c, p : c = chan["client"] /\ p = Head(wire["server"])
    OBVIOUS
  <1>1. PICK w \in Seq(Packet) : w = wire["server"] /\ p = Head(w) /\ c = chan["client"]
    BY <1>c DEF Typed, End
  <1>2. c.present /\ w # <<>> /\ p = w[1] /\ IsChannel("client", c)
    BY <1>0, <1>1, Addressed DEF RecvControl, Incoming
  <1>3. PICK t : ControlEffect("client", t)
    BY <1>0, ControlActs
  <1>4. src' = src /\ snk' = snk /\ prog' = prog
    BY DEF RecvControl
  <1>5. /\ After("client", t, Tail(w)) /\ Informed("client", c, t, p) /\ IsChannel("client", t)
        /\ status' = (status \/ p.type = "EXIT_STATUS")
        /\ p.type \in {"WINDOW_ADJUST", "EOF", "CLOSE", "EXIT_STATUS"}
    BY <1>0, <1>1, <1>3 DEF ControlEffect, Acting, Acted
  <1>6. p.type \notin DataTypes
    BY <1>5 DEF DataTypes
  <1>7. Shows(c, Tail(w), src, snk)
    BY <1>1, <1>2, <1>6, ShowsNow, ShowsPass
  <1>8. Drained' /\ StatusOK'
    <2>1. Has(w, {"EXIT_STATUS"}) => status' \/ Has(Tail(w), {"EXIT_STATUS"})
      BY <1>2, <1>5, HasTail
    <2> QED BY <1>1, <1>4, <1>5, <2>1, ClientKeeps
  <1>9. OutputOK'
    <2>1. ASSUME p.type \in {"WINDOW_ADJUST", "EXIT_STATUS"} PROVE OutputOK'
      <3>1. /\ t.present = c.present /\ t.writebuf = c.writebuf /\ t.extrabuf = c.extrabuf
            /\ t.writefd = c.writefd /\ t.errfd = c.errfd /\ t.recv_eof = c.recv_eof
            /\ t.sent_close = c.sent_close
        BY <1>5, <2>1 DEF Informed, Same, Fields, Flags, Fds, Counters
      <3>2. Showing(t, Tail(w), src, snk)
        BY <1>7, <3>1, ShowingFields DEF Shows
      <3>3. Shows(t, Tail(w), src', snk')
        BY <1>4, <1>5, <1>7, <3>2 DEF Shows
      <3> QED BY <1>2, <1>5, <3>1, <3>3, ClientShows
    <2>2. ASSUME p.type \in {"EOF", "CLOSE"} PROVE OutputOK'
      <3>1. PICK b, q : Ended("client", c, b, p) /\ Closing("client", b, t, q, src)
        BY <1>5, <2>2 DEF Informed
      <3>2. /\ b.writebuf = c.writebuf /\ b.extrabuf = c.extrabuf
            /\ b.writefd = c.writefd /\ b.errfd = c.errfd
            /\ b.sent_close = c.sent_close /\ b.recv_eof /\ IsChannel("client", b)
        BY <3>1 DEF Ended, Same, Fields, Flags, Fds
      <3>3. Shows(b, Tail(w), src, snk')
        BY <1>4, <1>7, <3>2 DEF Shows, Showing
      <3>4. b.recv_close => c.recv_close \/ p.type = "CLOSE"
        BY <3>1 DEF Ended
      <3>5. Has(Tail(w), DataTypes) => Has(w, DataTypes)
        BY <1>2, HasTail
      <3>6. status => status'
        BY <1>5
      <3> QED BY <1>1, <1>2, <1>4, <1>5, <3>1, <3>3, <3>4, <3>5, <3>6, ClientCloses
    <2> QED BY <1>5, <2>1, <2>2
  <1> QED BY <1>8, <1>9

LEMMA FarewellOnly ==
  ASSUME NEW e, NEW c, NEW t, NEW q, NEW s, Closing(e, c, t, q, s)
  PROVE  q \in Seq(Packet) /\ ~Has(q, DataTypes) /\ ~Has(q, {"WINDOW_ADJUST"}) /\ t.out = c.out \o q
  BY DEF Closing, Has, Farewell, DataTypes

\* The server acts without closing anything.
LEMMA ServerStays ==
  ASSUME Drained, StatusOK, wire["server"] \in Seq(Packet), NEW t, t.out \in Seq(Packet), NEW v2,
         After("server", t, v2), t.present = chan["server"].present, t.pid = chan["server"].pid,
         t.readfd = chan["server"].readfd, t.errfd = chan["server"].errfd,
         t.sent_close = chan["server"].sent_close, src' = src, prog' = prog, status => status'
  PROVE  Drained' /\ StatusOK'
  <1>1. DrainedBy(t, src')
    BY DEF Drained, DrainedBy
  <1>2. Has(wire["server"], {"EXIT_STATUS"}) => Has(wire["server"] \o t.out, {"EXIT_STATUS"})
    BY HasConcat
  <1>3. Told(t, wire["server"] \o t.out, src', status', prog')
    BY <1>2 DEF StatusOK, Told
  <1> QED BY <1>1, <1>3, ServerLeaves

LEMMA ServerControl ==
  ASSUME Typed, Working, OutputOK, Drained, StatusOK, RecvControl("server")
  PROVE  OutputOK' /\ Drained' /\ StatusOK'
  <1>0. "server" \in End /\ Peer("server") = "client"
    BY DEF End, Peer
  <1>c. PICK c, p : c = chan["server"] /\ p = Head(wire["client"])
    OBVIOUS
  <1>1. PICK v \in Seq(Packet) : v = wire["client"] /\ p = Head(v) /\ c = chan["server"]
    BY <1>c DEF Typed, End
  <1>2. /\ c.present /\ v # <<>> /\ p = v[1] /\ IsChannel("server", c) /\ c.out = <<>>
        /\ InUse("server", c) /\ p.type \in Types("client")
    BY <1>0, <1>1, Addressed DEF RecvControl, Incoming
  <1>3. PICK t : ControlEffect("server", t)
    BY <1>0, ControlActs
  <1>4. src' = src /\ snk' = snk /\ prog' = prog /\ wire["server"] \in Seq(Packet)
    BY DEF RecvControl, Typed, End
  <1>5. /\ After("server", t, Tail(v)) /\ Informed("server", c, t, p) /\ IsChannel("server", t)
        /\ status' = (status \/ p.type = "EXIT_STATUS") /\ t.out \in Seq(Packet)
        /\ p.type \in {"WINDOW_ADJUST", "EOF", "CLOSE", "EXIT_STATUS"}
    BY <1>0, <1>1, <1>3, ChannelFields DEF ControlEffect, Acting, Acted
  <1>6. status' = status /\ p.type # "EXIT_STATUS" /\ status \in BOOLEAN
    BY <1>2, <1>5 DEF Types, Typed
  <1>7. ASSUME p.type = "WINDOW_ADJUST" PROVE ~Has(t.out, DataTypes) /\ Drained' /\ StatusOK'
    <2>1. Same(c, t, {"transwindow"}) /\ t.out = <<>>
      BY <1>5, <1>7 DEF Informed
    <2>2. /\ t.present = c.present /\ t.pid = c.pid /\ t.readfd = c.readfd /\ t.errfd = c.errfd
          /\ t.sent_close = c.sent_close
      BY <2>1 DEF Same, Fields, Flags, Fds
    <2> QED BY <1>1, <1>4, <1>5, <1>6, <2>1, <2>2, ServerStays, NoPacket
  <1>8. ASSUME p.type \in {"EOF", "CLOSE"} PROVE ~Has(t.out, DataTypes) /\ Drained' /\ StatusOK'
    <2>1. PICK b, q : Ended("server", c, b, p) /\ Closing("server", b, t, q, src)
      BY <1>5, <1>8 DEF Informed
    <2>2. /\ b.present = c.present /\ b.pid = c.pid /\ b.readfd = c.readfd /\ b.errfd = c.errfd
          /\ b.sent_close = c.sent_close /\ b.exitpid = c.exitpid /\ b.out = c.out
          /\ IsChannel("server", b) /\ InUse("server", b)
      BY <2>1 DEF Ended, Same, Fields, Flags, Fds
    <2>3. q \in Seq(Packet) /\ ~Has(q, DataTypes) /\ t.out = b.out \o q
      BY <2>1, FarewellOnly
    <2>e. b.out = <<>> /\ <<>> \o q = q
      BY <1>2, <2>2, <2>3, ConcatEmptySeq
    <2>4. t.out = q
      BY <2>3, <2>e, Zenon
    <2>5. DrainedBy(b, src')
      BY <1>1, <1>4, <2>2 DEF Drained, DrainedBy
    <2>6. b.sent_close => Told(b, wire["server"], src', status', prog')
      BY <1>1, <1>4, <1>6, <2>2 DEF StatusOK, Told
    <2>7. (b.pid <=> prog' # "none") /\ (b.exitpid => prog' = "gone")
      BY <1>1, <1>2, <1>4, <2>2, ProgKept
    <2>8. ASSUME b.recv_close, b.pid PROVE AllRead(src')
      <3>1. c.recv_close \/ p.type = "CLOSE"
        BY <2>1, <2>8 DEF Ended
      <3>2. c.recv_close \/ Has(v, {"CLOSE"})
        BY <1>2, <3>1, HasTail
      <3>3. AllRead(src)
        BY <1>1, <1>2, <2>2, <2>8, <3>2, SentAll
      <3> QED BY <1>4, <3>3
    <2>9. Outside'
      BY <1>4, <1>6 DEF Typed, Outside
    <2>10. Closing("server", b, t, q, src')
      BY <1>4, <2>1
    <2>11. Drained' /\ StatusOK'
      BY <1>4, <1>5, <2>2, <2>5, <2>6, <2>7, <2>8, <2>9, <2>10, ServerCloses
    <2> QED BY <2>3, <2>4, <2>11
  <1>9. ~Has(t.out, DataTypes) /\ Drained' /\ StatusOK'
    BY <1>5, <1>6, <1>7, <1>8
  <1>10. chan["client"].present => Shows(chan["client"], wire["server"] \o t.out, src', snk')
    BY <1>4, <1>5, <1>9, ShowsNow, ShowsMore
  <1>11. OutputOK'
    BY <1>4, <1>5, <1>6, <1>10, ServerShows
  <1> QED BY <1>9, <1>11

LEMMA ShowsOf ==
  ASSUME NEW c, NEW w, NEW s, NEW k, Shows(c, w, s, k), NEW f \in {"stdout", "stderr"}
  PROVE  /\ Len(k[f].got) + c[buffer(f)].used \in Nat /\ s[f].read \in Nat /\ DataType(f) \in DataTypes
         /\ InOrder(w, DataType(f), Len(k[f].got) + c[buffer(f)].used, s[f].read)
  <1>1. s["stdout"].read \in Nat /\ s["stderr"].read \in Nat
    BY DEF Shows
  <1> QED BY <1>1, ShowsParts DEF buffer, DataType, DataTypes

\* What Put() does to the streams.
LEMMA PutFacts ==
  ASSUME Typed, NEW f \in Stream, NEW put, snk' = [snk EXCEPT ![f].got = @ \o put]
  PROVE  snk'[f].got = snk[f].got \o put /\ \A h \in Stream : h # f => snk'[h] = snk[h]
  <1>1. snk \in [Stream -> [got : Seq(Nat), broken : BOOLEAN]]
    BY DEF Typed
  <1> QED BY <1>1

\* The streams of the client, and the fields the data of one changes.
LEMMA ClientStream ==
  ASSUME NEW f \in Stream, Source(f) # "client"
  PROVE  /\ f \in {"stdout", "stderr"} /\ "stdout" \in Stream /\ "stderr" \in Stream
         /\ \A c : Fd(c, "client", f) = IF f = "stdout" THEN c.writefd ELSE c.errfd
         /\ \A h \in {"stdout", "stderr"} : h # f => buffer(h) # buffer(f)
  BY DEF Source, Stream, Fd, buffer

LEMMA StreamFields ==
  ASSUME NEW e, NEW c, NEW t, NEW f, NEW body, NEW q, NEW g, Received(e, c, t, f, body, q, g)
  PROVE  /\ t.present = c.present /\ t.writefd = c.writefd /\ t.errfd = c.errfd /\ t.readfd = c.readfd
         /\ t.recv_eof = c.recv_eof /\ t.sent_close = c.sent_close /\ t.recv_close = c.recv_close
         /\ \A h \in {"stdout", "stderr"} : buffer(h) # buffer(f) => t[buffer(h)] = c[buffer(h)]
  <1>1. PICK F : F = {buffer(f), "recvdonelen", "recvwindow", "out", "put"}
    OBVIOUS
  <1>2. Same(c, t, F)
    BY <1>1 DEF Received
  <1>3. F \subseteq DataFields
    BY <1>1 DEF DataFields, Counters, buffer
  <1>4. \A h \in {"stdout", "stderr"} : buffer(h) # buffer(f) => buffer(h) \in Fields \ F
    BY <1>1 DEF Fields, buffer
  <1> QED BY <1>2, <1>3, <1>4, SameData DEF Same

LEMMA ClientData ==
  ASSUME Typed, Working, OutputOK, Drained, StatusOK, RecvData("client")
  PROVE  OutputOK' /\ Drained' /\ StatusOK'
  <1>0. "client" \in End /\ Peer("client") = "server"
    BY DEF End, Peer
  <1>c. PICK c, p : c = chan["client"] /\ p = Head(wire["server"])
    OBVIOUS
  <1>1. PICK w \in Seq(Packet) : w = wire["server"] /\ p = Head(w) /\ c = chan["client"]
    BY <1>c DEF Typed, End
  <1>2. c.present /\ w # <<>> /\ p = w[1] /\ IsChannel("client", c) /\ p \in Packet
    BY <1>0, <1>1, Addressed DEF RecvData, Incoming
  <1>3. PICK f, t, g : DataEffect("client", f, t, g)
    BY <1>0, DataActs
  <1>4. src' = src /\ prog' = prog /\ status' = status
    BY DEF RecvData
  <1>5. /\ After("client", t, Tail(w)) /\ Arriving("client", f, t, p.body) /\ IsChannel("client", t)
        /\ f \in Stream /\ Source(f) # "client" /\ p.type = DataType(f) /\ t.present
        /\ snk' = [snk EXCEPT ![f].got = @ \o t.put]
    BY <1>0, <1>1, <1>3 DEF DataEffect, InUse
  <1>6. Shows(c, w, src, snk) /\ InUse("client", c)
    BY <1>1, <1>2, ShowsNow
  <1>7. /\ f \in {"stdout", "stderr"} /\ "stdout" \in Stream /\ "stderr" \in Stream
        /\ Fd(c, "client", f) = IF f = "stdout" THEN c.writefd ELSE c.errfd
        /\ \A h \in {"stdout", "stderr"} : h # f => buffer(h) # buffer(f)
    BY <1>5, ClientStream
  <1>8. PICK lo \in Nat, hi \in Nat : lo = Len(snk[f].got) + c[buffer(f)].used /\ hi = src[f].read
    BY <1>6, <1>7, ShowsOf
  <1>9. InOrder(w, DataType(f), lo, hi) /\ DataType(f) \in DataTypes
    BY <1>6, <1>7, <1>8, ShowsOf
  <1>10. p.body \in Seq(Nat)
    BY <1>2, <1>5, <1>9, PacketFields
  <1>11. PICK l \in Nat : l = Len(p.body)
    BY <1>10
  <1>12. (\A j \in 1..l : p.body[j] = lo + j) /\ InOrder(Tail(w), DataType(f), lo + l, hi)
    BY <1>2, <1>5, <1>9, <1>11, InOrderTake
  <1>13. (IF f = "stdout" THEN c.writefd # FD_CLOSED ELSE c.errfd # FD_CLOSED)
    <2>1. Has(w, DataTypes)
      BY <1>2, <1>5, <1>9, HasTail
    <2>2. ~c.recv_eof
      <3>1. Sent(w, wire["client"], chan["server"], c)
        BY <1>1 DEF Working, Linked, End, Peer
      <3>2. ~Has(w, DataTypes \cup {"EOF"}) => ~Has(w, DataTypes)
        BY DEF Has
      <3> QED BY <1>2, <2>1, <3>1, <3>2 DEF Sent
    <2>3. c.writefd # FD_CLOSED
      BY <1>6, <2>2 DEF Shows, Showing
    <2>4. c.errfd # FD_CLOSED
      BY <1>6, <2>3 DEF Shows, Showing, InUse, Flagged
    <2> QED BY <2>3, <2>4
  <1>14. Fd(c, "client", f) >= 0
    BY <1>6, <1>7, <1>13 DEF InUse, FdsOK, FD_CLOSED
  <1>15. PICK q, d : Received("client", c, t, f, p.body, q, d)
    <2>1. Fd(c, "client", f) \in Int
      BY <1>2, <1>7, ChannelFields
    <2> QED BY <1>1, <1>5, <1>14, <2>1 DEF Arriving
  <1>16. /\ t.writefd = c.writefd /\ t.errfd = c.errfd
         /\ t.recv_eof = c.recv_eof /\ t.sent_close = c.sent_close
         /\ \A h \in {"stdout", "stderr"} : h # f => t[buffer(h)] = c[buffer(h)]
    BY <1>7, <1>15, StreamFields
  <1>17. snk'[f].got = snk[f].got \o t.put /\ \A h \in {"stdout", "stderr"} : h # f => snk'[h] = snk[h]
    BY <1>5, <1>7, PutFacts
  <1>18. ASSUME NEW h \in {"stdout", "stderr"}, h # f
         PROVE  InOrder(Tail(w), DataType(h), Len(snk[h].got) + c[buffer(h)].used, src[h].read)
    <2>1. DataType(h) # DataType(f)
      BY <1>7, <1>18 DEF DataType
    <2>2. PICK a \in Nat, b \in Nat : a = Len(snk[h].got) + c[buffer(h)].used /\ b = src[h].read
      BY <1>6, ShowsOf
    <2>3. InOrder(w, DataType(h), a, b) /\ DataType(h) \in DataTypes
      BY <1>6, <2>2, ShowsOf
    <2>4. w[1].type # DataType(h)
      BY <1>2, <1>5, <2>1
    <2>5. InOrder(Tail(w), DataType(h), a, b)
      BY <1>2, <2>3, <2>4, InOrderPass
    <2> QED BY <2>2, <2>5, Zenon
  <1>19. Tail(w) \in Seq(Packet)
    BY <1>2, TailFacts
  <1>20. /\ \A j \in 1..Len(p.body) : p.body[j] = Len(snk[f].got) + c[buffer(f)].used + j
         /\ InOrder(Tail(w), DataType(f), Len(snk[f].got) + c[buffer(f)].used + Len(p.body), src[f].read)
    BY <1>8, <1>11, <1>12, Zenon
  <1>21. Moved(c[buffer(f)], p.body, t.put, t[buffer(f)])
    BY <1>15 DEF Received
  <1>22. Shows(t, Tail(w), src, snk')
    <2>1. PICK k2 : k2 = snk'
      OBVIOUS
    <2>2. k2[f].got = snk[f].got \o t.put /\ \A h \in {"stdout", "stderr"} : h # f => k2[h].got = snk[h].got
      BY <1>17, <2>1, Zenon
    <2>3. MovesOn(c, src, snk, f, t, p.body, t.put, k2, Tail(w))
      BY <1>13, <1>16, <1>18, <1>20, <1>21, <2>2, Zenon DEF MovesOn
    <2>4. Shows(t, Tail(w), src, k2)
      BY <1>5, <1>6, <1>7, <1>10, <1>19, <2>3, ShowsMoved, Zenon
    <2> QED BY <2>1, <2>4, Zenon
  <1>23. OutputOK'
    BY <1>4, <1>5, <1>22, ClientShows
  <1>24. Drained' /\ StatusOK'
    <2>1. Has(w, {"EXIT_STATUS"}) => Has(Tail(w), {"EXIT_STATUS"})
      BY <1>2, <1>5, HasTail DEF DataType
    <2> QED BY <1>1, <1>4, <1>5, <2>1, ClientKeeps
  <1> QED BY <1>23, <1>24

LEMMA ServerData ==
  ASSUME Typed, Working, OutputOK, Drained, StatusOK, RecvData("server")
  PROVE  OutputOK' /\ Drained' /\ StatusOK'
  <1>0. "server" \in End /\ Peer("server") = "client"
    BY DEF End, Peer
  <1>1. PICK c : c = chan["server"] /\ c.present
    BY <1>0, Addressed DEF RecvData, Incoming
  <1>2. PICK f, t, g : DataEffect("server", f, t, g)
    BY <1>0, DataActs
  <1>3. src' = src /\ prog' = prog /\ status' = status /\ wire["server"] \in Seq(Packet)
    BY DEF RecvData, Typed, End
  <1>4. /\ After("server", t, Tail(wire["client"])) /\ IsChannel("server", t) /\ t.present
        /\ f \in Stream /\ Source(f) # "server" /\ t.out \in Seq(Packet)
        /\ snk' = [snk EXCEPT ![f].got = @ \o t.put]
        /\ t.pid = c.pid /\ t.readfd = c.readfd /\ t.errfd = c.errfd /\ t.sent_close = c.sent_close
        /\ ~Has(t.out, {"EXIT_STATUS"} \cup DataTypes)
    BY <1>0, <1>1, <1>2, ChannelFields DEF DataEffect, InUse
  <1>5. f = "stdin" /\ "stdout" \in Stream /\ "stderr" \in Stream
    BY <1>4 DEF Source, Stream
  <1>6. snk'["stdout"] = snk["stdout"] /\ snk'["stderr"] = snk["stderr"]
    BY <1>4, <1>5, PutFacts
  <1>7. Drained' /\ StatusOK'
    BY <1>1, <1>3, <1>4, ServerStays
  <1>8. ~Has(t.out, DataTypes)
    BY <1>4 DEF Has
  <1>9. chan["client"].present => Shows(chan["client"], wire["server"] \o t.out, src', snk')
    <2>1. chan["client"].present => Shows(chan["client"], wire["server"] \o t.out, src, snk)
      BY <1>4, <1>8, ShowsNow, ShowsMore
    <2> QED BY <1>3, <1>6, <2>1 DEF Shows, Showing
  <1>10. OutputOK'
    BY <1>3, <1>4, <1>6, <1>9, ServerShows
  <1> QED BY <1>7, <1>10

\* What ReadFd() does to the streams.
LEMMA SourceFacts ==
  ASSUME Typed, NEW f \in Stream, NEW m, src' = [src EXCEPT ![f].read = @ + m]
  PROVE  src'[f].read = src[f].read + m /\ \A h \in Stream : h # f => src'[h] = src[h]
  <1>1. src \in [Stream -> [read : Nat, closed : BOOLEAN]]
    BY DEF Typed
  <1> QED BY <1>1

\* What reading leaves alone.
LEMMA ReadingFields ==
  ASSUME NEW e, NEW f, NEW b, NEW m, Reading(e, f, b, m), NEW c, c = chan[e]
  PROVE  /\ b.present = c.present /\ b.writefd = c.writefd /\ b.writebuf = c.writebuf
         /\ b.extrabuf = c.extrabuf /\ b.recv_eof = c.recv_eof /\ b.recv_close = c.recv_close
         /\ b.sent_eof = c.sent_eof /\ b.sent_close = c.sent_close
         /\ b.pid = c.pid /\ b.exitpid = c.exitpid /\ IsChannel(e, b) /\ InUse(e, b)
         /\ f # "stderr" => b.errfd = c.errfd
         /\ f = "stderr" => b.readfd = c.readfd
  BY DEF Reading, Shut, SentBlocks, Same, Fields, Flags, Fds, Counters

LEMMA ClientRead ==
  ASSUME Typed, Working, OutputOK, Drained, StatusOK, NEW f \in Stream, ReadFd("client", f)
  PROVE  OutputOK' /\ Drained' /\ StatusOK'
  <1>0. "client" \in End /\ Peer("client") = "server"
    BY DEF End, Peer
  <1>c. PICK c : c = chan["client"]
    OBVIOUS
  <1>1. PICK w \in Seq(Packet) : w = wire["server"] /\ c = chan["client"]
    BY <1>c DEF Typed, End
  <1>2. PICK b, q, t, m : ReadEffect("client", f, b, q, t, m)
    BY <1>0, ReadActs
  <1>3. snk' = snk /\ prog' = prog /\ status' = status
    BY DEF ReadFd
  <1>4. /\ After("client", t, w) /\ Source(f) = "client" /\ c.present /\ Reading("client", f, b, m)
        /\ src' = [src EXCEPT ![f].read = @ + m] /\ Closing("client", b, t, q, src')
        /\ IsChannel("client", t)
    BY <1>0, <1>1, <1>2 DEF ReadEffect
  <1>5. f = "stdin" /\ "stdout" \in Stream /\ "stderr" \in Stream
    BY <1>4 DEF Source, Stream
  <1>6. src'["stdout"] = src["stdout"] /\ src'["stderr"] = src["stderr"]
    BY <1>4, <1>5, SourceFacts
  <1>7. /\ b.writefd = c.writefd /\ b.writebuf = c.writebuf /\ b.extrabuf = c.extrabuf
        /\ b.recv_eof = c.recv_eof /\ b.recv_close = c.recv_close /\ b.sent_close = c.sent_close
        /\ b.errfd = c.errfd /\ IsChannel("client", b)
    BY <1>1, <1>4, <1>5, ReadingFields
  <1>8. Shows(c, w, src, snk)
    BY <1>1, <1>4, ShowsNow
  <1>9. Shows(b, w, src, snk')
    BY <1>3, <1>7, <1>8 DEF Shows, Showing
  <1>10. OutputOK'
    BY <1>1, <1>3, <1>4, <1>6, <1>7, <1>9, ClientCloses
  <1>11. Drained' /\ StatusOK'
    BY <1>1, <1>3, <1>4, <1>6, ClientKeeps
  <1> QED BY <1>10, <1>11

LEMMA ClientWrite ==
  ASSUME Typed, Working, OutputOK, Drained, StatusOK, NEW f \in Stream, WriteFd("client", f)
  PROVE  OutputOK' /\ Drained' /\ StatusOK'
  <1>0. "client" \in End /\ Peer("client") = "server"
    BY DEF End, Peer
  <1>c. PICK c : c = chan["client"]
    OBVIOUS
  <1>1. PICK w \in Seq(Packet) : w = wire["server"] /\ c = chan["client"]
    BY <1>c DEF Typed, End
  <1>2. PICK b, q, t, g : WriteEffect("client", f, b, q, t, g)
    BY <1>0, WriteActs
  <1>3. src' = src /\ prog' = prog /\ status' = status
    BY DEF WriteFd
  <1>4. /\ After("client", t, w) /\ Source(f) # "client" /\ Fd(c, "client", f) >= 0 /\ c.present
        /\ Writing("client", f, b) /\ snk' = [snk EXCEPT ![f].got = @ \o b.put]
        /\ IsChannel("client", b) /\ Closing("client", b, t, q, src) /\ IsChannel("client", t)
    BY <1>0, <1>1, <1>2 DEF WriteEffect
  <1>5. PICK r, d : Received("client", c, b, f, <<>>, r, d)
    BY <1>1, <1>4 DEF Writing
  <1>6. /\ f \in {"stdout", "stderr"} /\ "stdout" \in Stream /\ "stderr" \in Stream
        /\ Fd(c, "client", f) = IF f = "stdout" THEN c.writefd ELSE c.errfd
        /\ \A h \in {"stdout", "stderr"} : h # f => buffer(h) # buffer(f)
    BY <1>4, ClientStream
  <1>7. (IF f = "stdout" THEN c.writefd # FD_CLOSED ELSE c.errfd # FD_CLOSED)
    BY <1>4, <1>6 DEF FD_CLOSED
  <1>8. /\ b.writefd = c.writefd /\ b.errfd = c.errfd
        /\ b.recv_eof = c.recv_eof /\ b.sent_close = c.sent_close
        /\ \A h \in {"stdout", "stderr"} : h # f => b[buffer(h)] = c[buffer(h)]
    BY <1>5, <1>6, StreamFields
  <1>r. b.recv_close = c.recv_close
    BY <1>5, StreamFields
  <1>9. Shows(c, w, src, snk)
    BY <1>1, <1>4, ShowsNow
  <1>10. snk'[f].got = snk[f].got \o b.put /\ \A h \in {"stdout", "stderr"} : h # f => snk'[h] = snk[h]
    BY <1>4, <1>6, PutFacts
  <1>11. \A h \in {"stdout", "stderr"} :
            InOrder(w, DataType(h), Len(snk[h].got) + c[buffer(h)].used, src[h].read)
    BY <1>9, ShowsOf
  <1>12. <<>> \in Seq(Nat) /\ Len(<<>>) = 0
    OBVIOUS
  <1>13. /\ \A j \in 1..Len(<<>>) : <<>>[j] = Len(snk[f].got) + c[buffer(f)].used + j
         /\ InOrder(w, DataType(f), Len(snk[f].got) + c[buffer(f)].used + Len(<<>>), src[f].read)
    <2>1. PICK lo \in Nat : lo = Len(snk[f].got) + c[buffer(f)].used
      BY <1>6, <1>9, ShowsOf
    <2>2. lo + 0 = lo /\ 1..0 = {}
      OBVIOUS
    <2>3. InOrder(w, DataType(f), lo, src[f].read)
      BY <1>6, <1>11, <2>1, Zenon
    <2>4. InOrder(w, DataType(f), lo + Len(<<>>), src[f].read)
      BY <1>12, <2>2, <2>3, Zenon
    <2> QED BY <1>12, <2>1, <2>2, <2>4, Zenon
  <1>14. Moved(c[buffer(f)], <<>>, b.put, b[buffer(f)])
    BY <1>5 DEF Received
  <1>15. Shows(b, w, src, snk')
    <2>1. PICK k2, more : k2 = snk' /\ more = <<>>
      OBVIOUS
    <2>2. k2[f].got = snk[f].got \o b.put /\ \A h \in {"stdout", "stderr"} : h # f => k2[h].got = snk[h].got
      BY <1>10, <2>1, Zenon
    <2>3. /\ more \in Seq(Nat) /\ Moved(c[buffer(f)], more, b.put, b[buffer(f)])
          /\ \A j \in 1..Len(more) : more[j] = Len(snk[f].got) + c[buffer(f)].used + j
          /\ InOrder(w, DataType(f), Len(snk[f].got) + c[buffer(f)].used + Len(more), src[f].read)
      BY <1>12, <1>13, <1>14, <2>1, Zenon
    <2>4. MovesOn(c, src, snk, f, b, more, b.put, k2, w)
      BY <1>7, <1>8, <1>11, <2>2, <2>3, Zenon DEF MovesOn
    <2>5. Shows(b, w, src, k2)
      BY <1>4, <1>6, <1>9, <2>3, <2>4, ShowsMoved, Zenon
    <2> QED BY <2>1, <2>5, Zenon
  <1>16. OutputOK'
    BY <1>1, <1>3, <1>4, <1>r, <1>15, ClientCloses
  <1>17. Drained' /\ StatusOK'
    BY <1>1, <1>3, <1>4, ClientKeeps
  <1> QED BY <1>16, <1>17

LEMMA ServerStream ==
  ASSUME NEW f \in Stream, Source(f) = "server"
  PROVE  /\ f \in {"stdout", "stderr"} /\ "stdout" \in Stream /\ "stderr" \in Stream
         /\ \A c : Fd(c, "server", f) = IF f = "stderr" THEN c.errfd ELSE c.readfd
  BY DEF Source, Stream, Fd

\* Reading moves a stream on, to its end at most.
LEMMA ReadsOn ==
  ASSUME Typed, AllRead(src), Outside', NEW f \in Stream, NEW m \in Nat, src'[f].read = src[f].read + m,
         \A h \in Stream : h # f => src'[h] = src[h]
  PROVE  AllRead(src')
  <1>1. \A h \in Stream : src[h].read \in Nat /\ src'[h].read \in Nat /\ src'[h].read <= total(h)
    BY DEF Typed, Outside
  <1>2. "stdout" \in Stream /\ "stderr" \in Stream
    BY DEF Stream
  <1>3. ASSUME NEW h \in Stream, src[h].read = total(h) PROVE src'[h].read = total(h)
    <2>1. total(h) \in Nat
      BY Totals
    <2>2. CASE h = f
      <3>1. PICK a \in Nat, z \in Nat : a = src'[f].read /\ z = total(f)
        BY <1>1, <2>1, <2>2
      <3>2. a = z + m /\ a <= z
        BY <1>1, <1>3, <2>2, <3>1
      <3>3. a = z
        BY <3>2
      <3> QED BY <2>2, <3>1, <3>3
    <2>3. CASE h # f
      BY <1>3, <2>3
    <2> QED BY <2>2, <2>3
  <1> QED BY <1>2, <1>3, Totals DEF AllRead

LEMMA ServerRead ==
  ASSUME Typed, Working, OutputOK, Drained, StatusOK, NEW f \in Stream, ReadFd("server", f)
  PROVE  OutputOK' /\ Drained' /\ StatusOK'
  <1>0. "server" \in End /\ Peer("server") = "client"
    BY DEF End, Peer
  <1>c. PICK c : c = chan["server"]
    OBVIOUS
  <1>1. PICK w \in Seq(Packet) : w = wire["server"] /\ c = chan["server"]
    BY <1>c DEF Typed, End
  <1>2. PICK b, q, t, m : ReadEffect("server", f, b, q, t, m)
    BY <1>0, ReadActs
  <1>3. snk' = snk /\ prog' = prog /\ status' = status
    BY DEF ReadFd
  <1>4. /\ After("server", t, wire["client"]) /\ Source(f) = "server" /\ c.present
        /\ Fd(c, "server", f) >= 0 /\ Reading("server", f, b, m) /\ m \in Nat
        /\ src' = [src EXCEPT ![f].read = @ + m] /\ Closing("server", b, t, q, src')
        /\ IsChannel("server", t) /\ t.out \in Seq(Packet) /\ c.pid
    BY <1>0, <1>1, <1>2, ChannelFields DEF ReadEffect
  <1>5. Outside'
    BY <1>2, <1>3 DEF ReadEffect, Outside, Typed
  <1>6. src'[f].read = src[f].read + m /\ \A h \in Stream : h # f => src'[h] = src[h]
    BY <1>4, SourceFacts
  <1>7. /\ f \in {"stdout", "stderr"} /\ "stdout" \in Stream /\ "stderr" \in Stream
        /\ Fd(c, "server", f) = IF f = "stderr" THEN c.errfd ELSE c.readfd
    BY <1>4, ServerStream
  <1>8. /\ b.sent_close = c.sent_close /\ b.recv_close = c.recv_close /\ b.pid = c.pid
        /\ b.exitpid = c.exitpid /\ b.present = c.present /\ IsChannel("server", b) /\ InUse("server", b)
        /\ (f # "stderr" => b.errfd = c.errfd) /\ (f = "stderr" => b.readfd = c.readfd)
    <2>0. Reading("server", f, b, m) /\ c = chan["server"]
      BY <1>1, <1>4
    <2>1. b.sent_close = c.sent_close /\ b.recv_close = c.recv_close /\ b.present = c.present
      BY <2>0, ReadingFields
    <2>2. b.pid = c.pid /\ b.exitpid = c.exitpid /\ IsChannel("server", b) /\ InUse("server", b)
      BY <2>0, ReadingFields
    <2>3. (f # "stderr" => b.errfd = c.errfd) /\ (f = "stderr" => b.readfd = c.readfd)
      BY <1>1, <1>4, ReadingFields
    <2> QED BY <2>1, <2>2, <2>3
  <1>9. IsChannel("server", c) /\ InUse("server", c) /\ c.out = <<>> /\ ~c.sent_close
    BY <1>0, <1>1, <1>4, Live, MaySend
  <1>10. /\ c.readfd = FD_CLOSED => src["stdout"].read = MaxOut
         /\ c.errfd = FD_CLOSED => src["stderr"].read = MaxErr
    BY <1>1, <1>4 DEF Drained, DrainedBy
  <1>11. DrainedBy(b, src')
    <2>1. ASSUME Shut("server", c, b, f), m = 0, src[f].read = total(f) PROVE DrainedBy(b, src')
      <3>1. \A h \in {"stdout", "stderr"} : src'[h].read = src[h].read
        <4>1. src[f].read + 0 = src[f].read
          BY DEF Typed
        <4> QED BY <1>6, <1>7, <2>1, <4>1
      <3> QED BY <1>7, <1>10, <2>1, <3>1, Totals DEF Shut, DrainedBy
    <2>2. ASSUME SentBlocks("server", c, b, f, src[f].read, m) PROVE DrainedBy(b, src')
      <3>1. b.readfd = c.readfd /\ b.errfd = c.errfd
        BY <2>2 DEF SentBlocks, Same, Fields, Fds
      <3>2. (f = "stderr" => b.errfd # FD_CLOSED) /\ (f = "stdout" => b.readfd # FD_CLOSED)
        BY <1>4, <1>7, <3>1 DEF FD_CLOSED
      <3> QED BY <1>6, <1>7, <1>10, <3>1, <3>2 DEF DrainedBy
    <2> QED BY <1>1, <1>4, <2>1, <2>2 DEF Reading
  <1>12. ASSUME b.recv_close PROVE AllRead(src')
    <2>1. AllRead(src)
      BY <1>1, <1>4, <1>8, <1>12, SentAll
    <2> QED BY <1>4, <1>5, <1>6, <2>1, ReadsOn
  <1>13. (b.pid <=> prog' # "none") /\ (b.exitpid => prog' = "gone")
    BY <1>1, <1>3, <1>4, <1>8, ProgKept
  <1>14. Drained' /\ StatusOK'
    BY <1>1, <1>4, <1>5, <1>8, <1>9, <1>11, <1>12, <1>13, ServerCloses
  <1>15. q \in Seq(Packet) /\ ~Has(q, DataTypes) /\ t.out = b.out \o q
    BY <1>4, FarewellOnly
  <1>16. ASSUME chan["client"].present PROVE Shows(chan["client"], w \o t.out, src', snk')
    <2>0. PICK d : d = chan["client"] /\ Shows(d, w, src, snk)
      BY <1>1, <1>16, ShowsNow
    <2>1. ASSUME Shut("server", c, b, f), m = 0 PROVE Shows(d, w \o t.out, src', snk)
      <3>1. \A h \in {"stdout", "stderr"} : src'[h].read = src[h].read
        <4>1. src[f].read + 0 = src[f].read
          BY DEF Typed
        <4> QED BY <1>6, <1>7, <2>1, <4>1
      <3>2. b.out = <<>> /\ <<>> \o q = q
        BY <1>9, <1>15, <2>1, ConcatEmptySeq DEF Shut, Same, Fields, Fds
      <3>3. t.out = q
        BY <1>15, <3>2, Zenon
      <3>4. Shows(d, w, src', snk)
        BY <2>0, <3>1 DEF Shows, Showing
      <3> QED BY <1>15, <3>3, <3>4, ShowsMore
    <2>2. ASSUME SentBlocks("server", c, b, f, src[f].read, m) PROVE Shows(d, w \o t.out, src', snk)
      <3>1. PICK x : x = <<DataPacket(f, src[f].read, m)>>
        OBVIOUS
      <3>2. m \in Nat \ {0} /\ b.out = <<>> \o x
        BY <1>9, <2>2, <3>1 DEF SentBlocks
      <3>3. x \in Seq(Packet)
        <4>1. src[f].read \in Nat
          BY DEF Typed
        <4> QED BY <1>4, <3>1, <4>1, DataPackets
      <3>4. b.out = x
        BY <3>2, <3>3, ConcatEmptySeq
      <3>5. PICK s2 : s2 = src'
        OBVIOUS
      <3>6. s2[f].read = src[f].read + m /\ \A h \in {"stdout", "stderr"} : h # f => s2[h] = src[h]
        BY <1>6, <1>7, <3>5
      <3>7. Shows(d, w \o x, s2, snk)
        BY <1>7, <2>0, <3>1, <3>2, <3>6, ShowsNew
      <3>8. Shows(d, (w \o x) \o q, s2, snk)
        BY <1>15, <3>7, ShowsMore
      <3>9. (w \o x) \o q = w \o (x \o q) /\ t.out = x \o q
        BY <1>15, <3>3, <3>4, ConcatTwice
      <3> QED BY <3>5, <3>8, <3>9, Zenon
    <2> QED BY <1>1, <1>3, <1>4, <2>0, <2>1, <2>2 DEF Reading
  <1>17. OutputOK'
    BY <1>1, <1>3, <1>4, <1>16, ServerShows
  <1> QED BY <1>14, <1>17

LEMMA ServerWrite ==
  ASSUME Typed, Working, OutputOK, Drained, StatusOK, NEW f \in Stream, WriteFd("server", f)
  PROVE  OutputOK' /\ Drained' /\ StatusOK'
  <1>0. "server" \in End /\ Peer("server") = "client"
    BY DEF End, Peer
  <1>c. PICK c : c = chan["server"]
    OBVIOUS
  <1>1. PICK w \in Seq(Packet) : w = wire["server"] /\ c = chan["server"]
    BY <1>c DEF Typed, End
  <1>2. PICK b, q, t, g : WriteEffect("server", f, b, q, t, g)
    BY <1>0, WriteActs
  <1>3. src' = src /\ prog' = prog /\ status' = status
    BY DEF WriteFd
  <1>4. /\ After("server", t, wire["client"]) /\ Source(f) # "server" /\ c.present
        /\ Grants(b.out, g) /\ snk' = [snk EXCEPT ![f].got = @ \o b.put]
        /\ IsChannel("server", b) /\ InUse("server", b) /\ b.pid = c.pid /\ b.exitpid = c.exitpid
        /\ b.recv_close = c.recv_close /\ b.sent_close = c.sent_close
        /\ b.readfd = c.readfd /\ b.errfd = c.errfd /\ Closing("server", b, t, q, src)
        /\ IsChannel("server", t) /\ t.out \in Seq(Packet) /\ c.pid /\ b.present
    BY <1>0, <1>1, <1>2, ChannelFields DEF WriteEffect, InUse
  <1>5. f = "stdin" /\ "stdout" \in Stream /\ "stderr" \in Stream
    BY <1>4 DEF Source, Stream
  <1>6. snk'["stdout"] = snk["stdout"] /\ snk'["stderr"] = snk["stderr"]
    BY <1>4, <1>5, PutFacts
  <1>7. Closing("server", b, t, q, src') /\ DrainedBy(b, src')
    BY <1>1, <1>3, <1>4 DEF Drained, DrainedBy
  <1>8. b.sent_close => Told(b, wire["server"], src', status', prog')
    BY <1>1, <1>3, <1>4 DEF StatusOK, Told
  <1>9. b.recv_close => AllRead(src')
    BY <1>1, <1>3, <1>4, SentAll
  <1>10. (b.pid <=> prog' # "none") /\ (b.exitpid => prog' = "gone")
    BY <1>1, <1>3, <1>4, ProgKept
  <1>11. Outside'
    <2>1. b.put \in Seq(Nat)
      BY <1>4, ChannelFields
    <2>2. /\ snk' \in [Stream -> [got : Seq(Nat), broken : BOOLEAN]]
          /\ \A h \in Stream : snk'[h].broken = snk[h].broken
      BY <1>4, <2>1, SinkTyped
    <2> QED BY <1>3, <1>5, <2>2 DEF Typed, Outside
  <1>12. Drained' /\ StatusOK'
    BY <1>1, <1>4, <1>7, <1>8, <1>9, <1>10, <1>11, ServerCloses
  <1>13. ~Has(t.out, DataTypes)
    <2>1. q \in Seq(Packet) /\ ~Has(q, DataTypes) /\ t.out = b.out \o q
      BY <1>4, FarewellOnly
    <2>2. b.out \in Seq(Packet) /\ ~Has(b.out, DataTypes)
      BY <1>4, GrantsFacts DEF DataTypes
    <2> QED BY <2>1, <2>2, HasConcat
  <1>14. chan["client"].present => Shows(chan["client"], wire["server"] \o t.out, src', snk')
    <2>1. chan["client"].present => Shows(chan["client"], wire["server"] \o t.out, src, snk)
      BY <1>4, <1>13, ShowsNow, ShowsMore
    <2> QED BY <1>3, <1>6, <2>1 DEF Shows, Showing
  <1>15. OutputOK'
    BY <1>3, <1>4, <1>6, <1>14, ServerShows
  <1> QED BY <1>12, <1>15

LEMMA ServerNotices ==
  ASSUME Typed, Working, OutputOK, Drained, StatusOK, NoticeExit
  PROVE  OutputOK' /\ Drained' /\ StatusOK'
  <1>0. "server" \in End /\ Peer("server") = "client"
    BY DEF End, Peer
  <1>c. PICK c : c = chan["server"]
    OBVIOUS
  <1>1. PICK w \in Seq(Packet) : w = wire["server"] /\ c = chan["server"]
    BY <1>c DEF Typed, End
  <1>2. src' = src /\ snk' = snk /\ status' = status /\ prog' = "gone" /\ prog = "exited"
    BY DEF NoticeExit, CanNotice
  <1>3. c.present /\ ~c.sent_close
    BY <1>1, <1>2 DEF StatusOK, Told
  <1>4. PICK b, q, t : ExitEffect(b, q, t)
    BY <1>1, <1>3, ExitActs
  <1>5. /\ After("server", t, wire["client"]) /\ IsChannel("server", b) /\ InUse("server", b)
        /\ Same(c, b, {"exitpid"}) /\ Closing("server", b, t, q, src) /\ IsChannel("server", t)
        /\ t.out \in Seq(Packet) /\ c.pid
    BY <1>1, <1>4, ChannelFields DEF ExitEffect
  <1>6. /\ b.present = c.present /\ b.pid = c.pid /\ b.readfd = c.readfd /\ b.errfd = c.errfd
        /\ b.sent_close = c.sent_close /\ b.recv_close = c.recv_close /\ b.out = c.out
    BY <1>5 DEF Same, Fields, Flags, Fds
  <1>7. Closing("server", b, t, q, src') /\ DrainedBy(b, src')
    BY <1>1, <1>2, <1>5, <1>6 DEF Drained, DrainedBy
  <1>8. b.recv_close => AllRead(src')
    BY <1>1, <1>2, <1>3, <1>5, <1>6, SentAll
  <1>9. Outside'
    BY <1>2 DEF Typed, Outside
  <1>10. ~b.sent_close /\ b.pid
    BY <1>3, <1>5, <1>6
  <1>11. Drained' /\ StatusOK'
    BY <1>1, <1>2, <1>5, <1>7, <1>8, <1>9, <1>10, ServerCloses
  <1>12. ~Has(t.out, DataTypes)
    <2>1. q \in Seq(Packet) /\ ~Has(q, DataTypes) /\ t.out = b.out \o q
      BY <1>5, FarewellOnly
    <2>2. b.out = <<>>
      BY <1>0, <1>1, <1>3, <1>6, Live
    <2>3. b.out \in Seq(Packet) /\ ~Has(b.out, DataTypes)
      BY <2>2, NoPacket
    <2> QED BY <2>1, <2>3, HasConcat
  <1>13. chan["client"].present => Shows(chan["client"], wire["server"] \o t.out, src', snk')
    BY <1>2, <1>5, <1>12, ShowsNow, ShowsMore
  <1>14. OutputOK'
    BY <1>2, <1>5, <1>13, ServerShows
  <1> QED BY <1>11, <1>14

LEMMA ServerExec ==
  ASSUME Typed, Working, OutputOK, Drained, StatusOK, NEW ok \in BOOLEAN, RecvExec(ok)
  PROVE  OutputOK' /\ Drained' /\ StatusOK'
  <1>c. PICK c : c = chan["server"]
    OBVIOUS
  <1>1. PICK w \in Seq(Packet) : w = wire["server"] /\ c = chan["server"] /\ c.present
    BY <1>c DEF Typed, End, RecvExec
  <1>2. PICK t : ExecEffect(ok, t)
    BY ExecActs
  <1>3. src' = src /\ snk' = snk /\ status' = status /\ prog' = IF ok THEN "running" ELSE prog
    BY DEF RecvExec
  <1>4. /\ After("server", t, Tail(wire["client"])) /\ Same(c, t, Fds \cup {"pid"})
        /\ InUse("server", t) /\ IsChannel("server", t) /\ ExecPending /\ t.out = <<>>
        /\ ok => t.pid /\ t.readfd = 4 /\ t.writefd = 3 /\ t.errfd = 5
        /\ ~ok => t = c
    BY <1>1, <1>2 DEF ExecEffect
  <1>5. Fresh(c) /\ prog = "none" /\ InUse("server", c)
    BY <1>1, <1>4, Live DEF Working, ExecOK, End
  <1>6. ~c.pid /\ ~c.sent_close /\ t.sent_close = c.sent_close /\ t.present
    BY <1>4, <1>5 DEF Fresh, InUse, Flagged, Same, Fields, Flags, Fds
  <1>7. chan["client"].present
    <2>1. Sent(w, wire["client"], c, chan["client"])
      BY <1>1 DEF Working, Linked, End, Peer
    <2> QED BY <1>1, <1>6, <2>1 DEF Sent
  <1>8. DrainedBy(t, src')
    BY <1>4, <1>6 DEF DrainedBy, FD_CLOSED
  <1>9. Told(t, wire["server"] \o t.out, src', status', prog')
    BY <1>6 DEF Told
  <1>10. Drained' /\ StatusOK'
    BY <1>4, <1>8, <1>9, ServerLeaves
  <1>11. t.out \in Seq(Packet) /\ ~Has(t.out, DataTypes)
    BY <1>4, NoPacket
  <1>12. Shows(chan["client"], wire["server"] \o t.out, src', snk')
    BY <1>3, <1>7, <1>11, ShowsNow, ShowsMore
  <1>13. OutputOK'
    BY <1>3, <1>4, <1>7, <1>12, ServerShows
  <1> QED BY <1>10, <1>13

\* The client is gone, and took the connection with it.
LEMMA ServerDrops ==
  ASSUME Typed, Working, OutputOK, Drained, StatusOK, RemoteClosed
  PROVE  OutputOK' /\ Drained' /\ StatusOK'
  <1>1. /\ src' = src /\ snk' = snk /\ status' = status /\ prog' = prog
        /\ ~chan["client"].present /\ chan["server"].present
        /\ chan' = [chan EXCEPT !["server"] = NoChannel("server")]
    BY DEF RemoteClosed, Online
  <1>2. chan'["client"] = chan["client"] /\ chan'["server"] = NoChannel("server")
    BY <1>1 DEF Typed, End
  <1>3. ~chan'["server"].present
    BY <1>2, NoChannelUnused, UnusedFields DEF End
  <1>4. chan["server"].sent_close
    <2>1. Sent(wire["server"], wire["client"], chan["server"], chan["client"])
      BY DEF Working, Linked, End, Peer
    <2> QED BY <1>1, <2>1 DEF Sent
  <1>5. OutputOK'
    BY <1>1, <1>2 DEF OutputOK, Arrived
  <1>6. Drained'
    BY <1>3 DEF Drained, DrainedBy
  <1>7. StatusOK'
    BY <1>1, <1>4 DEF StatusOK, Told, OutputOK
  <1> QED BY <1>5, <1>6, <1>7

\* The user and the command.
LEMMA OutputOutside ==
  ASSUME OutputOK, Drained, StatusOK, chan' = chan, wire' = wire, status' = status,
         \A f \in Stream : src'[f].read = src[f].read /\ snk'[f].got = snk[f].got,
         prog' = prog \/ prog = "running"
  PROVE  OutputOK' /\ Drained' /\ StatusOK'
  <1>1. "stdout" \in Stream /\ "stderr" \in Stream
    BY DEF Stream
  <1>2. OutputOK'
    BY <1>1 DEF OutputOK, Showing, Arrived
  <1>3. Drained' /\ AllRead(src') = AllRead(src)
    BY <1>1 DEF Drained, DrainedBy, AllRead
  <1>4. StatusOK'
    BY <1>3 DEF StatusOK, Told
  <1> QED BY <1>2, <1>3, <1>4

LEMMA OutsideSteps ==
  ASSUME Typed, UserEof \/ Detaches \/ \E held \in BOOLEAN : Exits(held)
  PROVE  /\ chan' = chan /\ wire' = wire /\ status' = status /\ (prog' = prog \/ prog = "running")
         /\ \A f \in Stream : src'[f].read = src[f].read /\ snk'[f].got = snk[f].got
         /\ snk["stdin"].broken => snk'["stdin"].broken
         /\ \A f \in Stream : src[f].closed => src'[f].closed
  <1>0. /\ src \in [Stream -> [read : Nat, closed : BOOLEAN]] /\ "stdin" \in Stream
        /\ snk \in [Stream -> [got : Seq(Nat), broken : BOOLEAN]]
    BY DEF Typed, Stream
  <1>1. CASE UserEof
    BY <1>0, <1>1 DEF UserEof
  <1>2. CASE Detaches
    BY <1>0, <1>2 DEF Detaches
  <1>3. ASSUME NEW held \in BOOLEAN, Exits(held)
        PROVE  /\ chan' = chan /\ wire' = wire /\ status' = status /\ prog = "running"
               /\ \A f \in Stream : src'[f].read = src[f].read /\ snk'[f].got = snk[f].got
               /\ snk["stdin"].broken => snk'["stdin"].broken
               /\ \A f \in Stream : src[f].closed => src'[f].closed
    <2>1. \A f \in Stream : src'[f].read = src[f].read /\ (src[f].closed => src'[f].closed)
      BY <1>0, <1>3 DEF Exits
    <2>2. /\ \A f \in Stream : snk'[f].got = snk[f].got
          /\ snk["stdin"].broken => snk'["stdin"].broken
      BY <1>0, <1>3 DEF Exits
    <2> QED BY <1>3, <2>1, <2>2 DEF Exits
  <1> QED BY <1>1, <1>2, <1>3

LEMMA OutputStarts ==
  ASSUME Typed, Started
  PROVE  OutputOK /\ Drained /\ StatusOK
  <1>1. PICK w : w = wire["server"] /\ w \in Seq(Packet) /\ \A T : ~Has(w, T)
    BY NoPacket DEF Started
  <1>2. InOrder(w, "DATA", 0, 0) /\ InOrder(w, "EXTENDED_DATA", 0, 0)
    BY <1>1, InOrderNothing
  <1>3. "stdout" \in Stream /\ "stderr" \in Stream /\ Len(<<>>) + 0 = 0 /\ 1..Len(<<>>) = {} /\ 1..0 = {}
    BY DEF Stream
  <1>4. ASSUME NEW b, b.used = 0, NEW t, InOrder(w, t, 0, 0) PROVE Tracked(<<>>, b, w, t, 0)
    BY <1>3, <1>4 DEF Tracked
  <1>5. Showing(chan["client"], w, src, snk)
    <2>1. /\ Tracked(<<>>, chan["client"].writebuf, w, "DATA", 0)
          /\ Tracked(<<>>, chan["client"].extrabuf, w, "EXTENDED_DATA", 0)
      BY <1>2, <1>4 DEF Started
    <2>2. /\ snk["stdout"].got = <<>> /\ snk["stderr"].got = <<>>
          /\ src["stdout"].read = 0 /\ src["stderr"].read = 0
      BY <1>3 DEF Started
    <2>3. /\ Tracked(snk["stdout"].got, chan["client"].writebuf, w, "DATA", src["stdout"].read)
          /\ Tracked(snk["stderr"].got, chan["client"].extrabuf, w, "EXTENDED_DATA", src["stderr"].read)
      BY <2>1, <2>2, Zenon
    <2> QED BY <2>3 DEF Started, Showing, FD_CLOSED
  <1>6. OutputOK
    BY <1>1, <1>5 DEF OutputOK, Started
  <1>7. Drained /\ StatusOK
    BY DEF Drained, DrainedBy, StatusOK, Told, Started, Fresh
  <1> QED BY <1>6, <1>7

LEMMA OutputKept ==
  ASSUME Typed, Working, OutputOK, Drained, StatusOK, Next
  PROVE  OutputOK' /\ Drained' /\ StatusOK'
  <1>0. Peer("server") = "client" /\ "server" \in End /\ \A e \in End : e = "server" \/ e = "client"
    BY DEF End, Peer
  <1>1. ASSUME NEW e \in End, RecvControl(e) \/ RecvData(e) PROVE OutputOK' /\ Drained' /\ StatusOK'
    BY <1>0, <1>1, ClientControl, ServerControl, ClientData, ServerData
  <1>2. ASSUME NEW e \in End, NEW f \in Stream, ReadFd(e, f) \/ WriteFd(e, f)
        PROVE  OutputOK' /\ Drained' /\ StatusOK'
    BY <1>0, <1>2, ClientRead, ServerRead, ClientWrite, ServerWrite
  <1>3. ASSUME NEW ok \in BOOLEAN, RecvExec(ok) PROVE OutputOK' /\ Drained' /\ StatusOK'
    BY <1>3, ServerExec
  <1>4. NoticeExit \/ RemoteClosed => OutputOK' /\ Drained' /\ StatusOK'
    BY ServerNotices, ServerDrops
  <1>5. ASSUME UserEof \/ Detaches \/ \E held \in BOOLEAN : Exits(held)
        PROVE  OutputOK' /\ Drained' /\ StatusOK'
    BY <1>5, OutsideSteps, OutputOutside
  <1>6. ~RecvOpen
    <2>1. ASSUME RecvOpen PROVE FALSE
      BY <1>0, <2>1, Addressed DEF RecvOpen, Incoming, Types
    <2> QED BY <2>1
  <1> QED BY <1>1, <1>2, <1>3, <1>4, <1>5, <1>6 DEF Next

LEMMA Unconfirmed ==
  ASSUME Opening \/ Confirming
  PROVE  chan["client"].await_open /\ chan["client"].present /\ prog = "none"
  BY AskedFields DEF Opening, Confirming, Early, Asked

\* The same in the next state.
LEMMA StillUnconfirmed == (Opening \/ Confirming)' => (chan["client"].await_open)'
  <1>1. Opening \/ Confirming => chan["client"].await_open
    BY Unconfirmed
  <1> QED BY <1>1, PTL

LEMMA OutputThen == (Typed /\ Started)' => (OutputOK /\ Drained /\ StatusOK)'
  <1>1. Typed /\ Started => OutputOK /\ Drained /\ StatusOK
    BY OutputStarts
  <1> QED BY <1>1, PTL

LEMMA OutputStep ==
  ASSUME Protocol, Output, [Next]_vars
  PROVE  Output'
  <1>1. CASE UNCHANGED vars
    BY <1>1 DEF vars, Output, OutputOK, Showing, Arrived, Drained, DrainedBy, StatusOK, Told, AllRead
  <1>2. CASE Next /\ Working
    <2>1. Typed /\ OutputOK /\ Drained /\ StatusOK
      BY <1>2, Awaits DEF Protocol, Output, End
    <2> QED BY <1>2, <2>1, OutputKept DEF Output
  <1>3. CASE Next /\ Confirming
    <2>1. Typed' /\ (Confirming' \/ (Working' /\ Started'))
      BY <1>3, ConfirmingStep DEF Protocol
    <2>2. ASSUME Confirming' PROVE Output'
      <3>1. chan'["client"].await_open
        BY <2>2, StillUnconfirmed
      <3> QED BY <3>1 DEF Output
    <2>3. ASSUME Started' PROVE Output'
      BY <2>1, <2>3, OutputThen DEF Output
    <2> QED BY <2>1, <2>2, <2>3
  <1>4. CASE Next /\ Opening
    <2>1. Opening' \/ Confirming'
      BY <1>4, OpeningStep DEF Protocol
    <2>2. chan'["client"].await_open
      BY <2>1, StillUnconfirmed
    <2> QED BY <2>2 DEF Output
  <1> QED BY <1>1, <1>2, <1>3, <1>4 DEF Protocol

\* When the client has removed the channel of a command that ran, it has written
\* all the command printed, each block once and in order, and has the exit status:
\* nothing is lost between the pipes, the window, the wire and the buffers.
THEOREM OutputDelivered == Spec => []OutputComplete
  <1>1. Init => Protocol /\ Output
    <2>1. ASSUME Init PROVE Protocol /\ Output
      <3>1. Typed /\ Opening
        BY <2>1, Initially
      <3> QED BY <3>1, Unconfirmed DEF Protocol, Output
    <2> QED BY <2>1
  <1>2. (Protocol /\ Output) /\ [Next]_vars => (Protocol /\ Output)'
    BY ProtocolStep, OutputStep
  <1>3. Protocol /\ Output => OutputComplete
    <2>1. ASSUME Protocol, Output PROVE OutputComplete
      <3>1. CASE Working
        BY <2>1, <3>1, Awaits DEF Protocol, Output, OutputOK, OutputComplete, End
      <3>2. CASE Opening \/ Confirming
        BY <3>2, Unconfirmed DEF OutputComplete
      <3> QED BY <2>1, <3>1, <3>2 DEF Protocol
    <2> QED BY <2>1
  <1> QED BY <1>1, <1>2, <1>3, PTL DEF Spec

-----------------------------------------------------------------------------
(* The input: what the user typed, on its way to the command.              *)

\* The types the operands of Reaching have.
Reaches(c, w, s, k) ==
    /\ IsChannel("server", c) /\ w \in Seq(Packet) /\ s.read \in Nat /\ s.read <= MaxIn
    /\ k.got \in Seq(Nat) /\ Reaching(c, w, s, k)

LEMMA ReachesParts ==
  ASSUME NEW c, NEW w, NEW s, NEW k, Reaches(c, w, s, k)
  PROVE  /\ c.writebuf.used \in Nat /\ Len(k.got) + c.writebuf.used \in Nat
         /\ c.writefd # FD_CLOSED => /\ Tracked(k.got, c.writebuf, w, "DATA", s.read)
                                     /\ InOrder(w, "DATA", Len(k.got) + c.writebuf.used, s.read)
         /\ c.writefd = FD_CLOSED => Finished(s) /\ k.got = [i \in 1..MaxIn |-> i]
  <1>1. c.writebuf.used \in Nat
    BY BufferUsed DEF Reaches, End
  <1>2. Len(k.got) \in Nat
    BY DEF Reaches
  <1>3. Len(k.got) + c.writebuf.used \in Nat
    BY <1>1, <1>2
  <1>4. /\ c.writefd # FD_CLOSED => Tracked(k.got, c.writebuf, w, "DATA", s.read)
        /\ c.writefd = FD_CLOSED => Finished(s) /\ k.got = [i \in 1..MaxIn |-> i]
    BY DEF Reaches, Reaching
  <1> QED BY <1>1, <1>3, <1>4 DEF Tracked

\* Reaching depends on these fields only.
LEMMA ReachesFields ==
  ASSUME NEW c, NEW w, NEW s, NEW k, Reaches(c, w, s, k), NEW x, IsChannel("server", x),
         x.writefd = c.writefd, x.writebuf = c.writebuf
  PROVE  Reaches(x, w, s, k)
  BY DEF Reaches, Reaching

\* A wire on which the blocks of the stream stay as they were.
LEMMA ReachesOn ==
  ASSUME NEW c, NEW w, NEW s, NEW k, Reaches(c, w, s, k), NEW w2 \in Seq(Packet),
         c.writefd # FD_CLOSED => InOrder(w2, "DATA", Len(k.got) + c.writebuf.used, s.read)
  PROVE  Reaches(c, w2, s, k)
  <1>1. c.writefd # FD_CLOSED => Tracked(k.got, c.writebuf, w2, "DATA", s.read)
    BY ReachesParts, TrackedOn
  <1> QED BY <1>1 DEF Reaches, Reaching

LEMMA ReachesMore ==
  ASSUME NEW c, NEW w, NEW s, NEW k, Reaches(c, w, s, k), NEW q \in Seq(Packet), ~Has(q, DataTypes)
  PROVE  Reaches(c, w \o q, s, k)
  <1>1. w \in Seq(Packet) /\ s.read \in Nat /\ "DATA" \in DataTypes
    BY DEF Reaches, DataTypes
  <1>2. ~Has(q, {"DATA"}) /\ w \o q \in Seq(Packet)
    BY <1>1, ConcatFacts DEF Has
  <1>3. c.writefd # FD_CLOSED => InOrder(w \o q, "DATA", Len(k.got) + c.writebuf.used, s.read)
    BY <1>1, <1>2, ReachesParts, InOrderMore
  <1> QED BY <1>2, <1>3, ReachesOn

LEMMA ReachesPass ==
  ASSUME NEW c, NEW w, NEW s, NEW k, Reaches(c, w, s, k), w # <<>>, w[1].type \notin DataTypes
  PROVE  Reaches(c, Tail(w), s, k)
  <1>1. w \in Seq(Packet) /\ s.read \in Nat /\ "DATA" \in DataTypes /\ w[1].type # "DATA"
    BY DEF Reaches, DataTypes
  <1>2. Tail(w) \in Seq(Packet)
    BY <1>1, TailFacts
  <1>3. c.writefd # FD_CLOSED => InOrder(Tail(w), "DATA", Len(k.got) + c.writebuf.used, s.read)
    BY <1>1, ReachesParts, InOrderPass
  <1> QED BY <1>2, <1>3, ReachesOn

\* m more blocks are under way; there are none once the input is closed.
LEMMA ReachesNew ==
  ASSUME NEW c, NEW w, NEW s, NEW k, Reaches(c, w, s, k), NEW m \in Nat \ {0}, NEW s2,
         s2.read = s.read + m, s2.read <= MaxIn
  PROVE  Reaches(c, w \o <<DataPacket("stdin", s.read, m)>>, s2, k)
  <1>1. w \in Seq(Packet) /\ s.read \in Nat /\ s.read <= MaxIn /\ MaxIn \in Nat
    BY Constants DEF Reaches
  <1>2. s2.read \in Nat /\ s.read # MaxIn
    <2>1. PICK r \in Nat, n \in Nat : r = s.read /\ n = m /\ n > 0
      BY <1>1
    <2>2. r + n \in Nat /\ s2.read = r + n /\ r + n <= MaxIn
      BY <2>1
    <2>3. r # MaxIn
      BY <1>1, <2>1, <2>2
    <2> QED BY <2>1, <2>2, <2>3
  <1>3. c.writefd # FD_CLOSED
    BY <1>2, ReachesParts DEF Finished
  <1>4. DataType("stdin") = "DATA"
    BY DEF DataType
  <1>5. PICK p : p = DataPacket("stdin", s.read, m)
    OBVIOUS
  <1>6. <<p>> \in Seq(Packet)
    <2>1. m \in Nat
      OBVIOUS
    <2> QED BY <1>1, <1>5, <2>1, DataPackets
  <1>7. w \o <<p>> \in Seq(Packet)
    BY <1>1, <1>6, ConcatFacts
  <1>8. InOrder(w \o <<p>>, "DATA", Len(k.got) + c.writebuf.used, s.read + m)
    <2>1. PICK lo \in Nat, x \in Nat : lo = Len(k.got) + c.writebuf.used /\ x = s.read
      BY <1>1, ReachesParts
    <2>2. InOrder(w, DataType("stdin"), lo, x)
      <3>1. InOrder(w, "DATA", Len(k.got) + c.writebuf.used, s.read)
        BY <1>3, ReachesParts
      <3> QED BY <1>4, <2>1, <3>1, Zenon
    <2>3. InOrder(w \o <<DataPacket("stdin", x, m)>>, DataType("stdin"), lo, x + m)
      BY <1>1, <2>2, InOrderNew
    <2> QED BY <1>4, <1>5, <2>1, <2>3, Zenon
  <1>9. Tracked(k.got, c.writebuf, w \o <<p>>, "DATA", s2.read)
    <2>1. Tracked(k.got, c.writebuf, w, "DATA", s.read)
      BY <1>3, ReachesParts
    <2>2. InOrder(w \o <<p>>, "DATA", Len(k.got) + c.writebuf.used, s2.read)
      BY <1>8, Zenon
    <2> QED BY <2>1, <2>2, TrackedOn, Zenon
  <1>10. Reaches(c, w \o <<p>>, s2, k)
    BY <1>2, <1>3, <1>7, <1>9 DEF Reaches, Reaching
  <1> QED BY <1>5, <1>10

\* check_close() at the server: it closes the input of a running command when the
\* client has said its last, and the buffer is empty.
LEMMA ReachesClosing ==
  ASSUME NEW c, NEW w, NEW s, NEW k, Reaches(c, w, s, k), NEW t, IsChannel("server", t), NEW q, NEW s0,
         Closing("server", c, t, q, s0), t.present, c.pid, ~c.exitpid,
         c.recv_eof => Finished(s) /\ ~Has(w, DataTypes)
  PROVE  Reaches(t, w, s, k)
  <1>0. "server" \in End /\ IsChannel("server", c) /\ w \in Seq(Packet) /\ k.got \in Seq(Nat)
    BY DEF End, Reaches
  <1>1. t.writebuf = c.writebuf /\ Kept("server", c, t, q, s0)
    BY <1>0, Closed
  <1>2. t.writefd = FD_CLOSED => c.writefd = FD_CLOSED \/ (c.recv_eof /\ c.writebuf.used = 0)
    BY <1>1 DEF Kept
  <1>3. CASE t.writefd = FD_CLOSED
    <2>1. CASE c.writefd = FD_CLOSED
      BY <1>3, <2>1 DEF Reaches, Reaching
    <2>2. CASE c.writefd # FD_CLOSED
      <3>1. c.writebuf.used = 0 /\ Finished(s) /\ ~Has(w, DataTypes)
        BY <1>2, <1>3, <2>2
      <3>2. ~Has(w, {"DATA"})
        BY <3>1 DEF Has, DataTypes
      <3>3. Tracked(k.got, c.writebuf, w, "DATA", MaxIn) /\ MaxIn \in Nat
        BY <2>2, <3>1, ReachesParts, Constants DEF Finished
      <3>4. k.got = [i \in 1..MaxIn |-> i]
        BY <1>0, <3>1, <3>2, <3>3, TrackedAll
      <3> QED BY <1>3, <3>1, <3>4 DEF Reaches, Reaching
    <2> QED BY <2>1, <2>2
  <1>4. CASE t.writefd # FD_CLOSED
    <2>1. c.writefd # FD_CLOSED
      BY <1>1, <1>4 DEF Kept
    <2> QED BY <1>1, <1>4, <2>1 DEF Reaches, Reaching
  <1> QED BY <1>3, <1>4

\* The two ends of a command that runs or is about to.
Alive ==
    /\ chan["server"].present /\ chan["client"].present /\ ~chan["server"].exitpid
    /\ prog = "running" => chan["server"].pid
    /\ ExecPending => Fresh(chan["server"]) /\ prog = "none"
    /\ chan["server"].recv_eof => chan["client"].readfd = FD_CLOSED /\ ~Has(wire["client"], DataTypes)

LEMMA BothAlive ==
  ASSUME Typed, Working, StatusOK, ExecPending \/ prog = "running"
  PROVE  Alive
  <1>0. "server" \in End /\ "client" \in End
    BY DEF End
  <1>1. PICK c, d, w : c = chan["server"] /\ d = chan["client"] /\ w = wire["client"]
    OBVIOUS
  <1>2. Sent(w, wire["server"], d, c) /\ Sent(wire["server"], w, c, d)
    BY <1>1 DEF Working, Linked, End, Peer
  <1>3. ExecPending => Fresh(c) /\ prog = "none"
    BY <1>1 DEF Working, ExecOK
  <1>4. c.present
    BY <1>1, <1>3 DEF Fresh, StatusOK, Told
  <1>5. InUse("server", c) /\ (c.pid <=> prog # "none") /\ (c.exitpid <=> prog = "gone")
    BY <1>0, <1>1, <1>4, Live DEF Working, ExecOK
  <1>6. ~c.sent_close
    <2>1. CASE ExecPending
      BY <1>3, <1>5, <2>1 DEF Fresh, InUse, Flagged
    <2>2. CASE prog = "running"
      BY <1>1, <2>2 DEF StatusOK, Told
    <2> QED BY <2>1, <2>2
  <1>7. d.present
    BY <1>2, <1>4, <1>6 DEF Sent
  <1>8. ASSUME c.recv_eof PROVE d.readfd = FD_CLOSED /\ ~Has(w, DataTypes)
    <2>1. d.sent_eof /\ ~Has(w, DataTypes \cup {"EOF"})
      BY <1>2, <1>4, <1>7, <1>8 DEF Sent
    <2>2. InUse("client", d)
      BY <1>0, <1>1, <1>7, Live
    <2>3. d.readfd = FD_CLOSED
      BY <2>1, <2>2 DEF InUse, Flagged, NoMoreToSend
    <2>4. ~Has(w, DataTypes)
      BY <2>1 DEF Has
    <2> QED BY <2>3, <2>4
  <1>9. ~c.exitpid
    BY <1>3, <1>5
  <1> QED BY <1>1, <1>3, <1>4, <1>5, <1>7, <1>8, <1>9 DEF Alive

\* The same in the next state.
LEMMA AliveThen == (Typed /\ Working /\ StatusOK /\ Fed)' => Alive'
  <1>1. Typed /\ Working /\ StatusOK /\ Fed => Alive
    BY BothAlive DEF Fed
  <1> QED BY <1>1, PTL

LEMMA ReachesNow ==
  ASSUME Typed, InputOK, Fed
  PROVE  Reaches(chan["server"], wire["client"], src["stdin"], snk["stdin"])
  <1>1. IsChannel("server", chan["server"]) /\ wire["client"] \in Seq(Packet)
    BY DEF Typed, End
  <1>2. src["stdin"].read \in Nat /\ src["stdin"].read <= MaxIn /\ snk["stdin"].got \in Seq(Nat)
    BY Totals DEF Typed, Stream
  <1> QED BY <1>1, <1>2 DEF Reaches, InputOK

\* The request is not sent twice.
LEMMA NoSecondExec ==
  ASSUME Typed, Working, wire["client"] # <<>>, wire'["client"] = Tail(wire["client"])
  PROVE  ~ExecPending'
  <1>1. PICK w \in Seq(Packet) : w = wire["client"]
    BY DEF Typed, End
  <1>2. ASSUME Tail(w) # <<>> PROVE Tail(w)[1].type # "EXEC"
    <2>1. /\ Tail(w) \in Seq(Packet) /\ Len(w) \in Nat /\ Len(Tail(w)) = Len(w) - 1
          /\ \A i \in 1..Len(Tail(w)) : Tail(w)[i] = w[i + 1]
      BY <1>1, TailFacts
    <2>2. Len(Tail(w)) \in Nat /\ Len(Tail(w)) > 0
      BY <1>2, <2>1, TailFacts
    <2>3. 1 \in 1..Len(Tail(w)) /\ 1 + 1 \in 2..Len(w)
      BY <2>1, <2>2
    <2>4. w[1 + 1].type # "EXEC"
      BY <1>1, <2>3 DEF Working, ExecOK
    <2> QED BY <2>1, <2>3, <2>4
  <1> QED BY <1>1, <1>2 DEF ExecPending

\* The server acts: the client keeps what it has.
LEMMA ServerKeeps ==
  ASSUME InputOK, NEW t, NEW v2, After("server", t, v2), src'["stdin"] = src["stdin"],
         Fed' => Reaches(t, v2, src["stdin"], snk'["stdin"])
  PROVE  InputOK'
  <1>1. /\ chan'["client"] = chan["client"] /\ wire'["client"] = v2
        /\ Same(t, chan'["server"], {"out", "put"})
    BY DEF After, Peer
  <1>2. chan'["server"].writefd = t.writefd /\ chan'["server"].writebuf = t.writebuf
    BY <1>1, SameAfter
  <1>3. Fed' => Reaching(chan'["server"], v2, src'["stdin"], snk'["stdin"])
    BY <1>2 DEF Reaches, Reaching
  <1> QED BY <1>1, <1>3 DEF InputOK

\* check_close() at the server.
LEMMA ServerFeeds ==
  ASSUME InputOK, Typed', Working', StatusOK', NEW t, NEW v2, After("server", t, v2), IsChannel("server", t),
         NEW b, NEW q, NEW s0, Closing("server", b, t, q, s0), IsChannel("server", b), b.pid \/ b.recv_eof,
         src'["stdin"] = src["stdin"], Fed' => Reaches(b, v2, src["stdin"], snk'["stdin"])
  PROVE  InputOK'
  <1>1. ASSUME Fed' PROVE Reaches(t, v2, src["stdin"], snk'["stdin"])
    <2>1. PICK x : x = chan'["server"]
      OBVIOUS
    <2>2. /\ chan'["client"] = chan["client"] /\ wire'["client"] = v2 /\ Same(t, x, {"out", "put"})
      BY <2>1 DEF After, Peer
    <2>3. Alive'
      BY <1>1, AliveThen
    <2>4. /\ x.present /\ chan["client"].present /\ ~x.exitpid /\ (prog' = "running" => x.pid)
          /\ ExecPending' => Fresh(x)
          /\ x.recv_eof => chan["client"].readfd = FD_CLOSED /\ ~Has(v2, DataTypes)
      BY <2>1, <2>2, <2>3 DEF Alive, Fresh
    <2>5. x.present = t.present /\ x.pid = t.pid /\ x.exitpid = t.exitpid /\ x.recv_eof = t.recv_eof
      BY <2>2, SameAfter
    <2>6. t.present /\ t.pid = b.pid /\ t.exitpid = b.exitpid /\ t.recv_eof = b.recv_eof
      BY <2>4, <2>5, Closed DEF End
    <2>7. b.pid
      BY <1>1, <2>4, <2>5, <2>6 DEF Fed, Fresh
    <2>8. b.recv_eof => Finished(src["stdin"]) /\ ~Has(v2, DataTypes)
      BY <2>4, <2>5, <2>6 DEF InputOK
    <2>9. ~b.exitpid
      BY <2>4, <2>5, <2>6
    <2> QED BY <1>1, <2>6, <2>7, <2>8, <2>9, ReachesClosing
  <1> QED BY <1>1, ServerKeeps

\* The client acts: the command still gets all it is sent.
LEMMA ClientFeeds ==
  ASSUME Typed, Working, InputOK, NEW t, NEW v2, NEW n, NEW g, After("client", t, v2),
         Acting("client", t, v2, n, g), prog' = prog, snk'["stdin"] = snk["stdin"],
         t.present /\ t.readfd = FD_CLOSED => Finished(src'["stdin"]),
         Fed => Reaches(chan["server"], wire["client"] \o t.out, src'["stdin"], snk["stdin"])
  PROVE  InputOK'
  <1>1. /\ chan'["server"] = chan["server"] /\ wire'["client"] = wire["client"] \o t.out
        /\ Same(t, chan'["client"], {"out", "put"})
    BY DEF After, Peer
  <1>2. chan'["client"].present = t.present /\ chan'["client"].readfd = t.readfd
    BY <1>1, SameAfter
  <1>3. ASSUME ExecPending' PROVE ExecPending
    <2>1. PICK w \in Seq(Packet), x \in Seq(Packet) : w = wire["client"] /\ x = t.out
      BY ChannelFields DEF Typed, End, Acting, Acted
    <2>2. \A i \in 1..Len(x) : x[i].type # "EXEC"
      BY <2>1 DEF Acting, Acted
    <2>3. w \o x # <<>> /\ (w \o x)[1].type = "EXEC"
      BY <1>1, <1>3, <2>1 DEF ExecPending
    <2>4. CASE w = <<>>
      <3>1. w \o x = x
        BY <2>4, ConcatEmptySeq
      <3>2. x # <<>> /\ x[1].type = "EXEC"
        BY <2>3, <3>1
      <3>3. 1 \in 1..Len(x)
        BY <3>2, TailFacts
      <3> QED BY <2>2, <3>2, <3>3
    <2>5. CASE w # <<>>
      <3>1. 1 \in 1..Len(w)
        BY <2>5, TailFacts
      <3>2. (w \o x)[1] = w[1]
        BY <3>1, ConcatFacts
      <3> QED BY <2>1, <2>3, <2>5, <3>2 DEF ExecPending
    <2> QED BY <2>4, <2>5
  <1>4. Fed' => Fed
    BY <1>3 DEF Fed
  <1> QED BY <1>1, <1>2, <1>4 DEF InputOK, Reaches

\* What the client does without reading its input.
LEMMA ClientElse ==
  ASSUME Typed, Working, InputOK, NEW t, NEW v2, NEW n, NEW g, After("client", t, v2),
         Acting("client", t, v2, n, g), prog' = prog, snk'["stdin"] = snk["stdin"], src' = src,
         chan["client"].present, t.present => t.readfd = chan["client"].readfd, ~Has(t.out, DataTypes)
  PROVE  InputOK'
  <1>1. t.out \in Seq(Packet)
    BY ChannelFields DEF End, Acting, Acted
  <1>2. Fed => Reaches(chan["server"], wire["client"] \o t.out, src'["stdin"], snk["stdin"])
    BY <1>1, ReachesNow, ReachesMore
  <1>3. t.present /\ t.readfd = FD_CLOSED => Finished(src'["stdin"])
    BY DEF InputOK
  <1> QED BY <1>2, <1>3, ClientFeeds

LEMMA ClientControlFeeds ==
  ASSUME Typed, Working, InputOK, RecvControl("client")
  PROVE  InputOK'
  <1>0. "client" \in End /\ Peer("client") = "server"
    BY DEF End, Peer
  <1>c. PICK c, p : c = chan["client"] /\ p = Head(wire["server"])
    OBVIOUS
  <1>1. c.present /\ c.out = <<>>
    BY <1>0, <1>c, Addressed DEF RecvControl, Incoming
  <1>2. PICK t : ControlEffect("client", t)
    BY <1>0, ControlActs
  <1>3. src' = src /\ snk' = snk /\ prog' = prog
    BY DEF RecvControl
  <1>4. /\ After("client", t, Tail(wire["server"])) /\ Acting("client", t, Tail(wire["server"]), 0, 0)
        /\ Informed("client", c, t, p)
        /\ p.type \in {"WINDOW_ADJUST", "EOF", "CLOSE", "EXIT_STATUS"}
    BY <1>0, <1>c, <1>2 DEF ControlEffect
  <1>5. (t.present => t.readfd = c.readfd) /\ ~Has(t.out, DataTypes)
    <2>1. CASE p.type = "WINDOW_ADJUST"
      BY <1>4, <2>1, NoPacket DEF Informed, Same, Fields, Fds
    <2>2. CASE p.type = "EXIT_STATUS"
      BY <1>1, <1>4, <2>2, NoPacket DEF Informed
    <2>3. CASE p.type \in {"EOF", "CLOSE"}
      <3>1. PICK b, q : Ended("client", c, b, p) /\ Closing("client", b, t, q, src)
        BY <1>4, <2>3 DEF Informed
      <3>2. b.readfd = c.readfd /\ b.out = <<>>
        BY <1>1, <3>1 DEF Ended, Same, Fields, Fds
      <3>3. q \in Seq(Packet) /\ ~Has(q, DataTypes) /\ t.out = b.out \o q
        BY <3>1, FarewellOnly
      <3>4. <<>> \o q = q
        BY <3>3, ConcatEmptySeq
      <3>5. t.out = q
        BY <3>2, <3>3, <3>4, Zenon
      <3>6. t.present => t.readfd = b.readfd
        BY <3>1 DEF Closing, Kept
      <3> QED BY <3>2, <3>3, <3>5, <3>6
    <2> QED BY <1>4, <2>1, <2>2, <2>3
  <1> QED BY <1>c, <1>1, <1>3, <1>4, <1>5, ClientElse

LEMMA ClientDataFeeds ==
  ASSUME Typed, Working, InputOK, RecvData("client")
  PROVE  InputOK'
  <1>0. "client" \in End /\ Peer("client") = "server" /\ "stdin" \in Stream
    BY DEF End, Peer, Stream
  <1>1. chan["client"].present
    BY <1>0, Addressed DEF RecvData, Incoming
  <1>2. PICK f, t, g : DataEffect("client", f, t, g)
    BY <1>0, DataActs
  <1>3. src' = src /\ prog' = prog
    BY DEF RecvData
  <1>4. /\ After("client", t, Tail(wire["server"])) /\ Acting("client", t, Tail(wire["server"]), 0, g)
        /\ t.readfd = chan["client"].readfd /\ ~Has(t.out, {"EXIT_STATUS"} \cup DataTypes)
        /\ f \in Stream /\ Source(f) # "client" /\ snk' = [snk EXCEPT ![f].got = @ \o t.put]
    BY <1>0, <1>2 DEF DataEffect
  <1>5. f # "stdin" /\ ~Has(t.out, DataTypes)
    BY <1>4 DEF Source, Has
  <1>6. snk'["stdin"] = snk["stdin"]
    BY <1>0, <1>4, <1>5, PutFacts
  <1> QED BY <1>1, <1>3, <1>4, <1>5, <1>6, ClientElse

LEMMA ClientWriteFeeds ==
  ASSUME Typed, Working, InputOK, NEW f \in Stream, WriteFd("client", f)
  PROVE  InputOK'
  <1>0. "client" \in End /\ Peer("client") = "server" /\ "stdin" \in Stream
    BY DEF End, Peer, Stream
  <1>1. PICK b, q, t, g : WriteEffect("client", f, b, q, t, g)
    BY <1>0, WriteActs
  <1>2. src' = src /\ prog' = prog
    BY DEF WriteFd
  <1>3. /\ After("client", t, wire["server"]) /\ Acting("client", t, wire["server"], 0, g)
        /\ Source(f) # "client" /\ chan["client"].present /\ Grants(b.out, g)
        /\ snk' = [snk EXCEPT ![f].got = @ \o b.put] /\ b.readfd = chan["client"].readfd
        /\ Closing("client", b, t, q, src)
    BY <1>0, <1>1 DEF WriteEffect
  <1>4. f # "stdin"
    BY <1>3 DEF Source
  <1>5. snk'["stdin"] = snk["stdin"]
    BY <1>0, <1>3, <1>4, PutFacts
  <1>6. t.present => t.readfd = chan["client"].readfd
    BY <1>3 DEF Closing, Kept
  <1>7. ~Has(t.out, DataTypes)
    <2>1. q \in Seq(Packet) /\ ~Has(q, DataTypes) /\ t.out = b.out \o q
      BY <1>3, FarewellOnly
    <2>2. b.out \in Seq(Packet) /\ ~Has(b.out, DataTypes)
      BY <1>3, GrantsFacts DEF DataTypes
    <2> QED BY <2>1, <2>2, HasConcat
  <1> QED BY <1>2, <1>3, <1>5, <1>6, <1>7, ClientElse

LEMMA ClientReadFeeds ==
  ASSUME Typed, Working, InputOK, NEW f \in Stream, ReadFd("client", f)
  PROVE  InputOK'
  <1>0. "client" \in End /\ Peer("client") = "server" /\ "stdin" \in Stream
    BY DEF End, Peer, Stream
  <1>c. PICK c : c = chan["client"]
    OBVIOUS
  <1>1. PICK b, q, t, m : ReadEffect("client", f, b, q, t, m)
    BY <1>0, ReadActs
  <1>2. snk' = snk /\ prog' = prog
    BY DEF ReadFd
  <1>3. /\ After("client", t, wire["server"]) /\ Acting("client", t, wire["server"], m, 0)
        /\ Source(f) = "client" /\ c.present /\ Fd(c, "client", f) >= 0
        /\ Reading("client", f, b, m) /\ m \in Nat /\ src' = [src EXCEPT ![f].read = @ + m]
        /\ src'[f].read <= total(f) /\ Closing("client", b, t, q, src')
    BY <1>0, <1>c, <1>1 DEF ReadEffect
  <1>4. f = "stdin"
    BY <1>3 DEF Source, Stream
  <1>5. PICK s, s2 : s = src["stdin"] /\ s2 = src'["stdin"]
    OBVIOUS
  <1>6. /\ s.read \in Nat /\ s2.read = s.read + m /\ s2.closed = s.closed /\ s2.read <= MaxIn
        /\ s.read <= MaxIn
    <2>1. src \in [Stream -> [read : Nat, closed : BOOLEAN]] /\ src["stdin"].read <= total("stdin")
      BY <1>0 DEF Typed
    <2>2. src'["stdin"].closed = src["stdin"].closed
      BY <1>0, <1>3, <1>4, <2>1
    <2>3. src'["stdin"].read = src["stdin"].read + m
      BY <1>3, <1>4, SourceFacts
    <2> QED BY <1>0, <1>3, <1>4, <1>5, <2>1, <2>2, <2>3, Totals
  <1>7. c.out = <<>> /\ wire["client"] \in Seq(Packet)
    BY <1>0, <1>c, <1>3, Live DEF Typed
  <1>8. q \in Seq(Packet) /\ ~Has(q, DataTypes) /\ t.out = b.out \o q /\ (t.present => t.readfd = b.readfd)
    BY <1>3, FarewellOnly DEF Closing, Kept
  <1>9. CASE m = 0 /\ Shut("client", c, b, f) /\ src[f].read = total(f) /\ src[f].closed
    <2>1. s.read = MaxIn /\ s.closed
      BY <1>4, <1>5, <1>9, Totals
    <2>2. s.read + 0 = s.read
      BY <1>6
    <2>3. s2.read = s.read
      BY <1>6, <1>9, <2>2
    <2>4. Finished(s2)
      BY <1>6, <2>1, <2>3 DEF Finished
    <2>5. b.out = <<>> /\ <<>> \o q = q
      BY <1>7, <1>8, <1>9, ConcatEmptySeq DEF Shut, Same, Fields, Fds
    <2>6. t.out = q
      BY <1>8, <2>5, Zenon
    <2>7. Fed => Reaches(chan["server"], wire["client"] \o t.out, s, snk["stdin"])
      BY <1>5, <1>8, <2>6, ReachesNow, ReachesMore
    <2>8. Fed => Reaches(chan["server"], wire["client"] \o t.out, s2, snk["stdin"])
      BY <1>6, <2>1, <2>3, <2>4, <2>7 DEF Reaches, Reaching, Finished
    <2> QED BY <1>2, <1>3, <1>5, <2>4, <2>8, ClientFeeds
  <1>10. CASE SentBlocks("client", c, b, f, src[f].read, m) /\ m <= total(f) - src[f].read
    <2>1. PICK x : x = <<DataPacket("stdin", s.read, m)>>
      OBVIOUS
    <2>2. m \in Nat \ {0} /\ b.out = <<>> \o x /\ b.readfd = c.readfd
      BY <1>4, <1>5, <1>7, <1>10, <2>1 DEF SentBlocks, Same, Fields, Fds
    <2>3. x \in Seq(Packet)
      BY <1>0, <1>3, <1>6, <2>1, DataPackets
    <2>4. b.out = x
      BY <2>2, <2>3, ConcatEmptySeq
    <2>5. Fed => Reaches(chan["server"], wire["client"] \o x, s2, snk["stdin"])
      BY <1>5, <1>6, <2>1, <2>2, ReachesNow, ReachesNew
    <2>6. Fed => Reaches(chan["server"], (wire["client"] \o x) \o q, s2, snk["stdin"])
      BY <1>8, <2>5, ReachesMore
    <2>7. (wire["client"] \o x) \o q = wire["client"] \o (x \o q) /\ t.out = x \o q
      BY <1>7, <1>8, <2>3, <2>4, ConcatTwice
    <2>8. Fed => Reaches(chan["server"], wire["client"] \o t.out, s2, snk["stdin"])
      BY <2>6, <2>7, Zenon
    <2>9. ~(t.present /\ t.readfd = FD_CLOSED)
      <3>1. c.readfd >= 0
        BY <1>3, <1>4 DEF Fd
      <3> QED BY <1>8, <2>2, <3>1 DEF FD_CLOSED
    <2> QED BY <1>2, <1>3, <1>5, <2>8, <2>9, ClientFeeds
  <1> QED BY <1>c, <1>3, <1>9, <1>10 DEF Reading

LEMMA ServerControlFeeds ==
  ASSUME Typed, Working, InputOK, Typed', Working', StatusOK', RecvControl("server")
  PROVE  InputOK'
  <1>0. "server" \in End /\ Peer("server") = "client"
    BY DEF End, Peer
  <1>c. PICK c, p : c = chan["server"] /\ p = Head(wire["client"])
    OBVIOUS
  <1>1. PICK v \in Seq(Packet) : v = wire["client"] /\ p = Head(v) /\ c = chan["server"]
    BY <1>c DEF Typed, End
  <1>2. v # <<>> /\ p = v[1] /\ IsChannel("server", c) /\ p.type \in Types("client")
    BY <1>0, <1>1, Addressed DEF RecvControl, Incoming
  <1>3. PICK t : ControlEffect("server", t)
    BY <1>0, ControlActs
  <1>4. src' = src /\ snk' = snk /\ prog' = prog
    BY DEF RecvControl
  <1>5. /\ After("server", t, Tail(v)) /\ Informed("server", c, t, p) /\ IsChannel("server", t)
        /\ p.type \in {"WINDOW_ADJUST", "EOF", "CLOSE", "EXIT_STATUS"}
    BY <1>0, <1>1, <1>3 DEF ControlEffect, Acting, Acted
  <1>6. p.type # "EXIT_STATUS" /\ p.type \notin DataTypes
    BY <1>2, <1>5 DEF Types, DataTypes
  <1>7. Fed' => Fed
    <2>1. wire'["client"] = Tail(v)
      BY <1>5 DEF After, Peer
    <2>2. ~ExecPending'
      BY <1>1, <1>2, <2>1, NoSecondExec
    <2> QED BY <1>4, <2>2 DEF Fed
  <1>8. Fed' => Reaches(c, Tail(v), src["stdin"], snk'["stdin"])
    BY <1>1, <1>2, <1>4, <1>6, <1>7, ReachesNow, ReachesPass
  <1>9. CASE p.type = "WINDOW_ADJUST"
    <2>1. t.writefd = c.writefd /\ t.writebuf = c.writebuf
      BY <1>5, <1>9 DEF Informed, Same, Fields, Fds
    <2>2. Fed' => Reaches(t, Tail(v), src["stdin"], snk'["stdin"])
      BY <1>5, <1>8, <2>1, ReachesFields
    <2> QED BY <1>4, <1>5, <2>2, ServerKeeps
  <1>10. CASE p.type \in {"EOF", "CLOSE"}
    <2>1. PICK b, q : Ended("server", c, b, p) /\ Closing("server", b, t, q, src)
      BY <1>5, <1>10 DEF Informed
    <2>2. /\ b.writefd = c.writefd /\ b.writebuf = c.writebuf /\ b.recv_eof /\ IsChannel("server", b)
      BY <2>1 DEF Ended, Same, Fields, Fds
    <2>3. Fed' => Reaches(b, Tail(v), src["stdin"], snk'["stdin"])
      BY <1>8, <2>2, ReachesFields
    <2> QED BY <1>4, <1>5, <2>1, <2>2, <2>3, ServerFeeds
  <1> QED BY <1>5, <1>6, <1>9, <1>10

\* What the server writes to the command, out of the buffer and of what just came.
LEMMA ReachesReceived ==
  ASSUME NEW c, NEW w, NEW s, NEW k, Reaches(c, w, s, k), c.writefd # FD_CLOSED, NEW t, NEW body \in Seq(Nat),
         NEW q, NEW g, Received("server", c, t, "stdin", body, q, g), NEW k2, k2.got = k.got \o t.put,
         NEW w2 \in Seq(Packet), NEW lo \in Nat, lo = Len(k.got) + c.writebuf.used,
         \A j \in 1..Len(body) : body[j] = lo + j, InOrder(w2, "DATA", lo + Len(body), s.read)
  PROVE  Reaches(t, w2, s, k2)
  <1>1. IsChannel("server", t) /\ t.writefd = c.writefd
    <2>1. IsChannel("server", t)
      BY DEF Received
    <2>2. t.writefd = c.writefd
      BY StreamFields
    <2> QED BY <2>1, <2>2
  <1>2. Moved(c.writebuf, body, t.put, t.writebuf)
    BY DEF Received, buffer
  <1>3. /\ \A j \in 1..Len(body) : body[j] = Len(k.got) + c.writebuf.used + j
        /\ InOrder(w2, "DATA", Len(k.got) + c.writebuf.used + Len(body), s.read)
    BY Zenon
  <1>4. c.writebuf.used \in Nat /\ t.writebuf.used \in Nat /\ k.got \in Seq(Nat)
    BY <1>1, BufferUsed DEF Reaches, End
  <1>5. t.put \in Seq(Nat)
    BY <1>2 DEF Moved
  <1>6. k2.got \in Seq(Nat)
    BY <1>4, <1>5, ConcatFacts
  <1>7. Tracked(k.got \o t.put, t.writebuf, w2, "DATA", s.read)
    <2>1. PICK o, b, b2, r, put : o = k.got /\ b = c.writebuf /\ b2 = t.writebuf /\ r = s.read /\ put = t.put
      OBVIOUS
    <2>2. /\ o \in Seq(Nat) /\ b.used \in Nat /\ b2.used \in Nat /\ Moved(b, body, put, b2)
          /\ \A j \in 1..Len(body) : body[j] = Len(o) + b.used + j
          /\ InOrder(w2, "DATA", Len(o) + b.used + Len(body), r)
      BY <1>2, <1>3, <1>4, <2>1, Zenon
    <2>3. Tracked(o, b, w, "DATA", r)
      BY <2>1, ReachesParts
    <2>4. Tracked(o \o put, b2, w2, "DATA", r)
      BY <2>2, <2>3, TrackedMoved, Zenon
    <2> QED BY <2>1, <2>4, Zenon
  <1>8. Tracked(k2.got, t.writebuf, w2, "DATA", s.read)
    BY <1>7, Zenon
  <1> QED BY <1>1, <1>6, <1>8 DEF Reaches, Reaching

LEMMA ServerDataFeeds ==
  ASSUME Typed, Working, InputOK, Typed', Working', StatusOK', RecvData("server")
  PROVE  InputOK'
  <1>0. "server" \in End /\ Peer("server") = "client" /\ "stdin" \in Stream
    BY DEF End, Peer, Stream
  <1>c. PICK c, p : c = chan["server"] /\ p = Head(wire["client"])
    OBVIOUS
  <1>1. PICK v \in Seq(Packet) : v = wire["client"] /\ p = Head(v) /\ c = chan["server"]
    BY <1>c DEF Typed, End
  <1>2. /\ v # <<>> /\ p = v[1] /\ IsChannel("server", c) /\ p \in Packet /\ c.present /\ c.put = <<>>
        /\ InUse("server", c)
    BY <1>0, <1>1, Addressed DEF RecvData, Incoming
  <1>3. PICK f, t, g : DataEffect("server", f, t, g)
    BY <1>0, DataActs
  <1>4. src' = src /\ prog' = prog
    BY DEF RecvData
  <1>5. /\ After("server", t, Tail(v)) /\ Arriving("server", f, t, p.body) /\ IsChannel("server", t)
        /\ f \in Stream /\ Source(f) # "server" /\ p.type = DataType(f)
        /\ snk' = [snk EXCEPT ![f].got = @ \o t.put]
    BY <1>0, <1>1, <1>3 DEF DataEffect
  <1>6. f = "stdin" /\ p.type = "DATA" /\ "DATA" \in DataTypes
    BY <1>5 DEF Source, Stream, DataType, DataTypes
  <1>7. t.put \in Seq(Nat)
    BY <1>0, <1>5, ChannelFields
  <1>8. snk'["stdin"].broken = snk["stdin"].broken /\ snk'["stdin"].got = snk["stdin"].got \o t.put
    BY <1>0, <1>5, <1>6, <1>7, SinkTyped
  <1>9. Fed' => prog = "running" /\ Fed
    <2>1. wire'["client"] = Tail(v)
      BY <1>5 DEF After, Peer
    <2>2. ~ExecPending'
      BY <1>1, <1>2, <2>1, NoSecondExec
    <2> QED BY <1>4, <1>8, <2>2 DEF Fed
  <1>10. p.body \in Seq(Nat) /\ Tail(v) \in Seq(Packet)
    BY <1>2, <1>6, PacketFields, TailFacts
  <1>11. ASSUME Fed' PROVE Reaches(t, Tail(v), src["stdin"], snk'["stdin"])
    <2>1. PICK s, k, k2 : s = src["stdin"] /\ k = snk["stdin"] /\ k2 = snk'["stdin"]
      OBVIOUS
    <2>2. Reaches(c, v, s, k) /\ ~k.broken
      BY <1>1, <1>9, <1>11, <2>1, ReachesNow DEF Fed
    <2>3. c.pid
      BY <1>1, <1>2, <1>9, <1>11 DEF Working, ExecOK
    <2>4. Fd(c, "server", f) = c.writefd /\ c.writefd \in {3, FD_CLOSED}
      <3>1. c.writefd \in {3, FD_CLOSED}
        BY <1>2, <2>3 DEF InUse, FdsOK
      <3>2. Fd(c, "server", "stdin") = c.writefd
        BY DEF Fd, Source
      <3> QED BY <1>6, <3>1, <3>2
    <2>5. CASE c.writefd = FD_CLOSED
      <3>1. t = c
        BY <1>1, <1>5, <1>6, <2>1, <2>2, <2>4, <2>5 DEF Arriving, FD_CLOSED
      <3>2. k.got \in Seq(Nat)
        BY <2>2 DEF Reaches
      <3>3. k2.got = k.got
        BY <1>2, <1>8, <2>1, <3>1, <3>2, ConcatEmptySeq
      <3>4. Reaches(c, Tail(v), s, k)
        BY <1>10, <2>2, <2>5, ReachesOn
      <3>5. Reaches(c, Tail(v), s, k2)
        BY <3>3, <3>4 DEF Reaches, Reaching
      <3> QED BY <2>1, <3>1, <3>5, Zenon
    <2>6. CASE c.writefd # FD_CLOSED
      <3>1. PICK lo \in Nat, hi \in Nat : lo = Len(k.got) + c.writebuf.used /\ hi = s.read
        BY <2>2, ReachesParts DEF Reaches
      <3>2. InOrder(v, "DATA", lo, hi)
        <4>1. InOrder(v, "DATA", Len(k.got) + c.writebuf.used, s.read)
          BY <2>2, <2>6, ReachesParts
        <4> QED BY <3>1, <4>1, Zenon
      <3>3. PICK l \in Nat : l = Len(p.body)
        BY <1>10
      <3>4. (\A j \in 1..l : p.body[j] = lo + j) /\ InOrder(Tail(v), "DATA", lo + l, hi)
        BY <1>2, <1>6, <3>2, <3>3, InOrderTake
      <3>5. PICK q, d : Received("server", c, t, "stdin", p.body, q, d)
        BY <1>1, <1>5, <1>6, <2>1, <2>2, <2>4, <2>6 DEF Arriving, FD_CLOSED
      <3>6. k2.got = k.got \o t.put
        BY <1>8, <2>1
      <3>7. (\A j \in 1..Len(p.body) : p.body[j] = lo + j) /\ InOrder(Tail(v), "DATA", lo + Len(p.body), s.read)
        BY <3>1, <3>3, <3>4, Zenon
      <3>8. Reaches(t, Tail(v), s, k2)
        BY <1>10, <2>2, <2>6, <3>1, <3>5, <3>6, <3>7, ReachesReceived
      <3> QED BY <2>1, <3>8, Zenon
    <2> QED BY <2>5, <2>6
  <1> QED BY <1>4, <1>5, <1>11, ServerKeeps

LEMMA ServerWriteFeeds ==
  ASSUME Typed, Working, InputOK, Typed', Working', StatusOK', NEW f \in Stream, WriteFd("server", f)
  PROVE  InputOK'
  <1>0. "server" \in End /\ Peer("server") = "client" /\ "stdin" \in Stream
    BY DEF End, Peer, Stream
  <1>c. PICK c : c = chan["server"]
    OBVIOUS
  <1>1. PICK w \in Seq(Packet) : w = wire["client"] /\ c = chan["server"]
    BY <1>c DEF Typed, End
  <1>2. PICK b, q, t, g : WriteEffect("server", f, b, q, t, g)
    BY <1>0, WriteActs
  <1>3. src' = src /\ prog' = prog
    BY DEF WriteFd
  <1>4. /\ After("server", t, w) /\ Source(f) # "server" /\ c.present /\ Fd(c, "server", f) >= 0
        /\ Writing("server", f, b) /\ snk' = [snk EXCEPT ![f].got = @ \o b.put]
        /\ IsChannel("server", b) /\ b.pid = c.pid /\ Closing("server", b, t, q, src)
        /\ IsChannel("server", t) /\ c.pid
    BY <1>0, <1>1, <1>2 DEF WriteEffect
  <1>5. f = "stdin"
    BY <1>4 DEF Source, Stream
  <1>6. b.put \in Seq(Nat)
    BY <1>0, <1>4, ChannelFields
  <1>7. snk'["stdin"].broken = snk["stdin"].broken /\ snk'["stdin"].got = snk["stdin"].got \o b.put
    BY <1>0, <1>4, <1>5, <1>6, SinkTyped
  <1>8. Fed' => Fed
    <2>1. wire'["client"] = wire["client"]
      BY <1>1, <1>4 DEF After, Peer
    <2> QED BY <1>3, <1>7, <2>1 DEF Fed, ExecPending
  <1>9. ASSUME Fed' PROVE Reaches(b, w, src["stdin"], snk'["stdin"])
    <2>1. PICK s, k, k2, more : s = src["stdin"] /\ k = snk["stdin"] /\ k2 = snk'["stdin"] /\ more = <<>>
      OBVIOUS
    <2>2. Reaches(c, w, s, k) /\ ~k.broken
      BY <1>1, <1>8, <1>9, <2>1, ReachesNow DEF Fed
    <2>3. c.writefd # FD_CLOSED
      BY <1>4, <1>5 DEF Fd, FD_CLOSED
    <2>4. PICK r, d : Received("server", c, b, "stdin", more, r, d)
      BY <1>1, <1>4, <1>5, <2>1, <2>2 DEF Writing
    <2>5. PICK lo \in Nat : lo = Len(k.got) + c.writebuf.used
      BY <2>2, ReachesParts
    <2>6. InOrder(w, "DATA", lo, s.read)
      <3>1. InOrder(w, "DATA", Len(k.got) + c.writebuf.used, s.read)
        BY <2>2, <2>3, ReachesParts
      <3> QED BY <2>5, <3>1, Zenon
    <2>7. more \in Seq(Nat) /\ 1..Len(more) = {} /\ lo + Len(more) = lo
      BY <2>1
    <2>8. (\A j \in 1..Len(more) : more[j] = lo + j) /\ InOrder(w, "DATA", lo + Len(more), s.read)
      BY <2>6, <2>7, Zenon
    <2>9. k2.got = k.got \o b.put
      BY <1>7, <2>1
    <2>10. Reaches(b, w, s, k2)
      BY <2>2, <2>3, <2>4, <2>5, <2>7, <2>8, <2>9, ReachesReceived
    <2> QED BY <2>1, <2>10, Zenon
  <1> QED BY <1>3, <1>4, <1>9, ServerFeeds

LEMMA ServerReadFeeds ==
  ASSUME Typed, Working, InputOK, Typed', Working', StatusOK', NEW f \in Stream, ReadFd("server", f)
  PROVE  InputOK'
  <1>0. "server" \in End /\ Peer("server") = "client" /\ "stdin" \in Stream
    BY DEF End, Peer, Stream
  <1>c. PICK c : c = chan["server"]
    OBVIOUS
  <1>1. PICK w \in Seq(Packet) : w = wire["client"] /\ c = chan["server"]
    BY <1>c DEF Typed, End
  <1>2. PICK b, q, t, m : ReadEffect("server", f, b, q, t, m)
    BY <1>0, ReadActs
  <1>3. snk' = snk /\ prog' = prog
    BY DEF ReadFd
  <1>4. /\ After("server", t, w) /\ Source(f) = "server" /\ Reading("server", f, b, m)
        /\ src' = [src EXCEPT ![f].read = @ + m] /\ Closing("server", b, t, q, src')
        /\ IsChannel("server", t) /\ c.pid
    BY <1>0, <1>1, <1>2 DEF ReadEffect
  <1>5. src'["stdin"] = src["stdin"]
    <2>1. f # "stdin"
      BY <1>4 DEF Source
    <2> QED BY <1>0, <1>4, <2>1, SourceFacts
  <1>6. b.writefd = c.writefd /\ b.writebuf = c.writebuf /\ b.pid = c.pid /\ IsChannel("server", b)
    <2>0. Reading("server", f, b, m) /\ c = chan["server"]
      BY <1>1, <1>4
    <2>1. b.writefd = c.writefd /\ b.writebuf = c.writebuf
      BY <2>0, ReadingFields
    <2>2. b.pid = c.pid /\ IsChannel("server", b)
      BY <2>0, ReadingFields
    <2> QED BY <2>1, <2>2
  <1>7. Fed' => Fed
    <2>1. wire'["client"] = wire["client"]
      BY <1>1, <1>4 DEF After, Peer
    <2> QED BY <1>3, <2>1 DEF Fed, ExecPending
  <1>8. Fed' => Reaches(b, w, src["stdin"], snk'["stdin"])
    BY <1>1, <1>3, <1>6, <1>7, ReachesNow, ReachesFields
  <1> QED BY <1>4, <1>5, <1>6, <1>8, ServerFeeds

LEMMA ServerNoticesFeeds ==
  ASSUME Typed, Working, InputOK, NoticeExit
  PROVE  InputOK'
  <1>0. "client" \in End /\ "server" \in End /\ Peer("server") = "client"
    BY DEF End, Peer
  <1>1. src' = src /\ snk' = snk /\ prog' = "gone" /\ prog = "exited"
    BY DEF NoticeExit, CanNotice
  <1>2. chan'["client"] = chan["client"] /\ wire'["client"] = wire["client"]
    <2>1. CASE chan["server"].present
      <3>1. PICK b, q, t : ExitEffect(b, q, t)
        BY <2>1, ExitActs
      <3> QED BY <1>0, <3>1 DEF ExitEffect, After
    <2>2. CASE ~chan["server"].present
      BY <2>2 DEF NoticeExit
    <2> QED BY <2>1, <2>2
  <1>3. ~ExecPending
    BY <1>1 DEF Working, ExecOK
  <1>4. ~Fed'
    BY <1>1, <1>2, <1>3 DEF Fed, ExecPending
  <1> QED BY <1>1, <1>2, <1>4 DEF InputOK

LEMMA ServerExecFeeds ==
  ASSUME Typed, Working, InputOK, NEW ok \in BOOLEAN, RecvExec(ok)
  PROVE  InputOK'
  <1>c. PICK c : c = chan["server"]
    OBVIOUS
  <1>1. PICK w \in Seq(Packet) : w = wire["client"] /\ c = chan["server"]
    BY <1>c DEF Typed, End
  <1>2. PICK t : ExecEffect(ok, t)
    BY ExecActs
  <1>3. src' = src /\ snk' = snk /\ prog' = IF ok THEN "running" ELSE prog
    BY DEF RecvExec
  <1>4. /\ After("server", t, Tail(w)) /\ Same(c, t, Fds \cup {"pid"}) /\ IsChannel("server", t)
        /\ ExecPending /\ (ok => t.writefd = 3)
    BY <1>1, <1>2 DEF ExecEffect
  <1>5. w # <<>> /\ w[1].type = "EXEC" /\ Fresh(c) /\ prog = "none"
    BY <1>1, <1>4 DEF Working, ExecOK, ExecPending
  <1>6. ~ExecPending'
    <2>1. wire'["client"] = Tail(w)
      BY <1>4 DEF After, Peer
    <2> QED BY <1>1, <1>5, <2>1, NoSecondExec
  <1>7. ASSUME Fed' PROVE Reaches(t, Tail(w), src["stdin"], snk'["stdin"])
    <2>1. ok /\ Fed
      BY <1>3, <1>4, <1>5, <1>6, <1>7 DEF Fed
    <2>2. w[1].type \notin DataTypes
      BY <1>5 DEF DataTypes
    <2>3. Reaches(c, Tail(w), src["stdin"], snk["stdin"])
      BY <1>1, <1>5, <2>1, <2>2, ReachesNow, ReachesPass
    <2>4. c.writefd # FD_CLOSED /\ t.writefd # FD_CLOSED /\ t.writebuf = c.writebuf
      BY <1>4, <1>5, <2>1 DEF Fresh, FD_CLOSED, FD_UNINIT, Same, Fields, Fds
    <2> QED BY <1>3, <1>4, <2>3, <2>4 DEF Reaches, Reaching
  <1> QED BY <1>3, <1>4, <1>7, ServerKeeps

LEMMA ServerDropsFeeds ==
  ASSUME Typed, Working, StatusOK, InputOK, RemoteClosed
  PROVE  InputOK'
  <1>1. /\ src' = src /\ snk' = snk /\ prog' = prog /\ ~chan["client"].present
        /\ chan' = [chan EXCEPT !["server"] = NoChannel("server")] /\ wire' = [e \in End |-> <<>>]
    BY DEF RemoteClosed, Online
  <1>2. chan'["client"] = chan["client"] /\ wire'["client"] = <<>>
    BY <1>1 DEF Typed, End
  <1>3. prog # "running"
    BY <1>1, BothAlive DEF Alive
  <1>4. ~Fed'
    BY <1>1, <1>2, <1>3 DEF Fed, ExecPending
  <1> QED BY <1>1, <1>2, <1>4 DEF InputOK

\* The user and the command.
LEMMA InputOutside ==
  ASSUME Typed, Working, InputOK, UserEof \/ Detaches \/ \E held \in BOOLEAN : Exits(held)
  PROVE  InputOK'
  <1>1. /\ chan' = chan /\ wire' = wire /\ (prog' = prog \/ prog = "running") /\ "stdin" \in Stream
        /\ src'["stdin"].read = src["stdin"].read /\ snk'["stdin"].got = snk["stdin"].got
        /\ snk["stdin"].broken => snk'["stdin"].broken
        /\ src["stdin"].closed => src'["stdin"].closed
    BY OutsideSteps DEF Stream
  <1>2. Fed' => Fed
    BY <1>1 DEF Fed, ExecPending
  <1>3. Finished(src["stdin"]) => Finished(src'["stdin"])
    BY <1>1 DEF Finished
  <1> QED BY <1>1, <1>2, <1>3 DEF InputOK, Reaching

LEMMA InputStarts ==
  ASSUME Typed, Started
  PROVE  InputOK
  <1>1. PICK w \in Seq(Packet) : w = wire["client"] /\ ~Has(w, {"DATA"})
    BY DEF Started, Has, DataTypes
  <1>2. InOrder(w, "DATA", 0, 0)
    BY <1>1, InOrderNothing
  <1>3. "stdin" \in Stream /\ Len(<<>>) + 0 = 0 /\ 1..Len(<<>>) = {} /\ 1..0 = {}
    BY DEF Stream
  <1>4. ASSUME NEW b, b.used = 0 PROVE Tracked(<<>>, b, w, "DATA", 0)
    BY <1>2, <1>3, <1>4 DEF Tracked
  <1>5. snk["stdin"].got = <<>> /\ src["stdin"].read = 0
    BY <1>3 DEF Started
  <1>6. chan["server"].writebuf.used = 0 /\ chan["server"].writefd # FD_CLOSED
    BY DEF Started, Fresh, FD_UNINIT, FD_CLOSED
  <1>7. Tracked(snk["stdin"].got, chan["server"].writebuf, w, "DATA", src["stdin"].read)
    BY <1>4, <1>5, <1>6
  <1>8. chan["client"].readfd # FD_CLOSED
    BY DEF Started, FD_CLOSED
  <1> QED BY <1>1, <1>6, <1>7, <1>8 DEF InputOK, Reaching

\* The same in the next state.
LEMMA InputThen == (Typed /\ Started)' => InputOK'
  <1>1. Typed /\ Started => InputOK
    BY InputStarts
  <1> QED BY <1>1, PTL

LEMMA InputKept ==
  ASSUME Typed, Working, StatusOK, InputOK, Typed', Working', StatusOK', Next
  PROVE  InputOK'
  <1>0. Peer("server") = "client" /\ "server" \in End /\ \A e \in End : e = "server" \/ e = "client"
    BY DEF End, Peer
  <1>1. ASSUME NEW e \in End, RecvControl(e) \/ RecvData(e) PROVE InputOK'
    BY <1>0, <1>1, ClientControlFeeds, ServerControlFeeds, ClientDataFeeds, ServerDataFeeds
  <1>2. ASSUME NEW e \in End, NEW f \in Stream, ReadFd(e, f) \/ WriteFd(e, f) PROVE InputOK'
    BY <1>0, <1>2, ClientReadFeeds, ServerReadFeeds, ClientWriteFeeds, ServerWriteFeeds
  <1>3. ASSUME NEW ok \in BOOLEAN, RecvExec(ok) PROVE InputOK'
    BY <1>3, ServerExecFeeds
  <1>4. NoticeExit \/ RemoteClosed => InputOK'
    BY ServerNoticesFeeds, ServerDropsFeeds
  <1>5. ASSUME UserEof \/ Detaches \/ \E held \in BOOLEAN : Exits(held) PROVE InputOK'
    BY <1>5, InputOutside
  <1>6. ~RecvOpen
    <2>1. ASSUME RecvOpen PROVE FALSE
      BY <1>0, <2>1, Addressed DEF RecvOpen, Incoming, Types
    <2> QED BY <2>1
  <1> QED BY <1>1, <1>2, <1>3, <1>4, <1>5, <1>6 DEF Next

LEMMA InputStep ==
  ASSUME Protocol, Output, Input, [Next]_vars
  PROVE  Input'
  <1>0. Protocol' /\ Output'
    BY ProtocolStep, OutputStep
  <1>1. CASE UNCHANGED vars
    BY <1>1 DEF vars, Input, InputOK, Fed, ExecPending, Reaching, Finished
  <1>2. CASE Next /\ Working
    <2>1. Typed /\ Working /\ StatusOK /\ InputOK
      BY <1>2, Awaits DEF Protocol, Output, Input, End
    <2>2. Typed' /\ Working'
      BY <1>2, <2>1, WorkingStep
    <2>3. StatusOK'
      BY <1>2, <2>1, Awaits, OutputKept DEF Output, End
    <2> QED BY <1>2, <2>1, <2>2, <2>3, InputKept DEF Input
  <1>3. CASE Next /\ Confirming
    <2>1. Typed' /\ (Confirming' \/ (Working' /\ Started'))
      BY <1>3, ConfirmingStep DEF Protocol
    <2>2. ASSUME Confirming' PROVE Input'
      <3>1. chan'["client"].await_open
        BY <2>2, StillUnconfirmed
      <3> QED BY <3>1 DEF Input
    <2>3. ASSUME Started' PROVE Input'
      BY <2>1, <2>3, InputThen DEF Input
    <2> QED BY <2>1, <2>2, <2>3
  <1>4. CASE Next /\ Opening
    <2>1. Opening' \/ Confirming'
      BY <1>4, OpeningStep DEF Protocol
    <2>2. chan'["client"].await_open
      BY <2>1, StillUnconfirmed
    <2> QED BY <2>2 DEF Input
  <1> QED BY <1>1, <1>2, <1>3, <1>4 DEF Protocol

\* A running command that has not closed its input itself sees the end of it only
\* when the user has ended it and every block typed has been written to the
\* command, once and in order: check_close() at the server never closes the pipe
\* on input that is still in the buffer, on the wire or unread at the client.
THEOREM InputBeforeEof == Spec => []EofAfterInput
  <1>1. Init => Protocol /\ Output /\ Input
    <2>1. ASSUME Init PROVE Protocol /\ Output /\ Input
      <3>1. Typed /\ Opening
        BY <2>1, Initially
      <3> QED BY <3>1, Unconfirmed DEF Protocol, Output, Input
    <2> QED BY <2>1
  <1>2. (Protocol /\ Output /\ Input) /\ [Next]_vars => (Protocol /\ Output /\ Input)'
    BY ProtocolStep, OutputStep, InputStep
  <1>3. Protocol /\ Output /\ Input => EofAfterInput
    <2>1. ASSUME Protocol, Output, Input PROVE EofAfterInput
      <3>1. CASE Working
        <4>1. Typed /\ InputOK
          BY <2>1, <3>1, Awaits DEF Protocol, Input, End
        <4> QED BY <4>1, Totals DEF InputOK, Fed, Reaching, Finished, EofAfterInput, Arrived
      <3>2. CASE Opening \/ Confirming
        BY <3>2, Unconfirmed DEF EofAfterInput
      <3> QED BY <2>1, <3>1, <3>2 DEF Protocol
    <2> QED BY <2>1
  <1> QED BY <1>1, <1>2, <1>3, PTL DEF Spec

=============================================================================
