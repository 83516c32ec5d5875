----------------------------- MODULE CircBuffer -----------------------------
(***************************************************************************)
(* The circular buffer of a channel (circbuffer.c) as operators: a record  *)
(* with the array and the three counters the C code keeps, and the         *)
(* assertions it makes about them.                                         *)
(***************************************************************************)
LOCAL INSTANCE Integers
LOCAL INSTANCE Sequences

Lesser(a, b) == IF a < b THEN a ELSE b

cbuf_new(size) ==
    [data |-> [i \in 0..(size - 1) |-> 0], used |-> 0,
     readpos |-> 0, writepos |-> 0, size |-> size]

cbuf_getavail(c) == c.size - c.used

\* The three assertions of cbuf_writelen().
CbufConsistent(c) ==
    /\ c.used <= c.size
    /\ (2 * c.size + c.writepos - c.readpos) % c.size = c.used % c.size
    /\ (2 * c.size + c.readpos - c.writepos) % c.size = (c.size - c.used) % c.size

\* What can be written in one run, without wrapping around.
cbuf_writelen(c) ==
    IF c.used = c.size THEN 0
    ELSE IF c.writepos < c.readpos THEN c.readpos - c.writepos
    ELSE c.size - c.writepos

\* cbuf_writeptr(), memcpy() and cbuf_incrwrite() of one run.
cbuf_incrwrite(c, s) ==
    [c EXCEPT !.data = [i \in DOMAIN @ |->
                            IF i \in c.writepos..(c.writepos + Len(s) - 1)
                            THEN s[i - c.writepos + 1] ELSE @[i]],
              !.used = @ + Len(s),
              !.writepos = (@ + Len(s)) % c.size]

\* A write of the whole of s: at most two runs, as the buffer wraps once.
cbuf_write_OneRun(c, s) ==
    cbuf_incrwrite(c, SubSeq(s, 1, Lesser(cbuf_writelen(c), Len(s))))

cbuf_write(c, s) ==
    LET n == Lesser(cbuf_writelen(c), Len(s))
    IN cbuf_incrwrite(cbuf_incrwrite(c, SubSeq(s, 1, n)), SubSeq(s, n + 1, Len(s)))

\* The two parts cbuf_readptrs() points to, one after the other.
cbuf_readptrs(c) ==
    LET len1 == Lesser(c.used, c.size - c.readpos)
    IN [i \in 1..len1 |-> c.data[c.readpos + i - 1]]
         \o [i \in 1..(c.used - len1) |-> c.data[i - 1]]

cbuf_incrread(c, len) ==
    [c EXCEPT !.used = @ - len, !.readpos = (@ + len) % c.size]
=============================================================================
