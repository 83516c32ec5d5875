------------------------------ MODULE Channel ------------------------------
(***************************************************************************)
(* A "session" channel between a Dropbear client and server, from the      *)
(* request to open it to its removal at both ends: flow control, end of    *)
(* file, close, and on the server the command behind it (common-channel.c, *)
(* svr-chansession.c, cli-chansession.c).                                  *)
(*                                                                         *)
(* Both ends run common-channel.c.  The client's descriptors are its       *)
(* stdin, stdout and stderr, the server's are three pipes to a command     *)
(* without a pty.  Data is counted in blocks, numbered in each stream, so  *)
(* that a lost, doubled or misplaced block shows.                          *)
(*                                                                         *)
(* struct Channel is a record; a handler takes it to the next one and      *)
(* leaves in "out" the packets it sends and in "put" the blocks it writes  *)
(* to a descriptor.  The loop of a session handles its events one by one.  *)
(***************************************************************************)
EXTENDS Integers, Sequences, FiniteSets, CircBuffer

CONSTANTS
    ServerWindow, ClientWindow,   \* opts.recv_window of either end
    MaxPacket,                    \* transmaxpacket
    SockBuf,                      \* packets the TCP connection takes in
    QueueLimit,                   \* 2*TRANS_MAX_PAYLOAD_LEN
    MaxIn, MaxOut, MaxErr         \* blocks of stdin, stdout, stderr

ASSUME WindowAssumption ==
    /\ ServerWindow \in Nat \ {0} /\ ClientWindow \in Nat \ {0}
    /\ MaxPacket \in Nat \ {0} /\ SockBuf \in Nat \ {0} /\ QueueLimit \in Nat
    /\ MaxIn \in Nat /\ MaxOut \in Nat /\ MaxErr \in Nat

FD_UNINIT == -2
FD_CLOSED == -1

End == {"server", "client"}
Peer(e) == IF e = "server" THEN "client" ELSE "server"
Stream == {"stdin", "stdout", "stderr"}
recv_window(e) == IF e = "server" THEN ServerWindow ELSE ClientWindow
\* A third of the window, in whole blocks.
RECV_WINDOWEXTEND(e) == (recv_window(e) + 2) \div 3
Source(f) == IF f = "stdin" THEN "client" ELSE "server"

VARIABLES
    chan,      \* struct Channel of both ends
    wire,      \* packets each end sent and the other has not processed
    src,       \* where the streams come from: blocks read by now, and closed
    snk,       \* where they go: blocks that arrived, and whether it is broken
    prog,      \* the command: none, running, or exited
    status     \* whether the client has the exit status

vars == <<chan, wire, src, snk, prog, status>>

-----------------------------------------------------------------------------
(* Descriptors.                                                            *)

\* The field of struct Channel that belongs to stream f at end e.
Fd(c, e, f) ==
    IF f = "stderr" THEN c.errfd
    ELSE IF Source(f) = e THEN c.readfd ELSE c.writefd

\* Neither kind of descriptors is bidirectional: the number is closed for
\* every field that holds it.
close_chan_fd(c, fd) ==
    [c EXCEPT !.readfd = IF @ = fd THEN FD_CLOSED ELSE @,
              !.writefd = IF @ = fd THEN FD_CLOSED ELSE @,
              !.errfd = IF @ = fd THEN FD_CLOSED ELSE @]

total(f) == CASE f = "stdin" -> MaxIn [] f = "stdout" -> MaxOut [] f = "stderr" -> MaxErr

\* Data or end of file is there to be read, at source s.
fd_read_pending(s, f) == s[f].read < total(f) \/ s[f].closed

\* What the packets of some types from position k on carry: blocks, or the
\* window they grant.
Amount(p) == IF p.type \in {"DATA", "EXTENDED_DATA"} THEN Len(p.body) ELSE p.body
Load(w, k, types) ==
    Cardinality(UNION {{i} \X (1..Amount(w[i])) : i \in {j \in k..Len(w) : w[j].type \in types}})

\* Data that waits in the queue of packets, behind what TCP has taken in.
writequeue_has_space(e) ==
    Load(wire[e], SockBuf + 1, {"DATA", "EXTENDED_DATA"}) <= QueueLimit

Send(c, type, body) == [c EXCEPT !.out = Append(@, [type |-> type, body |-> body])]

\* dropbear_exit() or a failed dropbear_assert().
dropbear_exit(c) == [c EXCEPT !.died = TRUE]

newchannel(e) ==
    [present |-> TRUE, readfd |-> FD_UNINIT, writefd |-> FD_UNINIT, errfd |-> FD_CLOSED,
     sent_eof |-> FALSE, recv_eof |-> FALSE, sent_close |-> FALSE, recv_close |-> FALSE,
     transwindow |-> 0, recvwindow |-> recv_window(e), recvdonelen |-> 0,
     writebuf |-> cbuf_new(recv_window(e)), extrabuf |-> cbuf_new(recv_window(e)),
     errIsWrite |-> FALSE, flushing |-> FALSE, pid |-> FALSE, exitpid |-> FALSE,
     await_open |-> FALSE, out |-> <<>>, put |-> <<>>, died |-> FALSE]

NoChannel(e) == [newchannel(e) EXCEPT !.present = FALSE]

\* remove_channel(): the structure is freed; what it sent stays sent.
remove_channel(e, c) == [NoChannel(e) EXCEPT !.out = c.out]

-----------------------------------------------------------------------------
(* Closing.                                                                *)

\* Anything left to be written to stdin or stdout/stderr of this end.
write_pending(c) ==
    \/ c.writefd >= 0 /\ c.writebuf.used > 0
    \/ c.errfd >= 0 /\ c.errIsWrite /\ c.extrabuf.used > 0

\* The close handler of the server sends the exit status first.
send_msg_channel_close(e, c) ==
    LET a == IF e = "server" /\ c.exitpid THEN Send(c, "EXIT_STATUS", 0) ELSE c
        b == [Send(a, "CLOSE", 0) EXCEPT !.sent_eof = TRUE, !.sent_close = TRUE]
    IN close_chan_fd(close_chan_fd(close_chan_fd(b, b.readfd), b.errfd), b.writefd)

\* sesscheckclose(): the command never started or is known to have exited.
sesscheckclose(e, c) == e = "client" \/ c.sent_close \/ ~c.pid \/ c.exitpid

\* A descriptor is closed once it is drained, although it may have no end of
\* file: a process in the background can hold the pipe.
Flushed(e, c, s) ==
    LET a == IF c.readfd >= 0 /\ ~fd_read_pending(s, IF e = "server" THEN "stdout" ELSE "stdin")
             THEN close_chan_fd(c, c.readfd) ELSE c
    IN IF a.errfd >= 0 /\ ~a.errIsWrite /\ ~fd_read_pending(s, "stderr")
       THEN close_chan_fd(a, a.errfd) ELSE a

NoMoreToSend(c) == c.readfd = FD_CLOSED /\ (c.errIsWrite \/ c.errfd = FD_CLOSED)

\* check_close() when the channel is not to be removed.
HalfClosed_AtOnce(e, c, allowed) ==
    LET a == IF c.recv_eof \/ (c.writefd # FD_UNINIT /\ e = "server" /\ allowed)
             THEN close_chan_fd(c, c.writefd) ELSE c
        b == IF ~a.sent_eof /\ NoMoreToSend(a)
             THEN [Send(a, "EOF", 0) EXCEPT !.sent_eof = TRUE] ELSE a
    IN IF NoMoreToSend(b) /\ b.writefd = FD_CLOSED /\ ~b.sent_close /\ allowed
       THEN send_msg_channel_close(e, b) ELSE b

HalfClosed(e, c, allowed) ==
    LET a == IF (c.recv_eof /\ ~write_pending(c))
                  \/ (c.writefd # FD_UNINIT /\ e = "server" /\ allowed)
             THEN close_chan_fd(c, c.writefd) ELSE c
        b == IF ~a.sent_eof /\ NoMoreToSend(a)
             THEN [Send(a, "EOF", 0) EXCEPT !.sent_eof = TRUE] ELSE a
    IN IF NoMoreToSend(b) /\ b.writefd = FD_CLOSED /\ ~b.sent_close
            /\ allowed /\ ~write_pending(b)
       THEN send_msg_channel_close(e, b) ELSE b

check_close_RemovesEarly(e, c, s) ==
    LET b == HalfClosed(e, c, sesscheckclose(e, c))
    IN IF b.sent_close THEN remove_channel(e, b) ELSE b

check_close_WaitsForEof(e, c, s) ==
    LET allowed == sesscheckclose(e, c)
    IN IF c.recv_close /\ ~write_pending(c) /\ allowed
       THEN remove_channel(e, IF c.sent_close THEN c ELSE send_msg_channel_close(e, c))
       ELSE HalfClosed(e, c, allowed)

check_close(e, c, s) ==
    LET allowed == sesscheckclose(e, c)
        a == [c EXCEPT !.flushing = @ \/ (e = "server" /\ ~c.sent_close /\ c.exitpid)]
        b == IF a.flushing THEN Flushed(e, a, s) ELSE a
    IN IF b.recv_close /\ ~write_pending(b) /\ allowed
       THEN remove_channel(e, IF b.sent_close THEN b ELSE send_msg_channel_close(e, b))
       ELSE HalfClosed(e, b, allowed)

-----------------------------------------------------------------------------
(* Data.                                                                   *)

\* writechannel(): n blocks of the buffer and of what just came are written;
\* the window grows by what was written, when that is worth a packet.
WindowAdjusted_Early(e, c) ==
    IF c.recvdonelen >= RECV_WINDOWEXTEND(e)
    THEN [Send(c, "WINDOW_ADJUST", c.recvdonelen + 1)
          EXCEPT !.recvwindow = @ + c.recvdonelen + 1, !.recvdonelen = 0]
    ELSE c

WindowAdjusted(e, c) ==
    IF c.recvdonelen >= RECV_WINDOWEXTEND(e)
    THEN [Send(c, "WINDOW_ADJUST", c.recvdonelen)
          EXCEPT !.recvwindow = @ + c.recvdonelen, !.recvdonelen = 0]
    ELSE c

\* The assertions at the end of writechannel().
WindowConsistent(e, c) ==
    /\ c.recvwindow <= recv_window(e)
    /\ c.recvwindow <= cbuf_getavail(c.writebuf)
    /\ c.errIsWrite => c.recvwindow <= cbuf_getavail(c.extrabuf)

buffer(f) == IF f = "stderr" THEN "extrabuf" ELSE "writebuf"

writechannel(e, c, f, more, n) ==
    LET b == c[buffer(f)]
        fromBuf == Lesser(b.used, n)
        a == WindowAdjusted(e, [c EXCEPT ![buffer(f)] = cbuf_incrread(b, fromBuf),
                                         !.recvdonelen = @ + n,
                                         !.put = SubSeq(cbuf_readptrs(b) \o more, 1, n)])
    IN IF WindowConsistent(e, a) THEN a ELSE dropbear_exit(a)

\* A write that fails closes the descriptor; what was to be written is lost.
writechannel_fails(e, c, f) ==
    LET a == WindowAdjusted(e, close_chan_fd(c, Fd(c, e, f)))
    IN IF WindowConsistent(e, a) THEN a ELSE dropbear_exit(a)

\* common_recv_msg_channel_data(): n blocks can be written at once, the rest is
\* buffered.  Data for a closed descriptor is dropped.
Accepts(e, c, f, body) ==
    /\ ~c.recv_eof /\ Fd(c, e, f) >= 0
    /\ Len(body) <= cbuf_getavail(c[buffer(f)]) /\ Len(body) <= c.recvwindow

recv_data(e, c, f, body, n) ==
    LET a == [c EXCEPT !.recvwindow = @ - Len(body)]
        b == writechannel(e, a, f, body, n)
        kept == Lesser(Len(body), (c[buffer(f)].used + Len(body)) - n)
    IN IF c.recv_eof THEN dropbear_exit(c)
       ELSE IF Fd(c, e, f) < 0 THEN c
       ELSE IF ~Accepts(e, c, f, body) THEN dropbear_exit(c)
       ELSE IF snk[f].broken THEN writechannel_fails(e, a, f)
       ELSE IF ~CbufConsistent(b[buffer(f)]) THEN dropbear_exit(b)
       ELSE [b EXCEPT ![buffer(f)] =
                 cbuf_write(@, SubSeq(body, Len(body) - kept + 1, Len(body)))]

\* send_msg_channel_data(): avail blocks, if the window and a packet hold them.
send_msg_channel_data(e, c, f, avail) ==
    LET n == Lesser(Lesser(c.transwindow, MaxPacket), avail)
        body == [i \in 1..n |-> src[f].read + i]
    IN IF c.sent_close THEN dropbear_exit(c)
       ELSE IF n = 0 THEN close_chan_fd(c, Fd(c, e, f))
       ELSE [Send(c, IF f = "stderr" THEN "EXTENDED_DATA" ELSE "DATA", body)
             EXCEPT !.transwindow = @ - n]

-----------------------------------------------------------------------------
(* Setting up.                                                             *)

\* The client's request to open has been sent; until it is confirmed the
\* channel holds stdin only.
Init ==
    /\ chan = [e \in End |-> IF e = "server" THEN NoChannel(e)
                             ELSE [newchannel(e) EXCEPT !.await_open = TRUE,
                                                        !.readfd = 0, !.writefd = 0]]
    /\ wire = [e \in End |-> IF e = "server" THEN <<>>
                             ELSE <<[type |-> "OPEN", body |-> ClientWindow]>>]
    /\ src = [f \in Stream |-> [read |-> 0, closed |-> FALSE]]
    /\ snk = [f \in Stream |-> [got |-> <<>>, broken |-> FALSE]]
    /\ prog = "none" /\ status = FALSE

\* recv_msg_channel_open()
recv_msg_channel_open(window) ==
    Send([newchannel("server") EXCEPT !.transwindow = window],
         "OPEN_CONFIRMATION", ServerWindow)

\* recv_msg_channel_open_confirmation() and cli_initchansess(): the command is
\* asked for without a reply.
recv_msg_channel_open_confirmation(c, window) ==
    IF ~c.await_open THEN dropbear_exit(c)
    ELSE Send([c EXCEPT !.await_open = FALSE, !.transwindow = window,
                        !.readfd = 0, !.writefd = 1, !.errfd = 2, !.errIsWrite = TRUE],
              "EXEC", 0)

\* noptycommand(); spawn_command() may fail.
noptycommand(c) == [c EXCEPT !.pid = TRUE, !.writefd = 3, !.readfd = 4, !.errfd = 5]

-----------------------------------------------------------------------------
(* The session loops.                                                      *)

\* End e takes c as its channel and writes what c has to send and to put.
Done(e, c, unread) ==
    /\ chan' = [chan EXCEPT ![e] = [c EXCEPT !.out = <<>>, !.put = <<>>]]
    /\ wire' = [unread EXCEPT ![e] = @ \o c.out]

Put(f, c) == snk' = [snk EXCEPT ![f].got = @ \o c.put]

\* Without a channel the client closes the connection and exits, in the same
\* pass of its loop (cli_finished()).
Online == chan["client"].present

\* The packet at the head of the peer's wire, when e has room for an answer.
CanReceive(e) ==
    /\ ~chan[e].died /\ wire[Peer(e)] # <<>> /\ writequeue_has_space(e)
    /\ e = "client" => Online
Incoming(e, types) == CanReceive(e) /\ Head(wire[Peer(e)]).type \in types

Unread(e) == [wire EXCEPT ![Peer(e)] = Tail(@)]

RecvOpen ==
    /\ Incoming("server", {"OPEN"})
    /\ \E c \in {recv_msg_channel_open(Head(wire["client"]).body)} : Done("server", c, Unread("server"))
    /\ UNCHANGED <<src, snk, prog, status>>

RecvExec(ok) ==
    /\ Incoming("server", {"EXEC"}) /\ chan["server"].present
    /\ \E c \in {IF ok THEN noptycommand(chan["server"]) ELSE chan["server"]} :
           Done("server", c, Unread("server"))
    /\ prog' = IF ok THEN "running" ELSE prog
    /\ UNCHANGED <<src, snk, status>>

\* getchannel() exits when the channel is gone.
Handled(e, c, p) ==
    IF ~c.present THEN dropbear_exit(c)
    ELSE CASE p.type = "OPEN_CONFIRMATION" -> recv_msg_channel_open_confirmation(c, p.body)
           [] p.type = "WINDOW_ADJUST" -> [c EXCEPT !.transwindow = @ + p.body]
           [] p.type = "EOF" -> check_close(e, [c EXCEPT !.recv_eof = TRUE], src)
           [] p.type = "CLOSE" ->
                  check_close(e, [c EXCEPT !.recv_eof = TRUE, !.recv_close = TRUE], src)
           [] OTHER -> c

RecvControl(e) ==
    /\ Incoming(e, {"OPEN_CONFIRMATION", "WINDOW_ADJUST", "EOF", "CLOSE", "EXIT_STATUS"})
    /\ \E p \in {Head(wire[Peer(e)])} :
       \E c \in {Handled(e, chan[e], p)} :
          /\ Done(e, c, Unread(e))
          /\ status' = (status \/ (p.type = "EXIT_STATUS" /\ ~c.died))
    /\ UNCHANGED <<src, snk, prog>>

RecvData(e) ==
    /\ Incoming(e, {"DATA", "EXTENDED_DATA"})
    /\ \E p \in {Head(wire[Peer(e)])} :
       \E f \in {IF p.type = "EXTENDED_DATA" THEN "stderr"
                 ELSE IF e = "server" THEN "stdin" ELSE "stdout"} :
       \E n \in 0..(IF Fd(chan[e], e, f) < 0 \/ snk[f].broken THEN 0
                    ELSE chan[e][buffer(f)].used + Len(p.body)) :
       \E c \in {IF chan[e].present THEN recv_data(e, chan[e], f, p.body, n)
                 ELSE dropbear_exit(chan[e])} :
          Done(e, c, Unread(e)) /\ Put(f, c)
    /\ UNCHANGED <<src, prog, status>>

\* setchannelfds(): a descriptor is read when its data may be sent, and written
\* when there is some in its buffer.
CanRead(e, f) ==
    /\ chan[e].present /\ ~chan[e].died /\ Source(f) = e /\ Fd(chan[e], e, f) >= 0
    /\ chan[e].transwindow > 0 /\ writequeue_has_space(e) /\ fd_read_pending(src, f)

CanWrite(e, f) ==
    /\ chan[e].present /\ ~chan[e].died /\ Source(f) # e /\ Fd(chan[e], e, f) >= 0
    /\ chan[e][buffer(f)].used > 0

\* channelio().  As long as its writer lives, only a part of what a descriptor
\* is to bring may be there.
ReadFd(e, f) ==
    /\ CanRead(e, f)
    /\ \E avail \in Lesser(1, total(f) - src[f].read)..(total(f) - src[f].read) :
       \E b \in {send_msg_channel_data(e, chan[e], f, avail)} :
       \E s \in {[src EXCEPT ![f].read = @ + chan[e].transwindow - b.transwindow]} :
       \E c \in {check_close(e, b, s)} : Done(e, c, wire) /\ src' = s
    /\ UNCHANGED <<snk, prog, status>>

WriteFd(e, f) ==
    /\ CanWrite(e, f)
    /\ \E n \in 1..chan[e][buffer(f)].used :
       \E b \in {IF snk[f].broken THEN writechannel_fails(e, chan[e], f)
                 ELSE writechannel(e, chan[e], f, <<>>, n)} :
       \E c \in {check_close(e, b, src)} : Done(e, c, wire) /\ Put(f, b)
    /\ UNCHANGED <<src, prog, status>>

\* SIGCHLD woke the loop: svr_chansess_checksignal(), then check_close().
CanNotice == prog = "exited" /\ ~chan["server"].died

NoticeExit ==
    /\ CanNotice
    /\ \E c \in {check_close("server", [chan["server"] EXCEPT !.exitpid = TRUE], src)} :
           IF chan["server"].present THEN Done("server", c, wire) ELSE UNCHANGED <<chan, wire>>
    /\ prog' = "gone"
    /\ UNCHANGED <<src, snk, status>>

\* svr_remoteclosed(): the session ends with all its channels; packets of the
\* client that were still under way are lost.
RemoteClosed ==
    /\ ~Online /\ chan["server"].present
    /\ chan' = [chan EXCEPT !["server"] = NoChannel("server")]
    /\ wire' = [e \in End |-> <<>>]
    /\ UNCHANGED <<src, snk, prog, status>>

-----------------------------------------------------------------------------
(* The user at the client and the command at the server.                   *)

\* The user's end of file.
UserEof ==
    /\ ~src["stdin"].closed
    /\ src' = [src EXCEPT !["stdin"].closed = TRUE]
    /\ UNCHANGED <<chan, wire, snk, prog, status>>

\* The command closes its three descriptors, and goes on as a daemon does.
Detaches ==
    /\ prog = "running" /\ ~snk["stdin"].broken
    /\ src' = [f \in Stream |-> [src[f] EXCEPT !.closed = @ \/ f # "stdin"]]
    /\ snk' = [snk EXCEPT !["stdin"].broken = TRUE]
    /\ UNCHANGED <<chan, wire, prog, status>>

\* The command exits; a process it left in the background may hold the pipes.
Exits(held) ==
    /\ prog = "running" /\ prog' = "exited"
    /\ src' = [f \in Stream |-> IF f = "stdin" THEN src[f]
                                ELSE [src[f] EXCEPT !.closed = @ \/ ~held]]
    /\ snk' = [snk EXCEPT !["stdin"].broken = @ \/ ~held]
    /\ UNCHANGED <<chan, wire, status>>

Next ==
    \/ RecvOpen
    \/ \E ok \in BOOLEAN : RecvExec(ok)
    \/ \E e \in End : RecvControl(e) \/ RecvData(e)
    \/ \E e \in End, f \in Stream : ReadFd(e, f) \/ WriteFd(e, f)
    \/ NoticeExit \/ RemoteClosed
    \/ UserEof
    \/ Detaches
    \/ \E held \in BOOLEAN : Exits(held)

Spec == Init /\ [][Next]_vars

\* A loop has something to do: stdout and stderr of the client take what they
\* are given; whether the command reads its stdin, or ends, is its own affair.
LoopReady ==
    \/ \E e \in End : CanReceive(e)
    \/ \E f \in Stream : CanRead(Source(f), f)
    \/ \E f \in {"stdout", "stderr"} : CanWrite("client", f)
    \/ CanNotice \/ (~Online /\ chan["server"].present)

\* Weak fairness of the two loops together: a loop that has something to do
\* does something.
FairSpec ==
    Spec /\ ([]<>(~LoopReady) \/ []<><<TRUE>>_<<chan, wire>>)

-----------------------------------------------------------------------------
(* Properties.                                                             *)

\* Neither end ever exits over this channel: no assertion of the code fails, no
\* packet is oversized, comes after the end of file or for a channel that is
\* gone, in whatever order the two ends finish.
NoneDies == \A e \in End : ~chan[e].died

\* What a sender may still send, has under way, and is being granted never
\* exceeds the window the receiver keeps, and that never what its buffers hold.
WindowsAgree ==
    \A e \in End : chan[e].present /\ chan[Peer(e)].present /\ ~chan[e].await_open
                   /\ ~chan[Peer(e)].await_open =>
        /\ chan[e].transwindow + Load(wire[e], 1, {"DATA", "EXTENDED_DATA"})
               + Load(wire[Peer(e)], 1, {"WINDOW_ADJUST"}) <= chan[Peer(e)].recvwindow
        /\ WindowConsistent(Peer(e), chan[Peer(e)])

\* All of stream f has come out at its far end, in order and nothing twice.
Arrived(f) == snk[f].got = [i \in 1..total(f) |-> i]

\* When the client has removed the channel of a command that ran, it has all
\* the command printed, across partial writes and the wrapping of the buffers,
\* and the exit status.
OutputComplete ==
    ~chan["client"].present /\ prog # "none" =>
        status /\ Arrived("stdout") /\ Arrived("stderr")

\* A running command sees the end of its input only after all that was typed,
\* unless it closed its input itself.
EofAfterInput ==
    prog = "running" /\ chan["server"].writefd = FD_CLOSED /\ ~snk["stdin"].broken =>
        src["stdin"].closed /\ Arrived("stdin")

\* A command that has ended takes its channel with it, at both ends, with what
\* it printed still to be sent, and a process in the background or not.
SessionEnds == prog = "exited" ~> \A e \in End : ~chan[e].present
=============================================================================
