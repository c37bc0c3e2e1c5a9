----------------------------- MODULE SshChannel -----------------------------
(***************************************************************************)
(* One channel of the SSH 2 connection protocol between the client and the *)
(* server of openssh-6.4p1: channels.c and nchan.c at both ends, with the  *)
(* session of session.c behind the server's end of a "session" channel     *)
(* (without a pty) and a socket behind both ends of a "direct-tcpip" one.  *)
(*                                                                         *)
(* Each end is a record of the fields of struct Channel that the control   *)
(* depends on; a handler maps the record before to the record after.       *)
(* wire holds the messages that this end has sent and the other has not    *)
(* processed: the transport delivers them in order.  Data is counted in    *)
(* bytes; buffers are lengths.  An iteration of a main loop (server_loop2,  *)
(* client_loop) is a step for each message that it processes, and a step   *)
(* in which it polls the channel for output, prepares the select and runs  *)
(* the handlers after it.  In a step an end touches nothing but its own    *)
(* channel, and what the other end does meanwhile only adds to the         *)
(* messages of the next iteration.                                         *)
(***************************************************************************)
EXTENDS Integers, Sequences, FiniteSets

CONSTANTS
    Ctypes,     \* the channel types opened: "session", "direct-tcpip"
    Window,     \* CHAN_SES_WINDOW_DEFAULT, CHAN_TCP_WINDOW_DEFAULT
    MaxPacket,  \* CHAN_SES_PACKET_DEFAULT, CHAN_TCP_PACKET_DEFAULT
    RBuf,       \* CHAN_RBUF, the most that one read returns
    Bytes,      \* Bytes[ctype][p]: bound on what the application of p writes
    ErrBytes    \* bound on what the program writes to its stderr

ASSUME ChannelConstants ==
    /\ Ctypes \subseteq {"session", "direct-tcpip"}
    /\ Window \in Nat /\ MaxPacket \in Nat /\ RBuf \in Nat

VARIABLE ch     \* ch[p]: the channel at the end p

Peers == {"client", "server"}
Other(p) == IF p = "client" THEN "server" ELSE "client"

-----------------------------------------------------------------------------
(* The state.                                                              *)

Types == {"none", "opening", "larval", "connecting", "open", "zombie", "free"}
HalfStates == {"open", "drain", "closed"}
Flags == {"close_sent", "close_rcvd", "eof_sent", "eof_rcvd"}

Msg(t, n) == [t |-> t, n |-> n]

\* struct Channel.  efd: the descriptor for stderr is open.  detach: is
\* there a detach_user callback, and its detach_close.  pid: the program of
\* the session; it exits or is killed by a signal, and is then reaped.  sel:
\* the descriptors put into the select masks.  The last
\* lines are history: bytes read from and written to the application, what
\* failed, the exit status received, and packet_disconnect or fatal called.
Channel ==
    [type: Types, ctype: Ctypes \cup {"none"},
     istate: HalfStates, ostate: HalfStates, flags: SUBSET Flags,
     input: Nat, output: Nat, extended: Nat,
     efd: BOOLEAN, usage: {"ignore", "read", "write"},
     local_window: Nat, local_window_max: Nat, local_consumed: Nat,
     remote_window: Nat,
     detach: {"none", "wait", "close"},
     pid: {"none", "running", "exited", "killed", "reaped", "reaped_killed"},
     sel: SUBSET {"rfd", "wfd", "efd"},
     wire: Seq([t: Ctypes \cup {"confirm", "failure", "shell",
                                "channel-success", "channel-failure",
                                "exit-status", "exit-signal",
                                "data", "ext", "eof", "eow", "close", "adjust"},
                n: Nat]),
     rd: Nat, wr: Nat, erd: Nat, ewr: Nat,
     failed: SUBSET {"write", "efd"}, status: BOOLEAN, fatal: BOOLEAN]

\* No channel yet.
NoChannel ==
    [type |-> "none", ctype |-> "none",
     istate |-> "open", ostate |-> "open", flags |-> {},
     input |-> 0, output |-> 0, extended |-> 0,
     efd |-> FALSE, usage |-> "ignore",
     local_window |-> 0, local_window_max |-> 0, local_consumed |-> 0,
     remote_window |-> 0, detach |-> "none", pid |-> "none",
     sel |-> {}, wire |-> <<>>,
     rd |-> 0, wr |-> 0, erd |-> 0, ewr |-> 0,
     failed |-> {}, status |-> FALSE, fatal |-> FALSE]

\* channel_new: the fields that differ between the callers.
channel_new(c, ctype, type, window) ==
    [c EXCEPT !.ctype = ctype, !.type = type,
              !.local_window = window, !.local_window_max = window]

\* channel_lookup: the types that may receive messages.
channel_lookup(c) == c.type \in {"opening", "larval", "connecting", "open"}

\* The descriptors are closed and the buffers freed.
channel_free(c) ==
    [c EXCEPT !.type = "free", !.input = 0, !.output = 0, !.extended = 0,
              !.efd = FALSE, !.sel = {}]

Send(c, m) == [c EXCEPT !.wire = Append(@, m)]
packet_disconnect(c) == [c EXCEPT !.fatal = TRUE]
BothClosed(c) == c.istate = "closed" /\ c.ostate = "closed"
CHANNEL_EFD_INPUT_ACTIVE(c) ==
    c.usage = "read" /\ (c.efd \/ c.extended > 0)
CHANNEL_EFD_OUTPUT_ACTIVE(c) ==
    /\ c.usage = "write" /\ c.efd
    /\ c.flags \cap {"eof_rcvd", "close_rcvd"} = {} \/ c.extended > 0

-----------------------------------------------------------------------------
(* nchan.c: the two half-connections of a channel, protocol 2.             *)

chan_read_failed(c) ==
    IF c.istate = "open" THEN [c EXCEPT !.istate = "drain"] ELSE c

chan_send_eof2(c) ==
    IF c.istate = "drain"
    THEN Send([c EXCEPT !.flags = @ \cup {"eof_sent"}], Msg("eof", 0))
    ELSE c

chan_ibuf_empty(c) ==
    IF c.input = 0 /\ c.istate = "drain"
    THEN [(IF "close_sent" \in c.flags THEN c ELSE chan_send_eof2(c))
             EXCEPT !.istate = "closed"]
    ELSE c

\* chan_shutdown_write empties the buffer, whoever calls it.
chan_shutdown_write(c) == [c EXCEPT !.output = 0]

chan_obuf_empty(c) ==
    IF c.output = 0 /\ c.ostate = "drain"
    THEN [chan_shutdown_write(c) EXCEPT !.ostate = "closed"]
    ELSE c

\* A session tells the other end that nobody reads any more.
chan_write_failed(c) ==
    IF c.ostate # "closed"
    THEN LET d == chan_shutdown_write(c)
             e == IF c.ctype = "session" THEN Send(d, Msg("eow", 0)) ELSE d
         IN  [e EXCEPT !.ostate = "closed", !.failed = @ \cup {"write"}]
    ELSE c

\* Received: CLOSE.
chan_rcvd_close2(c) ==
    LET d == [c EXCEPT !.flags = @ \cup {"close_rcvd"}]
        e == IF d.istate = "drain" THEN chan_send_eof2(d) ELSE d
    IN  IF c.type = "larval"
        THEN [d EXCEPT !.istate = "closed", !.ostate = "closed"]
        ELSE [e EXCEPT !.istate = "closed",
                       !.ostate = IF @ = "open" THEN "drain" ELSE @]

\* Received: end of write.
chan_rcvd_eow(c) ==
    IF c.istate = "open" THEN [c EXCEPT !.istate = "closed"] ELSE c

\* Variant: EOF closes an output that still holds data.
ClosesAtEof(c) ==
    [chan_shutdown_write(c) EXCEPT !.flags = @ \cup {"eof_rcvd"}, !.ostate = "closed"]

\* Received: EOF.
chan_rcvd_ieof(c) ==
    LET d == [c EXCEPT !.flags = @ \cup {"eof_rcvd"},
                       !.ostate = IF @ = "open" THEN "drain" ELSE @]
    IN  IF CHANNEL_EFD_OUTPUT_ACTIVE(d) THEN d ELSE chan_obuf_empty(d)

chan_mark_dead(c) == [c EXCEPT !.type = "zombie"]

chan_send_close2(c) ==
    IF BothClosed(c) /\ "close_sent" \notin c.flags
    THEN Send([c EXCEPT !.flags = @ \cup {"close_sent"}], Msg("close", 0))
    ELSE c

\* chan_is_dead, its effect and its result: a channel whose halves are both
\* closed sends its CLOSE (if do_send), and is dead after both CLOSEs.
chan_is_dead_effect(c, do_send) ==
    IF c.type # "zombie" /\ do_send THEN chan_send_close2(c) ELSE c

\* Variant: does not wait for the CLOSE of the other end.
DeadWithoutReply(c, do_send) ==
    c.type = "zombie" \/ (BothClosed(c) /\ "close_sent" \in c.flags)

chan_is_dead(c, do_send) ==
    \/ c.type = "zombie"
    \/ /\ BothClosed(c)
       /\ \/ ~do_send /\ "close_sent" \notin c.flags /\ "close_rcvd" \in c.flags
          \/ {"close_sent", "close_rcvd"} \subseteq c.flags

-----------------------------------------------------------------------------
(* channels.c: before and after the select.                                *)

\* The callbacks: the client lets go of the channel at once, the server's
\* session when its program was reaped.
client_channel_closed(c) == [c EXCEPT !.detach = "none"]
session_close_by_channel(c) ==
    IF c.pid \in {"running", "exited", "killed"} THEN c
    ELSE [c EXCEPT !.detach = "none"]
detach_user(c) ==
    IF c.usage = "write" THEN client_channel_closed(c)
                         ELSE session_close_by_channel(c)

channel_garbage_collect(c) ==
    LET d == chan_is_dead_effect(c, c.detach = "close")
        e == IF c.detach = "none" THEN c ELSE detach_user(d)
        f == chan_is_dead_effect(e, TRUE)
    IN  IF c.detach # "none" /\ ~chan_is_dead(d, c.detach = "close") THEN d
        ELSE IF e.detach # "none" THEN e
        ELSE IF chan_is_dead(f, TRUE) THEN channel_free(f) ELSE f

\* Which descriptors to wait for.  A drained output is closed here.
channel_pre_open(c) ==
    LET d == IF /\ c.ostate = "drain" /\ c.output = 0
                /\ ~CHANNEL_EFD_OUTPUT_ACTIVE(c)
             THEN chan_obuf_empty(c) ELSE c
        r == c.istate = "open" /\ c.input < c.remote_window
        w == c.ostate # "closed" /\ c.output > 0
        e == /\ d.efd /\ ~BothClosed(d)
             /\ \/ d.usage = "write" /\ d.extended > 0
                \/ /\ d.usage # "write" /\ "eof_sent" \notin d.flags
                   /\ d.extended < d.remote_window
    IN  [d EXCEPT !.sel = (IF r THEN {"rfd"} ELSE {})
                          \cup (IF w THEN {"wfd"} ELSE {})
                          \cup (IF e THEN {"efd"} ELSE {})]

channel_prepare_select(c) ==
    LET d == CASE c.type = "open" -> channel_pre_open(c)
               [] c.type = "connecting" -> [c EXCEPT !.sel = {"wfd"}]
               [] OTHER -> [c EXCEPT !.sel = {}]
    IN  channel_garbage_collect(d)

\* What read() and write() returned: a number of bytes, or one of these.
Again == 0      \* EAGAIN, or select did not report the descriptor
Ended == -1     \* end of file, or an error

channel_handle_rfd(c, r) ==
    IF "rfd" \notin c.sel THEN c
    ELSE IF r = Ended THEN chan_read_failed(c)
    ELSE [c EXCEPT !.input = @ + r, !.rd = @ + r]

channel_handle_wfd(c, w) ==
    IF "wfd" \notin c.sel \/ c.output = 0 THEN c
    ELSE IF w = Ended THEN chan_write_failed(c)
    ELSE [c EXCEPT !.output = @ - w, !.wr = @ + w, !.local_consumed = @ + w]

\* stderr: written by the client, read by the server.  Once the program has
\* exited, a read that would block ends the stream, too.
channel_handle_efd(c, e) ==
    CASE c.efd /\ c.usage = "write" /\ "efd" \in c.sel /\ c.extended > 0 ->
            IF e = Ended THEN [c EXCEPT !.efd = FALSE, !.failed = @ \cup {"efd"}]
            ELSE [c EXCEPT !.extended = @ - e, !.ewr = @ + e,
                           !.local_consumed = @ + e]
      [] c.efd /\ c.usage = "read" /\ ("efd" \in c.sel \/ c.detach = "close") ->
            IF e = Ended \/ (e = Again /\ c.detach = "close")
            THEN [c EXCEPT !.efd = FALSE]
            ELSE [c EXCEPT !.extended = @ + e, !.erd = @ + e]
      [] OTHER -> c

\* Variant: the flags are not looked at.
AdjustsAfterClose(c) ==
    IF c.type = "open" /\ c.local_consumed > 0
    THEN Send([c EXCEPT !.local_window = @ + c.local_consumed,
                        !.local_consumed = 0],
              Msg("adjust", c.local_consumed))
    ELSE c

\* The consumed part of the window is given back when enough of it is used.
channel_check_window(c) ==
    IF /\ c.type = "open" /\ c.flags \cap {"close_sent", "close_rcvd"} = {}
       /\ \/ c.local_window_max - c.local_window > 3 * MaxPacket
          \/ c.local_window < c.local_window_max \div 2
       /\ c.local_consumed > 0
    THEN Send([c EXCEPT !.local_window = @ + c.local_consumed,
                        !.local_consumed = 0],
              Msg("adjust", c.local_consumed))
    ELSE c

channel_post_open(c, r, w, e) ==
    channel_check_window(
        channel_handle_efd(channel_handle_wfd(channel_handle_rfd(c, r), w), e))

\* The connection to the target of a forwarding came about, or failed for
\* the last address.
channel_post_connecting(c, w) ==
    CASE w > 0 -> Send([c EXCEPT !.type = "open"],
                       Msg("confirm", c.local_window))
      [] w = Ended -> Send(chan_mark_dead(c), Msg("failure", 0))
      [] OTHER -> c

channel_after_select(c, r, w, e) ==
    LET d == CASE c.type = "open" -> channel_post_open(c, r, w, e)
               [] c.type = "connecting" -> channel_post_connecting(c, w)
               [] OTHER -> c
    IN  [channel_garbage_collect(d) EXCEPT !.sel = {}]

\* Send what the window of the other end allows: first from the input, or
\* the EOF, then from stderr.
channel_output_poll(c) ==
    LET Least(a, b) == IF a < b THEN a ELSE b
        Len3(n, win) == Least(Least(n, win), MaxPacket)
        n == Len3(c.input, c.remote_window)
        d == IF c.istate # "closed" /\ c.input > 0
             THEN IF n > 0
                  THEN Send([c EXCEPT !.input = @ - n, !.remote_window = @ - n],
                            Msg("data", n))
                  ELSE c
             ELSE IF c.istate = "drain" /\ ~CHANNEL_EFD_INPUT_ACTIVE(c)
                  THEN chan_ibuf_empty(c) ELSE c
        k == Len3(d.extended, d.remote_window)
    IN  IF c.type # "open" \/ c.flags \cap {"close_sent", "close_rcvd"} # {}
        THEN c
        ELSE IF "eof_sent" \notin d.flags /\ k > 0 /\ d.usage = "read"
        THEN Send([d EXCEPT !.extended = @ - k, !.remote_window = @ - k],
                  Msg("ext", k))
        ELSE d

-----------------------------------------------------------------------------
(* Messages.                                                               *)

\* Data for an output that is no longer open counts as consumed at once.
channel_input_data(c, n) ==
    IF ~channel_lookup(c) THEN packet_disconnect(c)
    ELSE IF c.type # "open" THEN c
    ELSE IF c.ostate # "open"
    THEN [c EXCEPT !.local_window = @ - n, !.local_consumed = @ + n]
    ELSE IF n > c.local_window THEN c
    ELSE [c EXCEPT !.local_window = @ - n, !.output = @ + n]

\* Variant: stderr is not counted in the window.
UncountedStderr(c, n) ==
    IF ~channel_lookup(c) \/ "eof_rcvd" \in c.flags THEN packet_disconnect(c)
    ELSE IF c.efd THEN [c EXCEPT !.extended = @ + n] ELSE c

channel_input_extended_data(c, n) ==
    IF ~channel_lookup(c) THEN packet_disconnect(c)
    ELSE IF c.type # "open" THEN c
    ELSE IF "eof_rcvd" \in c.flags THEN packet_disconnect(c)
    ELSE IF ~c.efd \/ c.usage # "write" \/ n > c.local_window THEN c
    ELSE [c EXCEPT !.local_window = @ - n, !.extended = @ + n]

channel_input_ieof(c) ==
    IF channel_lookup(c) THEN chan_rcvd_ieof(c) ELSE packet_disconnect(c)

channel_input_oclose(c) ==
    IF channel_lookup(c) THEN chan_rcvd_close2(c) ELSE packet_disconnect(c)

\* The callback of a session asks for a shell.
channel_input_open_confirmation(c, n) ==
    IF c.type # "opening" THEN packet_disconnect(c)
    ELSE LET d == [c EXCEPT !.type = "open", !.remote_window = n]
         IN  IF c.ctype = "session" THEN Send(d, Msg("shell", 0)) ELSE d

channel_input_open_failure(c) ==
    IF c.type # "opening" THEN packet_disconnect(c) ELSE chan_mark_dead(c)

channel_input_window_adjust(c, n) ==
    IF channel_lookup(c) THEN [c EXCEPT !.remote_window = @ + n] ELSE c

\* Variant: the callback of a session is registered with do_close = 1.
ClosesEarly(c, ctype, n, ok) ==
    IF ~ok THEN Send(c, Msg("failure", 0))
    ELSE Send([channel_new(c, ctype, "larval", 0)
                  EXCEPT !.remote_window = n, !.detach = "close"],
              Msg("confirm", 0))

\* A session is larval and has no window until its program runs.  ok: the
\* server has room for a session, or lets the connection start.
server_input_channel_open(c, ctype, n, ok) ==
    IF ~ok THEN Send(c, Msg("failure", 0))
    ELSE IF ctype = "session"
    THEN Send([channel_new(c, ctype, "larval", 0)
                  EXCEPT !.remote_window = n, !.detach = "wait"],
              Msg("confirm", 0))
    ELSE [channel_new(c, ctype, "connecting", Window) EXCEPT !.remote_window = n]

channel_set_fds(c) ==
    Send([c EXCEPT !.type = "open", !.efd = TRUE, !.usage = "read",
                   !.local_window = Window, !.local_window_max = Window],
         Msg("adjust", Window))

\* The program is started, and its descriptors make the channel open.  When
\* a pipe or the process cannot be made (not ok) nothing changes.
do_exec_no_pty(c, ok) ==
    IF ok THEN channel_set_fds([c EXCEPT !.pid = "running"]) ELSE c

session_input_channel_req(c, ok) ==
    IF c.type = "larval" THEN do_exec_no_pty(c, ok) ELSE c

\* The request for a shell is the one that wants a reply.
server_input_channel_req(c, t, ok) ==
    IF ~channel_lookup(c) THEN packet_disconnect(c)
    ELSE IF t = "eow" THEN chan_rcvd_eow(c)
    ELSE IF t = "shell"
    THEN Send(session_input_channel_req(c, ok),
              Msg(IF c.type = "larval" /\ ok THEN "channel-success"
                                             ELSE "channel-failure", 0))
    ELSE c

\* exit-signal is not looked at.
client_input_channel_req(c, t) ==
    IF ~channel_lookup(c) THEN c
    ELSE IF t = "eow" THEN chan_rcvd_eow(c)
    ELSE IF t = "exit-status" THEN [c EXCEPT !.status = TRUE] ELSE c

\* The reply to the request for a shell: without one, client_status_confirm
\* is fatal for the session of the client (session_ident).
channel_input_status_confirm(c, t) ==
    IF channel_lookup(c) /\ t = "channel-failure" THEN packet_disconnect(c) ELSE c

Dispatch(p, c, m, ok) ==
    CASE m.t = "data" -> channel_input_data(c, m.n)
      [] m.t = "ext" -> channel_input_extended_data(c, m.n)
      [] m.t = "eof" -> channel_input_ieof(c)
      [] m.t = "close" -> channel_input_oclose(c)
      [] m.t = "adjust" -> channel_input_window_adjust(c, m.n)
      [] m.t = "confirm" -> channel_input_open_confirmation(c, m.n)
      [] m.t = "failure" -> channel_input_open_failure(c)
      [] m.t \in {"channel-success", "channel-failure"} ->
            channel_input_status_confirm(c, m.t)
      [] m.t \in {"shell", "eow", "exit-status", "exit-signal"} ->
            IF p = "server" THEN server_input_channel_req(c, m.t, ok)
                            ELSE client_input_channel_req(c, m.t)
      [] OTHER -> server_input_channel_open(c, m.t, m.n, ok)

-----------------------------------------------------------------------------
(* Actions.                                                                *)

Init == ch = [p \in Peers |-> NoChannel]

Alive == \A p \in Peers : ~ch[p].fatal

\* The client asks for a session; client_loop registers its callback.
ssh_session2_open ==
    /\ "session" \in Ctypes /\ ch["client"].type = "none"
    /\ ch' = [ch EXCEPT !["client"] =
                 Send([channel_new(@, "session", "opening", Window)
                          EXCEPT !.efd = TRUE, !.usage = "write", !.detach = "wait"],
                      Msg("session", Window))]

\* Somebody connects to a forwarded port of the client.
channel_post_port_listener ==
    /\ "direct-tcpip" \in Ctypes /\ ch["client"].type = "none"
    /\ ch' = [ch EXCEPT !["client"] =
                 Send(channel_new(@, "direct-tcpip", "opening", Window),
                      Msg("direct-tcpip", Window))]

\* process_buffered_input_packets: the next message of the other end.  ok:
\* the answer of the server, if the message opens a channel or asks for a shell.
process_buffered_input_packets(p) ==
    /\ Alive /\ ch[Other(p)].wire # <<>>
    /\ \E ok \in BOOLEAN :
          ch' = [ch EXCEPT ![p] = Dispatch(p, @, Head(ch[Other(p)].wire), ok),
                           ![Other(p)].wire = Tail(@)]

\* The loop polls the channel for output, unless too much is waiting to be
\* written to the connection (poll), and prepares the select.
BeforeSelect(p, poll) ==
    channel_prepare_select(IF poll THEN channel_output_poll(ch[p]) ELSE ch[p])

\* What the applications may do with the descriptors of p: the results of
\* the reads and writes that the handlers after the select perform.
Readable(p, c) ==
    IF "rfd" \in c.sel
    THEN {n \in Ended..RBuf : c.rd + n <= Bytes[c.ctype][p]} ELSE {Again}
Writable(c) ==
    IF "wfd" \in c.sel
    THEN IF c.type = "connecting" THEN {Ended, Again, 1} ELSE Ended..c.output
    ELSE {Again}
ErrReady(c) ==
    IF c.usage = "write"
    THEN IF "efd" \in c.sel THEN Ended..c.extended ELSE {Again}
    ELSE IF c.efd /\ ("efd" \in c.sel \/ c.detach = "close")
         THEN {n \in Ended..1 : c.erd + n <= ErrBytes} ELSE {Again}

\* How the program ended: WIFEXITED or WIFSIGNALED.
Exiting(c) == IF c.pid = "exited" THEN "exit-status" ELSE "exit-signal"

\* Variant: the callback is not registered again with do_close = 1.
ExitKeepsCallback(c) ==
    chan_write_failed(Send(c, Msg(Exiting(c), 0)))

\* session_close_by_pid sends the exit status or the signal, lets the garbage
\* collector send CLOSE, and gives up the input of the program.
session_exit_message(c) ==
    IF channel_lookup(c)
    THEN chan_write_failed([Send(c, Msg(Exiting(c), 0)) EXCEPT !.detach = "close"])
    ELSE packet_disconnect(c)
session_close_by_pid(c) ==
    [session_exit_message(c)
        EXCEPT !.pid = IF c.pid = "exited" THEN "reaped" ELSE "reaped_killed"]

\* After the select, before the handlers.
collect_children(c) ==
    IF c.pid \in {"exited", "killed"} THEN session_close_by_pid(c) ELSE c

\* The rest of an iteration of the loop of p.
Running(p) == Alive /\ ch[p].type \notin {"none", "free"}
Loop(p) ==
    /\ Running(p)
    /\ \E c \in {collect_children(BeforeSelect(p, poll)) : poll \in BOOLEAN} :
       \E r \in Readable(p, c), w \in Writable(c), e \in ErrReady(c) :
          ch' = [ch EXCEPT ![p] = channel_after_select(c, r, w, e)]

\* The program of a session ends, by itself or by a signal.
Exit ==
    /\ Alive /\ ch["server"].pid = "running"
    /\ \E end \in {"exited", "killed"} : ch' = [ch EXCEPT !["server"].pid = end]

Next ==
    \/ ssh_session2_open
    \/ channel_post_port_listener
    \/ \E p \in Peers : process_buffered_input_packets(p) \/ Loop(p)
    \/ Exit

ChannelSpec == Init /\ [][Next]_ch
-----------------------------------------------------------------------------
(* Fairness.  Both main loops run, get the messages and poll for output.   *)
(* An application takes what is written to it.  Fairness is written out,   *)
(* []<>g => []<><<A>>, where g says that A can change the channel.         *)

\* What is selected for writing is written, or fails; reads have one result.
Takes(c, w, e) ==
    /\ w # Again \/ Writable(c) = {Again}
    /\ c.usage = "write" => e # Again \/ ErrReady(c) = {Again}
Ends(p, c, r, e) ==
    /\ r = Ended \/ Readable(p, c) = {Again}
    /\ c.usage = "read" => e = Ended \/ ErrReady(c) = {Again}

\* The outcomes for p of an iteration that polls and in which the application
\* takes what is written, and has ended.
Outcomes(p) ==
    LET c == collect_children(BeforeSelect(p, TRUE)) IN
    {channel_after_select(c, x[1], x[2], x[3]) :
        x \in {y \in Readable(p, c) \X Writable(c) \X ErrReady(c) :
                  Takes(c, y[2], y[3]) /\ Ends(p, c, y[1], y[3])}}

\* If iterations of p with these outcomes can always again change the
\* channel, then they happen always again.
FairLoop(p) ==
    []<>(Running(p) /\ Outcomes(p) # {ch[p]})
       => []<><<\E o \in Outcomes(p) : ch' = [ch EXCEPT ![p] = o]>>_ch

Fair == WF_ch(ssh_session2_open) /\ WF_ch(channel_post_port_listener)

FairSpec ==
    /\ ChannelSpec /\ Fair /\ WF_ch(Exit)
    /\ \A p \in Peers : WF_ch(process_buffered_input_packets(p)) /\ FairLoop(p)

-----------------------------------------------------------------------------
(* Properties.                                                             *)

\* The bytes in the messages of some types in w, a byte being its message's
\* place and its place in the message; and the number of those under way
\* from p.
BytesOf(w, types) ==
    UNION {{i} \X (1..w[i].n) : i \in {j \in DOMAIN w : w[j].t \in types}}
Under(p, types) == Cardinality(BytesOf(ch[p].wire, types))

\* The part of its window that an end has granted or can grant again.
Held(q) ==
    ch[q].local_window + ch[q].output + ch[q].local_consumed
    + IF ch[q].usage = "write" THEN ch[q].extended ELSE 0
WindowLost(q) == Held(q) < ch[q].local_window_max

\* The windows of a sender and a receiver agree: what the sender may still
\* send, with the data and the window on their way, is never more than the
\* receiver's local_window, so that no data is ever "too much"
\* (channels.c:2353, :2402); and local_window with what is buffered and
\* consumed never exceeds the maximum.  Both are equal while both ends are
\* open and nothing failed, so that no part of the window is lost.  All fields
\* have their types; u_int local_window (:2342, where nothing is compared)
\* never wraps.
WindowsAgree ==
    \A p \in Peers :
       LET q == Other(p)
           used == ch[p].remote_window + Under(p, {"data", "ext"})
                   + Under(q, Ctypes \cup {"confirm", "adjust"})
           well == ch[p].type = "open" /\ ch[q].type = "open" /\ ch[q].failed = {}
       IN  /\ ch[q] \in Channel
           /\ ch[q].type # "free" => used <= ch[q].local_window
           /\ Held(q) <= ch[q].local_window_max
           /\ well => used = ch[q].local_window /\ ~WindowLost(q)

\* No packet_disconnect and no fatal: no message arrives for a channel that
\* was freed or never opened, no stderr after EOF (channels.c:2320, :2390,
\* :2425, :2486), and the exit of a program finds its channel
\* (session.c:2426), in whatever order the two ends and the program end.  The
\* one exception is meant: the client gives up (clientloop.c:802) when the
\* server could not start the program of the session, whose channel then still
\* waits for one.
NoDisconnect ==
    /\ ~ch["server"].fatal
    /\ ch["client"].fatal =>
          ch["server"].type = "larval" /\ ch["server"].pid = "none"

\* An output that closed without a failure delivered everything that the
\* other application wrote, stderr included: EOF and CLOSE never overtake
\* data at either end.
NothingTruncated ==
    \A p \in Peers :
       LET q == Other(p) IN
       ch[q].ostate = "closed" /\ "write" \notin ch[q].failed
          => /\ ch[q].wr = ch[p].rd
             /\ "efd" \notin ch[q].failed => ch[q].ewr = ch[p].erd

\* A client's session channel is freed only after the program has ended and
\* was reaped, and by then the client has its exit status if it exited
\* (session.c:2431, clientloop.c:2041).  For a program that a signal killed it
\* never has one: the server sends exit-signal instead (session.c:2435), which
\* the client does not look at, and ssh keeps the exit_status it began with.
StatusBeforeFree ==
    ch["client"].type = "free" /\ ch["server"].pid # "none"
       => /\ ch["server"].pid \in {"reaped", "reaped_killed"}
          /\ ch["client"].status <=> ch["server"].pid = "reaped"

\* After its CLOSE an end sends nothing more, and after its EOF no data
\* (channels.c:2202, :2281, nchan.c:377), also not in the iteration in which it
\* sends them.
SilentAfterClose ==
    [][\A p \in Peers :
         \A i \in Len(ch[p].wire) + 1 .. Len(ch[p].wire') :
            /\ "close_sent" \notin ch[p].flags
            /\ "eof_sent" \in ch[p].flags =>
                  ch[p].wire'[i].t \notin {"data", "ext", "eof"}
            /\ \A j \in 1..(i - 1) :
                  /\ ch[p].wire'[j].t # "close"
                  /\ ch[p].wire'[j].t = "eof" =>
                        ch[p].wire'[i].t \notin {"data", "ext", "eof"}]_ch

\* When the applications and the program end, both channels are freed,
\* whatever failed on the way (channel_garbage_collect, channels.c:2062),
\* unless both ends have lost a part of the window: a failed write clears
\* the output (nchan.c:490) without counting it as consumed, and then each
\* end may wait for a window that never comes.  The connection ends instead
\* when the program could not be started (NoDisconnect).
BothFreed ==
    \A p \in Peers :
       ch[p].type # "none"
          ~> \/ ch[p].type = "free" \/ ~Alive
             \/ \A q \in Peers : WindowLost(q)
=============================================================================
