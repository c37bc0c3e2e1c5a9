-------------------------- MODULE SshChannelProofs --------------------------
(***************************************************************************)
(* Proofs about SshChannel: the safety properties of a channel hold for    *)
(* every window, packet and buffer size, and whatever the applications     *)
(* write.                                                                  *)
(***************************************************************************)
EXTENDS SshChannelSteps

(* The messages of an established channel.                                 *)

\* Who can get which message: only an open channel gets one, unless it is the
\* confirmation, and nothing of the opening comes twice.
LEMMA Receives ==
    ASSUME Counted, NEW x, NEW y, Established(x, y), y.wire # <<>>
    PROVE  LET t == Head(y.wire).t IN
           /\ t \notin Setup \ {"confirm"}
           /\ IF t = "confirm" THEN x.type = "opening" ELSE x.type = "open"
           /\ t \in {"data", "ext", "eof", "close", "adjust", "confirm", "eow",
                     "channel-success", "exit-status", "exit-signal"}
           /\ t = "ext" => x.usage = "write" /\ "eof_rcvd" \notin x.flags
           /\ t = "data" /\ x.ostate = "open"
              => ~(Head(y.wire).n > x.local_window)
<1> DEFINE t == Head(y.wire).t
<1>1. Known(x, y)
  BY KnownOf
<1>2. y.wire \in Seq(Messages)
  BY <1>1 DEF Known, Typed
<1>3. Tailed(y.wire, Tail(y.wire), t, Head(y.wire).n)
  BY <1>2, Taking
<1>4. Head(y.wire) \in Messages
  BY <1>2
<1>5. t \in {"session", "direct-tcpip", "confirm", "failure", "shell",
             "channel-success", "channel-failure", "exit-status",
             "exit-signal", "data", "ext", "eof", "eow", "close", "adjust"}
  BY <1>4, ChannelConstants, Zenon DEF Messages
<1> HIDE DEF t
<1>6. 1 \in 1..Len(y.wire) /\ y.wire[1].t = t
  BY <1>3 DEF Tailed
<1>7. /\ Opens(x, x.type, y.wire, y.type) /\ Freed(x.type, x.flags, x.fatal)
      /\ Closes(y.wire, y.flags, x.flags) /\ Carries(y.wire, y.failed, x.usage)
  BY <1>1, Zenon DEF Known, OneWay, LocalInv
<1>8. x.type # "free"
  BY <1>7 DEF Freed, Closes
<1>9. /\ t \notin Setup \ {"confirm"}
      /\ IF t = "confirm" THEN x.type = "opening" ELSE x.type = "open"
  BY <1>6, <1>7, <1>8 DEF Opens, Setup
<1>10. t = "ext" => x.usage = "write" /\ "eof_rcvd" \notin x.flags
  BY <1>1, <1>3, <1>6, <1>7, <1>9, Fits, Zenon DEF Carries
<1>11. t = "data" => Head(y.wire).n <= x.local_window
  BY <1>1, <1>3, <1>9, Fits, Zenon
<1>12. x.local_window \in Nat /\ Head(y.wire).n \in Nat
  BY <1>1, <1>3 DEF Known, Typed, UsedNums, Tailed
<1>13. t = "data" => ~(Head(y.wire).n > x.local_window)
  BY <1>11, <1>12
<1> QED
  BY <1>5, <1>9, <1>10, <1>13 DEF t, Setup

\* channel_input_ieof
LEMMA ReceivesEof ==
    ASSUME Counted, NEW x, NEW y, Established(x, y), y.wire # <<>>,
           Head(y.wire).t = "eof", x.type = "open"
    PROVE  LET z == chan_rcvd_ieof(x) IN
           Keeps(x, z, Took(y)) /\ z.sel = x.sel
<1> DEFINE d == TakeEof(x)
<1>1. x \in Channel
  BY DEF Established
<1>2. chan_rcvd_ieof(x) =
         IF CHANNEL_EFD_OUTPUT_ACTIVE(d) THEN d ELSE chan_obuf_empty(d)
  BY DEF chan_rcvd_ieof, TakeEof, Drained
<1>3. Keeps(x, d, Took(y))
  BY TakesEof
<1>4. d.type = "open" /\ d.sel = x.sel
  BY <1>1 DEF TakeEof, Channel
<1> HIDE DEF d
<1>5. d \in Channel /\ Established(d, Took(y))
  BY <1>3, KeepsTyped
<1>6. CASE CHANNEL_EFD_OUTPUT_ACTIVE(d) \/ chan_obuf_empty(d) = d
  BY <1>2, <1>3, <1>4, <1>6
<1>7. CASE ~CHANNEL_EFD_OUTPUT_ACTIVE(d) /\ chan_obuf_empty(d) # d
  <2>1. d.ostate = "drain" /\ d.output = 0
    BY <1>7 DEF chan_obuf_empty
  <2>2. d.extended \in Nat /\ d.efd \in BOOLEAN
    BY <1>5 DEF Channel
  <2>3. d.usage = "write" => ~d.efd \/ d.extended = 0
    BY <1>7, <2>2 DEF CHANNEL_EFD_OUTPUT_ACTIVE
  <2>4. chan_obuf_empty(d) = CloseOutput(d)
    BY <1>5, <2>1 DEF chan_obuf_empty, chan_shutdown_write, CloseOutput, Channel
  <2>5. Keeps(d, CloseOutput(d), Took(y))
    BY <1>4, <1>5, <2>1, <2>3, ClosesOutput
  <2>6. CloseOutput(d).sel = x.sel
    BY <1>4, <1>5 DEF CloseOutput, Channel
  <2> QED
    BY <1>1, <1>2, <1>3, <1>7, <2>4, <2>5, <2>6, KeepsThen
<1> QED
  BY <1>6, <1>7

\* channel_input_oclose
LEMMA ReceivesClose ==
    ASSUME Counted, NEW x, NEW y, Established(x, y), y.wire # <<>>,
           Head(y.wire).t = "close", x.type = "open"
    PROVE  LET z == chan_rcvd_close2(x) IN
           Keeps(x, z, Took(y)) /\ z.sel = x.sel
<1>1. x \in Channel
  BY DEF Established
<1>2. CASE x.istate = "drain"
  <2> DEFINE d == [x EXCEPT !.flags = @ \cup {"close_rcvd"}]
             g == [d EXCEPT !.flags = @ \cup {"eof_sent"}]
             h == [x EXCEPT !.flags = @ \cup {"close_rcvd", "eof_sent"}]
  <2>3. d.istate = "drain" /\ d.flags = x.flags \cup {"close_rcvd"}
    BY <1>1, <1>2 DEF Channel
  <2>4. chan_rcvd_close2(x) = [Send(g, Msg("eof", 0)) EXCEPT !.istate = "closed",
                                  !.ostate = Drained(@)]
    BY <2>3 DEF chan_rcvd_close2, chan_send_eof2, Drained
  <2>5. (x.flags \cup {"close_rcvd"}) \cup {"eof_sent"}
           = x.flags \cup {"close_rcvd", "eof_sent"}
    OBVIOUS
  <2>6. g = h
    BY <1>1, <2>5, Zenon DEF Channel
  <2>1. chan_rcvd_close2(x) = AnswerClose(x)
    BY <2>4, <2>6, Zenon DEF AnswerClose
  <2>2. AnswerClose(x).sel = x.sel
    BY <1>1 DEF AnswerClose, Send, Channel
  <2> QED
    BY <1>2, <2>1, <2>2, AnswersClose
<1>3. CASE x.istate # "drain"
  <2>1. chan_rcvd_close2(x) = TakeClose(x)
    BY <1>1, <1>3 DEF chan_rcvd_close2, TakeClose, Drained, Channel
  <2>2. TakeClose(x).sel = x.sel
    BY <1>1 DEF TakeClose, Channel
  <2> QED
    BY <1>3, <2>1, <2>2, TakesClose
<1> QED
  BY <1>2, <1>3

\* Dispatch: every message keeps the invariant.  A client has no program, and
\* sends no exit status.
LEMMA Dispatches ==
    ASSUME Counted, NEW p \in Peers, NEW x, NEW y, Established(x, y),
           y.wire # <<>>,
           p = "server" => y.usage # "read", NEW ok \in BOOLEAN
    PROVE  LET z == Dispatch(p, x, Head(y.wire), ok) IN
           Keeps(x, z, Took(y)) /\ z.sel = x.sel
<1> DEFINE m == Head(y.wire)
           z == Dispatch(p, x, m, ok)
<1>1. x \in Channel
  BY DEF Established
<1>2. /\ IF m.t = "confirm" THEN x.type = "opening" ELSE x.type = "open"
      /\ m.t \in {"data", "ext", "eof", "close", "adjust", "confirm", "eow",
                  "channel-success", "exit-status", "exit-signal"}
      /\ m.t = "ext" => x.usage = "write" /\ "eof_rcvd" \notin x.flags
      /\ m.t = "data" /\ x.ostate = "open" => ~(m.n > x.local_window)
  BY Receives
<1>3. m.t # "confirm" => x.type = "open" /\ channel_lookup(x)
  BY <1>2 DEF channel_lookup
<1>4. CASE m.t = "data" /\ x.ostate = "open"
  <2>1. z = TakeData(x, m.n)
    BY <1>2, <1>3, <1>4 DEF Dispatch, channel_input_data, TakeData
  <2>2. TakeData(x, m.n).sel = x.sel
    BY <1>1 DEF TakeData, Channel
  <2> QED
    BY <1>3, <1>4, <2>1, <2>2, TakesData
<1>5. CASE m.t = "data" /\ x.ostate # "open"
  <2>3. z = channel_input_data(x, m.n)
    BY <1>5 DEF Dispatch
  <2>1. z = DropData(x, m.n)
    BY <1>3, <1>5, <2>3 DEF channel_input_data, DropData
  <2>2. DropData(x, m.n).sel = x.sel
    BY <1>1 DEF DropData, Channel
  <2> QED
    BY <1>3, <1>5, <2>1, <2>2, DropsData
<1>6. CASE m.t = "ext" /\ x.efd
  <2>1. x.efd = TRUE
    BY <1>1, <1>6 DEF Channel
  <2>2. Known(x, y)
    BY KnownOf
  <2>3. y.wire \in Seq(Messages) /\ x.local_window \in Nat
    BY <2>2 DEF Known, Typed, UsedNums
  <2>4. Tailed(y.wire, Tail(y.wire), m.t, m.n)
    BY <2>3, Taking
  <2>5. m.n <= x.local_window /\ m.n \in Nat
    BY <1>3, <1>6, <2>2, <2>4, Fits, Zenon DEF Tailed
  <2>6. ~(m.n > x.local_window)
    BY <2>3, <2>5
  <2>7. z = TakeErr(x, m.n)
    BY <1>2, <1>3, <1>6, <2>6 DEF Dispatch, channel_input_extended_data, TakeErr
  <2>8. TakeErr(x, m.n).sel = x.sel
    BY <1>1 DEF TakeErr, Channel
  <2> QED
    BY <1>2, <1>3, <1>6, <2>1, <2>7, <2>8, TakesErr, ZenonT(40)
<1>7. CASE m.t = "ext" /\ ~x.efd
  <2>1. x.efd = FALSE
    BY <1>1, <1>7 DEF Channel
  <2>2. z = x
    BY <1>2, <1>3, <1>7 DEF Dispatch, channel_input_extended_data
  <2> QED
    BY <1>2, <1>3, <1>7, <2>1, <2>2, DropsErr, Zenon
<1>8. CASE m.t = "eof"
  <2>1. z = chan_rcvd_ieof(x)
    BY <1>3, <1>8 DEF Dispatch, channel_input_ieof
  <2> QED
    BY <1>3, <1>8, <2>1, ReceivesEof
<1>9. CASE m.t = "close"
  <2>1. z = chan_rcvd_close2(x)
    BY <1>3, <1>9 DEF Dispatch, channel_input_oclose
  <2> QED
    BY <1>3, <1>9, <2>1, ReceivesClose
<1>10. CASE m.t = "adjust"
  <2>1. z = TakeAdjust(x, m.n)
    BY <1>3, <1>10 DEF Dispatch, channel_input_window_adjust, TakeAdjust
  <2>2. TakeAdjust(x, m.n).sel = x.sel
    BY <1>1 DEF TakeAdjust, Channel
  <2> QED
    BY <1>3, <1>10, <2>1, <2>2, TakesAdjust
<1>11. CASE m.t = "confirm"
  <2>1. x.type = "opening" /\ Opens(x, x.type, y.wire, y.type)
    BY <1>2, <1>11, Zenon DEF Established, OneWay
  <2>3. x.ctype = "direct-tcpip"
    BY <2>1 DEF Opens, IsClient
  <2>4. z = TakeConfirm(x, m.n)
    BY <1>11, <2>1, <2>3 DEF Dispatch, channel_input_open_confirmation,
       TakeConfirm
  <2>5. TakeConfirm(x, m.n).sel = x.sel
    BY <1>1 DEF TakeConfirm, Channel
  <2> QED
    BY <1>11, <2>1, <2>4, <2>5, TakesConfirm
<1>12. CASE m.t = "eow" /\ x.istate = "open"
  <2>1. z = TakeEow(x)
    BY <1>3, <1>12 DEF Dispatch, server_input_channel_req,
                       client_input_channel_req, chan_rcvd_eow, TakeEow
  <2>2. TakeEow(x).sel = x.sel
    BY <1>1 DEF TakeEow, Channel
  <2> QED
    BY <1>3, <1>12, <2>1, <2>2, TakesEow
<1>13. CASE m.t = "eow" /\ x.istate # "open"
  <2>1. z = x
    BY <1>3, <1>13 DEF Dispatch, server_input_channel_req,
                       client_input_channel_req, chan_rcvd_eow
  <2> QED
    BY <1>3, <1>13, <2>1, IgnoresEow
<1>14. CASE m.t = "exit-status" /\ p = "server"
  <2>1. /\ Program(y.pid, y.type, y.detach, y.flags, y.usage)
        /\ Status(y.pid, y.wire, x.status) /\ y \in Channel
    BY Zenon DEF Established, LocalInv, OneWay
  <2>2. y.pid # "reaped"
    BY <1>14, <2>1 DEF Program
  <2>3. 1 \in 1..Len(y.wire) /\ y.wire[1] = m
    BY <2>1 DEF Channel
  <2> QED
    BY <1>14, <2>1, <2>2, <2>3 DEF Status
<1>15. CASE m.t = "exit-status" /\ p # "server"
  <2>1. z = TakeStatus(x)
    BY <1>3, <1>15 DEF Dispatch, client_input_channel_req, TakeStatus
  <2>2. TakeStatus(x).sel = x.sel
    BY <1>1 DEF TakeStatus, Channel
  <2> QED
    BY <1>3, <1>15, <2>1, <2>2, TakesStatus
<1>16. CASE m.t \in {"channel-success", "exit-signal"}
  <2>1. z = x
    BY <1>3, <1>16 DEF Dispatch, channel_input_status_confirm,
                       server_input_channel_req, client_input_channel_req
  <2> QED
    BY <1>3, <1>16, <2>1, IgnoresMessage, Zenon
<1> QED
  BY <1>2, <1>4, <1>5, <1>6, <1>7, <1>8, <1>9, <1>10, <1>11, <1>12, <1>13,
     <1>14, <1>15, <1>16, SMTT(30)

-----------------------------------------------------------------------------
(* A channel that is being opened.                                         *)

\* A channel that is not closed is not collected.
LEMMA KeepsUnclosed ==
    ASSUME NEW x, x.istate # "closed", x.type # "zombie"
    PROVE  channel_garbage_collect(x) = x
<1>1. ~BothClosed(x)
  BY DEF BothClosed
<1>2. /\ chan_is_dead_effect(x, x.detach = "close") = x
      /\ ~chan_is_dead(x, x.detach = "close")
      /\ chan_is_dead_effect(x, TRUE) = x /\ ~chan_is_dead(x, TRUE)
  BY <1>1 DEF chan_is_dead_effect, chan_send_close2, chan_is_dead
<1>3. CASE x.detach = "none"
  BY <1>2, <1>3, Zenon DEF channel_garbage_collect
<1>4. CASE x.detach # "none"
  BY <1>2, <1>4, Zenon DEF channel_garbage_collect
<1> QED
  BY <1>3, <1>4

\* Nothing happens in an iteration while the end waits for an answer.
LEMMA Waits ==
    ASSUME NEW x \in Channel, x.sel = {}, x.type \in {"opening", "larval"},
           x.istate = "open", x.pid = "none", NEW poll, NEW c,
           c = collect_children(channel_prepare_select(
                  IF poll THEN channel_output_poll(x) ELSE x)),
           NEW r, NEW w, NEW e
    PROVE  channel_after_select(c, r, w, e) = x
<1>1. channel_output_poll(x) = x
  BY Zenon DEF channel_output_poll
<1>2. [x EXCEPT !.sel = {}] = x
  BY DEF Channel
<1>3. channel_garbage_collect(x) = x
  BY KeepsUnclosed
<1>4. channel_prepare_select(x) = x
  BY <1>2, <1>3 DEF channel_prepare_select
<1>5. c = x
  BY <1>1, <1>4 DEF collect_children
<1> QED
  BY <1>2, <1>3, <1>5 DEF channel_after_select

\* A message is put into the wire of a new channel, or taken from it.
LEMMA Rewired ==
    ASSUME NEW x, NEW t, NEW w, NEW v \in Seq(Messages), NEW type
    PROVE  LET z == [x EXCEPT !.wire = v] IN
           /\ IsNone(x, w) => IsNone(z, v)
           /\ IsClient(x, t, w, type) => IsClient(z, t, v, type)
           /\ IsLarval(x, w) => IsLarval(z, v)
           /\ IsForward(x, type, w) => IsForward(z, type, v)
<1> DEFINE z == [x EXCEPT !.wire = v]
<1>1. ASSUME Fresh(x)
      PROVE  /\ Fresh(z) /\ z.type = x.type /\ z.ctype = x.ctype /\ z.efd = x.efd
             /\ z.usage = x.usage /\ z.local_window = x.local_window
             /\ z.remote_window = x.remote_window /\ z.detach = x.detach
             /\ z.pid = x.pid /\ z.wire = v
  BY <1>1, Zenon DEF Fresh, Channel, Messages
<1> HIDE DEF z
<1>2. /\ IsNone(x, w) => IsNone(z, v)
      /\ IsClient(x, t, w, type) => IsClient(z, t, v, type)
      /\ IsLarval(x, w) => IsLarval(z, v)
      /\ IsForward(x, type, w) => IsForward(z, type, v)
  BY <1>1 DEF IsNone, IsClient, IsLarval, IsForward
<1> QED
  BY <1>2 DEF z

\* The messages that open a channel.
LEMMA OpeningMessages ==
    /\ \A t \in Ctypes : Msg(t, Window) \in Messages
    /\ Msg("failure", 0) \in Messages /\ Msg("confirm", 0) \in Messages
    /\ Msg("shell", 0) \in Messages /\ Msg("adjust", Window) \in Messages
    /\ Msg("confirm", Window) \in Messages
    /\ Msg("channel-failure", 0) \in Messages
  BY ChannelConstants DEF Messages, Msg

\* A wire with one message.
LEMMA OneMessage ==
    ASSUME NEW m \in Messages
    PROVE  /\ <<m>> \in Seq(Messages) /\ <<m>> # <<>> /\ Len(<<m>>) = 1
           /\ Append(<<>>, m) = <<m>> /\ <<m>>[1] = m
           /\ Head(<<m>>) = m /\ Tail(<<m>>) = <<>>
           /\ <<>> \in Seq(Messages)
  OBVIOUS

\* The first message is sent (packet_send) and taken (packet_read).
LEMMA FirstMessage ==
    ASSUME NEW x, NEW t, NEW m \in Messages, NEW type
    PROVE  /\ IsNone(x, <<>>) => IsNone(Send(x, m), <<m>>)
           /\ IsClient(x, t, <<>>, type) => IsClient(Send(x, m), t, <<m>>, type)
           /\ IsLarval(x, <<>>) => IsLarval(Send(x, m), <<m>>)
           /\ IsForward(x, type, <<>>) => IsForward(Send(x, m), type, <<m>>)
           /\ IsNone(x, <<m>>) => IsNone(Took(x), <<>>)
           /\ IsClient(x, t, <<m>>, type) => IsClient(Took(x), t, <<>>, type)
           /\ IsLarval(x, <<m>>) => IsLarval(Took(x), <<>>)
           /\ IsForward(x, type, <<m>>) => IsForward(Took(x), type, <<>>)
<1>1. /\ <<m>> \in Seq(Messages) /\ <<>> \in Seq(Messages)
      /\ Append(<<>>, m) = <<m>> /\ Tail(<<m>>) = <<>>
  BY OneMessage
<1> DEFINE v == <<m>>
           u == <<>>
<1>2. x.wire = u => Send(x, m) = [x EXCEPT !.wire = v]
  BY <1>1, Zenon DEF Send
<1>3. x.wire = v => Took(x) = [x EXCEPT !.wire = u]
  BY <1>1, Zenon DEF Took
<1>4. v \in Seq(Messages) /\ u \in Seq(Messages)
  BY <1>1
<1> HIDE DEF u, v
<1>5. /\ IsNone(x, u) => IsNone(Send(x, m), v)
      /\ IsClient(x, t, u, type) => IsClient(Send(x, m), t, v, type)
      /\ IsLarval(x, u) => IsLarval(Send(x, m), v)
      /\ IsForward(x, type, u) => IsForward(Send(x, m), type, v)
  <2>1. IsNone(x, u) \/ IsClient(x, t, u, type) \/ IsLarval(x, u)
           \/ IsForward(x, type, u) => x.wire = u
    BY Zenon DEF IsNone, IsClient, IsLarval, IsForward
  <2> DEFINE z == [x EXCEPT !.wire = v]
  <2>2. /\ IsNone(x, u) => IsNone(z, v)
        /\ IsClient(x, t, u, type) => IsClient(z, t, v, type)
        /\ IsLarval(x, u) => IsLarval(z, v)
        /\ IsForward(x, type, u) => IsForward(z, type, v)
    BY <1>4, Rewired, Zenon
  <2> HIDE DEF z
  <2>3. x.wire = u => Send(x, m) = z
    BY <1>2 DEF z
  <2> QED
    BY <2>1, <2>2, <2>3
<1>6. /\ IsNone(x, v) => IsNone(Took(x), u)
      /\ IsClient(x, t, v, type) => IsClient(Took(x), t, u, type)
      /\ IsLarval(x, v) => IsLarval(Took(x), u)
      /\ IsForward(x, type, v) => IsForward(Took(x), type, u)
  <2>1. IsNone(x, v) \/ IsClient(x, t, v, type) \/ IsLarval(x, v)
           \/ IsForward(x, type, v) => x.wire = v
    BY Zenon DEF IsNone, IsClient, IsLarval, IsForward
  <2> DEFINE z == [x EXCEPT !.wire = u]
  <2>2. /\ IsNone(x, v) => IsNone(z, u)
        /\ IsClient(x, t, v, type) => IsClient(z, t, u, type)
        /\ IsLarval(x, v) => IsLarval(z, u)
        /\ IsForward(x, type, v) => IsForward(z, type, u)
    BY <1>4, Rewired, Zenon
  <2> HIDE DEF z
  <2>3. x.wire = v => Took(x) = z
    BY <1>3 DEF z
  <2> QED
    BY <2>1, <2>2, <2>3
<1> QED
  BY <1>5, <1>6, Zenon DEF u, v

\* ssh_session2_open and channel_post_port_listener: the client asks.
LEMMA Asking ==
    ASSUME NEW x, IsNone(x, <<>>), NEW m \in Messages
    PROVE  /\ "session" \in Ctypes =>
              IsClient(Send([channel_new(x, "session", "opening", Window)
                                EXCEPT !.efd = TRUE, !.usage = "write",
                                       !.detach = "wait"], m),
                       "session", <<m>>, "opening")
           /\ "direct-tcpip" \in Ctypes =>
              IsClient(Send(channel_new(x, "direct-tcpip", "opening", Window), m),
                       "direct-tcpip", <<m>>, "opening")
<1> DEFINE a == [channel_new(x, "session", "opening", Window)
                    EXCEPT !.efd = TRUE, !.usage = "write", !.detach = "wait"]
           b == channel_new(x, "direct-tcpip", "opening", Window)
<1>1. x \in Channel
  BY DEF IsNone, Fresh
<1>2. "session" \in Ctypes => IsClient(a, "session", <<>>, "opening")
  BY <1>1, ChannelConstants, ZenonT(40) DEF channel_new, IsNone, IsClient, Fresh,
     Channel,
     Types
<1>3. "direct-tcpip" \in Ctypes => IsClient(b, "direct-tcpip", <<>>, "opening")
  BY <1>1, ChannelConstants, ZenonT(40) DEF channel_new, IsNone, IsClient, Fresh,
     Channel,
     Types
<1> HIDE DEF a, b
<1>4. /\ "session" \in Ctypes => IsClient(Send(a, m), "session", <<m>>, "opening")
      /\ "direct-tcpip" \in Ctypes =>
            IsClient(Send(b, m), "direct-tcpip", <<m>>, "opening")
  BY <1>2, <1>3, FirstMessage, Zenon
<1> QED
  BY <1>4 DEF a, b

\* server_input_channel_open: the server refuses, or makes a channel.
LEMMA Answering ==
    ASSUME NEW x, IsNone(x, <<>>), NEW t \in Ctypes, NEW ok \in BOOLEAN, NEW z,
           z = server_input_channel_open(x, t, Window, ok)
    PROVE  \/ IsNone(z, <<Msg("failure", 0)>>)
           \/ t = "session" /\ IsLarval(z, <<Msg("confirm", 0)>>)
           \/ t = "direct-tcpip" /\ IsForward(z, "connecting", <<>>)
<1> DEFINE a == [channel_new(x, t, "larval", 0)
                    EXCEPT !.remote_window = Window, !.detach = "wait"]
           b == [channel_new(x, t, "connecting", Window)
                    EXCEPT !.remote_window = Window]
<1>1. x \in Channel /\ t \in {"session", "direct-tcpip"}
  BY ChannelConstants DEF IsNone, Fresh
<1>2. CASE ok = FALSE
  BY <1>2, FirstMessage, OpeningMessages, Zenon DEF server_input_channel_open
<1>3. CASE ok = TRUE /\ t = "session"
  <2>1. IsLarval(a, <<>>)
    BY <1>1, <1>3, ChannelConstants, ZenonT(40)
       DEF channel_new, IsNone, IsLarval, Fresh, Channel, Types
  <2>2. z = Send(a, Msg("confirm", 0))
    BY <1>3, Zenon DEF server_input_channel_open
  <2> HIDE DEF a
  <2> QED
    BY <1>3, <2>1, <2>2, FirstMessage, OpeningMessages, Zenon
<1>4. CASE ok = TRUE /\ t = "direct-tcpip"
  <2>1. IsForward(b, "connecting", <<>>)
    BY <1>1, <1>4, ChannelConstants, ZenonT(40)
       DEF channel_new, IsNone, IsForward, Fresh, Channel, Types
  <2>2. z = b
    BY <1>4, Zenon DEF server_input_channel_open
  <2> QED
    BY <1>4, <2>1, <2>2, Zenon
<1> QED
  BY <1>1, <1>2, <1>3, <1>4, Zenon

\* channel_input_open_confirmation for a session: the client asks for a shell.
LEMMA Confirmed ==
    ASSUME NEW x, IsClient(x, "session", <<>>, "opening")
    PROVE  IsClient(channel_input_open_confirmation(x, 0),
                    "session", <<Msg("shell", 0)>>, "open")
<1> DEFINE d == [x EXCEPT !.type = "open", !.remote_window = 0]
<1>1. IsClient(d, "session", <<>>, "open")
  BY Zenon DEF IsClient, Fresh, Channel, Types
<1>2. channel_input_open_confirmation(x, 0) = Send(d, Msg("shell", 0))
  BY Zenon DEF IsClient, channel_input_open_confirmation
<1> HIDE DEF d
<1> QED
  BY <1>1, <1>2, FirstMessage, OpeningMessages, Zenon

\* channel_input_open_failure
LEMMA Failed ==
    ASSUME NEW x, NEW t, IsClient(x, t, <<>>, "opening")
    PROVE  IsClient(channel_input_open_failure(x), t, <<>>, "zombie")
<1>1. channel_input_open_failure(x) = [x EXCEPT !.type = "zombie"]
  BY Zenon DEF IsClient, channel_input_open_failure, chan_mark_dead
<1>2. IsClient([x EXCEPT !.type = "zombie"], t, <<>>, "zombie")
  BY DEF IsClient, Fresh, Channel, Types
<1> QED
  BY <1>1, <1>2

\* The fields of a channel that was freed.
FreeOf(x, z) ==
    /\ z \in Channel /\ z.type = "free" /\ z.ctype = x.ctype
    /\ z.istate = x.istate /\ z.ostate = x.ostate /\ z.flags = x.flags
    /\ z.input = 0 /\ z.output = 0 /\ z.extended = 0 /\ z.efd = FALSE
    /\ z.usage = x.usage /\ z.local_window = x.local_window
    /\ z.local_window_max = x.local_window_max
    /\ z.local_consumed = x.local_consumed
    /\ z.remote_window = x.remote_window /\ z.detach = x.detach
    /\ z.pid = x.pid /\ z.sel = {} /\ z.wire = x.wire /\ z.rd = x.rd
    /\ z.wr = x.wr /\ z.erd = x.erd /\ z.ewr = x.ewr
    /\ z.failed = x.failed /\ z.status = x.status /\ z.fatal = x.fatal

\* channel_free changes the type, the buffers and the descriptors only.
LEMMA FreeFields ==
    ASSUME NEW x \in Channel
    PROVE  FreeOf(x, channel_free(x))
  BY ZenonT(40) DEF channel_free, FreeOf, Channel, Types

\* The next iteration frees the channel that was refused.
LEMMA FreesRefused ==
    ASSUME NEW x, NEW t, IsClient(x, t, <<>>, "zombie"), NEW poll, NEW c,
           c = collect_children(channel_prepare_select(
                  IF poll THEN channel_output_poll(x) ELSE x)),
           NEW r, NEW w, NEW e
    PROVE  IsClient(channel_after_select(c, r, w, e), t, <<>>, "free")
<1> DEFINE g == channel_garbage_collect(x)
<1>1. x \in Channel /\ x.type = "zombie" /\ x.sel = {}
  BY DEF IsClient, Fresh
<1>2. channel_output_poll(x) = x
  BY <1>1, Zenon DEF channel_output_poll
<1>3. [x EXCEPT !.sel = {}] = x
  BY <1>1 DEF Channel
<1>4. channel_prepare_select(x) = g
  BY <1>1, <1>3, Zenon DEF channel_prepare_select
<1>5. IsClient(g, t, <<>>, "free")
  <2>1. ASSUME NEW a, a.type = "zombie", NEW b \in BOOLEAN
        PROVE  chan_is_dead_effect(a, b) = a /\ chan_is_dead(a, b)
    BY <2>1 DEF chan_is_dead_effect, chan_is_dead
  <2>2. CASE t # "session"
    <3>1. x.detach = "none" /\ chan_is_dead_effect(x, TRUE) = x
          /\ chan_is_dead(x, TRUE)
      BY <1>1, <2>1, <2>2, Zenon DEF IsClient
    <3>2. g = channel_free(x)
      BY <3>1, Zenon DEF channel_garbage_collect
    <3>3. FreeOf(x, g)
      BY <1>1, <3>2, FreeFields
    <3> HIDE DEF g
    <3> QED
      BY <3>3, <2>2 DEF FreeOf, IsClient, Fresh
  <2>3. CASE t = "session"
    <3> DEFINE d == [x EXCEPT !.detach = "none"]
    <3>1. x.detach = "wait" /\ x.usage = "write"
      BY <2>3 DEF IsClient
    <3>2. d.detach = "none" /\ d.type = "zombie"
      BY <1>1 DEF Channel
    <3>3. /\ chan_is_dead_effect(x, x.detach = "close") = x
          /\ chan_is_dead(x, x.detach = "close")
          /\ chan_is_dead_effect(d, TRUE) = d /\ chan_is_dead(d, TRUE)
      BY <1>1, <3>2, Zenon DEF chan_is_dead_effect, chan_is_dead
    <3>4. detach_user(x) = d
      BY <3>1, Zenon DEF detach_user, client_channel_closed
    <3> HIDE DEF d
    <3>5. g = channel_free(d)
      BY <3>1, <3>2, <3>3, <3>4, Zenon DEF channel_garbage_collect
    <3>7. /\ Fresh(d) /\ d.wire = <<>> /\ d.pid = "none" /\ d.ctype = t
          /\ d.local_window = Window /\ d.remote_window = 0 /\ d.usage = "write"
      BY <1>1, <3>1 DEF d, IsClient, Fresh, Channel
    <3>8. FreeOf(d, g)
      BY <3>5, <3>7, FreeFields DEF Fresh
    <3> HIDE DEF g
    <3> QED
      BY <3>7, <3>8, <2>3 DEF FreeOf, IsClient, Fresh
  <2> QED
    BY <2>2, <2>3
<1> HIDE DEF g
<1>6. /\ g \in Channel /\ g.type = "free" /\ g.sel = {} /\ g.istate = "open"
      /\ g.pid = "none"
  BY <1>5 DEF IsClient, Fresh
<1>7. c = g
  BY <1>2, <1>4, <1>6 DEF collect_children
<1>8. [g EXCEPT !.sel = {}] = g
  BY <1>6 DEF Channel
<1>9. channel_garbage_collect(g) = g
  BY <1>6, KeepsUnclosed
<1>10. channel_after_select(g, r, w, e) = g
  BY <1>6, <1>8, <1>9 DEF channel_after_select
<1> QED
  BY <1>5, <1>7, <1>10

\* channel_post_connecting: the server's connection comes about, or fails.
LEMMA Connects ==
    ASSUME NEW x, IsForward(x, "connecting", <<>>), NEW poll, NEW c,
           c = collect_children(channel_prepare_select(
                  IF poll THEN channel_output_poll(x) ELSE x)),
           NEW r, NEW w \in Writable(c), NEW e, NEW z,
           z = channel_after_select(c, r, w, e)
    PROVE  \/ IsForward(z, "connecting", <<>>)
           \/ IsForward(z, "open", <<Msg("confirm", Window)>>)
           \/ IsForward(z, "free", <<Msg("failure", 0)>>)
<1> DEFINE d == [x EXCEPT !.sel = {"wfd"}]
<1>1. x \in Channel /\ x.type = "connecting" /\ x.istate = "open"
      /\ x.pid = "none"
  BY DEF IsForward, Fresh
<1>2. channel_output_poll(x) = x
  BY <1>1, Zenon DEF channel_output_poll
<1>3. /\ d \in Channel /\ d.type = "connecting" /\ d.istate = "open"
      /\ d.pid = "none" /\ d.sel = {"wfd"} /\ d.local_window = Window
      /\ d.detach = "none" /\ d.wire = <<>>
  BY <1>1, Zenon DEF IsForward, Channel
<1>4. [d EXCEPT !.sel = {}] = x
  BY <1>1, Zenon DEF IsForward, Fresh, Channel
<1>5. channel_prepare_select(x) = channel_garbage_collect(d)
  BY <1>1 DEF channel_prepare_select
<1> HIDE DEF d
<1>6. channel_garbage_collect(d) = d
  BY <1>3, KeepsUnclosed
<1>7. c = d
  BY <1>2, <1>3, <1>5, <1>6 DEF collect_children
<1>8. w \in {-1, 0, 1}
  BY <1>3, <1>7 DEF Writable, Ended, Again
<1>9. z = [channel_garbage_collect(channel_post_connecting(d,
                                                           w)) EXCEPT !.sel = {}]
  BY <1>3, <1>7, Zenon DEF channel_after_select
<1>10. CASE w = 0
  <2>1. channel_post_connecting(d, w) = d
    BY <1>10 DEF channel_post_connecting, Ended
  <2> QED
    BY <1>4, <1>6, <1>9, <2>1, Zenon
<1>11. CASE w = 1
  <2> DEFINE a == [d EXCEPT !.type = "open"]
             b == [a EXCEPT !.wire = <<Msg("confirm", Window)>>]
  <2>1. channel_post_connecting(d, w) = Send(a, Msg("confirm", Window))
    BY <1>3, <1>11 DEF channel_post_connecting, Ended
  <2>2. a.wire = <<>>
    BY <1>3 DEF Channel
  <2>3. Append(<<>>, Msg("confirm", Window)) = <<Msg("confirm", Window)>>
    BY OneMessage, OpeningMessages
  <2>4. Send(a, Msg("confirm", Window)) = b
    BY <2>2, <2>3, Zenon DEF Send
  <2>5. b.istate # "closed" /\ b.type # "zombie"
    BY <1>3 DEF Channel
  <2>6. channel_garbage_collect(b) = b
    BY <2>5, KeepsUnclosed, Zenon
  <2>7. z = [b EXCEPT !.sel = {}]
    BY <1>9, <2>1, <2>4, <2>6, Zenon
  <2> DEFINE f == [x EXCEPT !.type = "open"]
             v == <<Msg("confirm", Window)>>
  <2>8. z = [f EXCEPT !.wire = v]
    BY <1>3, <1>4, <2>7, Zenon DEF Channel
  <2>9. IsForward(f, "open", <<>>)
    BY DEF IsForward, Fresh, Channel, Types
  <2>10. v \in Seq(Messages)
    BY OneMessage, OpeningMessages
  <2> HIDE DEF f, v
  <2>11. IsForward(z, "open", v)
    <3> DEFINE y == [f EXCEPT !.wire = v]
               u == <<>>
    <3>1. /\ IsNone(f, u) => IsNone(y, v)
          /\ IsClient(f, "none", u, "open") => IsClient(y, "none", v, "open")
          /\ IsLarval(f, u) => IsLarval(y, v)
          /\ IsForward(f, "open", u) => IsForward(y, "open", v)
      <4> HIDE DEF u
      <4> QED
        BY <2>10, Rewired, Zenon
    <3> QED
      BY <2>8, <2>9, <3>1
  <2> QED
    BY <2>11 DEF v
<1>12. CASE w = -1
  <2> DEFINE a == [d EXCEPT !.type = "zombie"]
             b == [a EXCEPT !.wire = <<Msg("failure", 0)>>]
  <2>1. channel_post_connecting(d, w) = Send(a, Msg("failure", 0))
    BY <1>12 DEF channel_post_connecting, Ended, chan_mark_dead
  <2>2. a.wire = <<>>
    BY <1>3 DEF Channel
  <2>3. Append(<<>>, Msg("failure", 0)) = <<Msg("failure", 0)>>
    BY OneMessage, OpeningMessages
  <2>4. Send(a, Msg("failure", 0)) = b
    BY <2>2, <2>3, Zenon DEF Send
  <2>5. b.type = "zombie" /\ b.detach = "none"
    BY <1>3 DEF Channel
  <2>6. chan_is_dead_effect(b, TRUE) = b /\ chan_is_dead(b, TRUE)
    BY <2>5, Zenon DEF chan_is_dead_effect, chan_is_dead
  <2>7. channel_garbage_collect(b) = channel_free(b)
    <3> HIDE DEF b
    <3> QED
      BY <2>5, <2>6, Zenon DEF channel_garbage_collect
  <2>8. z = [channel_free(b) EXCEPT !.sel = {}]
    BY <1>9, <2>1, <2>4, <2>7, Zenon
  <2> DEFINE v == <<Msg("failure", 0)>>
             f == channel_free(b)
  <2>9. v \in Seq(Messages)
    BY OneMessage, OpeningMessages
  <2>10. b = [a EXCEPT !.wire = v] /\ z = [f EXCEPT !.sel = {}]
    BY <2>8, SMTT(40)
  <2> HIDE DEF v, b, f
  <2>11. /\ b \in Channel /\ b.wire = v /\ b.pid = "none" /\ b.detach = "none"
         /\ b.ctype = "direct-tcpip" /\ b.local_window = Window
         /\ b.remote_window = Window /\ b.usage = "ignore"
         /\ b.istate = "open" /\ b.ostate = "open" /\ b.flags = {}
         /\ b.local_window_max = Window /\ b.local_consumed = 0
         /\ b.rd = 0 /\ b.wr = 0 /\ b.erd = 0 /\ b.ewr = 0
         /\ b.failed = {} /\ b.status = FALSE /\ b.fatal = FALSE
    BY <1>1, <2>9, <2>10, ZenonT(40) DEF d, IsForward, Fresh, Channel, Types, Messages
  <2>12. FreeOf(b, f)
    BY <2>11, FreeFields DEF f
  <2>13. Fresh(f)
    BY <2>11, <2>12 DEF FreeOf, Fresh
  <2>14. z = f
    <3>1. f \in Channel /\ f.sel = {}
      BY <2>13 DEF Fresh
    <3>2. [f EXCEPT !.sel = {}] = f
      BY <3>1 DEF Channel
    <3> QED
      BY <2>10, <3>2
  <2>15. IsForward(z, "free", v)
    BY <2>11, <2>12, <2>13, <2>14 DEF FreeOf, IsForward
  <2> QED
    BY <2>15 DEF v
<1> QED
  BY <1>8, <1>10, <1>11, <1>12

\* The client's end of a session does nothing before the server's end opens.
LEMMA Idles ==
    ASSUME NEW x, NEW v, IsClient(x, "session", v, "open"), NEW poll, NEW c,
           c = collect_children(channel_prepare_select(
                  IF poll THEN channel_output_poll(x) ELSE x)),
           NEW r, NEW w, NEW e
    PROVE  channel_after_select(c, r, w, e) = x
<1>1. /\ x \in Channel /\ x.type = "open" /\ x.istate = "open"
      /\ x.ostate = "open" /\ x.flags = {} /\ x.sel = {} /\ x.input = 0
      /\ x.output = 0 /\ x.extended = 0 /\ x.usage = "write"
         /\ x.remote_window = 0
      /\ x.local_consumed = 0 /\ x.pid = "none"
  BY DEF IsClient, Fresh
<1>2. channel_output_poll(x) = x
  <2>1. ~(x.input > 0) /\ x.istate # "drain" /\ x.usage # "read"
    BY <1>1
  <2> QED
    BY <2>1, Zenon DEF channel_output_poll
<1>3. [x EXCEPT !.sel = {}] = x
  BY <1>1 DEF Channel
<1>4. channel_pre_open(x) = x
  <2>1. ~(x.input < x.remote_window) /\ ~(x.output > 0) /\ ~(x.extended > 0)
    BY <1>1
  <2>2. {} \cup {} \cup {} = {}
    OBVIOUS
  <2> QED
    BY <1>1, <1>3, <2>1, <2>2, Zenon DEF channel_pre_open
<1>5. channel_garbage_collect(x) = x
  BY <1>1, KeepsUnclosed
<1>6. channel_prepare_select(x) = x
  BY <1>1, <1>4, <1>5 DEF channel_prepare_select
<1>7. c = x
  BY <1>1, <1>2, <1>6 DEF collect_children
<1>8. channel_handle_rfd(x, r) = x /\ channel_handle_wfd(x, w) = x
  BY <1>1 DEF channel_handle_rfd, channel_handle_wfd
<1>9. channel_handle_efd(x, e) = x
  BY <1>1 DEF channel_handle_efd
<1>10. channel_check_window(x) = x
  BY <1>1 DEF channel_check_window
<1>11. channel_post_open(x, r, w, e) = x
  BY <1>8, <1>9, <1>10, Zenon DEF channel_post_open
<1> QED
  BY <1>1, <1>3, <1>5, <1>7, <1>11 DEF channel_after_select

\* The two ends of a channel after the server has opened it: the client has
\* sent nothing, and the server's first message m grants the window.
Opened(x, y, m) ==
    /\ Fresh(x) /\ Fresh(y) /\ x.wire = <<>> /\ y.wire = <<m>>
    /\ x.local_window = Window /\ y.local_window = Window
    /\ x.remote_window = 0 /\ y.remote_window = Window
    /\ m \in Messages /\ m.n = Window
    /\ IF m.t = "confirm" THEN IsClient(x, "direct-tcpip", <<>>, "opening")
                          ELSE m.t = "adjust" /\ x.type = "open"
    /\ y.type = "open" /\ x.pid = "none"
    /\ y.pid # "none" =>
          y.pid = "running" /\ y.detach = "wait" /\ y.usage = "read"
    /\ \/ /\ x.usage = "ignore" /\ y.usage = "ignore"
          /\ x.efd = FALSE /\ y.efd = FALSE
       \/ x.usage = "write" /\ y.usage = "read" /\ x.efd = TRUE

\* Then the channel is established.
LEMMA Establishes ==
    ASSUME Counted, NEW x, NEW y, NEW m, Opened(x, y, m)
    PROVE  Established(x, y) /\ x.usage # "read" /\ y.usage # "write"
<1>1. /\ Fresh(x) /\ Fresh(y) /\ x.wire = <<>> /\ y.wire = <<m>>
      /\ m \in Messages /\ m.n = Window /\ m.t \in {"confirm", "adjust"}
      /\ y.type = "open" /\ x.type \in {"open", "opening"}
  BY DEF Opened, IsClient
<1>2. <<>> \in Seq(Messages) /\ Append(<<>>, m) = <<m>>
      /\ Len(<<m>>) = 1 /\ <<m>>[1] = m /\ <<m>> # <<>>
  BY <1>1, OneMessage
<1>3. ASSUME NEW T PROVE U(x.wire, T) = 0 /\ U(y.wire, T) = 0 + Size(m, T)
  <2>1. U(<<>>, T) = 0 /\ U(Append(<<>>, m), T) = U(<<>>, T) + Size(m, T)
    BY <1>1, <1>2, CountEmpty, CountAppend, Zenon
  <2> QED
    BY <1>1, <1>2, <2>1
<1>4. /\ DataB(x.wire) = 0 /\ ErrB(x.wire) = 0 /\ BothB(x.wire) = 0
      /\ GrantB(x.wire) = 0
  BY <1>3 DEF DataB, ErrB, BothB, GrantB
<1>5. /\ DataB(y.wire) = 0 /\ ErrB(y.wire) = 0 /\ BothB(y.wire) = 0
      /\ GrantB(y.wire) = Window
  BY <1>1, <1>3, ChannelConstants DEF DataB, ErrB, BothB, GrantB, Size
<1>6. Window \in Nat
  BY ChannelConstants
<1>7. LocalInv(x) /\ LocalInv(y)
  BY <1>6 DEF Opened, IsClient, Fresh, LocalInv, Halves, Outputs, Received,
     Stderr,
       Program, Freed, Holding, HeldBy, ErrIn
<1>8. /\ Closes(x.wire, x.flags, y.flags) /\ Eofs(x.wire, x.flags, y.flags)
      /\ Carries(x.wire, x.failed, y.usage)
      /\ Opens(y, y.type, x.wire, x.type)
  BY <1>1, SMTT(40) DEF Fresh, Closes, Eofs, Carries, Opens
<1>9. /\ Closes(y.wire, y.flags, x.flags) /\ Eofs(y.wire, y.flags, x.flags)
      /\ Carries(y.wire, y.failed, x.usage)
  BY <1>1, <1>2 DEF Fresh, Closes, Eofs, Carries, Payload
<1>10. Opens(x, x.type, y.wire, y.type)
  BY <1>1, <1>2 DEF Opens, Opened, Setup, IsClient
<1>11. Status(x.pid, x.wire, y.status) /\ Status(y.pid, y.wire, x.status)
  BY <1>1, <1>2 DEF Opened, Fresh, Status
<1>12. /\ Sent(x.istate, x.input, x.usage, x.efd, x.extended, y.failed)
       /\ Sent(y.istate, y.input, y.usage, y.efd, y.extended, x.failed)
       /\ x.usage = "read" => y.usage = "write"
       /\ y.usage = "read" => x.usage = "write"
  BY DEF Opened, Fresh, Sent
<1>13. /\ Balance(x.rd, x.input, DataB(x.wire), y.output, y.wr, y.failed)
       /\ Balance(y.rd, y.input, DataB(y.wire), x.output, x.wr, x.failed)
  BY <1>1, <1>4, <1>5 DEF Fresh, Balance
<1>14. /\ ErrBalance(x.erd, ErrOut(x.usage, x.extended), ErrB(x.wire),
                     ErrIn(y.usage, y.extended), y.ewr, y.failed)
       /\ ErrBalance(y.erd, ErrOut(y.usage, y.extended), ErrB(y.wire),
                     ErrIn(x.usage, x.extended), x.ewr, x.failed)
  BY <1>1, <1>4, <1>5 DEF Fresh, ErrBalance, ErrOut, ErrIn
<1>15. /\ Windows(x.remote_window, BothB(x.wire), GrantB(y.wire), y.local_window,
                  x.type, y.type, y.failed)
       /\ Windows(y.remote_window, BothB(y.wire), GrantB(x.wire), x.local_window,
                  y.type, x.type, x.failed)
  BY <1>4, <1>5, <1>6 DEF Opened, Windows
<1>16. OneWay(x, y) /\ OneWay(y, x)
  BY <1>8, <1>9, <1>10, <1>11, <1>12, <1>13, <1>14, <1>15, Zenon DEF OneWay
<1> QED
  BY <1>1, <1>7, <1>16 DEF Established, Fresh, Opened

\* Established does not tell the ends apart.
LEMMA EstablishedEnds ==
    ASSUME NEW x, NEW y, Established(x, y)
    PROVE  Established(y, x) /\ x \in Channel /\ y \in Channel
  BY ZenonT(40) DEF Established

\* session_input_channel_req: the program of the session is started, and the
\* client is told.
LEMMA Executes ==
    ASSUME Counted, "session" \in Ctypes, NEW x,
           IsClient(x, "session", <<>>, "open"),
           NEW y, IsLarval(y, <<>>)
    PROVE  LET z == Reply(session_input_channel_req(y, TRUE)) IN
           /\ Established(x, z) /\ x.usage # "read" /\ z.usage # "write"
           /\ z.sel = {}
<1> DEFINE m == Msg("adjust", Window)
           v == <<m>>
           a == [y EXCEPT !.pid = "running"]
           b == [a EXCEPT !.type = "open", !.efd = TRUE, !.usage = "read",
                          !.local_window = Window, !.local_window_max = Window]
           z == session_input_channel_req(y, TRUE)
<1>1. y \in Channel /\ y.type = "larval" /\ y.wire = <<>>
  BY DEF IsLarval, Fresh
<1>2. z = Send(b, m)
  BY <1>1, Zenon DEF session_input_channel_req, do_exec_no_pty, channel_set_fds
<1>3. /\ b.wire = <<>> /\ Fresh(b) /\ b.type = "open" /\ b.efd = TRUE
      /\ b.usage = "read" /\ b.local_window = Window /\ b.remote_window = Window
      /\ b.pid = "running" /\ b.detach = "wait"
  BY <1>1, ChannelConstants, ZenonT(40) DEF IsLarval, Fresh, Channel, Types
<1>4. m \in Messages /\ v \in Seq(Messages) /\ Append(<<>>, m) = v
  BY OpeningMessages, OneMessage
<1>5. z = [b EXCEPT !.wire = v]
  BY <1>2, <1>3, <1>4, Zenon DEF Send
<1> HIDE DEF b, v, z
<1>6. /\ z.wire = v /\ Fresh(z) /\ z.type = "open" /\ z.efd = TRUE
      /\ z.usage = "read" /\ z.local_window = Window /\ z.remote_window = Window
      /\ z.pid = "running" /\ z.detach = "wait"
  BY <1>3, <1>4, <1>5, SMTT(30) DEF Fresh, Channel, Messages
<1>7. m.n = Window /\ m.t = "adjust"
  BY DEF Msg
<1> HIDE DEF m
<1>8. Opened(x, z, m)
  BY <1>4, <1>6, <1>7, Zenon DEF v, Opened, IsClient
<1>9. /\ Established(x, z) /\ x.usage # "read" /\ z.usage # "write"
      /\ "close_sent" \notin z.flags
  BY <1>6, <1>8, Establishes DEF Fresh
<1>10. Established(z, x) /\ z \in Channel
  BY <1>9, EstablishedEnds
<1>11. Keeps(z, Reply(z), x)
  BY <1>6, <1>9, <1>10, Replies
<1>12. Established(Reply(z), x) /\ Reply(z).usage = z.usage
  BY <1>11, Zenon DEF Keeps
<1>13. Reply(z).sel = {}
  BY <1>6, <1>10 DEF Reply, Send, Fresh, Channel
<1> DEFINE q == Reply(z)
<1> HIDE DEF q
<1>14. Established(x, q) /\ x.usage # "read" /\ q.usage # "write" /\ q.sel = {}
  BY <1>9, <1>12, <1>13, EstablishedEnds DEF q
<1> QED
  BY <1>14, Zenon DEF q, z

\* The end x stays silent after its CLOSE and its EOF, when its wire becomes v.
Silent(x, v) ==
    \A i \in Len(x.wire) + 1 .. Len(v) :
       /\ "close_sent" \notin x.flags
       /\ "eof_sent" \in x.flags => v[i].t \notin {"data", "ext", "eof"}

\* What a step of one of the ends does to both.
Step(c, s, a, b) ==
    /\ a \in Channel /\ a.sel = {} /\ b \in Channel /\ b.sel = {}
    /\ Related(a, b) /\ Silent(c, a.wire) /\ Silent(s, b.wire)

\* An end that keeps what it has sent is silent, and so is one whose message
\* is taken, and one that has sent nothing.
LEMMA Silences ==
    ASSUME NEW x \in Channel, NEW z \in Channel
    PROVE  /\ Quiet(x, z) => Silent(x, z.wire)
           /\ x.wire # <<>> => Silent(x, Took(x).wire)
           /\ x.flags = {} => Silent(x, z.wire) /\ Silent(x, Took(x).wire)
           /\ Silent(x, x.wire)
<1>1. x.wire \in Seq(Messages) /\ z.wire \in Seq(Messages)
  BY DEF Channel, Messages
<1>2. Len(x.wire) \in Nat /\ Len(z.wire) \in Nat
  BY <1>1
<1>3. Quiet(x, z) => Silent(x, z.wire)
  BY <1>2 DEF Quiet, Silent, Payload
<1>4. ASSUME x.wire # <<>> PROVE Silent(x, Took(x).wire)
  <2>1. Took(x).wire = Tail(x.wire)
    BY DEF Took, Channel
  <2>2. Len(x.wire) = Len(Tail(x.wire)) + 1 /\ Len(Tail(x.wire)) \in Nat
    BY <1>1, <1>4
  <2> QED
    BY <2>1, <2>2 DEF Silent
<1>5. x.flags = {} => Silent(x, z.wire) /\ Silent(x, Took(x).wire)
  BY DEF Silent
<1>6. Silent(x, x.wire)
  BY <1>2, SMTT(40) DEF Silent
<1> QED
  BY <1>3, <1>4, <1>5, <1>6

\* A channel that is being opened is new at both ends.
LEMMA OpeningFresh ==
    ASSUME NEW c, NEW s, Opening(c, s)
    PROVE  Fresh(c) /\ Fresh(s) /\ c.pid = "none" /\ s.pid = "none"
  BY DEF Opening, Refused, IsNone, IsClient, IsLarval, IsForward

\* A step while the channel is being opened.
LEMMA OpeningStep ==
    ASSUME NEW c, NEW s, Opening(c, s), NEW a, NEW b,
           \/ Opening(a, b)
           \/ /\ Established(a, b) /\ a.usage # "read" /\ b.usage # "write"
              /\ a.sel = {} /\ b.sel = {}
    PROVE  Step(c, s, a, b)
<1>1. Fresh(c) /\ Fresh(s)
  BY OpeningFresh
<1>2. a \in Channel /\ b \in Channel /\ a.sel = {} /\ b.sel = {}
  BY OpeningFresh, EstablishedEnds, ZenonT(40) DEF Fresh
<1>3. Silent(c, a.wire) /\ Silent(s, b.wire)
  BY <1>1, <1>2, Silences DEF Fresh
<1> QED
  BY <1>2, <1>3 DEF Step, Related, Live

\* A step of the end x of an established channel, which takes a message or not.
LEMMA EstablishedStep ==
    ASSUME NEW x, NEW y, Established(x, y), NEW z, NEW u,
           u = y \/ (u = Took(y) /\ y.wire # <<>>),
           Keeps(x, z, u), z.sel = {}, y.sel = {}
    PROVE  /\ x.usage # "read" /\ y.usage # "write" => Step(x, y, z, u)
           /\ x.usage # "write" /\ y.usage # "read" => Step(y, x, u, z)
<1>1. x \in Channel /\ y \in Channel
  BY EstablishedEnds
<1>2. Established(z, u) /\ Quiet(x, z) /\ z.usage = x.usage
  BY Zenon DEF Keeps
<1>3. Established(u, z) /\ u \in Channel /\ z \in Channel
  BY <1>2, EstablishedEnds
<1>4. u.usage = y.usage /\ u.sel = {}
  BY <1>1, Zenon DEF Took, Channel
<1>5. Silent(x, z.wire) /\ Silent(y, u.wire)
  BY <1>1, <1>2, <1>3, Silences
<1> QED
  BY <1>2, <1>3, <1>4, <1>5, Zenon DEF Step, Related, Live

\* The server gets a message (process_buffered_input_packets).
LEMMA ServerReceives ==
    ASSUME Counted, NEW c, NEW s, Live(c, s), c.sel = {}, s.sel = {},
           c.wire # <<>>,
           NEW ok \in BOOLEAN
    PROVE  Step(c, s, Took(c), Dispatch("server", s, Head(c.wire), ok))
<1> DEFINE m == Head(c.wire)
           z == Dispatch("server", s, m, ok)
<1>1. CASE Established(c, s) /\ c.usage # "read" /\ s.usage # "write"
  <2>1. Established(s, c) /\ "server" \in Peers
    BY <1>1, EstablishedEnds DEF Peers
  <2>2. Keeps(s, z, Took(c)) /\ z.sel = s.sel
    BY <1>1, <2>1, Dispatches
  <2> HIDE DEF z
  <2>3. Step(c, s, Took(c), z)
    BY <1>1, <2>1, <2>2, EstablishedStep
  <2> QED
    BY <2>3 DEF z
<1>2. ASSUME NEW t \in Ctypes, Opening(c, s), IsNone(s, <<>>),
             IsClient(c, t, <<Msg(t, Window)>>, "opening")
      PROVE  Step(c, s, Took(c), z)
  <2>1. m = Msg(t, Window) /\ Msg(t, Window) \in Messages
    BY <1>2, OpeningMessages, OneMessage DEF IsClient
  <2>2. t \in {"session", "direct-tcpip"} /\ m.t = t /\ m.n = Window
    BY <2>1, ChannelConstants DEF Msg
  <2>3. z = server_input_channel_open(s, t, Window, ok)
    BY <2>2 DEF Dispatch
  <2>4. \/ IsNone(z, <<Msg("failure", 0)>>)
        \/ t = "session" /\ IsLarval(z, <<Msg("confirm", 0)>>)
        \/ t = "direct-tcpip" /\ IsForward(z, "connecting", <<>>)
    BY <1>2, <2>3, Answering
  <2>5. IsClient(Took(c), t, <<>>, "opening")
    BY <1>2, <2>1, FirstMessage, Zenon
  <2> HIDE DEF z, m
  <2>6. Opening(Took(c), z)
    BY <2>4, <2>5, Zenon DEF Opening, Refused
  <2> QED
    BY <1>2, <2>6, OpeningStep
<1>3. ASSUME "session" \in Ctypes, Opening(c, s), IsLarval(s, <<>>),
             IsClient(c, "session", <<Msg("shell", 0)>>, "open")
      PROVE  Step(c, s, Took(c), z)
  <2>1. m = Msg("shell", 0) /\ Msg("shell", 0) \in Messages
    BY <1>3, OpeningMessages, OneMessage DEF IsClient
  <2>2. m.t = "shell" /\ channel_lookup(s)
    BY <1>3, <2>1 DEF Msg, channel_lookup, IsLarval
  <2>3. IsClient(Took(c), "session", <<>>, "open")
    BY <1>3, <2>1, FirstMessage, Zenon
  <2>4. z = server_input_channel_req(s, "shell", ok) /\ s.type = "larval"
    BY <1>3, <2>2 DEF Dispatch, IsLarval
  <2>5. CASE ok = TRUE
    <3>1. z = Reply(session_input_channel_req(s, TRUE))
      BY <2>2, <2>4, <2>5, Zenon DEF server_input_channel_req, Reply
    <3> HIDE DEF z, m
    <3>2. /\ Established(Took(c), z) /\ Took(c).usage # "read"
          /\ z.usage # "write" /\ z.sel = {}
      BY <1>3, <2>3, <3>1, Executes, Zenon
    <3>3. Took(c).sel = {}
      BY <2>3 DEF IsClient, Fresh
    <3> QED
      BY <1>3, <3>2, <3>3, OpeningStep
  <2>6. CASE ok = FALSE
    <3>1. z = Send(s, Msg("channel-failure", 0))
      BY <2>2, <2>4, <2>6, Zenon DEF server_input_channel_req,
         session_input_channel_req, do_exec_no_pty
    <3>2. IsLarval(z, <<Msg("channel-failure", 0)>>)
      BY <1>3, <3>1, FirstMessage, OpeningMessages, Zenon
    <3> HIDE DEF z, m
    <3>3. Opening(Took(c), z)
      BY <1>3, <2>3, <3>2, Zenon DEF Opening
    <3> QED
      BY <1>3, <3>3, OpeningStep
  <2> QED
    BY <2>5, <2>6, Zenon
<1> QED
  BY <1>1, <1>2, <1>3, Zenon DEF Live, Opening, IsNone, IsClient

\* The client gets a message.
LEMMA ClientReceives ==
    ASSUME Counted, NEW c, NEW s, Live(c, s), c.sel = {}, s.sel = {},
           s.wire # <<>>,
           NEW ok \in BOOLEAN
    PROVE  Step(c, s, Dispatch("client", c, Head(s.wire), ok), Took(s))
<1> DEFINE m == Head(s.wire)
           z == Dispatch("client", c, m, ok)
<1>1. CASE Established(c, s) /\ c.usage # "read" /\ s.usage # "write"
  <2>1. Keeps(c, z, Took(s)) /\ z.sel = c.sel
    BY <1>1, Dispatches DEF Peers
  <2> HIDE DEF z
  <2>2. Step(c, s, z, Took(s))
    BY <1>1, <2>1, EstablishedStep
  <2> QED
    BY <2>2 DEF z
<1>2. ASSUME NEW t \in Ctypes, Opening(c, s), Refused(s, <<Msg("failure", 0)>>),
             IsClient(c, t, <<>>, "opening")
      PROVE  Step(c, s, z, Took(s))
  <2>1. m = Msg("failure", 0) /\ Msg("failure", 0) \in Messages
    BY <1>2, OpeningMessages, OneMessage DEF Refused, IsNone, IsForward
  <2>2. m.t = "failure"
    BY <2>1 DEF Msg
  <2>3. z = channel_input_open_failure(c)
    BY <2>2 DEF Dispatch
  <2>4. IsClient(z, t, <<>>, "zombie")
    BY <1>2, <2>3, Failed
  <2>5. Refused(Took(s), <<>>)
    BY <1>2, <2>1, FirstMessage, Zenon DEF Refused
  <2> HIDE DEF z, m
  <2>6. Opening(z, Took(s))
    BY <2>4, <2>5, Zenon DEF Opening
  <2> QED
    BY <1>2, <2>6, OpeningStep
<1>3. ASSUME "session" \in Ctypes, Opening(c, s),
             IsClient(c, "session", <<>>, "opening"),
             IsLarval(s, <<Msg("confirm", 0)>>)
      PROVE  Step(c, s, z, Took(s))
  <2>1. m = Msg("confirm", 0) /\ Msg("confirm", 0) \in Messages
    BY <1>3, OpeningMessages, OneMessage DEF IsLarval
  <2>2. m.t = "confirm" /\ m.n = 0
    BY <2>1 DEF Msg
  <2>3. z = channel_input_open_confirmation(c, 0)
    BY <2>2 DEF Dispatch
  <2>4. IsClient(z, "session", <<Msg("shell", 0)>>, "open")
    BY <1>3, <2>3, Confirmed
  <2>5. IsLarval(Took(s), <<>>)
    BY <1>3, <2>1, FirstMessage, Zenon
  <2> HIDE DEF z, m
  <2>6. Opening(z, Took(s))
    BY <1>3, <2>4, <2>5, Zenon DEF Opening
  <2> QED
    BY <1>3, <2>6, OpeningStep
<1>4. ASSUME "session" \in Ctypes, Opening(c, s),
             IsClient(c, "session", <<>>, "open"),
             IsLarval(s, <<Msg("channel-failure", 0)>>)
      PROVE  Step(c, s, z, Took(s))
  <2>1. m = Msg("channel-failure", 0) /\ Msg("channel-failure", 0) \in Messages
    BY <1>4, OpeningMessages, OneMessage DEF IsLarval
  <2>2. m.t = "channel-failure" /\ channel_lookup(c)
    BY <1>4, <2>1 DEF Msg, channel_lookup, IsClient
  <2>3. z = packet_disconnect(c)
    BY <2>2 DEF Dispatch, channel_input_status_confirm
  <2>4. IsLarval(Took(s), <<>>)
    BY <1>4, <2>1, FirstMessage, Zenon
  <2> HIDE DEF z, m
  <2>5. GaveUp(z, Took(s))
    BY <1>4, <2>3, <2>4, Zenon DEF GaveUp, Opening
  <2>6. c \in Channel /\ c.flags = {} /\ c.sel = {} /\ s \in Channel /\ s.flags = {}
    BY <1>4 DEF IsClient, IsLarval, Fresh
  <2>7. z \in Channel /\ z.sel = {} /\ Took(s) \in Channel /\ Took(s).sel = {}
    BY <2>3, <2>4, <2>6, ZenonT(40)
       DEF packet_disconnect, Channel, IsLarval, Fresh
  <2>8. Silent(c, z.wire) /\ Silent(s, Took(s).wire)
    BY <2>6, <2>7, Silences
  <2> QED
    BY <2>5, <2>7, <2>8 DEF Step, Related
<1> QED
  BY <1>1, <1>2, <1>3, <1>4, Zenon
     DEF Live, Opening, Refused, IsNone, IsForward, IsLarval

\* An iteration of the loop of p, whose channel is x, with the result z.
Iteration(p, x, z) ==
    \E poll \in BOOLEAN :
       LET c == collect_children(channel_prepare_select(
                   IF poll THEN channel_output_poll(x) ELSE x)) IN
       \E r \in Readable(p, c), w \in Writable(c), e \in ErrReady(c) :
          z = channel_after_select(c, r, w, e)

\* An end that waits to be opened does nothing.
LEMMA IterationWaits ==
    ASSUME NEW p, NEW x, NEW z, Iteration(p, x, z), Fresh(x), x.pid = "none",
           x.type \in {"opening", "larval"}
    PROVE  z = x
<1>1. PICK poll \in BOOLEAN :
         LET c == collect_children(channel_prepare_select(
                     IF poll THEN channel_output_poll(x) ELSE x)) IN
         \E r \in Readable(p, c), w \in Writable(c), e \in ErrReady(c) :
            z = channel_after_select(c, r, w, e)
  BY DEF Iteration
<1> DEFINE c == collect_children(channel_prepare_select(
                   IF poll THEN channel_output_poll(x) ELSE x))
<1>2. PICK r, w, e : z = channel_after_select(c, r, w, e)
  BY <1>1
<1> QED
  BY <1>2, Waits DEF Fresh

\* An iteration of an established channel.
LEMMA IterationKeeps ==
    ASSUME Counted, NEW p, NEW x, NEW y, NEW z, Established(x, y), x.sel = {},
           x.type # "free", Iteration(p, x, z)
    PROVE  Keeps(x, z, y) /\ z.sel = {}
<1>1. Opens(x, x.type, y.wire, y.type)
  BY Zenon DEF Established, OneWay
<1>2. CASE x.type = "opening"
  <2>1. Fresh(x) /\ x.pid = "none"
    BY <1>1, <1>2 DEF Opens, IsClient
  <2>2. z = x
    BY <1>2, <2>1, IterationWaits
  <2> QED
    BY <2>2, KeepsSame
<1>3. CASE x.type = "open"
  <2>1. PICK poll \in BOOLEAN :
           LET c == collect_children(channel_prepare_select(
                       IF poll THEN channel_output_poll(x) ELSE x)) IN
           \E r \in Readable(p, c), w \in Writable(c), e \in ErrReady(c) :
              z = channel_after_select(c, r, w, e)
    BY SMTT(40) DEF Iteration
  <2> DEFINE c == collect_children(channel_prepare_select(
                     IF poll THEN channel_output_poll(x) ELSE x))
  <2>2. PICK r \in Readable(p, c), w \in Writable(c), e \in ErrReady(c) :
           z = channel_after_select(c, r, w, e)
    BY <2>1
  <2> QED
    BY <1>3, <2>2, Iterates, Zenon
<1> QED
  BY <1>1, <1>2, <1>3 DEF Opens

\* An iteration of the client (Loop).
LEMMA ClientLoops ==
    ASSUME Counted, NEW c, NEW s, Live(c, s), c.sel = {}, s.sel = {},
           c.type \notin {"none", "free"}, NEW z, Iteration("client", c, z)
    PROVE  Step(c, s, z, s)
<1>1. CASE Established(c, s) /\ c.usage # "read" /\ s.usage # "write"
  <2>1. Keeps(c, z, s) /\ z.sel = {}
    BY <1>1, IterationKeeps, Zenon
  <2> QED
    BY <1>1, <2>1, EstablishedStep
<1>2. PICK poll \in BOOLEAN :
         LET d == collect_children(channel_prepare_select(
                     IF poll THEN channel_output_poll(c) ELSE c)) IN
         \E r \in Readable("client", d), w \in Writable(d), e \in ErrReady(d) :
            z = channel_after_select(d, r, w, e)
  BY SMTT(40) DEF Iteration
<1> DEFINE d == collect_children(channel_prepare_select(
                   IF poll THEN channel_output_poll(c) ELSE c))
<1>3. PICK r, w, e : z = channel_after_select(d, r, w, e)
  BY <1>2
<1>4. CASE Opening(c, s) /\ c.type = "opening"
  <2>1. z = c
    BY <1>4, OpeningFresh, IterationWaits
  <2> QED
    BY <1>4, <2>1, OpeningStep
<1>5. ASSUME NEW t \in Ctypes, Opening(c, s), IsClient(c, t, <<>>, "zombie"),
             Refused(s, <<>>)
      PROVE  Step(c, s, z, s)
  <2>1. IsClient(z, t, <<>>, "free")
    BY <1>3, <1>5, FreesRefused
  <2>2. Opening(z, s)
    BY <1>5, <2>1, Zenon DEF Opening
  <2> QED
    BY <1>5, <2>2, OpeningStep, SMTT(40)
<1>6. ASSUME Opening(c, s), NEW v, IsClient(c, "session", v, "open")
      PROVE  Step(c, s, z, s)
  <2>1. z = c
    BY <1>3, <1>6, Idles
  <2> QED
    BY <1>6, <2>1, OpeningStep
<1> QED
  BY <1>1, <1>4, <1>5, <1>6, Zenon DEF Live, Opening, IsNone, IsClient

\* An iteration of the server.
LEMMA ServerLoops ==
    ASSUME Counted, NEW c, NEW s, Live(c, s), c.sel = {}, s.sel = {},
           s.type \notin {"none", "free"}, NEW z, Iteration("server", s, z)
    PROVE  Step(c, s, c, z)
<1>1. CASE Established(c, s) /\ c.usage # "read" /\ s.usage # "write"
  <2>1. Established(s, c)
    BY <1>1, EstablishedEnds
  <2>2. Keeps(s, z, c) /\ z.sel = {}
    BY <2>1, IterationKeeps
  <2> QED
    BY <1>1, <2>1, <2>2, EstablishedStep
<1>2. CASE Opening(c, s) /\ s.type = "larval"
  <2>1. z = s
    BY <1>2, OpeningFresh, IterationWaits, SMTT(40)
  <2> QED
    BY <1>2, <2>1, OpeningStep
<1>3. ASSUME "direct-tcpip" \in Ctypes, Opening(c, s),
             IsClient(c, "direct-tcpip", <<>>, "opening"),
             IsForward(s, "connecting", <<>>)
      PROVE  Step(c, s, c, z)
  <2>1. PICK poll \in BOOLEAN :
           LET d == collect_children(channel_prepare_select(
                       IF poll THEN channel_output_poll(s) ELSE s)) IN
           \E r \in Readable("server", d), w \in Writable(d), e \in ErrReady(d) :
              z = channel_after_select(d, r, w, e)
    BY SMTT(40) DEF Iteration
  <2> DEFINE d == collect_children(channel_prepare_select(
                     IF poll THEN channel_output_poll(s) ELSE s))
  <2>2. PICK r \in Readable("server", d), w \in Writable(d), e \in ErrReady(d) :
           z = channel_after_select(d, r, w, e)
    BY <2>1
  <2>3. \/ IsForward(z, "connecting", <<>>)
        \/ IsForward(z, "open", <<Msg("confirm", Window)>>)
        \/ IsForward(z, "free", <<Msg("failure", 0)>>)
    BY <1>3, <2>2, Connects, ZenonT(40)
  <2>4. CASE IsForward(z, "connecting", <<>>)
             \/ IsForward(z, "free", <<Msg("failure", 0)>>)
    <3>1. Opening(c, z)
      BY <1>3, <2>4, ZenonT(40) DEF Opening, Refused
    <3> QED
      BY <1>3, <3>1, OpeningStep
  <2>5. CASE IsForward(z, "open", <<Msg("confirm", Window)>>)
    <3> DEFINE m == Msg("confirm", Window)
    <3>1. m \in Messages /\ m.t = "confirm" /\ m.n = Window
      BY OpeningMessages, SMTT(40) DEF Msg
    <3>2. IsForward(z, "open", <<m>>)
      BY <2>5
    <3> HIDE DEF m
    <3>3. Opened(c, z, m)
      BY <1>3, <3>1, <3>2, Zenon DEF Opened, IsClient, IsForward
    <3>4. Established(c, z) /\ c.usage # "read" /\ z.usage # "write"
      BY <3>3, Establishes
    <3>5. z.sel = {}
      BY <3>2 DEF IsForward, Fresh
    <3> QED
      BY <1>3, <3>4, <3>5, OpeningStep
  <2> QED
    BY <2>3, <2>4, <2>5, SMTT(40), SMTT(50)
<1> QED
  BY <1>1, <1>2, <1>3, Zenon
     DEF Live, Opening, Refused, IsNone, IsForward, IsLarval

-----------------------------------------------------------------------------
(* The invariant, and the theorems.                                        *)

\* The client opens a channel only when there is none, and the program of a
\* session runs only when it is established.
LEMMA OpeningStates ==
    ASSUME NEW c, NEW s, Live(c, s)
    PROVE  /\ c.type = "none" => Opening(c, s) /\ IsNone(c, <<>>)
              /\ IsNone(s, <<>>)
           /\ s.pid = "running" =>
                 /\ Established(c, s) /\ c.usage # "read" /\ s.usage # "write"
                 /\ s.type = "open"
<1>1. CASE Opening(c, s)
  <2>1. s.pid # "running"
    BY <1>1, OpeningFresh
  <2> QED
    BY <1>1, <2>1, Zenon DEF Opening, IsNone, IsClient
<1>2. CASE Established(c, s) /\ c.usage # "read" /\ s.usage # "write"
  <2>1. Opens(c, c.type, s.wire, s.type)
    BY <1>2, Zenon DEF Established, OneWay
  <2>2. Program(s.pid, s.type, s.detach, s.flags, s.usage)
    BY <1>2, Zenon DEF Established, LocalInv
  <2> QED
    BY <1>2, <2>1, <2>2 DEF Opens, Program
<1> QED
  BY <1>1, <1>2 DEF Live

\* A client that gave up differs from one that waits in nothing else, and
\* nothing more happens.
LEMMA GivesUp ==
    ASSUME NEW c, NEW s, GaveUp(c, s)
    PROVE  /\ c.fatal = TRUE /\ c.type = "open" /\ s.type = "larval"
           /\ s.fatal = FALSE /\ s.pid = "none" /\ c \in Channel
           /\ \E d \in Channel :
                 /\ Opening(d, s) /\ c.remote_window = d.remote_window
                 /\ c.wire = d.wire /\ c.local_window = d.local_window
                 /\ c.type = d.type /\ c.failed = d.failed
                 /\ c.output = d.output /\ c.local_consumed = d.local_consumed
                 /\ c.usage = d.usage /\ c.extended = d.extended
                 /\ c.local_window_max = d.local_window_max
                 /\ c.ostate = d.ostate /\ c.wr = d.wr /\ c.rd = d.rd
                 /\ c.ewr = d.ewr /\ c.erd = d.erd
<1>1. PICK d : /\ Opening(d, s) /\ IsLarval(s, <<>>)
               /\ IsClient(d, "session", <<>>, "open") /\ c = packet_disconnect(d)
  BY DEF GaveUp
<1>2. d \in Channel /\ d.type = "open"
  BY <1>1 DEF IsClient, Fresh
<1>3. s.type = "larval" /\ s.fatal = FALSE /\ s.pid = "none"
  BY <1>1 DEF IsLarval, Fresh
<1>4. /\ c.fatal = TRUE /\ c.remote_window = d.remote_window
      /\ c.wire = d.wire /\ c.local_window = d.local_window
      /\ c.type = d.type /\ c.failed = d.failed
      /\ c.output = d.output /\ c.local_consumed = d.local_consumed
      /\ c.usage = d.usage /\ c.extended = d.extended
      /\ c.local_window_max = d.local_window_max
      /\ c.ostate = d.ostate /\ c.wr = d.wr /\ c.rd = d.rd
      /\ c.ewr = d.ewr /\ c.erd = d.erd
  BY <1>1, <1>2 DEF packet_disconnect, Channel
<1>5. c \in Channel
  BY <1>1, <1>2, Zenon DEF packet_disconnect, Channel
<1> QED
  BY <1>1, <1>2, <1>3, <1>4, <1>5, Zenon

\* What the two ends then are.
LEMMA GaveUpEnds ==
    ASSUME NEW c, NEW s, GaveUp(c, s)
    PROVE  /\ c.fatal = TRUE /\ c.type = "open" /\ s.type = "larval"
           /\ s.fatal = FALSE /\ s.pid = "none" /\ c \in Channel
  BY GivesUp, Zenon

\* Every step of the two ends keeps the invariant, and each end is silent
\* after its CLOSE.
LEMMA NextStep ==
    ASSUME Counted, ChannelInv, [Next]_ch
    PROVE  /\ ch' \in [Peers -> Channel]
           /\ Step(ch["client"], ch["server"], ch'["client"], ch'["server"])
<1> DEFINE c == ch["client"]
           s == ch["server"]
<1>i. /\ ch \in [Peers -> Channel] /\ c \in Channel /\ s \in Channel
       /\ c.sel = {} /\ s.sel = {} /\ Related(c, s)
  BY DEF ChannelInv, Peers
<1>u. CASE UNCHANGED ch
  <2>1. Silent(c, c.wire) /\ Silent(s, s.wire)
    BY <1>i, Silences
  <2> QED
    BY <1>i, <1>u, <2>1 DEF Step
<1>g. CASE Next /\ ~Live(c, s)
  <2>1. c.fatal = TRUE /\ c.type = "open"
    BY <1>i, <1>g, GaveUpEnds, Zenon DEF Related
  <2>2. ~Alive
    BY <2>1 DEF Alive, Peers
  <2> QED
    BY <1>g, <2>1, <2>2 DEF Next, ssh_session2_open, channel_post_port_listener,
       process_buffered_input_packets, Loop, Running, Exit
<1> SUFFICES ASSUME Next, Live(c, s)
             PROVE  /\ ch' \in [Peers -> Channel]
                    /\ Step(c, s, ch'["client"], ch'["server"])
  BY <1>u, <1>g
<1>0. /\ ch \in [Peers -> Channel] /\ c \in Channel /\ s \in Channel
      /\ c.sel = {} /\ s.sel = {} /\ Live(c, s)
  BY <1>i
<1>1. ASSUME NEW a, NEW b, Step(c, s, a, b),
             ch' = [p \in Peers |-> IF p = "client" THEN a ELSE b]
      PROVE  /\ ch' \in [Peers -> Channel]
             /\ Step(c, s, ch'["client"], ch'["server"])
  <2>1. a \in Channel /\ b \in Channel
    BY <1>1 DEF Step
  <2>2. ch'["client"] = a /\ ch'["server"] = b
    BY <1>1 DEF Peers
  <2>3. ch' \in [Peers -> Channel]
    BY <1>1, <2>1
  <2> QED
    BY <1>1, <2>2, <2>3
<1>2. CASE ssh_session2_open
  <2> DEFINE a == Send([channel_new(c, "session", "opening", Window)
                          EXCEPT !.efd = TRUE, !.usage = "write",
                          !.detach = "wait"],
                       Msg("session", Window))
  <2>1. /\ "session" \in Ctypes /\ Opening(c, s)
        /\ IsNone(c, <<>>) /\ IsNone(s, <<>>)
    BY <1>0, <1>2, OpeningStates DEF ssh_session2_open
  <2>2. IsClient(a, "session", <<Msg("session", Window)>>, "opening")
    BY <2>1, Asking, OpeningMessages, Zenon
  <2>3. ch' = [ch EXCEPT !["client"] = a]
    BY <1>2 DEF ssh_session2_open
  <2> HIDE DEF a
  <2>4. Opening(a, s)
    BY <2>1, <2>2, Zenon DEF Opening
  <2>5. ch' = [p \in Peers |-> IF p = "client" THEN a ELSE s]
    BY <1>0, <2>3, Zenon DEF Peers
  <2> QED
    BY <1>1, <2>1, <2>4, <2>5, OpeningStep
<1>3. CASE channel_post_port_listener
  <2> DEFINE a == Send(channel_new(c, "direct-tcpip", "opening", Window),
                       Msg("direct-tcpip", Window))
  <2>1. /\ "direct-tcpip" \in Ctypes /\ Opening(c, s)
        /\ IsNone(c, <<>>) /\ IsNone(s, <<>>)
    BY <1>0, <1>3, OpeningStates DEF channel_post_port_listener
  <2>2. IsClient(a, "direct-tcpip", <<Msg("direct-tcpip", Window)>>, "opening")
    BY <2>1, Asking, OpeningMessages, Zenon
  <2>3. ch' = [ch EXCEPT !["client"] = a]
    BY <1>3 DEF channel_post_port_listener
  <2> HIDE DEF a
  <2>4. Opening(a, s)
    BY <2>1, <2>2, Zenon DEF Opening
  <2>5. ch' = [p \in Peers |-> IF p = "client" THEN a ELSE s]
    BY <1>0, <2>3, Zenon DEF Peers
  <2> QED
    BY <1>1, <2>1, <2>4, <2>5, OpeningStep, SMTT(30), SMTT(40)
<1>4. CASE process_buffered_input_packets("server")
  <2>1. PICK ok \in BOOLEAN :
           ch' = [ch EXCEPT !["server"] = Dispatch("server", @, Head(c.wire), ok),
                            !["client"].wire = Tail(@)]
    BY <1>4, Zenon DEF process_buffered_input_packets, Other
  <2> DEFINE b == Dispatch("server", s, Head(c.wire), ok)
  <2>2. c.wire # <<>>
    BY <1>4 DEF process_buffered_input_packets, Other
  <2>3. Step(c, s, Took(c), b)
    BY <1>0, <2>2, ServerReceives
  <2>4. ch' = [ch EXCEPT !["server"] = b, !["client"] = Took(c)]
    BY <1>0, <2>1 DEF Took, Peers
  <2> HIDE DEF b
  <2>5. ch' = [p \in Peers |-> IF p = "client" THEN Took(c) ELSE b]
    BY <1>0, <2>4, Zenon DEF Peers
  <2> QED
    BY <1>1, <2>3, <2>5
<1>5. CASE process_buffered_input_packets("client")
  <2>1. PICK ok \in BOOLEAN :
           ch' = [ch EXCEPT !["client"] = Dispatch("client", @, Head(s.wire), ok),
                            !["server"].wire = Tail(@)]
    BY <1>5, Zenon DEF process_buffered_input_packets, Other
  <2> DEFINE a == Dispatch("client", c, Head(s.wire), ok)
  <2>2. s.wire # <<>>
    BY <1>5 DEF process_buffered_input_packets, Other
  <2>3. Step(c, s, a, Took(s))
    BY <1>0, <2>2, ClientReceives
  <2>4. ch' = [ch EXCEPT !["client"] = a, !["server"] = Took(s)]
    BY <1>0, <2>1 DEF Took, Peers
  <2> HIDE DEF a
  <2>5. ch' = [p \in Peers |-> IF p = "client" THEN a ELSE Took(s)]
    BY <1>0, <2>4, Zenon DEF Peers
  <2> QED
    BY <1>1, <2>3, <2>5
<1>6. ASSUME NEW p \in Peers, Loop(p)
      PROVE  /\ ch[p].type \notin {"none", "free"}
             /\ \E z : Iteration(p, ch[p], z) /\ ch' = [ch EXCEPT ![p] = z]
  <2>1. PICK d \in {collect_children(BeforeSelect(p, poll)) : poll \in BOOLEAN} :
        \E r \in Readable(p, d), w \in Writable(d), e \in ErrReady(d) :
           ch' = [ch EXCEPT ![p] = channel_after_select(d, r, w, e)]
    BY <1>6, Zenon DEF Loop
  <2>2. PICK poll \in BOOLEAN : d = collect_children(BeforeSelect(p, poll))
    BY <2>1
  <2>3. PICK r \in Readable(p, d), w \in Writable(d), e \in ErrReady(d) :
           ch' = [ch EXCEPT ![p] = channel_after_select(d, r, w, e)]
    BY <2>1, Zenon
  <2> DEFINE z == channel_after_select(d, r, w, e)
  <2>4. Iteration(p, ch[p], z)
    BY <2>2, <2>3 DEF Iteration, BeforeSelect
  <2> QED
    BY <1>6, <2>3, <2>4, Zenon DEF Loop, Running
<1>7. CASE Loop("client")
  <2>1. PICK z : Iteration("client", c, z) /\ ch' = [ch EXCEPT !["client"] = z]
    BY <1>6, <1>7 DEF Peers
  <2>2. Step(c, s, z, s)
    BY <1>0, <1>6, <1>7, <2>1, ClientLoops DEF Peers
  <2>3. ch' = [p \in Peers |-> IF p = "client" THEN z ELSE s]
    BY <1>0, <2>1, Zenon DEF Peers
  <2> QED
    BY <1>1, <2>2, <2>3
<1>8. CASE Loop("server")
  <2>1. PICK z : Iteration("server", s, z) /\ ch' = [ch EXCEPT !["server"] = z]
    BY <1>6, <1>8 DEF Peers
  <2>2. Step(c, s, c, z)
    BY <1>0, <1>6, <1>8, <2>1, ServerLoops DEF Peers
  <2>3. ch' = [p \in Peers |-> IF p = "client" THEN c ELSE z]
    BY <1>0, <2>1, Zenon DEF Peers
  <2> QED
    BY <1>1, <2>2, <2>3
<1>9. CASE Exit
  <2>0. PICK end \in {"exited", "killed"} : ch' = [ch EXCEPT !["server"].pid = end]
    BY <1>9, Zenon DEF Exit
  <2>1. s.pid = "running" /\ ch' = [ch EXCEPT !["server"] = Exited(s, end)]
    BY <1>0, <1>9, <2>0, Zenon DEF Exit, Exited, Peers
  <2>2. /\ Established(s, c) /\ c.usage # "read" /\ s.usage # "write"
        /\ s.type = "open"
    BY <1>0, <2>1, OpeningStates, EstablishedEnds
  <2>3. Keeps(s, Exited(s, end), c) /\ Exited(s, end).sel = {}
    BY <1>0, <2>1, <2>2, Exits, Zenon DEF Exited, Channel
  <2>4. Step(c, s, c, Exited(s, end))
    BY <1>0, <2>2, <2>3, EstablishedStep
  <2>5. ch' = [p \in Peers |-> IF p = "client" THEN c ELSE Exited(s, end)]
    BY <1>0, <2>1, Zenon DEF Peers
  <2> QED
    BY <1>1, <2>4, <2>5
<1> QED
  BY <1>2, <1>3, <1>4, <1>5, <1>7, <1>8, <1>9, SMTT(30), SMTT(40) DEF Next, Peers

-----------------------------------------------------------------------------
(* The bytes under way are counted.  The theorems on finite sets are        *)
(* instantiated only here, because nothing needs them before.  To the prover *)
(* the Cardinality they bring is another than that of module SshChannel:    *)
(* the two have the same definition, which is Count.                        *)

Count(S) ==
    LET CS[R \in SUBSET S] == IF R = {} THEN 0
                              ELSE 1 + CS[R \ {CHOOSE b : b \in R}]
    IN  CS[S]

\* The bytes of module SshChannel are counted with that definition ...
LEMMA BytesCounted ==
    ASSUME NEW w, NEW T
    PROVE  U(w, T) = Count(BytesOf(w, T))
BY DEF U, Cardinality, Count

LOCAL INSTANCE FiniteSetTheorems

\* ... and so is the Cardinality of the theorems on finite sets.
LEMMA CountIsCardinality ==
    ASSUME NEW S
    PROVE  Count(S) = Cardinality(S)
BY DEF Cardinality, Count

\* So the theorems hold of U.
LEMMA BytesCardinality ==
    ASSUME NEW w, NEW T
    PROVE  U(w, T) = Cardinality(BytesOf(w, T))
BY BytesCounted, CountIsCardinality, Zenon

\* The bytes of one message.
LEMMA MessageBytes ==
    ASSUME NEW n \in Nat
    PROVE  IsFiniteSet(1..n) /\ Cardinality(1..n) = n
<1>0. 1 \in Int /\ n \in Int
  OBVIOUS
<1>1. IsFiniteSet(1..n) /\ Cardinality(1..n) = IF 1 > n THEN 0 ELSE n - 1 + 1
  BY <1>0, FS_Interval, Zenon
<1> QED
  BY <1>1

\* The bytes of a wire (BytesOf) are finitely many.
LEMMA BytesFinite ==
    ASSUME NEW w \in Seq(Messages), NEW T
    PROVE  IsFiniteSet(BytesOf(w, T)) /\ U(w, T) \in Nat
<1> DEFINE I == {j \in DOMAIN w : w[j].t \in T}
           S == {{i} \X (1..w[i].n) : i \in I}
           f == [i \in I |-> {i} \X (1..w[i].n)]
<1>1. IsFiniteSet(I)
  <2>1. I \subseteq 1..Len(w) /\ Len(w) \in Nat
    OBVIOUS
  <2>2. IsFiniteSet(1..Len(w))
    BY <2>1, FS_Interval
  <2> QED
    BY <2>1, <2>2, FS_Subset
<1>2. f \in Surjection(I, S)
  BY Zenon DEF Surjection
<1>3. IsFiniteSet(S)
  BY <1>1, <1>2, FS_Surjection
<1>4. \A X \in S : IsFiniteSet(X)
  <2> TAKE X \in S
  <2>1. PICK i \in I : X = {i} \X (1..w[i].n)
    OBVIOUS
  <2>2. w[i] \in Messages
    OBVIOUS
  <2>3. w[i].n \in Nat
    BY <2>2 DEF Messages
  <2>4. IsFiniteSet(1..w[i].n) /\ IsFiniteSet({i})
    BY <2>3, MessageBytes, FS_Singleton, Zenon
  <2> QED
    BY <2>1, <2>4, FS_Product, Zenon
<1>5. IsFiniteSet(UNION S)
  BY <1>3, <1>4, FS_UNION, Zenon
<1>6. BytesOf(w, T) = UNION S
  BY DEF BytesOf
<1> QED
  BY <1>5, <1>6, FS_CardinalityType, BytesCardinality, ZenonT(40)

\* What is a byte of a wire.
LEMMA BytesMember ==
    ASSUME NEW w \in Seq(Messages), NEW T, NEW b
    PROVE  b \in BytesOf(w, T) <=>
              \E i \in 1..Len(w), k \in Nat :
                 b = <<i, k>> /\ 1 <= k /\ k <= w[i].n /\ w[i].t \in T
<1>1. \A i \in DOMAIN w : w[i] \in Messages
  OBVIOUS
<1>2. \A i \in DOMAIN w : w[i].n \in Nat
  BY <1>1 DEF Messages
<1> QED
  BY <1>2 DEF BytesOf

\* The bytes of an empty wire, of one message, and of a wire to which a
\* message is appended (packet_send).
LEMMA UnderEmpty ==
    ASSUME NEW T
    PROVE  U(<<>>, T) = 0
<1>1. BytesOf(<<>>, T) = {}
  BY DEF BytesOf
<1> QED
  BY <1>1, FS_EmptySet, BytesCardinality

\* A message that is added counts for its size.
LEMMA UnderAppend ==
    ASSUME NEW w \in Seq(Messages), NEW m \in Messages, NEW T
    PROVE  U(Append(w, m), T) = U(w, T) + Size(m, T)
<1> DEFINE v == Append(w, m)
           N == IF m.t \in T THEN {Len(w) + 1} \X (1..m.n) ELSE {}
<1>1. /\ v \in Seq(Messages) /\ Len(v) = Len(w) + 1 /\ Len(w) \in Nat
      /\ v[Len(w) + 1] = m /\ \A i \in 1..Len(w) : v[i] = w[i]
      /\ m.n \in Nat
  BY SMTT(40), SMTT(50) DEF Messages
<1> HIDE DEF v
<1>2. BytesOf(v, T) = BytesOf(w, T) \cup N
  <2>1. ASSUME NEW b \in BytesOf(v, T) PROVE b \in BytesOf(w, T) \cup N
    <3>1. PICK i \in 1..Len(v), k \in Nat :
             b = <<i, k>> /\ 1 <= k /\ k <= v[i].n /\ v[i].t \in T
      BY <1>1, <2>1, BytesMember, SMTT(30), SMTT(40)
    <3>2. CASE i = Len(w) + 1
      BY <1>1, <3>1, <3>2, SMTT(30), SMTT(40)
    <3>3. CASE i \in 1..Len(w)
      BY <1>1, <3>1, <3>3, BytesMember, SMTT(30), SMTT(40)
    <3> QED
      BY <1>1, <3>2, <3>3, SMTT(30), SMTT(40)
  <2>2. ASSUME NEW b \in BytesOf(w, T) PROVE b \in BytesOf(v, T)
    <3>1. PICK i \in 1..Len(w), k \in Nat :
             b = <<i, k>> /\ 1 <= k /\ k <= w[i].n /\ w[i].t \in T
      BY <2>2, BytesMember
    <3>2. i \in 1..Len(v) /\ v[i] = w[i]
      BY <1>1, <3>1
    <3> QED
      BY <1>1, <3>1, <3>2, BytesMember, SMTT(30), SMTT(40)
  <2>3. ASSUME NEW b \in N PROVE b \in BytesOf(v, T)
    <3>1. PICK k \in 1..m.n : b = <<Len(w) + 1, k>> /\ m.t \in T
      BY <2>3
    <3>2. Len(w) + 1 \in 1..Len(v) /\ k \in Nat /\ 1 <= k /\ k <= m.n
      BY <1>1, <3>1
    <3> QED
      BY <1>1, <3>1, <3>2, BytesMember, SMTT(30), SMTT(40)
  <2> QED
    BY <2>1, <2>2, <2>3
<1>3. BytesOf(w, T) \cap N = {}
  <2> SUFFICES ASSUME NEW b \in BytesOf(w, T), b \in N PROVE FALSE
    OBVIOUS
  <2>1. PICK i \in 1..Len(w), k \in Nat : b = <<i, k>>
    BY BytesMember, SMTT(30), SMTT(40)
  <2> QED
    BY <1>1, <2>1, SMTT(30), SMTT(40)
<1>4. IsFiniteSet(N) /\ Cardinality(N) = Size(m, T)
  <2>1. CASE m.t \in T
    <3>1. IsFiniteSet(1..m.n) /\ Cardinality(1..m.n) = m.n
      BY <1>1, MessageBytes, SMTT(30), SMTT(40)
    <3>2. IsFiniteSet({Len(w) + 1}) /\ Cardinality({Len(w) + 1}) = 1
      BY FS_Singleton, Zenon
    <3>3. /\ IsFiniteSet({Len(w) + 1} \X (1..m.n))
          /\ Cardinality({Len(w) + 1} \X (1..m.n))
               = Cardinality({Len(w) + 1}) * Cardinality(1..m.n)
      BY <3>1, <3>2, FS_Product, Zenon
    <3> QED
      BY <1>1, <2>1, <3>1, <3>2, <3>3, SMTT(30), SMTT(40) DEF Size
  <2>2. CASE m.t \notin T
    BY <2>2, FS_EmptySet, SMTT(30), SMTT(40) DEF Size
  <2> QED
    BY <2>1, <2>2, SMTT(30), SMTT(40)
<1>5. IsFiniteSet(BytesOf(w, T)) /\ U(w, T) \in Nat
  BY BytesFinite, SMTT(30), SMTT(40)
<1> HIDE DEF N
<1>6. Cardinality(BytesOf(w, T) \cup N)
         = Cardinality(BytesOf(w, T)) + Cardinality(N) - Cardinality({})
  BY <1>3, <1>4, <1>5, FS_Union, SMTT(30), SMTT(40)
<1>7. Size(m, T) \in Nat
  BY <1>1, SMTT(30), SMTT(40) DEF Size
<1>8. /\ U(w, T) = Cardinality(BytesOf(w, T))
      /\ U(v, T) = Cardinality(BytesOf(v, T))
  BY BytesCardinality, Zenon
<1>9. Cardinality({}) = 0
  BY FS_EmptySet, Zenon
<1> QED
  BY <1>2, <1>4, <1>5, <1>6, <1>7, <1>8, <1>9, SMTT(30), SMTT(40) DEF v

\* The bytes of a wire without its first message (packet_read).
LEMMA UnderTail ==
    ASSUME NEW w \in Seq(Messages), w # <<>>, NEW T
    PROVE  /\ Tail(w) \in Seq(Messages) /\ Head(w) \in Messages
           /\ U(w, T) = U(Tail(w), T) + Size(Head(w), T)
<1> DEFINE v == Tail(w)
           m == Head(w)
           N == IF m.t \in T THEN {1} \X (1..m.n) ELSE {}
           B == BytesOf(w, T) \ N
           f == [b \in BytesOf(v, T) |-> <<b[1] + 1, b[2]>>]
<1>1. /\ v \in Seq(Messages) /\ m \in Messages /\ Len(w) = Len(v) + 1
      /\ Len(v) \in Nat /\ m = w[1]
      /\ \A i \in 1..Len(v) : v[i] = w[i + 1]
  OBVIOUS
<1>2. m.n \in Nat /\ Size(m, T) \in Nat
  BY <1>1, SMTT(30), SMTT(40) DEF Messages, Size
<1> HIDE DEF v, m
<1>3. N \subseteq BytesOf(w, T)
  <2> SUFFICES ASSUME NEW b \in N PROVE b \in BytesOf(w, T)
    OBVIOUS
  <2>1. PICK k \in 1..m.n : b = <<1, k>> /\ m.t \in T
    OBVIOUS
  <2>2. 1 \in 1..Len(w) /\ k \in Nat /\ 1 <= k /\ k <= m.n
    BY <1>1, <1>2, SMTT(30), SMTT(40)
  <2> QED
    BY <1>1, <2>1, <2>2, BytesMember, SMTT(30), SMTT(40)
<1>4. f \in Bijection(BytesOf(v, T), B)
  <2>1. \A b \in BytesOf(v, T) : \E i \in 1..Len(v), k \in Nat :
           b = <<i, k>> /\ 1 <= k /\ k <= v[i].n /\ v[i].t \in T
    BY <1>1, BytesMember, SMTT(30), SMTT(40)
  <2>2. ASSUME NEW b \in BytesOf(v, T) PROVE f[b] \in B
    <3>1. PICK i \in 1..Len(v), k \in Nat :
             b = <<i, k>> /\ 1 <= k /\ k <= v[i].n /\ v[i].t \in T
      BY <2>1, SMTT(30), SMTT(40)
    <3>2. f[b] = <<i + 1, k>> /\ i + 1 \in 1..Len(w) /\ w[i + 1] = v[i] /\ i
          + 1 # 1
      BY <1>1, <3>1, SMTT(30), SMTT(40)
    <3>3. f[b] \in BytesOf(w, T)
      BY <3>1, <3>2, BytesMember, SMTT(30), SMTT(40)
    <3> QED
      BY <3>2, <3>3, SMTT(30), SMTT(40)
  <2>3. ASSUME NEW a \in BytesOf(v, T), NEW b \in BytesOf(v, T), f[a] = f[b]
        PROVE  a = b
    <3>1. PICK i \in 1..Len(v), k \in Nat : a = <<i, k>>
      BY <2>1, SMTT(30), SMTT(40)
    <3>2. PICK j \in 1..Len(v), l \in Nat : b = <<j, l>>
      BY <2>1, SMTT(30), SMTT(40)
    <3>3. <<i + 1, k>> = <<j + 1, l>>
      BY <2>3, <3>1, <3>2, SMTT(30), SMTT(40)
    <3> QED
      BY <1>1, <3>1, <3>2, <3>3, SMTT(30), SMTT(40)
  <2>4. ASSUME NEW b \in B PROVE \E a \in BytesOf(v, T) : f[a] = b
    <3>1. PICK i \in 1..Len(w), k \in Nat :
             b = <<i, k>> /\ 1 <= k /\ k <= w[i].n /\ w[i].t \in T
      BY <2>4, BytesMember, SMTT(30), SMTT(40)
    <3>2. i # 1
      BY <1>1, <1>2, <2>4, <3>1, SMTT(30), SMTT(40)
    <3>3. i - 1 \in 1..Len(v) /\ v[i - 1] = w[i] /\ (i - 1) + 1 = i
      BY <1>1, <3>2, SMTT(30), SMTT(40)
    <3>4. <<i - 1, k>> \in BytesOf(v, T)
      BY <1>1, <3>1, <3>3, BytesMember, SMTT(30), SMTT(40)
    <3>5. f[<<i - 1, k>>] = b
      BY <3>1, <3>3, <3>4, SMTT(30), SMTT(40)
    <3> QED
      BY <3>4, <3>5, SMTT(30), SMTT(40)
  <2> HIDE DEF f, B
  <2>5. f \in [BytesOf(v, T) -> B]
    <3>1. f = [b \in BytesOf(v, T) |-> f[b]]
      BY SMTT(30), SMTT(40) DEF f
    <3> QED
      BY <2>2, <3>1, SMTT(30), SMTT(40)
  <2> QED
    BY <2>3, <2>4, <2>5, SMTT(30), SMTT(40)
       DEF Bijection, Injection, Surjection, IsInjective
<1>5. /\ IsFiniteSet(BytesOf(v, T)) /\ U(v, T) \in Nat
      /\ IsFiniteSet(BytesOf(w, T)) /\ U(w, T) \in Nat
  BY <1>1, BytesFinite, SMTT(30), SMTT(40)
<1>6. Cardinality(B) = Cardinality(BytesOf(v, T))
  BY <1>4, <1>5, FS_Bijection, SMTT(30), SMTT(40) DEF ExistsBijection
<1>7. Cardinality(N) = Size(m, T)
  <2>1. CASE m.t \in T
    <3>1. IsFiniteSet(1..m.n) /\ Cardinality(1..m.n) = m.n
      BY <1>2, MessageBytes, SMTT(30), SMTT(40)
    <3>2. IsFiniteSet({1}) /\ Cardinality({1}) = 1
      BY FS_Singleton, Zenon
    <3>3. Cardinality({1} \X (1..m.n)) = Cardinality({1}) * Cardinality(1..m.n)
      BY <3>1, <3>2, FS_Product, Zenon
    <3> QED
      BY <1>2, <2>1, <3>1, <3>2, <3>3, SMTT(30), SMTT(40) DEF Size
  <2>2. CASE m.t \notin T
    BY <2>2, FS_EmptySet, SMTT(30), SMTT(40) DEF Size
  <2> QED
    BY <2>1, <2>2, SMTT(30), SMTT(40)
<1> HIDE DEF N
<1>8. BytesOf(w, T) \cap N = N
  BY <1>3, SMTT(30), SMTT(40)
<1>9. Cardinality(B) = Cardinality(BytesOf(w, T)) - Cardinality(N)
  BY <1>5, <1>8, FS_Difference, Zenon DEF B
<1> QED
  BY <1>1, <1>2, <1>5, <1>6, <1>7, <1>9, BytesCardinality, SMTT(30), SMTT(40) DEF v, m

\* The bytes under way change by the sizes of the messages.
LEMMA BytesAreCounted == Counted
<1>1. ASSUME NEW T
      PROVE  U(<<>>, T) = 0
  BY UnderEmpty, SMTT(30), SMTT(40)
<1>2. ASSUME NEW T, NEW w \in Seq(Messages)
      PROVE  U(w, T) \in Nat
  BY BytesFinite, SMTT(30), SMTT(40)
<1>3. ASSUME NEW T, NEW w \in Seq(Messages), NEW m \in Messages
      PROVE  U(Append(w, m), T) = U(w, T) + Size(m, T)
  BY UnderAppend, SMTT(30), SMTT(40)
<1>4. ASSUME NEW T, NEW w \in Seq(Messages), w # <<>>
      PROVE  U(w, T) = U(Tail(w), T) + Size(Head(w), T)
  BY <1>4, UnderTail, SMTT(30), SMTT(40)
<1> QED
  BY <1>1, <1>2, <1>3, <1>4, Zenon DEF Counted

\* A wire without messages of some types has none of their bytes.
LEMMA NoBytes ==
    ASSUME NEW w \in Seq(Messages), NEW T, \A i \in 1..Len(w) : w[i].t \notin T
    PROVE  U(w, T) = 0
<1>1. DOMAIN w = 1..Len(w)
  OBVIOUS
<1>2. BytesOf(w, T) = {}
  BY <1>1, SMTT(30), SMTT(40) DEF BytesOf
<1> QED
  BY <1>2, FS_EmptySet, BytesCardinality, Zenon

\* What is under way while a channel is being opened, and the windows then.
LEMMA OpeningWindows ==
    ASSUME NEW c, NEW s, Opening(c, s)
    PROVE  /\ c.remote_window + BothB(c.wire) + GrantB(s.wire) <= s.local_window
           /\ s.remote_window + BothB(s.wire) + GrantB(c.wire) <= c.local_window
           /\ c.type # "open" \/ s.type # "open"
<1>0. Window \in Nat
  BY ChannelConstants, SMTT(30), SMTT(40)
<1>1. ASSUME NEW m \in Messages
      PROVE  /\ BothB(<<m>>) = IF m.t \in {"data", "ext"} THEN m.n ELSE 0
             /\ GrantB(<<m>>) =
                   IF m.t \in Ctypes \cup {"confirm", "adjust"} THEN m.n ELSE 0
             /\ BothB(<<>>) = 0 /\ GrantB(<<>>) = 0
  <2>1. ASSUME NEW T PROVE U(<<m>>, T) = 0 + Size(m, T) /\ U(<<>>, T) = 0
    <3>1. <<>> \in Seq(Messages) /\ Append(<<>>, m) = <<m>>
      BY OneMessage, SMTT(30), SMTT(40)
    <3>2. U(<<>>, T) = 0 /\ U(Append(<<>>, m), T) = U(<<>>, T) + Size(m, T)
      BY <3>1, UnderEmpty, UnderAppend, Zenon
    <3> QED
      BY <3>1, <3>2, SMTT(30), SMTT(40)
  <2>2. m.n \in Nat
    BY SMTT(30), SMTT(40) DEF Messages
  <2> QED
    BY <2>1, <2>2, SMTT(30), SMTT(40) DEF BothB, GrantB, Size
<1>2. /\ BothB(<<>>) = 0 /\ GrantB(<<>>) = 0
      /\ BothB(<<Msg("failure", 0)>>) = 0 /\ GrantB(<<Msg("failure", 0)>>) = 0
      /\ BothB(<<Msg("confirm", 0)>>) = 0 /\ GrantB(<<Msg("confirm", 0)>>) = 0
      /\ BothB(<<Msg("shell", 0)>>) = 0 /\ GrantB(<<Msg("shell", 0)>>) = 0
      /\ BothB(<<Msg("channel-failure", 0)>>) = 0
      /\ GrantB(<<Msg("channel-failure", 0)>>) = 0
  BY <1>1, OpeningMessages, ChannelConstants, SMTT(30), SMTT(40) DEF Msg
<1>3. ASSUME NEW t \in Ctypes
      PROVE  BothB(<<Msg(t, Window)>>) = 0 /\ GrantB(<<Msg(t, Window)>>) = Window
  BY <1>1, <1>3, OpeningMessages, ChannelConstants, SMTT(30), SMTT(40) DEF Msg
<1>4. CASE IsNone(c, <<>>) /\ IsNone(s, <<>>)
  BY <1>2, <1>4, SMTT(30), SMTT(40) DEF IsNone
<1>5. ASSUME NEW t \in Ctypes, IsNone(s, <<>>),
             IsClient(c, t, <<Msg(t, Window)>>, "opening")
      PROVE  /\ c.remote_window + BothB(c.wire) + GrantB(s.wire) <= s.local_window
             /\ s.remote_window + BothB(s.wire) + GrantB(c.wire) <= c.local_window
             /\ c.type # "open" \/ s.type # "open"
  BY <1>0, <1>2, <1>3, <1>5, SMTT(40), SMTT(50) DEF IsNone, IsClient
<1>6. ASSUME NEW t \in Ctypes, NEW v, v \in {<<>>, <<Msg("failure", 0)>>},
             NEW type, IsClient(c, t, <<>>, type), Refused(s, v)
      PROVE  /\ c.remote_window + BothB(c.wire) + GrantB(s.wire) <= s.local_window
             /\ s.remote_window + BothB(s.wire) + GrantB(c.wire) <= c.local_window
             /\ c.type # "open" \/ s.type # "open"
  <2>1. BothB(v) = 0 /\ GrantB(v) = 0
    BY <1>2, <1>6, SMTT(30), SMTT(40)
  <2> QED
    BY <1>0, <1>2, <1>6, <2>1, SMTT(30), SMTT(40)
       DEF Refused, IsNone, IsClient, IsForward
<1>7. CASE /\ IsClient(c, "direct-tcpip", <<>>, "opening")
           /\ IsForward(s, "connecting", <<>>)
  BY <1>0, <1>2, <1>7, SMTT(30), SMTT(40) DEF IsClient, IsForward
<1>8. CASE \/ /\ IsClient(c, "session", <<>>, "opening")
              /\ IsLarval(s, <<Msg("confirm", 0)>>)
           \/ /\ IsClient(c, "session", <<Msg("shell", 0)>>, "open")
              /\ IsLarval(s, <<>>)
  BY <1>0, <1>2, <1>8, SMTT(40), SMTT(50) DEF IsClient, IsLarval
<1>9. CASE /\ IsClient(c, "session", <<>>, "open")
           /\ IsLarval(s, <<Msg("channel-failure", 0)>>) \/ IsLarval(s, <<>>)
  BY <1>0, <1>2, <1>9, SMTT(40), SMTT(50) DEF IsClient, IsLarval
<1> QED
  BY <1>4, <1>5, <1>6, <1>7, <1>8, <1>9, Zenon DEF Opening

\* WindowsAgree and NothingTruncated for one direction of the channel.
Agree(x, y) ==
    LET used == x.remote_window + BothB(x.wire) + GrantB(y.wire)
        well == x.type = "open" /\ y.type = "open" /\ y.failed = {}
    IN  /\ y \in Channel
        /\ y.type # "free" => used <= y.local_window
        /\ HeldBy(y) <= y.local_window_max
        /\ well => used = y.local_window /\ ~(HeldBy(y) < y.local_window_max)
Complete(x, y) ==
    y.ostate = "closed" /\ "write" \notin y.failed =>
       /\ y.wr = x.rd
       /\ "efd" \notin y.failed => y.ewr = x.erd

\* The invariant implies both while the channel is being opened ...
LEMMA OpeningAgrees ==
    ASSUME NEW c, NEW s, Opening(c, s)
    PROVE  Agree(c, s) /\ Agree(s, c) /\ Complete(c, s) /\ Complete(s, c)
<1>1. Fresh(c) /\ Fresh(s)
  BY OpeningFresh, SMTT(30), SMTT(40)
<1>2. Complete(c, s) /\ Complete(s, c)
  BY <1>1, SMTT(40), SMTT(50) DEF Fresh, Complete
<1>3. HeldBy(c) = c.local_window_max /\ HeldBy(s) = s.local_window_max
  BY <1>1, ChannelConstants, SMTT(40), SMTT(50) DEF Fresh, HeldBy, ErrIn
<1>4. c.local_window_max \in Nat /\ s.local_window_max \in Nat
  BY <1>1, ChannelConstants, SMTT(30), SMTT(40) DEF Fresh
<1> QED
  BY <1>1, <1>2, <1>3, <1>4, OpeningWindows, SMTT(30), SMTT(40) DEF Agree, Fresh

\* ... and when it is established.
LEMMA EstablishedAgrees ==
    ASSUME NEW x, NEW y, Established(x, y)
    PROVE  Agree(x, y) /\ Complete(x, y)
<1>1. Known(x, y)
  BY KnownOf, BytesAreCounted, SMTT(30), SMTT(40)
<1>2. /\ x \in Channel /\ y \in Channel /\ x.wire \in Seq(Messages)
      /\ StdNums(x) /\ StdNums(y) /\ ErrNums(x) /\ ErrNums(y) /\ HeldNums(y)
  BY <1>1, Zenon DEF Known, Typed
<1>3. /\ Holding(HeldBy(y), y.local_window_max, y.type, y.failed)
      /\ Windows(x.remote_window, BothB(x.wire), GrantB(y.wire), y.local_window,
                 x.type, y.type, y.failed)
  BY <1>1, Zenon DEF Known, OneWay, LocalInv
<1>4. HeldBy(y) \in Nat
  BY <1>2, SMTT(40), SMTT(50) DEF HeldBy, ErrIn, HeldNums
<1>5. Agree(x, y)
  BY <1>2, <1>3, <1>4, SMTT(40), SMTT(50) DEF Agree, Holding, Windows, HeldNums
<1>6. ASSUME y.ostate = "closed", "write" \notin y.failed
      PROVE  y.wr = x.rd /\ ("efd" \notin y.failed => y.ewr = x.erd)
  <2>1. /\ Outputs(y.flags, y.ostate, y.failed)
        /\ Halves(y.flags, y.istate, y.ostate, y.output)
        /\ Halves(x.flags, x.istate, x.ostate, x.output)
        /\ Stderr(y.usage, y.efd, y.extended, y.ostate, y.failed, y.type)
    BY <1>1, Zenon DEF Known, LocalInv
  <2>2. /\ Closes(x.wire, x.flags, y.flags) /\ Eofs(x.wire, x.flags, y.flags)
        /\ Sent(x.istate, x.input, x.usage, x.efd, x.extended, y.failed)
        /\ Balance(x.rd, x.input, DataB(x.wire), y.output, y.wr, y.failed)
        /\ ErrBalance(x.erd, ErrOut(x.usage, x.extended), ErrB(x.wire),
                      ErrIn(y.usage, y.extended), y.ewr, y.failed)
    BY <1>1, ZenonT(40) DEF Known, OneWay
  <2>3. x.istate = "closed" /\ \A i \in 1..Len(x.wire) : x.wire[i].t \notin Payload
    <3>1. CASE "close_rcvd" \in y.flags
      <4>1. x.istate = "closed" /\ x.wire = <<>>
        BY <2>1, <2>2, <3>1, ZenonT(40) DEF Closes, Halves
      <4>2. Len(x.wire) = 0
        BY <4>1, SMTT(30), SMTT(40)
      <4> QED
        BY <4>1, <4>2, SMTT(30), SMTT(40)
    <3>2. CASE "eof_rcvd" \in y.flags
      <4>1. Eofs(x.wire, x.flags, y.flags)
        BY <2>2, ZenonT(30)
      <4>2. "eof_sent" \in x.flags => x.istate = "closed"
        BY <2>1, ZenonT(30) DEF Halves
      <4> QED
        BY <3>2, <4>1, <4>2, ZenonT(40), SMTT(40) DEF Eofs
    <3> QED
      BY <1>6, <2>1, <3>1, <3>2, SMTT(20), SMTT(30) DEF Outputs, Received
  <2>4. DataB(x.wire) = 0 /\ ErrB(x.wire) = 0
    <3>1. /\ \A i \in 1..Len(x.wire) : x.wire[i].t \notin {"data"}
          /\ \A i \in 1..Len(x.wire) : x.wire[i].t \notin {"ext"}
      BY <2>3, SMTT(20), SMTT(30) DEF Payload
    <3> QED
      BY <1>2, <3>1, NoBytes, SMTT(30), SMTT(40) DEF DataB, ErrB
  <2>5. x.input = 0 /\ y.output = 0 /\ ErrOut(x.usage, x.extended) = 0
    <3>1. x.input = 0 /\ ErrOut(x.usage, x.extended) = 0
      BY <1>6, <2>2, <2>3, SMTT(40), SMTT(50) DEF Sent, ErrOut
    <3>2. y.output = 0
      BY <1>6, <2>1, <2>2, SMTT(40), SMTT(50) DEF Halves
    <3> QED BY <3>1, <3>2, ZenonT(40)
  <2>6. "efd" \notin y.failed => ErrIn(y.usage, y.extended) = 0
    BY <1>6, <2>1, SMTT(30), SMTT(40) DEF Stderr, ErrIn
  <2> QED
    BY <1>2, <1>6, <2>2, <2>4, <2>5, <2>6, SMTT(30), SMTT(40)
       DEF Balance, ErrBalance, StdNums,
       ErrNums
<1> QED
  BY <1>5, <1>6, SMTT(30), SMTT(40) DEF Complete

\* The invariant: the two ends of a channel always fit together.  They are in
\* one of the states of an opening, or every byte that one application wrote
\* is accounted for, as is every byte of window.
THEOREM ChannelInvariant == ChannelSpec => []ChannelInv
<1>1. Init => ChannelInv
  <2> SUFFICES ASSUME Init PROVE ChannelInv
    OBVIOUS
  <2>1. ch["client"] = NoChannel /\ ch["server"] = NoChannel
    BY SMTT(30), SMTT(40) DEF Init, Peers
  <2>2. <<>> \in Seq(Messages)
    OBVIOUS
  <2>3. IsNone(NoChannel, <<>>) /\ NoChannel \in Channel /\ NoChannel.sel = {}
    BY <2>2, ChannelConstants, ZenonT(30)
       DEF IsNone, Fresh, NoChannel, Channel, Types, HalfStates, Messages
  <2>4. Opening(NoChannel, NoChannel)
    BY <2>3, ZenonT(30) DEF Opening
  <2>5. ch \in [Peers -> Channel]
    BY <2>3, SMTT(30), SMTT(40) DEF Init
  <2> QED
    BY <2>1, <2>3, <2>4, <2>5, SMTT(30), SMTT(40) DEF ChannelInv, Related, Live, Peers
<1>2. ChannelInv /\ [Next]_ch => ChannelInv'
  <2> SUFFICES ASSUME ChannelInv, [Next]_ch PROVE ChannelInv'
    OBVIOUS
  <2>1. /\ ch' \in [Peers -> Channel]
        /\ Step(ch["client"], ch["server"], ch'["client"], ch'["server"])
    BY NextStep, BytesAreCounted, SMTT(30), SMTT(40)
  <2> QED
    BY <2>1, SMTT(30), SMTT(40) DEF ChannelInv, Step, Peers
<1> QED
  BY <1>1, <1>2, PTL DEF ChannelSpec

\* Both directions of the channel.
LEMMA BothAgree ==
    ASSUME ChannelInv, NEW p \in Peers
    PROVE  Agree(ch[p], ch[Other(p)]) /\ Complete(ch[p], ch[Other(p)])
<1> DEFINE c == ch["client"]
           s == ch["server"]
<1>1. Related(c, s)
  BY SMTT(30), SMTT(40) DEF ChannelInv
<1>2. Agree(c, s) /\ Agree(s, c) /\ Complete(c, s) /\ Complete(s, c)
  <2>1. CASE Opening(c, s)
    BY <2>1, OpeningAgrees, SMTT(30), SMTT(40)
  <2>2. CASE Established(c, s)
    BY <2>2, EstablishedEnds, EstablishedAgrees, SMTT(30), SMTT(40)
  <2>3. CASE GaveUp(c, s)
    <3>1. PICK d \in Channel :
             /\ Opening(d, s) /\ c.remote_window = d.remote_window
             /\ c.wire = d.wire /\ c.local_window = d.local_window
             /\ c.type = d.type /\ c.failed = d.failed
             /\ c.output = d.output /\ c.local_consumed = d.local_consumed
             /\ c.usage = d.usage /\ c.extended = d.extended
             /\ c.local_window_max = d.local_window_max
             /\ c.ostate = d.ostate /\ c.wr = d.wr /\ c.rd = d.rd
             /\ c.ewr = d.ewr /\ c.erd = d.erd
      BY <2>3, GivesUp, ZenonT(30)
    <3>2. c \in Channel
      BY <2>3, GaveUpEnds, ZenonT(30)
    <3>3. Agree(d, s) /\ Agree(s, d) /\ Complete(d, s) /\ Complete(s, d)
      BY <3>1, OpeningAgrees, ZenonT(30)
    <3>4. HeldBy(c) = HeldBy(d)
      BY <3>1, ZenonT(30) DEF HeldBy
    <3> QED
      BY <3>1, <3>2, <3>3, <3>4, ZenonT(40) DEF Agree, Complete
  <2> QED
    BY <1>1, <2>1, <2>2, <2>3, SMTT(30), SMTT(40) DEF Related, Live
<1> QED
  BY <1>2, SMTT(30), SMTT(40) DEF Peers, Other

\* The sender never has more window than the receiver has granted, nothing is
\* ever "too much" (channels.c:2353, :2402), and no window is lost while both
\* ends are open and nothing failed, for every Window, MaxPacket and RBuf.
THEOREM ChannelWindowsAgree == ChannelSpec => []WindowsAgree
<1>1. ChannelInv => WindowsAgree
  <2> SUFFICES ASSUME ChannelInv, NEW p \in Peers
               PROVE  LET q == Other(p)
                          used == ch[p].remote_window + Under(p, {"data", "ext"})
                                  + Under(q, Ctypes \cup {"confirm", "adjust"})
                          well == /\ ch[p].type = "open" /\ ch[q].type = "open"
                                  /\ ch[q].failed = {}
                      IN  /\ ch[q] \in Channel
                          /\ ch[q].type # "free" => used <= ch[q].local_window
                          /\ Held(q) <= ch[q].local_window_max
                          /\ well => used = ch[q].local_window /\ ~WindowLost(q)
    BY Zenon DEF WindowsAgree
  <2> DEFINE q == Other(p)
  <2>1. Agree(ch[p], ch[q])
    BY BothAgree, SMTT(30), SMTT(40)
  <2>2. /\ Under(p, {"data", "ext"}) = BothB(ch[p].wire)
        /\ Under(q, Ctypes \cup {"confirm", "adjust"}) = GrantB(ch[q].wire)
    BY SMTT(30), SMTT(40) DEF Under, BothB, GrantB, U
  <2>3. Held(q) = HeldBy(ch[q])
    BY SMTT(40), SMTT(50) DEF Held, HeldBy, ErrIn
  <2> HIDE DEF q
  <2>4. /\ ch[q] \in Channel
        /\ ch[q].type # "free" =>
              ch[p].remote_window + Under(p, {"data", "ext"})
              + Under(q, Ctypes \cup {"confirm", "adjust"}) <= ch[q].local_window
        /\ Held(q) <= ch[q].local_window_max
        /\ ch[p].type = "open" /\ ch[q].type = "open" /\ ch[q].failed = {} =>
              /\ ch[p].remote_window + Under(p, {"data", "ext"})
                 + Under(q, Ctypes \cup {"confirm",
                                         "adjust"}) = ch[q].local_window
              /\ ~WindowLost(q)
    BY <2>1, <2>2, <2>3, SMTT(30), SMTT(40) DEF Agree, WindowLost
  <2> QED
    BY <2>4, SMTT(30), SMTT(40) DEF q
<1> QED
  BY <1>1, ChannelInvariant, PTL

\* No message arrives for a channel that was freed or never opened, no stderr
\* after EOF, and the exit of a program finds its channel.  Only a client whose
\* program could not be started gives up.
THEOREM ChannelNoDisconnect == ChannelSpec => []NoDisconnect
<1>1. ChannelInv => NoDisconnect
  <2> DEFINE c == ch["client"]
             s == ch["server"]
  <2> SUFFICES ASSUME ChannelInv
               PROVE  /\ s.fatal = FALSE
                      /\ \/ c.fatal = FALSE
                         \/ s.type = "larval" /\ s.pid = "none"
    BY Zenon DEF NoDisconnect
  <2>1. Related(c, s)
    BY SMTT(30), SMTT(40) DEF ChannelInv
  <2>2. CASE Opening(c, s)
    BY <2>2, OpeningFresh, ZenonT(40) DEF Fresh
  <2>3. CASE Established(c, s)
    <3>1. Freed(c.type, c.flags, c.fatal) /\ Freed(s.type, s.flags, s.fatal)
      BY <2>3, ZenonT(30) DEF Established, LocalInv
    <3> QED
      BY <3>1, SMTT(30), SMTT(40) DEF Freed
  <2>4. CASE GaveUp(c, s)
    BY <2>4, GaveUpEnds, ZenonT(30)
  <2>5. Opening(c, s) \/ Established(c, s) \/ GaveUp(c, s)
    BY <2>1, ZenonT(30) DEF Related, Live
  <2> QED
    BY <2>2, <2>3, <2>4, <2>5, ZenonT(30)
<1> QED
  BY <1>1, ChannelInvariant, PTL

\* EOF and CLOSE never overtake data: an output that closed without a failure
\* has delivered all that the other application wrote, stderr included.
THEOREM ChannelNothingTruncated == ChannelSpec => []NothingTruncated
<1>1. ChannelInv => NothingTruncated
  BY BothAgree, SMTT(30), SMTT(40) DEF NothingTruncated, Complete
<1> QED
  BY <1>1, ChannelInvariant, PTL

\* The server's end sends CLOSE only after the program was reaped, and its exit
\* status precedes the CLOSE: the client frees its end with the status of a
\* program that exited, and without one if a signal killed it.
THEOREM ChannelStatusBeforeFree == ChannelSpec => []StatusBeforeFree
<1>1. ChannelInv => StatusBeforeFree
  <2> DEFINE c == ch["client"]
             s == ch["server"]
  <2> SUFFICES ASSUME ChannelInv, c.type = "free", s.pid # "none"
               PROVE  /\ s.pid \in {"reaped", "reaped_killed"}
                      /\ c.status <=> s.pid = "reaped"
    BY SMTT(30), SMTT(40) DEF StatusBeforeFree
  <2>1. ~Opening(c, s)
    BY OpeningFresh, ZenonT(30)
  <2>2. ~GaveUp(c, s)
    BY GaveUpEnds, ZenonT(30)
  <2>3. Established(c, s)
    BY <2>1, <2>2, ZenonT(30) DEF ChannelInv, Related, Live
  <2>4. /\ Freed(c.type, c.flags, c.fatal)
        /\ Program(s.pid, s.type, s.detach, s.flags, s.usage)
        /\ Closes(s.wire, s.flags, c.flags) /\ Status(s.pid, s.wire, c.status)
    BY <2>3, ZenonT(30) DEF Established, LocalInv, OneWay
  <2>5. s \in Channel /\ c \in Channel
    BY <2>3, EstablishedEnds, SMTT(30), SMTT(40)
  <2>6. s.wire = <<>> /\ "close_sent" \in s.flags
    BY <2>4, SMTT(40), SMTT(50) DEF Freed, Closes
  <2>7. s.pid \in {"reaped", "reaped_killed"}
    BY <2>4, <2>5, <2>6, SMTT(30), SMTT(40) DEF Program, Channel
  <2>8. Len(s.wire) = 0
    BY <2>6, SMTT(30), SMTT(40)
  <2>9. c.status \in BOOLEAN /\ (s.pid = "reaped" <=> c.status = TRUE)
    BY <2>4, <2>5, <2>8, SMTT(30), SMTT(40) DEF Status, Channel
  <2> QED
    BY <2>7, <2>9, ZenonT(30)
<1> QED
  BY <1>1, ChannelInvariant, PTL

\* On a wire nothing follows CLOSE, and no data follows EOF.
Ordered(w) ==
    \A i \in 1..Len(w) : \A j \in 1..(i - 1) :
       w[j].t # "close" /\ (w[j].t = "eof" => w[i].t \notin {"data", "ext", "eof"})

\* So it is with one message at most.
LEMMA ShortOrdered ==
    ASSUME NEW w, w = <<>> \/ \E m : w = <<m>>
    PROVE  Ordered(w)
<1>1. CASE w = <<>>
  BY <1>1, SMTT(30), SMTT(40) DEF Ordered
<1>2. ASSUME NEW m, w = <<m>>
      PROVE  Ordered(w)
  <2>1. Len(w) = 1
    BY <1>2, SMTT(30), SMTT(40)
  <2>2. \A i \in 1..Len(w) : 1..(i - 1) = {}
    BY <2>1, SMTT(30), SMTT(40)
  <2> QED
    BY <2>2, ZenonT(30) DEF Ordered
<1> QED
  BY <1>1, <1>2, SMTT(30), SMTT(40)

\* There are no more while a channel is being opened.
LEMMA OpeningOrdered ==
    ASSUME NEW c, NEW s, Opening(c, s)
    PROVE  Ordered(c.wire) /\ Ordered(s.wire)
<1>1. /\ c.wire = <<>> \/ \E m : c.wire = <<m>>
      /\ s.wire = <<>> \/ \E m : s.wire = <<m>>
  BY ZenonT(40), SMTT(40) DEF Opening, Refused, IsNone, IsClient, IsLarval, IsForward
<1> QED
  BY <1>1, ShortOrdered, ZenonT(30)

\* Nor is there another order on the wires of an established one.
LEMMA EndsOrdered ==
    ASSUME NEW w, NEW x, NEW y, Len(w) \in Nat, Closes(w, x, y), Eofs(w, x, y)
    PROVE  Ordered(w)
<1>1. ASSUME NEW i \in 1..Len(w), NEW j \in 1..(i - 1)
      PROVE  j \in 1..Len(w) /\ j # Len(w) /\ i > j
  BY <1>1, SMTT(30), SMTT(40)
<1>2. ASSUME NEW i \in 1..Len(w), NEW j \in 1..(i - 1)
      PROVE  /\ w[j].t # "close"
             /\ w[j].t = "eof" => w[i].t \notin {"data", "ext", "eof"}
  BY <1>1, <1>2, ZenonT(30), SMTT(30) DEF Closes, Eofs, Payload
<1> QED
  BY <1>2, ZenonT(30) DEF Ordered

\* The wires of both ends are so in every state.
LEMMA WiresOrdered ==
    ASSUME NEW c, NEW s, Related(c, s)
    PROVE  Ordered(c.wire) /\ Ordered(s.wire)
<1>1. CASE Opening(c, s)
  BY <1>1, OpeningOrdered, ZenonT(30)
<1>2. CASE Established(c, s)
  <2>1. /\ Closes(c.wire, c.flags, s.flags) /\ Closes(s.wire, s.flags, c.flags)
        /\ Eofs(c.wire, c.flags, s.flags) /\ Eofs(s.wire, s.flags, c.flags)
    BY <1>2, ZenonT(30) DEF Established, OneWay
  <2>2. Len(c.wire) \in Nat /\ Len(s.wire) \in Nat
    <3>1. c \in Channel /\ s \in Channel
      BY <1>2, EstablishedEnds, SMTT(30), SMTT(40)
    <3>2. Typed(c) /\ Typed(s)
      BY <3>1, FieldTypes, BytesAreCounted, ZenonT(30)
    <3> QED
      BY <3>2, ZenonT(30) DEF Typed
  <2> QED
    BY <2>1, <2>2, EndsOrdered, ZenonT(30)
<1>3. CASE GaveUp(c, s)
  <2> DEFINE Same(d) == Opening(d, s) /\ c.wire = d.wire
  <2>0. \E d : Same(d)
    <3>1. PICK d : /\ Opening(d, s) /\ IsClient(d, "session", <<>>, "open")
                   /\ c = packet_disconnect(d)
      BY <1>3, ZenonT(30) DEF GaveUp
    <3>2. d \in Channel
      BY <3>1, ZenonT(30) DEF IsClient, Fresh
    <3>3. c.wire = d.wire
      BY <3>1, <3>2, SMTT(30), SMTT(40) DEF packet_disconnect, Channel
    <3> QED
      BY <3>1, <3>3, ZenonT(30)
  <2>1. PICK d : Same(d)
    BY <2>0, ZenonT(30)
  <2>2. Ordered(d.wire) /\ Ordered(s.wire)
    BY <2>1, OpeningOrdered, ZenonT(30)
  <2> QED
    BY <2>1, <2>2, ZenonT(30)
<1> QED
  BY <1>1, <1>2, <1>3, ZenonT(30) DEF Related, Live

\* After its CLOSE an end sends nothing more, and after its EOF no data, also
\* within one iteration of its loop.
THEOREM ChannelSilentAfterClose == ChannelSpec => SilentAfterClose
<1> DEFINE A == \A p \in Peers :
                   \A i \in Len(ch[p].wire) + 1 .. Len(ch[p].wire') :
                      /\ "close_sent" \notin ch[p].flags
                      /\ "eof_sent" \in ch[p].flags =>
                            ch[p].wire'[i].t \notin {"data", "ext", "eof"}
                      /\ \A j \in 1..(i - 1) :
                            /\ ch[p].wire'[j].t # "close"
                            /\ ch[p].wire'[j].t = "eof" =>
                                  ch[p].wire'[i].t \notin {"data", "ext", "eof"}
<1>1. ChannelInv /\ [Next]_ch => A
  <2> SUFFICES ASSUME ChannelInv, [Next]_ch PROVE A
    OBVIOUS
  <2>1. /\ Silent(ch["client"], ch'["client"].wire)
        /\ Silent(ch["server"], ch'["server"].wire)
        /\ Related(ch'["client"], ch'["server"])
    BY NextStep, BytesAreCounted, ZenonT(30) DEF Step
  <2>2. Ordered(ch'["client"].wire) /\ Ordered(ch'["server"].wire)
    BY <2>1, WiresOrdered, ZenonT(30)
  <2>3. ASSUME NEW p \in Peers
        PROVE  Silent(ch[p], ch'[p].wire) /\ Ordered(ch'[p].wire)
    BY <2>1, <2>2, ZenonT(30) DEF Peers
  <2>4. \A p \in Peers : Len(ch[p].wire) \in Nat /\ Len(ch'[p].wire) \in Nat
    <3>1. \A p \in Peers : ch[p] \in Channel /\ ch'[p] \in Channel
      BY NextStep, BytesAreCounted, SMTT(30), SMTT(40) DEF Step, Peers, ChannelInv
    <3>2. \A p \in Peers : Typed(ch[p]) /\ Typed(ch'[p])
      BY <3>1, FieldTypes, BytesAreCounted, ZenonT(30)
    <3> QED
      BY <3>2, ZenonT(30) DEF Typed
  <2> QED
    BY <2>3, <2>4, SMTT(30), SMTT(40) DEF Silent, Ordered
<1>2. ChannelInv /\ [Next]_ch => [A]_ch
  BY <1>1, SMTT(30), SMTT(40)
<1> HIDE DEF A
<1>3. ChannelSpec => [][A]_ch
  BY <1>2, ChannelInvariant, PTL DEF ChannelSpec
<1> QED
  BY <1>3, SMTT(30), SMTT(40) DEF SilentAfterClose, A

=============================================================================
