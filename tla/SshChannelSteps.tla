--------------------------- MODULE SshChannelSteps ---------------------------
(***************************************************************************)
(* The inductive invariant of SshChannel, what every change that           *)
(* channels.c and nchan.c make to one end of an established channel does   *)
(* to it, and the changes of an iteration of the main loop put together.   *)
(* SshChannelProofs adds the messages and the opening.                     *)
(***************************************************************************)
EXTENDS SshChannel, TLAPS

\* The number of bytes in the messages of some types in w.
U(w, types) == Cardinality(BytesOf(w, types))

Messages ==
    [t: Ctypes \cup {"confirm", "failure", "shell",
                     "channel-success", "channel-failure",
                     "exit-status", "exit-signal",
                     "data", "ext", "eof", "eow", "close", "adjust"}, n: Nat]
Size(m, types) == IF m.t \in types THEN m.n ELSE 0

\* How the number of bytes in a wire changes with its messages.  The lemmas of
\* this module take it as a hypothesis, and SshChannelProofs proves it
\* (BytesAreCounted) from the theorems on finite sets.
Counted ==
    \A T :
       /\ U(<<>>, T) = 0
       /\ \A w \in Seq(Messages) :
             /\ U(w, T) \in Nat
             /\ \A m \in Messages : U(Append(w, m), T) = U(w, T) + Size(m, T)
             /\ w # <<>> => U(w, T) = U(Tail(w), T) + Size(Head(w), T)

\* The four parts of it.
LEMMA CountNat ==
    ASSUME Counted, NEW w \in Seq(Messages), NEW T
    PROVE  U(w, T) \in Nat
  BY Zenon DEF Counted

\* A wire without messages has no bytes.
LEMMA CountEmpty ==
    ASSUME Counted, NEW T
    PROVE  U(<<>>, T) = 0
  BY Zenon DEF Counted

\* A message that is added counts for its size.
LEMMA CountAppend ==
    ASSUME Counted, NEW w \in Seq(Messages), NEW m \in Messages, NEW T
    PROVE  U(Append(w, m), T) = U(w, T) + Size(m, T)
  BY Zenon DEF Counted

\* A message that is taken counted for its size.
LEMMA CountTail ==
    ASSUME Counted, NEW w \in Seq(Messages), w # <<>>, NEW T
    PROVE  /\ Tail(w) \in Seq(Messages) /\ Head(w) \in Messages
           /\ U(w, T) = U(Tail(w), T) + Size(Head(w), T)
<1>1. Tail(w) \in Seq(Messages) /\ Head(w) \in Messages
  OBVIOUS
<1>2. U(w, T) = U(Tail(w), T) + Size(Head(w), T)
  BY Zenon DEF Counted
<1> QED
  BY <1>1, <1>2

-----------------------------------------------------------------------------
(* The inductive invariant.                                                *)

\* The bytes of data, of stderr, of both and of window in a wire.
DataB(w) == U(w, {"data"})
ErrB(w) == U(w, {"ext"})
BothB(w) == U(w, {"data", "ext"})
GrantB(w) == U(w, Ctypes \cup {"confirm", "adjust"})

\* A new channel: nothing was read, sent or received.
Fresh(x) ==
    /\ x \in Channel /\ x.istate = "open" /\ x.ostate = "open"
    /\ x.flags = {} /\ x.sel = {}
    /\ x.input = 0 /\ x.output = 0 /\ x.extended = 0
    /\ x.local_window \in {0, Window} /\ x.local_window_max = x.local_window
    /\ x.local_consumed = 0
    /\ x.rd = 0 /\ x.wr = 0 /\ x.erd = 0 /\ x.ewr = 0
    /\ x.failed = {} /\ x.status = FALSE /\ x.fatal = FALSE

\* There is no channel; the client has asked for one; the server has made one
\* for a session, or for a forwarding.
IsNone(x, w) ==
    /\ Fresh(x) /\ x.type = "none" /\ x.wire = w /\ x.pid = "none"
    /\ x.local_window = 0 /\ x.remote_window = 0
    /\ x.efd = FALSE /\ x.usage = "ignore" /\ x.detach = "none"
IsClient(x, t, w, type) ==
    /\ Fresh(x) /\ x.type = type /\ x.ctype = t /\ x.wire = w
    /\ x.local_window = Window /\ x.remote_window = 0 /\ x.pid = "none"
    /\ x.usage = IF t = "session" THEN "write" ELSE "ignore"
    /\ type # "free" =>
          /\ x.efd = (t = "session")
          /\ x.detach = IF t = "session" THEN "wait" ELSE "none"
IsLarval(x, w) ==
    /\ Fresh(x) /\ x.type = "larval" /\ x.ctype = "session" /\ x.wire = w
    /\ x.local_window = 0 /\ x.remote_window = Window /\ x.pid = "none"
    /\ x.efd = FALSE /\ x.usage = "ignore" /\ x.detach = "wait"
IsForward(x, type, w) ==
    /\ Fresh(x) /\ x.type = type /\ x.ctype = "direct-tcpip" /\ x.wire = w
    /\ x.local_window = Window /\ x.remote_window = Window /\ x.pid = "none"
    /\ x.efd = FALSE /\ x.usage = "ignore" /\ x.detach = "none"

\* While a channel is being opened the two ends are in one of a few states:
\* it was asked for, and is refused, or the server connects, or waits for the
\* program of the session, which it may fail to start.
Refused(x, w) == IsNone(x, w) \/ IsForward(x, "free", w)
Opening(c, s) ==
    \/ IsNone(c, <<>>) /\ IsNone(s, <<>>)
    \/ \E t \in Ctypes :
          \/ IsClient(c, t, <<Msg(t, Window)>>, "opening") /\ IsNone(s, <<>>)
          \/ IsClient(c, t, <<>>, "opening") /\ Refused(s, <<Msg("failure", 0)>>)
          \/ IsClient(c, t, <<>>, "zombie") /\ Refused(s, <<>>)
          \/ IsClient(c, t, <<>>, "free") /\ Refused(s, <<>>)
    \/ /\ "direct-tcpip" \in Ctypes
       /\ IsClient(c, "direct-tcpip", <<>>, "opening")
       /\ IsForward(s, "connecting", <<>>)
    \/ /\ "session" \in Ctypes
       /\ \/ /\ IsClient(c, "session", <<>>, "opening")
             /\ IsLarval(s, <<Msg("confirm", 0)>>)
          \/ /\ IsClient(c, "session", <<Msg("shell", 0)>>, "open")
             /\ IsLarval(s, <<>>)
          \/ /\ IsClient(c, "session", <<>>, "open")
             /\ \/ IsLarval(s, <<Msg("channel-failure", 0)>>)
                \/ IsLarval(s, <<>>)

\* The client has given up, because the program could not be started.
GaveUp(c, s) ==
    \E d : /\ Opening(d, s) /\ IsLarval(s, <<>>)
           /\ IsClient(d, "session", <<>>, "open") /\ c = packet_disconnect(d)

\* The invariant of an established channel is a conjunction of relations of a
\* few fields each.  First of one end: a half that is closed; an output that
\* is no longer open has received EOF or CLOSE, or has failed; ...
Received(flags) == "eof_rcvd" \in flags \/ "close_rcvd" \in flags
Halves(flags, istate, ostate, output) ==
    /\ "close_sent" \in flags => istate = "closed" /\ ostate = "closed"
    /\ "eof_sent" \in flags => istate = "closed"
    /\ ostate = "closed" => output = 0
Outputs(flags, ostate, failed) ==
    /\ Received(flags) => ostate # "open"
    /\ ostate # "open" /\ "write" \notin failed => Received(flags)

\* ... its stderr; ...
Stderr(usage, efd, extended, ostate, failed, type) ==
    /\ usage = "write" /\ ostate = "closed" /\ "write" \notin failed
          => efd = FALSE \/ extended = 0
    /\ usage = "write" /\ "efd" \notin failed /\ type # "free" => efd = TRUE
    /\ usage = "ignore" => efd = FALSE /\ extended = 0
    /\ type = "free" => extended = 0

\* ... a program that was not reaped keeps the channel; ...
Program(pid, type, detach, flags, usage) ==
    /\ pid \in {"running", "exited", "killed"} =>
          type = "open" /\ detach = "wait" /\ "close_sent" \notin flags
    /\ pid # "none" => usage = "read"
Freed(type, flags, fatal) ==
    /\ type = "free" => "close_sent" \in flags /\ "close_rcvd" \in flags
    /\ fatal = FALSE

\* ... and of its window an end has lost nothing, while nothing has failed.
ErrOut(usage, extended) == IF usage = "read" THEN extended ELSE 0
ErrIn(usage, extended) == IF usage = "write" THEN extended ELSE 0
Holding(held, max, type, failed) ==
    held <= max /\ (type # "free" /\ failed = {} => held = max)
HeldBy(x) ==
    x.local_window + x.output + x.local_consumed + ErrIn(x.usage, x.extended)

LocalInv(x) ==
    /\ Halves(x.flags, x.istate, x.ostate, x.output)
    /\ Outputs(x.flags, x.ostate, x.failed)
    /\ Stderr(x.usage, x.efd, x.extended, x.ostate, x.failed, x.type)
    /\ Program(x.pid, x.type, x.detach, x.flags, x.usage)
    /\ Freed(x.type, x.flags, x.fatal)
    /\ Holding(HeldBy(x), x.local_window_max, x.type, x.failed)

\* Then of the messages w from one end to the other: nothing follows CLOSE, ...
Closes(w, xflags, yflags) ==
    /\ \A i \in 1..Len(w) :
          w[i].t = "close" => i = Len(w) /\ "close_sent" \in xflags
    /\ "close_rcvd" \in yflags => "close_sent" \in xflags /\ w = <<>>

\* ... no data follows EOF, ...
Payload == {"data", "ext", "eof"}
Eofs(w, xflags, yflags) ==
    /\ \A i \in 1..Len(w) :
          /\ w[i].t = "eof" =>
                /\ "eof_sent" \in xflags
                /\ \A j \in 1..Len(w) : j > i => w[j].t \notin Payload
          /\ w[i].t \in Payload => "eof_rcvd" \notin yflags
    /\ "eof_rcvd" \in yflags => "eof_sent" \in xflags

\* ... the end of writing is a failure, stderr goes to an end that writes it,
\* and the status of a program that exited and was reaped is there, or has
\* arrived; no other program has one.
Carries(w, xfailed, yusage) ==
    \A i \in 1..Len(w) :
       /\ w[i].t = "eow" => "write" \in xfailed
       /\ w[i].t = "ext" => yusage = "write"
Status(pid, w, status) ==
    pid = "reaped"
       <=> status = TRUE \/ \E i \in 1..Len(w) : w[i].t = "exit-status"

\* The client may still have to learn that its forwarding was opened.
Setup ==
    {"session", "direct-tcpip", "confirm", "failure", "shell", "channel-failure"}
Opens(x, xtype, w, ytype) ==
    /\ xtype \in {"opening", "open", "free"}
    /\ xtype = "opening" =>
          /\ IsClient(x, "direct-tcpip", <<>>, "opening")
          /\ w # <<>> /\ w[1].t = "confirm" /\ ytype = "open"
    /\ \A i \in 1..Len(w) :
          w[i].t \in Setup => i = 1 /\ w[i].t = "confirm" /\ xtype = "opening"

\* An input that closed was sent completely, if the other end could write it.
Sent(istate, input, usage, efd, extended, yfailed) ==
    istate = "closed" /\ "write" \notin yfailed =>
       input = 0 /\ (usage = "read" => efd = FALSE /\ extended = 0)

\* What one end read and the other has not written is in a buffer or under way.
Balance(rd, input, under, output, wr, yfailed) ==
    "write" \notin yfailed => rd = input + under + output + wr
ErrBalance(erd, out, under, in, ewr, yfailed) ==
    "write" \notin yfailed /\ "efd" \notin yfailed => erd = out + under + in + ewr

\* The window of one end, its data under way and the window under way to it.
Windows(rwin, under, granted, lwin, xtype, ytype, yfailed) ==
    /\ ytype # "free" => rwin + under + granted <= lwin
    /\ xtype # "free" /\ ytype # "free" /\ yfailed = {}
          => rwin + under + granted = lwin

OneWay(x, y) ==
    /\ Closes(x.wire, x.flags, y.flags)
    /\ Eofs(x.wire, x.flags, y.flags)
    /\ Carries(x.wire, x.failed, y.usage)
    /\ Status(x.pid, x.wire, y.status)
    /\ Opens(x, x.type, y.wire, y.type)
    /\ x.usage = "read" => y.usage = "write"
    /\ Sent(x.istate, x.input, x.usage, x.efd, x.extended, y.failed)
    /\ Balance(x.rd, x.input, DataB(x.wire), y.output, y.wr, y.failed)
    /\ ErrBalance(x.erd, ErrOut(x.usage, x.extended), ErrB(x.wire),
                  ErrIn(y.usage, y.extended), y.ewr, y.failed)
    /\ Windows(x.remote_window, BothB(x.wire), GrantB(y.wire), y.local_window,
               x.type, y.type, y.failed)

Established(x, y) ==
    /\ x \in Channel /\ y \in Channel
    /\ LocalInv(x) /\ LocalInv(y)
    /\ OneWay(x, y) /\ OneWay(y, x)

\* The two ends: the channel is being opened, or is established, or was given
\* up.
Live(c, s) ==
    \/ Opening(c, s)
    \/ Established(c, s) /\ c.usage # "read" /\ s.usage # "write"
Related(c, s) == Live(c, s) \/ GaveUp(c, s)

ChannelInv ==
    /\ ch \in [Peers -> Channel]
    /\ \A p \in Peers : ch[p].sel = {}
    /\ Related(ch["client"], ch["server"])
-----------------------------------------------------------------------------
(* What the steps of one end do to the wires.                              *)

\* The types of the fields, without the record.
StdNums(x) ==
    /\ x.input \in Nat /\ x.output \in Nat /\ x.rd \in Nat /\ x.wr \in Nat
    /\ DataB(x.wire) \in Nat
ErrNums(x) ==
    x.extended \in Nat /\ x.erd \in Nat /\ x.ewr \in Nat /\ ErrB(x.wire) \in Nat
UsedNums(x) ==
    /\ x.remote_window \in Nat /\ x.local_window \in Nat
    /\ BothB(x.wire) \in Nat /\ GrantB(x.wire) \in Nat
HeldNums(x) ==
    /\ x.local_window \in Nat /\ x.local_window_max \in Nat
    /\ x.local_consumed \in Nat /\ x.output \in Nat /\ x.extended \in Nat
Enums(x) ==
    /\ x.istate \in HalfStates /\ x.ostate \in HalfStates
    /\ x.usage \in {"ignore", "read", "write"}
    /\ x.pid \in {"none", "running", "exited", "killed", "reaped",
                  "reaped_killed"}
    /\ x.failed \subseteq {"write", "efd"}
Typed(x) ==
    /\ StdNums(x) /\ ErrNums(x) /\ UsedNums(x) /\ HeldNums(x) /\ Enums(x)
    /\ x.wire \in Seq(Messages) /\ Len(x.wire) \in Nat

\* The fields of a channel (struct Channel) have their types.
LEMMA FieldTypes ==
    ASSUME Counted, NEW x \in Channel
    PROVE  Typed(x)
<1>1. x.wire \in Seq(Messages)
  BY DEF Channel, Messages
<1>2. /\ DataB(x.wire) \in Nat /\ ErrB(x.wire) \in Nat
      /\ BothB(x.wire) \in Nat /\ GrantB(x.wire) \in Nat
  BY <1>1, CountNat DEF DataB, ErrB, BothB, GrantB
<1>3. Len(x.wire) \in Nat
  BY <1>1
<1>4. StdNums(x) /\ ErrNums(x) /\ UsedNums(x) /\ HeldNums(x)
  BY <1>2 DEF Channel, StdNums, ErrNums, UsedNums, HeldNums
<1>5. Enums(x)
  BY DEF Channel, Enums
<1> QED
  BY <1>1, <1>3, <1>4, <1>5 DEF Typed

\* What is known of two ends before a step.
Known(x, y) ==
    /\ x \in Channel /\ y \in Channel /\ Typed(x) /\ Typed(y)
    /\ LocalInv(x) /\ LocalInv(y) /\ OneWay(x, y) /\ OneWay(y, x)

\* The conjuncts of the invariant of an established channel.
LEMMA KnownOf ==
    ASSUME Counted, NEW x, NEW y, Established(x, y)
    PROVE  Known(x, y)
<1>1. x \in Channel /\ y \in Channel
  BY DEF Established
<1>2. Typed(x) /\ Typed(y)
  BY <1>1, FieldTypes
<1> QED
  BY <1>2 DEF Established, Known

\* v is w with a message of type t and size n appended.
Appended(w, v, t, n) ==
    /\ v \in Seq(Messages) /\ Len(v) = Len(w) + 1
    /\ \A i \in 1..Len(w) : v[i] = w[i]
    /\ v[Len(w) + 1].t = t
    /\ DataB(v) = DataB(w) + (IF t = "data" THEN n ELSE 0)
    /\ ErrB(v) = ErrB(w) + (IF t = "ext" THEN n ELSE 0)
    /\ BothB(v) = BothB(w) + (IF t \in {"data", "ext"} THEN n ELSE 0)
    /\ GrantB(v) = GrantB(w) + (IF t \in {"confirm", "adjust"} THEN n ELSE 0)

\* packet_send appends a message to the wire.
LEMMA Appending ==
    ASSUME Counted, NEW w \in Seq(Messages), NEW n \in Nat,
           NEW t \in {"confirm", "failure", "shell", "channel-success",
                      "channel-failure", "exit-status", "exit-signal",
                      "data", "ext", "eof", "eow", "close", "adjust"}
    PROVE  Appended(w, Append(w, Msg(t, n)), t, n)
<1> DEFINE m == Msg(t, n)
<1>1. m \in Messages /\ m.t = t /\ m.n = n
  BY DEF Messages, Msg
<1>2. t \notin Ctypes
  BY ChannelConstants
<1> HIDE DEF m
<1>3. /\ Append(w, m) \in Seq(Messages) /\ Len(Append(w, m)) = Len(w) + 1
      /\ \A i \in 1..Len(w) : Append(w, m)[i] = w[i]
      /\ Append(w, m)[Len(w) + 1] = m
  BY <1>1
<1>4. DataB(Append(w, m)) = DataB(w) + Size(m, {"data"})
  BY <1>1, CountAppend DEF DataB
<1>5. ErrB(Append(w, m)) = ErrB(w) + Size(m, {"ext"})
  BY <1>1, CountAppend DEF ErrB
<1>6. BothB(Append(w, m)) = BothB(w) + Size(m, {"data", "ext"})
  BY <1>1, CountAppend DEF BothB
<1>7. GrantB(Append(w, m)) = GrantB(w)
      + Size(m, Ctypes \cup {"confirm", "adjust"})
  BY <1>1, CountAppend DEF GrantB
<1>8. /\ Size(m, {"data"}) = IF t = "data" THEN n ELSE 0
      /\ Size(m, {"ext"}) = IF t = "ext" THEN n ELSE 0
      /\ Size(m, {"data", "ext"}) = IF t \in {"data", "ext"} THEN n ELSE 0
      /\ Size(m, Ctypes \cup {"confirm", "adjust"})
            = IF t \in {"confirm", "adjust"} THEN n ELSE 0
  BY <1>1, <1>2 DEF Size
<1> QED
  BY <1>1, <1>3, <1>4, <1>5, <1>6, <1>7, <1>8 DEF Appended, m

\* packet_send keeps the type of a channel.
LEMMA SendTyped ==
    ASSUME NEW c \in Channel, NEW n \in Nat,
           NEW t \in {"confirm", "failure", "shell", "channel-success",
                      "channel-failure", "exit-status", "exit-signal",
                      "data", "ext", "eof", "eow", "close", "adjust"}
    PROVE  Send(c, Msg(t, n)) \in Channel
<1>1. Msg(t, n) \in Messages
  BY DEF Messages, Msg
<1>2. c.wire \in Seq(Messages)
  BY DEF Channel, Messages
<1> DEFINE v == Append(c.wire, Msg(t, n))
<1>3. v \in Seq(Messages)
  BY <1>1, <1>2
<1>4. Send(c, Msg(t, n)) = [c EXCEPT !.wire = v]
  BY DEF Send
<1> HIDE DEF v
<1>5. [c EXCEPT !.wire = v] \in Channel
  BY <1>3, Zenon DEF Channel, Messages
<1> QED
  BY <1>4, <1>5

\* v is w without its first message, which has type t and size n.
Tailed(w, v, t, n) ==
    /\ v \in Seq(Messages) /\ Len(w) = Len(v) + 1 /\ Len(v) \in Nat
    /\ \A i \in 1..Len(v) : v[i] = w[i + 1]
    /\ w[1].t = t /\ n \in Nat
    /\ DataB(w) = DataB(v) + (IF t = "data" THEN n ELSE 0)
    /\ ErrB(w) = ErrB(v) + (IF t = "ext" THEN n ELSE 0)
    /\ BothB(w) = BothB(v) + (IF t \in {"data", "ext"} THEN n ELSE 0)
    /\ GrantB(w) = GrantB(v)
          + (IF t \in Ctypes \cup {"confirm", "adjust"} THEN n ELSE 0)

\* packet_read takes the first message.
LEMMA Taking ==
    ASSUME Counted, NEW w \in Seq(Messages), w # <<>>
    PROVE  Tailed(w, Tail(w), Head(w).t, Head(w).n)
<1> DEFINE m == Head(w)
           v == Tail(w)
<1>1. /\ v \in Seq(Messages) /\ m \in Messages
      /\ U(w, {"data"}) = U(v, {"data"}) + Size(m, {"data"})
      /\ U(w, {"ext"}) = U(v, {"ext"}) + Size(m, {"ext"})
      /\ U(w, {"data", "ext"}) = U(v, {"data", "ext"}) + Size(m, {"data", "ext"})
      /\ U(w, Ctypes \cup {"confirm", "adjust"})
            = U(v, Ctypes \cup {"confirm", "adjust"})
              + Size(m, Ctypes \cup {"confirm", "adjust"})
  BY CountTail, Zenon
<1>2. /\ Len(w) = Len(v) + 1 /\ Len(v) \in Nat /\ w[1] = m
      /\ \A i \in 1..Len(v) : v[i] = w[i + 1]
  OBVIOUS
<1> HIDE DEF m, v
<1>3. m.n \in Nat /\ m.t = w[1].t
  BY <1>1, <1>2 DEF Messages
<1>4. /\ Size(m, {"data"}) = IF m.t = "data" THEN m.n ELSE 0
      /\ Size(m, {"ext"}) = IF m.t = "ext" THEN m.n ELSE 0
  BY DEF Size
<1>5. Tailed(w, v, m.t, m.n)
  BY <1>1, <1>2, <1>3, <1>4 DEF Tailed, DataB, ErrB, BothB, GrantB, Size
<1> QED
  BY <1>5 DEF m, v

\* What each relation makes of an appended message.
LEMMA ClosesAppend ==
    ASSUME NEW w, NEW v, NEW t, NEW n, NEW f, NEW g, NEW h, Len(w) \in Nat,
           Closes(w, f, g), Appended(w, v, t, n),
           "close_sent" \notin f, t = "close" => "close_sent" \in h
    PROVE  Closes(v, h, g)
  BY DEF Closes, Appended

\* A new message keeps the agreement on EOF if it is not data after EOF.
LEMMA EofsAppend ==
    ASSUME NEW w, NEW v, NEW t, NEW n, NEW f, NEW g, NEW h, Len(w) \in Nat,
           Eofs(w, f, g), Appended(w, v, t, n),
           "eof_sent" \in f => "eof_sent" \in h /\ t \notin Payload,
           t = "eof" => "eof_sent" \in h
    PROVE  Eofs(v, h, g)
  BY DEF Eofs, Appended, Payload

\* A new message keeps what the messages may carry.
LEMMA CarriesAppend ==
    ASSUME NEW w, NEW v, NEW t, NEW n, NEW f, NEW g, NEW h, Len(w) \in Nat,
           Carries(w, f, g), Appended(w, v, t, n),
           "write" \in f \/ t = "eow" => "write" \in h,
           t = "ext" => g = "write"
    PROVE  Carries(v, h, g)
  BY DEF Carries, Appended

\* A new message keeps the agreement on the exit status.
LEMMA StatusAppend ==
    ASSUME NEW w, NEW v, NEW t, NEW n, NEW p, NEW q, NEW s, Len(w) \in Nat,
           Status(p, w, s), Appended(w, v, t, n),
           t = "exit-status" => q = "reaped",
           q = p \/ (p # "reaped" /\ (q = "reaped" => t = "exit-status"))
    PROVE  Status(q, v, s)
<1>1. (\E i \in 1..Len(v) : v[i].t = "exit-status")
         <=> t = "exit-status" \/ \E i \in 1..Len(w) : w[i].t = "exit-status"
  BY DEF Appended
<1> QED
  BY <1>1 DEF Status

\* A new message keeps the agreement on the opening.
LEMMA OpensAppend ==
    ASSUME NEW w, NEW v, NEW t, NEW n, NEW y, NEW a, NEW b, Len(w) \in Nat,
           Opens(y, a, w, b), Appended(w, v, t, n), t \notin Setup
    PROVE  Opens(y, a, v, b)
  BY DEF Opens, Appended

\* What each relation makes of a message that is taken.
LEMMA ClosesTail ==
    ASSUME NEW w, NEW v, NEW t, NEW n, NEW f, NEW g, NEW h,
           Closes(w, f, g), Tailed(w, v, t, n),
           "close_rcvd" \in h => "close_rcvd" \in g \/ t = "close"
    PROVE  Closes(v, f, h)
<1>1. Len(w) # 0 /\ 1 \in 1..Len(w) /\ w # <<>>
  BY DEF Tailed
<1>2. "close_rcvd" \in h => "close_sent" \in f /\ v = <<>>
  BY <1>1 DEF Closes, Tailed
<1> QED
  BY <1>2 DEF Closes, Tailed

\* The rest of the messages agrees with the EOF that was received.
LEMMA EofsTail ==
    ASSUME NEW w, NEW v, NEW t, NEW n, NEW f, NEW g, NEW h,
           Eofs(w, f, g), Tailed(w, v, t, n),
           "eof_rcvd" \in h => "eof_rcvd" \in g \/ t = "eof"
    PROVE  Eofs(v, f, h)
<1>1. 1 \in 1..Len(w)
  BY DEF Tailed
<1>2. "eof_rcvd" \in h => "eof_sent" \in f
  BY <1>1 DEF Eofs, Tailed
<1>3. ASSUME NEW i \in 1..Len(v)
      PROVE  /\ i + 1 \in 1..Len(w) /\ v[i] = w[i + 1] /\ i + 1 > 1
             /\ i \in Nat /\ Len(v) \in Nat
  BY DEF Tailed
<1>4. ASSUME NEW i \in 1..Len(v), v[i].t \in Payload PROVE "eof_rcvd" \notin h
  BY <1>1, <1>3, <1>4 DEF Eofs, Tailed
<1>5. ASSUME NEW i \in 1..Len(v), v[i].t = "eof",
             NEW j \in 1..Len(v), j > i
      PROVE  "eof_sent" \in f /\ v[j].t \notin Payload
  BY <1>3, <1>5, SMTT(30) DEF Eofs
<1>6. ASSUME NEW i \in 1..Len(v), v[i].t = "eof" PROVE "eof_sent" \in f
  BY <1>3, <1>6 DEF Eofs
<1> QED
  BY <1>2, <1>4, <1>5, <1>6 DEF Eofs

\* The rest of the messages carries no more than all of them.
LEMMA CarriesTail ==
    ASSUME NEW w, NEW v, NEW t, NEW n, NEW f, NEW g,
           Carries(w, f, g), Tailed(w, v, t, n)
    PROVE  Carries(v, f, g)
  BY DEF Carries, Tailed

\* The rest of the messages agrees with the exit status received.
LEMMA StatusTail ==
    ASSUME NEW w, NEW v, NEW t, NEW n, NEW p, NEW s, NEW r,
           Status(p, w, s), Tailed(w, v, t, n),
           s = TRUE => r = TRUE, t = "exit-status" => r = TRUE,
           r = TRUE => s = TRUE \/ t = "exit-status"
    PROVE  Status(p, v, r)
<1>1. ASSUME NEW i \in 1..Len(w), w[i].t = "exit-status", t # "exit-status"
      PROVE  \E j \in 1..Len(v) : v[j].t = "exit-status"
  <2>1. i # 1 /\ i - 1 \in 1..Len(v) /\ (i - 1) + 1 = i
    BY <1>1 DEF Tailed
  <2>2. v[i - 1] = w[i]
    BY <2>1 DEF Tailed
  <2> QED
    BY <1>1, <2>1, <2>2
<1>2. ASSUME NEW i \in 1..Len(v), v[i].t = "exit-status"
      PROVE  \E j \in 1..Len(w) : w[j].t = "exit-status"
  <2>1. i + 1 \in 1..Len(w) /\ v[i] = w[i + 1]
    BY DEF Tailed
  <2> QED
    BY <1>2, <2>1
<1>3. t = "exit-status" => \E j \in 1..Len(w) : w[j].t = "exit-status"
  <2>1. 1 \in 1..Len(w) /\ w[1].t = t
    BY DEF Tailed
  <2> QED
    BY <2>1
<1> QED
  BY <1>1, <1>2, <1>3, Zenon DEF Status

\* A channel that is open agrees with the rest of the messages.
LEMMA OpensTail ==
    ASSUME NEW w, NEW v, NEW t, NEW n, NEW x, NEW z, NEW a, NEW b,
           Opens(x, a, w, b), Tailed(w, v, t, n), a = "opening" \/ a = "open"
    PROVE  Opens(z, "open", v, b)
<1>1. ASSUME NEW i \in 1..Len(v) PROVE v[i].t \notin Setup
  <2>1. i + 1 \in 1..Len(w) /\ i + 1 # 1 /\ v[i] = w[i + 1]
    BY DEF Tailed
  <2> QED
    BY <2>1 DEF Opens
<1> QED
  BY <1>1 DEF Opens

\* Only the type of an end that is not being opened matters.
LEMMA OpensSelf ==
    ASSUME NEW x, NEW z, NEW a, NEW w, NEW b, NEW c, Opens(x, a, w, b),
           a # "opening"
    PROVE  Opens(z, a, w, c)
  BY DEF Opens

\* An end that has messages under way is not being opened.
LEMMA Speaks ==
    ASSUME NEW x, NEW y, Known(x, y), y.wire # <<>>
    PROVE  y.type # "opening"
<1>1. Opens(y, y.type, x.wire, x.type)
  BY Zenon DEF Known, OneWay
<1> QED
  BY <1>1 DEF Opens, IsClient

\* x sends a message of type t, and v is its wire then.
Outgoing(x, y, u, v, flags, failed, pid) ==
    /\ Closes(v, flags, y.flags) /\ Eofs(v, flags, y.flags)
    /\ Carries(v, failed, y.usage) /\ Status(pid, v, y.status)
    /\ Opens(u, y.type, v, x.type)

MaySend(x, y, u, t, flags, failed, pid) ==
    /\ t \notin Setup /\ "close_sent" \notin x.flags
    /\ "eof_sent" \in x.flags => "eof_sent" \in flags /\ t \notin Payload
    /\ t = "eof" => "eof_sent" \in flags
    /\ t = "close" => "close_sent" \in flags
    /\ "write" \in x.failed \/ t = "eow" => "write" \in failed
    /\ t = "ext" => y.usage = "write"
    /\ t = "exit-status" => pid = "reaped"
    /\ pid = x.pid \/ (x.pid # "reaped" /\ (pid = "reaped" => t = "exit-status"))
    /\ u = y \/ y.type # "opening"

\* A message that may be sent keeps the relations to the messages of x.
LEMMA Sending ==
    ASSUME NEW x, NEW y, NEW u, NEW v, NEW t, NEW n,
           NEW flags, NEW failed, NEW pid,
           Known(x, y), Appended(x.wire, v, t, n),
           MaySend(x, y, u, t, flags, failed, pid)
    PROVE  Outgoing(x, y, u, v, flags, failed, pid)
<1>1. /\ Closes(x.wire, x.flags, y.flags) /\ Eofs(x.wire, x.flags, y.flags)
      /\ Carries(x.wire, x.failed, y.usage) /\ Status(x.pid, x.wire, y.status)
      /\ Opens(y, y.type, x.wire, x.type) /\ Len(x.wire) \in Nat
  BY Zenon DEF Known, OneWay, Typed
<1>2. Closes(v, flags, y.flags)
  BY <1>1, ClosesAppend DEF MaySend
<1>3. Eofs(v, flags, y.flags)
  BY <1>1, EofsAppend DEF MaySend
<1>4. Carries(v, failed, y.usage)
  BY <1>1, CarriesAppend DEF MaySend
<1>5. Status(pid, v, y.status)
  BY <1>1, StatusAppend DEF MaySend
<1>6. Opens(y, y.type, v, x.type)
  BY <1>1, OpensAppend DEF MaySend
<1>7. Opens(u, y.type, v, x.type)
  BY <1>6, OpensSelf DEF MaySend
<1> QED
  BY <1>2, <1>3, <1>4, <1>5, <1>7 DEF Outgoing

\* x processes a message of type t, and v is the rest of the messages of y.
Incoming(y, z, v, flags, usage, status) ==
    /\ Closes(v, y.flags, flags) /\ Eofs(v, y.flags, flags)
    /\ Carries(v, y.failed, usage) /\ Status(y.pid, v, status)
    /\ Opens(z, "open", v, y.type)

MayTake(x, y, t, flags, status) ==
    /\ "eof_rcvd" \in flags => "eof_rcvd" \in x.flags \/ t = "eof"
    /\ "close_rcvd" \in flags => "close_rcvd" \in x.flags \/ t = "close"
    /\ x.status = TRUE => status = TRUE
    /\ t = "exit-status" => status = TRUE
    /\ status = TRUE => x.status = TRUE \/ t = "exit-status"
    /\ x.type = "opening" \/ x.type = "open"

\* Processing a message keeps the relations to the messages of y.
LEMMA Processing ==
    ASSUME NEW x, NEW y, NEW z, NEW v, NEW t, NEW n, NEW flags, NEW status,
           Known(x, y), Tailed(y.wire, v, t, n), MayTake(x, y, t, flags, status)
    PROVE  Incoming(y, z, v, flags, x.usage, status)
<1>1. /\ Closes(y.wire, y.flags, x.flags) /\ Eofs(y.wire, y.flags, x.flags)
      /\ Carries(y.wire, y.failed, x.usage) /\ Status(y.pid, y.wire, x.status)
      /\ Opens(x, x.type, y.wire, y.type)
  BY Zenon DEF Known, OneWay
<1>2. Closes(v, y.flags, flags)
  BY <1>1, ClosesTail DEF MayTake
<1>3. Eofs(v, y.flags, flags)
  BY <1>1, EofsTail DEF MayTake
<1>4. Carries(v, y.failed, x.usage)
  BY <1>1, CarriesTail
<1>5. Status(y.pid, v, status)
  BY <1>1, StatusTail, Zenon DEF MayTake
<1>6. Opens(z, "open", v, y.type)
  BY <1>1, OpensTail DEF MayTake
<1> QED
  BY <1>2, <1>3, <1>4, <1>5, <1>6 DEF Incoming

\* What an end may send: nothing after CLOSE, no data after EOF.
Quiet(x, z) ==
    /\ Len(x.wire) <= Len(z.wire)
    /\ \A i \in 1..Len(x.wire) : z.wire[i] = x.wire[i]
    /\ "close_sent" \in x.flags => "close_sent" \in z.flags /\ z.wire = x.wire
    /\ "eof_sent" \in x.flags =>
          /\ "eof_sent" \in z.flags
          /\ \A i \in Len(x.wire) + 1 .. Len(z.wire) : z.wire[i].t \notin Payload

\* Sending one message is allowed before CLOSE, and data before EOF.
LEMMA QuietAppend ==
    ASSUME NEW x, NEW z, NEW t, NEW n, Len(x.wire) \in Nat,
           Appended(x.wire, z.wire, t, n), "close_sent" \notin x.flags,
           "eof_sent" \in x.flags => "eof_sent" \in z.flags /\ t \notin Payload
    PROVE  Quiet(x, z)
  BY DEF Quiet, Appended

\* Sending nothing is always allowed.
LEMMA QuietSame ==
    ASSUME NEW x, NEW z, Len(x.wire) \in Nat, z.wire = x.wire,
           "close_sent" \in x.flags => "close_sent" \in z.flags,
           "eof_sent" \in x.flags => "eof_sent" \in z.flags
    PROVE  Quiet(x, z)
<1>1. \A i \in Len(x.wire) + 1 .. Len(z.wire) : FALSE
  OBVIOUS
<1> QED
  BY <1>1 DEF Quiet

\* y without the first message of its wire.
Took(y) == [y EXCEPT !.wire = Tail(@)]

\* An end without its first message is a channel.
LEMMA TookTyped ==
    ASSUME NEW y \in Channel, Tail(y.wire) \in Seq(Messages)
    PROVE  Took(y) \in Channel
<1> DEFINE v == Tail(y.wire)
<1>1. Took(y) = [y EXCEPT !.wire = v]
  BY DEF Took
<1>2. v \in Seq(Messages)
  OBVIOUS
<1> HIDE DEF v
<1>3. [y EXCEPT !.wire = v] \in Channel
  BY <1>2, Zenon DEF Channel, Messages
<1> QED
  BY <1>1, <1>3

\* u is the end y without its first message, of type t and size n.
TakenFrom(y, u, t, n) ==
    /\ u \in Channel /\ Typed(u) /\ LocalInv(u) /\ n \in Nat
    /\ y.type # "opening" /\ Tailed(y.wire, u.wire, t, n)
    /\ u.type = y.type /\ u.ctype = y.ctype /\ u.istate = y.istate
    /\ u.ostate = y.ostate /\ u.flags = y.flags /\ u.input = y.input
    /\ u.output = y.output /\ u.extended = y.extended /\ u.efd = y.efd
    /\ u.usage = y.usage /\ u.local_window = y.local_window
    /\ u.local_window_max = y.local_window_max
    /\ u.local_consumed = y.local_consumed
    /\ u.remote_window = y.remote_window /\ u.detach = y.detach
    /\ u.pid = y.pid /\ u.sel = y.sel /\ u.rd = y.rd /\ u.wr = y.wr
    /\ u.erd = y.erd /\ u.ewr = y.ewr /\ u.failed = y.failed
    /\ u.status = y.status /\ u.fatal = y.fatal

\* What is known of the other end after its first message was taken.
LEMMA TakesFrom ==
    ASSUME Counted, NEW x, NEW y, NEW t, Known(x, y), y.wire # <<>>,
           Head(y.wire).t = t
    PROVE  TakenFrom(y, Took(y), t, Head(y.wire).n)
<1> DEFINE n == Head(y.wire).n
           u == Took(y)
<1>1. y \in Channel /\ y.wire \in Seq(Messages)
  BY DEF Known, Typed
<1>2. Tailed(y.wire, Tail(y.wire), t, n)
  BY <1>1, Taking
<1>3. n \in Nat /\ Tail(y.wire) \in Seq(Messages)
  BY <1>2 DEF Tailed
<1> HIDE DEF n
<1>4. /\ u.type = y.type /\ u.ctype = y.ctype /\ u.istate = y.istate
      /\ u.ostate = y.ostate /\ u.flags = y.flags /\ u.input = y.input
      /\ u.output = y.output /\ u.extended = y.extended /\ u.efd = y.efd
      /\ u.usage = y.usage /\ u.local_window = y.local_window
      /\ u.local_window_max = y.local_window_max
      /\ u.local_consumed = y.local_consumed
      /\ u.remote_window = y.remote_window /\ u.detach = y.detach
      /\ u.pid = y.pid /\ u.sel = y.sel /\ u.rd = y.rd /\ u.wr = y.wr
      /\ u.erd = y.erd /\ u.ewr = y.ewr /\ u.failed = y.failed
      /\ u.status = y.status /\ u.fatal = y.fatal
      /\ u.wire = Tail(y.wire)
  BY <1>1 DEF Channel, Took
<1>5. u \in Channel
  BY <1>1, <1>3, TookTyped
<1>6. Tailed(y.wire, u.wire, t, n)
  BY <1>2, <1>4
<1> HIDE DEF u
<1>7. Typed(u)
  BY <1>5, FieldTypes
<1>8. y.type # "opening"
  BY Speaks
<1>9. LocalInv(u)
  BY <1>4, Zenon DEF Known, LocalInv, HeldBy
<1>10. TakenFrom(y, u, t, n)
  BY <1>3, <1>4, <1>5, <1>6, <1>7, <1>8, <1>9, Zenon DEF TakenFrom
<1> QED
  BY <1>10 DEF u, n

\* x may become z while the other end is y.
Keeps(x, z, y) == Established(z, y) /\ Quiet(x, z) /\ z.usage = x.usage

-----------------------------------------------------------------------------
(* The changes that the functions of channels.c and nchan.c make.          *)

\* channel_output_poll
SendData(x, n) ==
    Send([x EXCEPT !.input = @ - n, !.remote_window = @ - n], Msg("data", n))
SendErr(x, n) ==
    Send([x EXCEPT !.extended = @ - n, !.remote_window = @ - n], Msg("ext", n))

\* chan_ibuf_empty, chan_obuf_empty and chan_write_failed
CloseInput(x) ==
    [Send([x EXCEPT !.flags = @ \cup {"eof_sent"}], Msg("eof", 0))
        EXCEPT !.istate = "closed"]
CloseOutput(x) == [x EXCEPT !.output = 0, !.ostate = "closed"]
FailWrite(x) ==
    [x EXCEPT !.output = 0, !.ostate = "closed", !.failed = @ \cup {"write"}]
FailSession(x) ==
    [Send([x EXCEPT !.output = 0], Msg("eow", 0))
        EXCEPT !.ostate = "closed", !.failed = @ \cup {"write"}]

\* channel_pre_open and channel_garbage_collect
Select(x, S) == [x EXCEPT !.sel = S]
SendClose(x) == Send([x EXCEPT !.flags = @ \cup {"close_sent"}], Msg("close", 0))
Detach(x) == [x EXCEPT !.detach = "none"]

\* the program ends
Exited(x, end) == [x EXCEPT !.pid = end]

\* server_input_channel_req: the reply to the request for a shell
Reply(x) == Send(x, Msg("channel-success", 0))

\* session_close_by_pid, without the failure of the output
Reaped(x) == IF x.pid = "exited" THEN "reaped" ELSE "reaped_killed"
Reap(x) ==
    [Send(x, Msg(Exiting(x), 0)) EXCEPT !.detach = "close", !.pid = Reaped(x)]

\* channel_handle_rfd, channel_handle_wfd, channel_handle_efd,
\* channel_check_window
Read(x, n) == [x EXCEPT !.input = @ + n, !.rd = @ + n]
EndRead(x) == [x EXCEPT !.istate = "drain"]
Write(x, n) ==
    [x EXCEPT !.output = @ - n, !.wr = @ + n, !.local_consumed = @ + n]
WriteErr(x, n) ==
    [x EXCEPT !.extended = @ - n, !.ewr = @ + n, !.local_consumed = @ + n]
FailErr(x) == [x EXCEPT !.efd = FALSE, !.failed = @ \cup {"efd"}]
ReadErr(x, n) == [x EXCEPT !.extended = @ + n, !.erd = @ + n]
EndErr(x) == [x EXCEPT !.efd = FALSE]
Adjust(x) ==
    Send([x EXCEPT !.local_window = @ + x.local_consumed, !.local_consumed = 0],
         Msg("adjust", x.local_consumed))

\* channel_input_data, channel_input_extended_data, chan_rcvd_ieof,
\* chan_rcvd_close2, chan_rcvd_eow, channel_input_window_adjust,
\* channel_input_open_confirmation, client_input_channel_req
Drained(s) == IF s = "open" THEN "drain" ELSE s
TakeData(x, n) == [x EXCEPT !.local_window = @ - n, !.output = @ + n]
DropData(x, n) == [x EXCEPT !.local_window = @ - n, !.local_consumed = @ + n]
TakeErr(x, n) == [x EXCEPT !.local_window = @ - n, !.extended = @ + n]
TakeEof(x) ==
    [x EXCEPT !.flags = @ \cup {"eof_rcvd"}, !.ostate = Drained(@)]
TakeClose(x) ==
    [x EXCEPT !.flags = @ \cup {"close_rcvd"}, !.istate = "closed",
              !.ostate = Drained(@)]
AnswerClose(x) ==
    [Send([x EXCEPT !.flags = @ \cup {"close_rcvd", "eof_sent"}], Msg("eof", 0))
        EXCEPT !.istate = "closed", !.ostate = Drained(@)]
TakeEow(x) == [x EXCEPT !.istate = "closed"]
TakeAdjust(x, n) == [x EXCEPT !.remote_window = @ + n]
TakeConfirm(x, n) == [x EXCEPT !.type = "open", !.remote_window = n]
TakeStatus(x) == [x EXCEPT !.status = TRUE]

\* Data fits into the window of the end that receives it, and finds the
\* output open, or failed.
LEMMA Fits ==
    ASSUME Counted, NEW x, NEW y, NEW v, NEW t, NEW n, Known(x, y),
           x.type = "open",
           Tailed(y.wire, v, t, n), t \in {"data", "ext"}
    PROVE  /\ n <= x.local_window
           /\ x.ostate # "open" => "write" \in x.failed
           /\ "eof_rcvd" \notin x.flags
<1>1. /\ Windows(y.remote_window, BothB(y.wire), GrantB(x.wire), x.local_window,
                 y.type, x.type, x.failed)
      /\ y.remote_window \in Nat /\ GrantB(x.wire) \in Nat
         /\ x.local_window \in Nat
      /\ Outputs(x.flags, x.ostate, x.failed)
      /\ Closes(y.wire, y.flags, x.flags) /\ Eofs(y.wire, y.flags, x.flags)
  BY Zenon DEF Known, OneWay, LocalInv, Typed, UsedNums
<1>2. v \in Seq(Messages) /\ BothB(y.wire) = BothB(v) + n /\ n \in Nat
  BY DEF Tailed
<1>3. BothB(v) \in Nat
  BY <1>2, CountNat DEF BothB
<1>4. n <= x.local_window
  BY <1>1, <1>2, <1>3 DEF Windows
<1>5. 1 \in 1..Len(y.wire) /\ y.wire # <<>> /\ y.wire[1].t = t
  BY DEF Tailed
<1>6. "eof_rcvd" \notin x.flags /\ "close_rcvd" \notin x.flags
  BY <1>1, <1>5 DEF Closes, Eofs, Payload
<1> QED
  BY <1>1, <1>4, <1>6 DEF Outputs, Received

\* channel_output_poll: data is sent, as much as the window allows.
LEMMA SendsData ==
    ASSUME Counted, NEW x, NEW y, NEW n \in Nat,
           Established(x, y),
           x.type = "open",
           x.istate # "closed",
           n > 0, n <= x.input, n <= x.remote_window
    PROVE  Keeps(x, SendData(x, n), y)
<1> DEFINE z == SendData(x, n)
<1>1. Known(x, y)
  BY KnownOf, Zenon
<1>2. x \in Channel /\ y \in Channel /\ x.wire \in Seq(Messages)
      /\ Len(x.wire) \in Nat
  BY <1>1 DEF Known, Typed
<1>3. /\ z.type = x.type /\ z.ctype = x.ctype /\ z.istate = x.istate
      /\ z.ostate = x.ostate /\ z.flags = x.flags
      /\ z.input = x.input - n /\ z.output = x.output
      /\ z.extended = x.extended /\ z.efd = x.efd /\ z.usage = x.usage
      /\ z.local_window = x.local_window
      /\ z.local_window_max = x.local_window_max
      /\ z.local_consumed = x.local_consumed
      /\ z.remote_window = x.remote_window - n /\ z.detach = x.detach
      /\ z.pid = x.pid /\ z.sel = x.sel /\ z.rd = x.rd /\ z.wr = x.wr
      /\ z.erd = x.erd /\ z.ewr = x.ewr /\ z.failed = x.failed
      /\ z.status = x.status /\ z.fatal = x.fatal
  BY <1>2 DEF Channel, SendData, Send
<1>4. x.input - n \in Nat /\ x.remote_window - n \in Nat
  <2>1. x.input \in Nat /\ x.remote_window \in Nat
    BY <1>2 DEF Channel
  <2> QED
    BY <2>1
<1>5. z \in Channel /\ z.wire = Append(x.wire, Msg("data", n))
  <2>1. [x EXCEPT !.input = @ - n, !.remote_window = @ - n] \in Channel
    BY <1>2, <1>4, Zenon DEF Channel, Flags, HalfStates
  <2>2. z \in Channel
    BY <2>1, <1>4, SendTyped DEF SendData
  <2> QED
    BY <1>2, <2>2, Zenon DEF Channel, SendData, Send
<1> HIDE DEF z
<1>7. Appended(x.wire, z.wire, "data", n)
  BY <1>2, <1>5, <1>4, Appending
<1>8. /\ DataB(z.wire) = DataB(x.wire) + n
      /\ ErrB(z.wire) = ErrB(x.wire)
      /\ BothB(z.wire) = BothB(x.wire) + n
      /\ GrantB(z.wire) = GrantB(x.wire)
  BY <1>1, <1>7 DEF Appended, Known, Typed, StdNums, ErrNums, UsedNums
<1>9. "close_sent" \notin x.flags /\ "eof_sent" \notin x.flags
  BY <1>1 DEF Known, LocalInv, Halves, Program
<1>6. /\ Opens(x, x.type, y.wire, y.type)
      /\ Sent(x.istate, x.input, x.usage, x.efd, x.extended, y.failed)
  BY <1>1, Zenon DEF Known, LocalInv, OneWay
<1>40. Outgoing(x, y, y, z.wire, x.flags, x.failed, x.pid)
  <2>1. MaySend(x, y, y, "data", x.flags, x.failed, x.pid)
    BY <1>9 DEF MaySend, Setup, Payload
  <2> QED
    BY <1>1, <1>7, <2>1, Sending
<1>41. Opens(z, x.type, y.wire, y.type)
  BY <1>6, OpensSelf, Zenon
<1>42. Sent(x.istate, x.input - n, x.usage, x.efd, x.extended, y.failed)
  BY <1>6 DEF Sent
<1>43. Balance(x.rd, x.input - n, DataB(x.wire) + n, y.output, y.wr, y.failed)
  <2>1. /\ Balance(x.rd, x.input, DataB(x.wire), y.output, y.wr, y.failed)
        /\ x.rd \in Nat /\ x.input \in Nat /\ DataB(x.wire) \in Nat
        /\ y.output \in Nat /\ y.wr \in Nat
    BY <1>1, Zenon DEF Known, LocalInv, OneWay, Typed, StdNums
  <2> QED
    BY <2>1 DEF Balance
<1>44. Windows(x.remote_window - n, BothB(x.wire) + n, GrantB(y.wire),
               y.local_window, x.type, y.type, y.failed)
  <2>1. /\ Windows(x.remote_window, BothB(x.wire), GrantB(y.wire), y.local_window,
                   x.type, y.type, y.failed)
        /\ x.remote_window \in Nat /\ BothB(x.wire) \in Nat
        /\ GrantB(y.wire) \in Nat /\ y.local_window \in Nat
    BY <1>1, Zenon DEF Known, LocalInv, OneWay, Typed, UsedNums
  <2> QED
    BY <2>1 DEF Windows
<1>45. Quiet(x, z)
  BY <1>2, <1>3, <1>7, <1>9, QuietAppend, Zenon DEF Payload
<1>90. LocalInv(z) /\ OneWay(z, y) /\ OneWay(y, z)
  BY <1>1, <1>3, <1>8,
     <1>40, <1>41, <1>42, <1>43, <1>44, ZenonT(30)
     DEF Known, LocalInv, OneWay, HeldBy, Outgoing
<1> QED
  BY <1>2, <1>3, <1>5, <1>90, <1>45, <1>1 DEF Known, Keeps, Established, z

\* channel_output_poll: stderr is sent, as much as the window allows.
LEMMA SendsErr ==
    ASSUME Counted, NEW x, NEW y, NEW n \in Nat,
           Established(x, y),
           x.type = "open",
           x.usage = "read",
           "eof_sent" \notin x.flags, "close_sent" \notin x.flags,
           n > 0, n <= x.extended, n <= x.remote_window
    PROVE  Keeps(x, SendErr(x, n), y)
<1> DEFINE z == SendErr(x, n)
<1>1. Known(x, y)
  BY KnownOf, Zenon
<1>2. x \in Channel /\ y \in Channel /\ x.wire \in Seq(Messages)
      /\ Len(x.wire) \in Nat
  BY <1>1 DEF Known, Typed
<1>0. y.usage = "write"
  BY <1>1 DEF Known, OneWay
<1>3. /\ z.type = x.type /\ z.ctype = x.ctype /\ z.istate = x.istate
      /\ z.ostate = x.ostate /\ z.flags = x.flags /\ z.input = x.input
      /\ z.output = x.output /\ z.extended = x.extended - n
      /\ z.efd = x.efd /\ z.usage = x.usage
      /\ z.local_window = x.local_window
      /\ z.local_window_max = x.local_window_max
      /\ z.local_consumed = x.local_consumed
      /\ z.remote_window = x.remote_window - n /\ z.detach = x.detach
      /\ z.pid = x.pid /\ z.sel = x.sel /\ z.rd = x.rd /\ z.wr = x.wr
      /\ z.erd = x.erd /\ z.ewr = x.ewr /\ z.failed = x.failed
      /\ z.status = x.status /\ z.fatal = x.fatal
  BY <1>2 DEF Channel, SendErr, Send
<1>4. x.extended - n \in Nat /\ x.remote_window - n \in Nat
  <2>1. x.extended \in Nat /\ x.remote_window \in Nat
    BY <1>2 DEF Channel
  <2> QED
    BY <2>1
<1>5. z \in Channel /\ z.wire = Append(x.wire, Msg("ext", n))
  <2>1. [x EXCEPT !.extended = @ - n, !.remote_window = @ - n] \in Channel
    BY <1>2, <1>4, Zenon DEF Channel, Flags, HalfStates
  <2>2. z \in Channel
    BY <2>1, <1>4, SendTyped DEF SendErr
  <2> QED
    BY <1>2, <2>2, Zenon DEF Channel, SendErr, Send
<1> HIDE DEF z
<1>7. Appended(x.wire, z.wire, "ext", n)
  BY <1>2, <1>5, <1>4, Appending
<1>8. /\ DataB(z.wire) = DataB(x.wire)
      /\ ErrB(z.wire) = ErrB(x.wire) + n
      /\ BothB(z.wire) = BothB(x.wire) + n
      /\ GrantB(z.wire) = GrantB(x.wire)
  BY <1>1, <1>7 DEF Appended, Known, Typed, StdNums, ErrNums, UsedNums
<1>9. "close_sent" \notin x.flags /\ "eof_sent" \notin x.flags
  BY <1>1 DEF Known, LocalInv, Halves, Program
<1>6. /\ Stderr(x.usage, x.efd, x.extended, x.ostate, x.failed, x.type)
      /\ Opens(x, x.type, y.wire, y.type)
      /\ Sent(x.istate, x.input, x.usage, x.efd, x.extended, y.failed)
  BY <1>1, Zenon DEF Known, LocalInv, OneWay
<1>40. Outgoing(x, y, y, z.wire, x.flags, x.failed, x.pid)
  <2>1. MaySend(x, y, y, "ext", x.flags, x.failed, x.pid)
    BY <1>9, <1>0 DEF MaySend, Setup, Payload
  <2> QED
    BY <1>1, <1>7, <2>1, Sending
<1>41. Stderr(x.usage, x.efd, x.extended - n, x.ostate, x.failed, x.type)
  BY <1>6 DEF Stderr
<1>42. Holding(x.local_window + x.output + x.local_consumed
               + ErrIn(x.usage, x.extended - n), x.local_window_max, x.type,
               x.failed)
  <2>1. /\ Holding(HeldBy(x), x.local_window_max, x.type, x.failed)
        /\ x.local_window \in Nat /\ x.output \in Nat
        /\ x.local_consumed \in Nat /\ x.extended \in Nat
        /\ x.local_window_max \in Nat
    BY <1>1, Zenon DEF Known, LocalInv, OneWay, Typed, HeldNums
  <2> QED
    BY <2>1 DEF Holding, HeldBy, ErrIn
<1>43. Opens(z, x.type, y.wire, y.type)
  BY <1>6, OpensSelf, Zenon
<1>44. Sent(x.istate, x.input, x.usage, x.efd, x.extended - n, y.failed)
  BY <1>6 DEF Sent
<1>45. ErrBalance(x.erd, ErrOut(x.usage, x.extended - n), ErrB(x.wire) + n,
                  ErrIn(y.usage, y.extended), y.ewr, y.failed)
  <2>1. /\ ErrBalance(x.erd, ErrOut(x.usage, x.extended), ErrB(x.wire),
                      ErrIn(y.usage, y.extended), y.ewr, y.failed)
        /\ x.erd \in Nat /\ x.extended \in Nat
        /\ ErrB(x.wire) \in Nat /\ y.extended \in Nat
        /\ y.ewr \in Nat
    BY <1>1, Zenon DEF Known, LocalInv, OneWay, Typed, ErrNums
  <2> QED
    BY <2>1 DEF ErrBalance, ErrOut, ErrIn
<1>46. ErrBalance(y.erd, ErrOut(y.usage, y.extended), ErrB(y.wire),
                  ErrIn(x.usage, x.extended - n), x.ewr, x.failed)
  <2>1. /\ ErrBalance(y.erd, ErrOut(y.usage, y.extended), ErrB(y.wire),
                      ErrIn(x.usage, x.extended), x.ewr, x.failed)
        /\ y.erd \in Nat /\ y.extended \in Nat
        /\ ErrB(y.wire) \in Nat /\ x.extended \in Nat
        /\ x.ewr \in Nat
    BY <1>1, Zenon DEF Known, LocalInv, OneWay, Typed, ErrNums
  <2> QED
    BY <2>1 DEF ErrBalance, ErrOut, ErrIn
<1>47. Windows(x.remote_window - n, BothB(x.wire) + n, GrantB(y.wire),
               y.local_window, x.type, y.type, y.failed)
  <2>1. /\ Windows(x.remote_window, BothB(x.wire), GrantB(y.wire), y.local_window,
                   x.type, y.type, y.failed)
        /\ x.remote_window \in Nat /\ BothB(x.wire) \in Nat
        /\ GrantB(y.wire) \in Nat /\ y.local_window \in Nat
    BY <1>1, Zenon DEF Known, LocalInv, OneWay, Typed, UsedNums
  <2> QED
    BY <2>1 DEF Windows
<1>48. Quiet(x, z)
  BY <1>2, <1>3, <1>7, <1>9, QuietAppend, Zenon DEF Payload
<1>90. LocalInv(z) /\ OneWay(z, y) /\ OneWay(y, z)
  BY <1>1, <1>3, <1>8,
     <1>40, <1>41, <1>42, <1>43, <1>44, <1>45, <1>46, <1>47, ZenonT(30)
     DEF Known, LocalInv, OneWay, HeldBy, Outgoing
<1> QED
  BY <1>2, <1>3, <1>5, <1>90, <1>48, <1>1 DEF Known, Keeps, Established, z

\* chan_ibuf_empty: EOF is sent after the last data.
LEMMA ClosesInput ==
    ASSUME Counted, NEW x, NEW y,
           Established(x, y),
           x.type = "open",
           x.istate = "drain", x.input = 0,
           x.usage = "read" => ~x.efd /\ x.extended = 0
    PROVE  Keeps(x, CloseInput(x), y)
<1> DEFINE z == CloseInput(x)
<1>1. Known(x, y)
  BY KnownOf, Zenon
<1>2. x \in Channel /\ y \in Channel /\ x.wire \in Seq(Messages)
      /\ Len(x.wire) \in Nat
  BY <1>1 DEF Known, Typed
<1>3. /\ z.type = x.type /\ z.ctype = x.ctype /\ z.istate = "closed"
      /\ z.ostate = x.ostate /\ z.flags = x.flags \cup {"eof_sent"}
      /\ z.input = x.input /\ z.output = x.output
      /\ z.extended = x.extended /\ z.efd = x.efd /\ z.usage = x.usage
      /\ z.local_window = x.local_window
      /\ z.local_window_max = x.local_window_max
      /\ z.local_consumed = x.local_consumed
      /\ z.remote_window = x.remote_window /\ z.detach = x.detach
      /\ z.pid = x.pid /\ z.sel = x.sel /\ z.rd = x.rd /\ z.wr = x.wr
      /\ z.erd = x.erd /\ z.ewr = x.ewr /\ z.failed = x.failed
      /\ z.status = x.status /\ z.fatal = x.fatal
  BY <1>2 DEF Channel, CloseInput, Send
<1>5. z \in Channel /\ z.wire = Append(x.wire, Msg("eof", 0))
  <2>1. [x EXCEPT !.flags = @ \cup {"eof_sent"}] \in Channel
    BY <1>2, Zenon DEF Channel, Flags, HalfStates
  <2> DEFINE s == Send([x EXCEPT !.flags = @ \cup {"eof_sent"}], Msg("eof", 0))
  <2>2. s \in Channel
    BY <2>1, SendTyped
  <2>3. z = [s EXCEPT !.istate = "closed"]
    BY DEF CloseInput
  <2> HIDE DEF s
  <2>4. [s EXCEPT !.istate = "closed"] \in Channel
    BY <2>2, Zenon DEF Channel, HalfStates
  <2>5. z \in Channel
    BY <2>3, <2>4
  <2> USE DEF s
  <2> QED
    BY <1>2, <2>5, Zenon DEF Channel, CloseInput, Send
<1> HIDE DEF z
<1>7. Appended(x.wire, z.wire, "eof", 0)
  BY <1>2, <1>5, Appending
<1>8. /\ DataB(z.wire) = DataB(x.wire)
      /\ ErrB(z.wire) = ErrB(x.wire)
      /\ BothB(z.wire) = BothB(x.wire)
      /\ GrantB(z.wire) = GrantB(x.wire)
  BY <1>1, <1>7 DEF Appended, Known, Typed, StdNums, ErrNums, UsedNums
<1>9. "close_sent" \notin x.flags /\ "eof_sent" \notin x.flags
  BY <1>1 DEF Known, LocalInv, Halves, Program
<1>6. /\ Halves(x.flags, x.istate, x.ostate, x.output)
      /\ Outputs(x.flags, x.ostate, x.failed)
      /\ Program(x.pid, x.type, x.detach, x.flags, x.usage)
      /\ Freed(x.type, x.flags, x.fatal)
      /\ Closes(y.wire, y.flags, x.flags) /\ Eofs(y.wire, y.flags, x.flags)
      /\ Opens(x, x.type, y.wire, y.type)
      /\ Sent(x.istate, x.input, x.usage, x.efd, x.extended, y.failed)
  BY <1>1, Zenon DEF Known, LocalInv, OneWay
<1>40. Outgoing(x, y, y, z.wire, x.flags \cup {"eof_sent"}, x.failed, x.pid)
  <2>1. MaySend(x, y, y, "eof", x.flags \cup {"eof_sent"}, x.failed, x.pid)
    BY <1>9 DEF MaySend, Setup, Payload
  <2> QED
    BY <1>1, <1>7, <2>1, Sending
<1>41. Halves(x.flags \cup {"eof_sent"}, "closed", x.ostate, x.output)
  BY <1>6 DEF Halves
<1>42. Outputs(x.flags \cup {"eof_sent"}, x.ostate, x.failed)
  BY <1>6 DEF Outputs, Received
<1>43. Program(x.pid, x.type, x.detach, x.flags \cup {"eof_sent"}, x.usage)
  BY <1>6 DEF Program
<1>44. Freed(x.type, x.flags \cup {"eof_sent"}, x.fatal)
  BY <1>6 DEF Freed
<1>45. Closes(y.wire, y.flags, x.flags \cup {"eof_sent"})
  BY <1>6 DEF Closes
<1>46. Eofs(y.wire, y.flags, x.flags \cup {"eof_sent"})
  BY <1>6 DEF Eofs
<1>47. Opens(z, x.type, y.wire, y.type)
  BY <1>6, OpensSelf, Zenon
<1>48. Sent("closed", x.input, x.usage, x.efd, x.extended, y.failed)
  BY <1>6 DEF Sent
<1>49. Quiet(x, z)
  BY <1>2, <1>3, <1>7, <1>9, QuietAppend, Zenon DEF Payload
<1>90. LocalInv(z) /\ OneWay(z, y) /\ OneWay(y, z)
  BY <1>1, <1>3, <1>8,
     <1>40, <1>41, <1>42, <1>43, <1>44, <1>45, <1>46, <1>47, <1>48, ZenonT(30)
     DEF Known, LocalInv, OneWay, HeldBy, Outgoing
<1> QED
  BY <1>2, <1>3, <1>5, <1>90, <1>49, <1>1 DEF Known, Keeps, Established, z

\* chan_obuf_empty: a drained output closes.
LEMMA ClosesOutput ==
    ASSUME Counted, NEW x, NEW y,
           Established(x, y),
           x.type = "open",
           x.ostate = "drain", x.output = 0,
           x.usage = "write" => ~x.efd \/ x.extended = 0
    PROVE  Keeps(x, CloseOutput(x), y)
<1> DEFINE z == CloseOutput(x)
<1>1. Known(x, y)
  BY KnownOf, Zenon
<1>2. x \in Channel /\ y \in Channel /\ x.wire \in Seq(Messages)
      /\ Len(x.wire) \in Nat
  BY <1>1 DEF Known, Typed
<1>3. /\ z.type = x.type /\ z.ctype = x.ctype /\ z.istate = x.istate
      /\ z.ostate = "closed" /\ z.flags = x.flags /\ z.input = x.input
      /\ z.output = 0 /\ z.extended = x.extended /\ z.efd = x.efd
      /\ z.usage = x.usage /\ z.local_window = x.local_window
      /\ z.local_window_max = x.local_window_max
      /\ z.local_consumed = x.local_consumed
      /\ z.remote_window = x.remote_window /\ z.detach = x.detach
      /\ z.pid = x.pid /\ z.sel = x.sel /\ z.wire = x.wire /\ z.rd = x.rd
      /\ z.wr = x.wr /\ z.erd = x.erd /\ z.ewr = x.ewr
      /\ z.failed = x.failed /\ z.status = x.status /\ z.fatal = x.fatal
  BY <1>2 DEF Channel, CloseOutput
<1>5. z \in Channel
  BY <1>2, ZenonT(40) DEF Channel, Flags, HalfStates, CloseOutput
<1> HIDE DEF z
<1>6. /\ Halves(x.flags, x.istate, x.ostate, x.output)
      /\ Outputs(x.flags, x.ostate, x.failed)
      /\ Stderr(x.usage, x.efd, x.extended, x.ostate, x.failed, x.type)
      /\ Opens(x, x.type, y.wire, y.type)
  BY <1>1, Zenon DEF Known, LocalInv, OneWay
<1>40. Halves(x.flags, x.istate, "closed", 0)
  BY <1>6 DEF Halves
<1>41. Outputs(x.flags, "closed", x.failed)
  BY <1>6 DEF Outputs, Received
<1>42. Stderr(x.usage, x.efd, x.extended, "closed", x.failed, x.type)
  BY <1>6 DEF Stderr
<1>43. Holding(x.local_window + 0 + x.local_consumed + ErrIn(x.usage, x.extended),
               x.local_window_max, x.type, x.failed)
  <2>1. /\ Holding(HeldBy(x), x.local_window_max, x.type, x.failed)
        /\ x.local_window \in Nat /\ x.output \in Nat
        /\ x.local_consumed \in Nat /\ x.extended \in Nat
        /\ x.local_window_max \in Nat
    BY <1>1, Zenon DEF Known, LocalInv, OneWay, Typed, HeldNums
  <2> QED
    BY <2>1 DEF Holding, HeldBy, ErrIn
<1>44. Opens(z, x.type, y.wire, y.type)
  BY <1>6, OpensSelf, Zenon
<1>45. Balance(y.rd, y.input, DataB(y.wire), 0, x.wr, x.failed)
  <2>1. /\ Balance(y.rd, y.input, DataB(y.wire), x.output, x.wr, x.failed)
        /\ y.rd \in Nat /\ y.input \in Nat /\ DataB(y.wire) \in Nat
        /\ x.output \in Nat /\ x.wr \in Nat
    BY <1>1, Zenon DEF Known, LocalInv, OneWay, Typed, StdNums
  <2> QED
    BY <2>1 DEF Balance
<1>46. Quiet(x, z)
  BY <1>2, <1>3, QuietSame
<1>90. LocalInv(z) /\ OneWay(z, y) /\ OneWay(y, z)
  BY <1>1, <1>3,
     <1>40, <1>41, <1>42, <1>43, <1>44, <1>45, ZenonT(30)
     DEF Known, LocalInv, OneWay, HeldBy
<1> QED
  BY <1>2, <1>3, <1>5, <1>90, <1>46, <1>1 DEF Known, Keeps, Established, z

\* chan_write_failed: the output is given up.
LEMMA FailsWrite ==
    ASSUME Counted, NEW x, NEW y,
           Established(x, y),
           x.type = "open",
           x.ostate # "closed"
    PROVE  Keeps(x, FailWrite(x), y)
<1> DEFINE z == FailWrite(x)
<1>1. Known(x, y)
  BY KnownOf, Zenon
<1>2. x \in Channel /\ y \in Channel /\ x.wire \in Seq(Messages)
      /\ Len(x.wire) \in Nat
  BY <1>1 DEF Known, Typed
<1>3. /\ z.type = x.type /\ z.ctype = x.ctype /\ z.istate = x.istate
      /\ z.ostate = "closed" /\ z.flags = x.flags /\ z.input = x.input
      /\ z.output = 0 /\ z.extended = x.extended /\ z.efd = x.efd
      /\ z.usage = x.usage /\ z.local_window = x.local_window
      /\ z.local_window_max = x.local_window_max
      /\ z.local_consumed = x.local_consumed
      /\ z.remote_window = x.remote_window /\ z.detach = x.detach
      /\ z.pid = x.pid /\ z.sel = x.sel /\ z.wire = x.wire /\ z.rd = x.rd
      /\ z.wr = x.wr /\ z.erd = x.erd /\ z.ewr = x.ewr
      /\ z.failed = x.failed \cup {"write"} /\ z.status = x.status
      /\ z.fatal = x.fatal
  BY <1>2 DEF Channel, FailWrite
<1>5. z \in Channel
  BY <1>2, ZenonT(40) DEF Channel, Flags, HalfStates, FailWrite
<1> HIDE DEF z
<1>6. /\ Halves(x.flags, x.istate, x.ostate, x.output)
      /\ Outputs(x.flags, x.ostate, x.failed)
      /\ Stderr(x.usage, x.efd, x.extended, x.ostate, x.failed, x.type)
      /\ Carries(x.wire, x.failed, y.usage)
      /\ Opens(x, x.type, y.wire, y.type)
      /\ Sent(y.istate, y.input, y.usage, y.efd, y.extended, x.failed)
  BY <1>1, Zenon DEF Known, LocalInv, OneWay
<1>40. Halves(x.flags, x.istate, "closed", 0)
  BY <1>6 DEF Halves
<1>41. Outputs(x.flags, "closed", x.failed \cup {"write"})
  BY <1>6 DEF Outputs, Received
<1>42. Stderr(x.usage, x.efd, x.extended, "closed", x.failed \cup {"write"},
              x.type)
  BY <1>6 DEF Stderr
<1>43. Holding(x.local_window + 0 + x.local_consumed + ErrIn(x.usage, x.extended),
               x.local_window_max, x.type, x.failed \cup {"write"})
  <2>1. /\ Holding(HeldBy(x), x.local_window_max, x.type, x.failed)
        /\ x.local_window \in Nat /\ x.output \in Nat
        /\ x.local_consumed \in Nat /\ x.extended \in Nat
        /\ x.local_window_max \in Nat
    BY <1>1, Zenon DEF Known, LocalInv, OneWay, Typed, HeldNums
  <2> QED
    BY <2>1 DEF Holding, HeldBy, ErrIn
<1>44. Carries(x.wire, x.failed \cup {"write"}, y.usage)
  BY <1>6 DEF Carries
<1>45. Opens(z, x.type, y.wire, y.type)
  BY <1>6, OpensSelf, Zenon
<1>46. Sent(y.istate, y.input, y.usage, y.efd, y.extended,
            x.failed \cup {"write"})
  BY <1>6 DEF Sent
<1>47. Balance(y.rd, y.input, DataB(y.wire), 0, x.wr, x.failed \cup {"write"})
  <2>1. /\ Balance(y.rd, y.input, DataB(y.wire), x.output, x.wr, x.failed)
        /\ y.rd \in Nat /\ y.input \in Nat /\ DataB(y.wire) \in Nat
        /\ x.output \in Nat /\ x.wr \in Nat
    BY <1>1, Zenon DEF Known, LocalInv, OneWay, Typed, StdNums
  <2> QED
    BY <2>1 DEF Balance
<1>48. ErrBalance(y.erd, ErrOut(y.usage, y.extended), ErrB(y.wire),
                  ErrIn(x.usage, x.extended), x.ewr, x.failed \cup {"write"})
  <2>1. /\ ErrBalance(y.erd, ErrOut(y.usage, y.extended), ErrB(y.wire),
                      ErrIn(x.usage, x.extended), x.ewr, x.failed)
        /\ y.erd \in Nat /\ y.extended \in Nat
        /\ ErrB(y.wire) \in Nat /\ x.extended \in Nat
        /\ x.ewr \in Nat
    BY <1>1, Zenon DEF Known, LocalInv, OneWay, Typed, ErrNums
  <2> QED
    BY <2>1 DEF ErrBalance, ErrOut, ErrIn
<1>49. Windows(y.remote_window, BothB(y.wire), GrantB(x.wire), x.local_window,
               y.type, x.type, x.failed \cup {"write"})
  <2>1. /\ Windows(y.remote_window, BothB(y.wire), GrantB(x.wire), x.local_window,
                   y.type, x.type, x.failed)
        /\ y.remote_window \in Nat /\ BothB(y.wire) \in Nat
        /\ GrantB(x.wire) \in Nat /\ x.local_window \in Nat
    BY <1>1, Zenon DEF Known, LocalInv, OneWay, Typed, UsedNums
  <2> QED
    BY <2>1 DEF Windows
<1>50. Quiet(x, z)
  BY <1>2, <1>3, QuietSame
<1>90. LocalInv(z) /\ OneWay(z, y) /\ OneWay(y, z)
  BY <1>1, <1>3,
     <1>40, <1>41, <1>42, <1>43, <1>44, <1>45, <1>46, <1>47, <1>48,
     <1>49, ZenonT(30)
     DEF Known, LocalInv, OneWay, HeldBy
<1> QED
  BY <1>2, <1>3, <1>5, <1>90, <1>50, <1>1 DEF Known, Keeps, Established, z

\* chan_write_failed: a session also tells the other end.
LEMMA FailsSession ==
    ASSUME Counted, NEW x, NEW y,
           Established(x, y),
           x.type = "open",
           x.ostate # "closed"
    PROVE  Keeps(x, FailSession(x), y)
<1> DEFINE z == FailSession(x)
<1>1. Known(x, y)
  BY KnownOf, Zenon
<1>2. x \in Channel /\ y \in Channel /\ x.wire \in Seq(Messages)
      /\ Len(x.wire) \in Nat
  BY <1>1 DEF Known, Typed
<1>3. /\ z.type = x.type /\ z.ctype = x.ctype /\ z.istate = x.istate
      /\ z.ostate = "closed" /\ z.flags = x.flags /\ z.input = x.input
      /\ z.output = 0 /\ z.extended = x.extended /\ z.efd = x.efd
      /\ z.usage = x.usage /\ z.local_window = x.local_window
      /\ z.local_window_max = x.local_window_max
      /\ z.local_consumed = x.local_consumed
      /\ z.remote_window = x.remote_window /\ z.detach = x.detach
      /\ z.pid = x.pid /\ z.sel = x.sel /\ z.rd = x.rd /\ z.wr = x.wr
      /\ z.erd = x.erd /\ z.ewr = x.ewr
      /\ z.failed = x.failed \cup {"write"} /\ z.status = x.status
      /\ z.fatal = x.fatal
  BY <1>2 DEF Channel, FailSession, Send
<1>5. z \in Channel /\ z.wire = Append(x.wire, Msg("eow", 0))
  <2>1. [x EXCEPT !.output = 0] \in Channel
    BY <1>2, Zenon DEF Channel, Flags, HalfStates
  <2> DEFINE s == Send([x EXCEPT !.output = 0], Msg("eow", 0))
  <2>2. s \in Channel
    BY <2>1, SendTyped
  <2>3. z = [s EXCEPT !.ostate = "closed", !.failed = @ \cup {"write"}]
    BY DEF FailSession
  <2> HIDE DEF s
  <2>4. [s EXCEPT !.ostate = "closed", !.failed = @ \cup {"write"}] \in Channel
    BY <2>2, Zenon DEF Channel, HalfStates
  <2>5. z \in Channel
    BY <2>3, <2>4
  <2> USE DEF s
  <2> QED
    BY <1>2, <2>5, Zenon DEF Channel, FailSession, Send
<1> HIDE DEF z
<1>7. Appended(x.wire, z.wire, "eow", 0)
  BY <1>2, <1>5, Appending
<1>8. /\ DataB(z.wire) = DataB(x.wire)
      /\ ErrB(z.wire) = ErrB(x.wire)
      /\ BothB(z.wire) = BothB(x.wire)
      /\ GrantB(z.wire) = GrantB(x.wire)
  BY <1>1, <1>7 DEF Appended, Known, Typed, StdNums, ErrNums, UsedNums
<1>9. "close_sent" \notin x.flags
  BY <1>1 DEF Known, LocalInv, Halves, Program
<1>6. /\ Halves(x.flags, x.istate, x.ostate, x.output)
      /\ Outputs(x.flags, x.ostate, x.failed)
      /\ Stderr(x.usage, x.efd, x.extended, x.ostate, x.failed, x.type)
      /\ Opens(x, x.type, y.wire, y.type)
      /\ Sent(y.istate, y.input, y.usage, y.efd, y.extended, x.failed)
  BY <1>1, Zenon DEF Known, LocalInv, OneWay
<1>40. Outgoing(x, y, y, z.wire, x.flags, x.failed \cup {"write"}, x.pid)
  <2>1. MaySend(x, y, y, "eow", x.flags, x.failed \cup {"write"}, x.pid)
    BY <1>9 DEF MaySend, Setup, Payload
  <2> QED
    BY <1>1, <1>7, <2>1, Sending
<1>41. Halves(x.flags, x.istate, "closed", 0)
  BY <1>6 DEF Halves
<1>42. Outputs(x.flags, "closed", x.failed \cup {"write"})
  BY <1>6 DEF Outputs, Received
<1>43. Stderr(x.usage, x.efd, x.extended, "closed", x.failed \cup {"write"},
              x.type)
  BY <1>6 DEF Stderr
<1>44. Holding(x.local_window + 0 + x.local_consumed + ErrIn(x.usage, x.extended),
               x.local_window_max, x.type, x.failed \cup {"write"})
  <2>1. /\ Holding(HeldBy(x), x.local_window_max, x.type, x.failed)
        /\ x.local_window \in Nat /\ x.output \in Nat
        /\ x.local_consumed \in Nat /\ x.extended \in Nat
        /\ x.local_window_max \in Nat
    BY <1>1, Zenon DEF Known, LocalInv, OneWay, Typed, HeldNums
  <2> QED
    BY <2>1 DEF Holding, HeldBy, ErrIn
<1>45. Opens(z, x.type, y.wire, y.type)
  BY <1>6, OpensSelf, Zenon
<1>46. Sent(y.istate, y.input, y.usage, y.efd, y.extended,
            x.failed \cup {"write"})
  BY <1>6 DEF Sent
<1>47. Balance(y.rd, y.input, DataB(y.wire), 0, x.wr, x.failed \cup {"write"})
  <2>1. /\ Balance(y.rd, y.input, DataB(y.wire), x.output, x.wr, x.failed)
        /\ y.rd \in Nat /\ y.input \in Nat /\ DataB(y.wire) \in Nat
        /\ x.output \in Nat /\ x.wr \in Nat
    BY <1>1, Zenon DEF Known, LocalInv, OneWay, Typed, StdNums
  <2> QED
    BY <2>1 DEF Balance
<1>48. ErrBalance(y.erd, ErrOut(y.usage, y.extended), ErrB(y.wire),
                  ErrIn(x.usage, x.extended), x.ewr, x.failed \cup {"write"})
  <2>1. /\ ErrBalance(y.erd, ErrOut(y.usage, y.extended), ErrB(y.wire),
                      ErrIn(x.usage, x.extended), x.ewr, x.failed)
        /\ y.erd \in Nat /\ y.extended \in Nat
        /\ ErrB(y.wire) \in Nat /\ x.extended \in Nat
        /\ x.ewr \in Nat
    BY <1>1, Zenon DEF Known, LocalInv, OneWay, Typed, ErrNums
  <2> QED
    BY <2>1 DEF ErrBalance, ErrOut, ErrIn
<1>49. Windows(y.remote_window, BothB(y.wire), GrantB(x.wire), x.local_window,
               y.type, x.type, x.failed \cup {"write"})
  <2>1. /\ Windows(y.remote_window, BothB(y.wire), GrantB(x.wire), x.local_window,
                   y.type, x.type, x.failed)
        /\ y.remote_window \in Nat /\ BothB(y.wire) \in Nat
        /\ GrantB(x.wire) \in Nat /\ x.local_window \in Nat
    BY <1>1, Zenon DEF Known, LocalInv, OneWay, Typed, UsedNums
  <2> QED
    BY <2>1 DEF Windows
<1>50. Quiet(x, z)
  BY <1>2, <1>3, <1>7, <1>9, QuietAppend, Zenon DEF Payload
<1>90. LocalInv(z) /\ OneWay(z, y) /\ OneWay(y, z)
  BY <1>1, <1>3, <1>8,
     <1>40, <1>41, <1>42, <1>43, <1>44, <1>45, <1>46, <1>47, <1>48,
     <1>49, ZenonT(30)
     DEF Known, LocalInv, OneWay, HeldBy, Outgoing
<1> QED
  BY <1>2, <1>3, <1>5, <1>90, <1>50, <1>1 DEF Known, Keeps, Established, z

\* channel_pre_open: the descriptors to wait for.
LEMMA Selects ==
    ASSUME Counted, NEW x, NEW y, NEW S \in SUBSET {"rfd", "wfd", "efd"},
           Established(x, y),
           x.type # "opening"
    PROVE  Keeps(x, Select(x, S), y)
<1> DEFINE z == Select(x, S)
<1>1. Known(x, y)
  BY KnownOf, Zenon
<1>2. x \in Channel /\ y \in Channel /\ x.wire \in Seq(Messages)
      /\ Len(x.wire) \in Nat
  BY <1>1 DEF Known, Typed
<1>3. /\ z.type = x.type /\ z.ctype = x.ctype /\ z.istate = x.istate
      /\ z.ostate = x.ostate /\ z.flags = x.flags /\ z.input = x.input
      /\ z.output = x.output /\ z.extended = x.extended /\ z.efd = x.efd
      /\ z.usage = x.usage /\ z.local_window = x.local_window
      /\ z.local_window_max = x.local_window_max
      /\ z.local_consumed = x.local_consumed
      /\ z.remote_window = x.remote_window /\ z.detach = x.detach
      /\ z.pid = x.pid /\ z.sel = S /\ z.wire = x.wire /\ z.rd = x.rd
      /\ z.wr = x.wr /\ z.erd = x.erd /\ z.ewr = x.ewr
      /\ z.failed = x.failed /\ z.status = x.status /\ z.fatal = x.fatal
  BY <1>2 DEF Channel, Select
<1>5. z \in Channel
  BY <1>2, Zenon DEF Channel, Flags, HalfStates, Select
<1> HIDE DEF z
<1>6. /\ Opens(x, x.type, y.wire, y.type)
  BY <1>1, Zenon DEF Known, LocalInv, OneWay
<1>40. Opens(z, x.type, y.wire, y.type)
  BY <1>6, OpensSelf, Zenon
<1>41. Quiet(x, z)
  BY <1>2, <1>3, QuietSame
<1>90. LocalInv(z) /\ OneWay(z, y) /\ OneWay(y, z)
  BY <1>1, <1>3,
     <1>40, ZenonT(30)
     DEF Known, LocalInv, OneWay, HeldBy
<1> QED
  BY <1>2, <1>3, <1>5, <1>90, <1>41, <1>1 DEF Known, Keeps, Established, z

\* chan_send_close2: CLOSE is sent when both halves are closed.
LEMMA SendsClose ==
    ASSUME Counted, NEW x, NEW y,
           Established(x, y),
           x.type = "open",
           x.istate = "closed", x.ostate = "closed",
           "close_sent" \notin x.flags,
           x.pid \notin {"running", "exited", "killed"}
    PROVE  Keeps(x, SendClose(x), y)
<1> DEFINE z == SendClose(x)
<1>1. Known(x, y)
  BY KnownOf, Zenon
<1>2. x \in Channel /\ y \in Channel /\ x.wire \in Seq(Messages)
      /\ Len(x.wire) \in Nat
  BY <1>1 DEF Known, Typed
<1>3. /\ z.type = x.type /\ z.ctype = x.ctype /\ z.istate = x.istate
      /\ z.ostate = x.ostate /\ z.flags = x.flags \cup {"close_sent"}
      /\ z.input = x.input /\ z.output = x.output
      /\ z.extended = x.extended /\ z.efd = x.efd /\ z.usage = x.usage
      /\ z.local_window = x.local_window
      /\ z.local_window_max = x.local_window_max
      /\ z.local_consumed = x.local_consumed
      /\ z.remote_window = x.remote_window /\ z.detach = x.detach
      /\ z.pid = x.pid /\ z.sel = x.sel /\ z.rd = x.rd /\ z.wr = x.wr
      /\ z.erd = x.erd /\ z.ewr = x.ewr /\ z.failed = x.failed
      /\ z.status = x.status /\ z.fatal = x.fatal
  BY <1>2 DEF Channel, SendClose, Send
<1>5. z \in Channel /\ z.wire = Append(x.wire, Msg("close", 0))
  <2>1. [x EXCEPT !.flags = @ \cup {"close_sent"}] \in Channel
    BY <1>2, Zenon DEF Channel, Flags, HalfStates
  <2>2. z \in Channel
    BY <2>1, SendTyped DEF SendClose
  <2> QED
    BY <1>2, <2>2, Zenon DEF Channel, SendClose, Send
<1> HIDE DEF z
<1>7. Appended(x.wire, z.wire, "close", 0)
  BY <1>2, <1>5, Appending
<1>8. /\ DataB(z.wire) = DataB(x.wire)
      /\ ErrB(z.wire) = ErrB(x.wire)
      /\ BothB(z.wire) = BothB(x.wire)
      /\ GrantB(z.wire) = GrantB(x.wire)
  BY <1>1, <1>7 DEF Appended, Known, Typed, StdNums, ErrNums, UsedNums
<1>9. "close_sent" \notin x.flags
  BY <1>1 DEF Known, LocalInv, Halves, Program
<1>6. /\ Halves(x.flags, x.istate, x.ostate, x.output)
      /\ Outputs(x.flags, x.ostate, x.failed)
      /\ Program(x.pid, x.type, x.detach, x.flags, x.usage)
      /\ Freed(x.type, x.flags, x.fatal)
      /\ Closes(y.wire, y.flags, x.flags) /\ Eofs(y.wire, y.flags, x.flags)
      /\ Opens(x, x.type, y.wire, y.type)
  BY <1>1, Zenon DEF Known, LocalInv, OneWay
<1>40. Outgoing(x, y, y, z.wire, x.flags \cup {"close_sent"}, x.failed, x.pid)
  <2>1. MaySend(x, y, y, "close", x.flags \cup {"close_sent"}, x.failed, x.pid)
    BY <1>9 DEF MaySend, Setup, Payload
  <2> QED
    BY <1>1, <1>7, <2>1, Sending
<1>41. Halves(x.flags \cup {"close_sent"}, x.istate, x.ostate, x.output)
  BY <1>6 DEF Halves
<1>42. Outputs(x.flags \cup {"close_sent"}, x.ostate, x.failed)
  BY <1>6 DEF Outputs, Received
<1>43. Program(x.pid, x.type, x.detach, x.flags \cup {"close_sent"}, x.usage)
  BY <1>6 DEF Program
<1>44. Freed(x.type, x.flags \cup {"close_sent"}, x.fatal)
  BY <1>6 DEF Freed
<1>45. Closes(y.wire, y.flags, x.flags \cup {"close_sent"})
  BY <1>6 DEF Closes
<1>46. Eofs(y.wire, y.flags, x.flags \cup {"close_sent"})
  BY <1>6 DEF Eofs
<1>47. Opens(z, x.type, y.wire, y.type)
  BY <1>6, OpensSelf, Zenon
<1>48. Quiet(x, z)
  BY <1>2, <1>3, <1>7, <1>9, QuietAppend, Zenon DEF Payload
<1>90. LocalInv(z) /\ OneWay(z, y) /\ OneWay(y, z)
  BY <1>1, <1>3, <1>8,
     <1>40, <1>41, <1>42, <1>43, <1>44, <1>45, <1>46, <1>47, ZenonT(30)
     DEF Known, LocalInv, OneWay, HeldBy, Outgoing
<1> QED
  BY <1>2, <1>3, <1>5, <1>90, <1>48, <1>1 DEF Known, Keeps, Established, z

\* detach_user: the callback lets go of the channel.
LEMMA Detaches ==
    ASSUME Counted, NEW x, NEW y,
           Established(x, y),
           x.type # "opening",
           x.pid \notin {"running", "exited", "killed"}
    PROVE  Keeps(x, Detach(x), y)
<1> DEFINE z == Detach(x)
<1>1. Known(x, y)
  BY KnownOf, Zenon
<1>2. x \in Channel /\ y \in Channel /\ x.wire \in Seq(Messages)
      /\ Len(x.wire) \in Nat
  BY <1>1 DEF Known, Typed
<1>3. /\ z.type = x.type /\ z.ctype = x.ctype /\ z.istate = x.istate
      /\ z.ostate = x.ostate /\ z.flags = x.flags /\ z.input = x.input
      /\ z.output = x.output /\ z.extended = x.extended /\ z.efd = x.efd
      /\ z.usage = x.usage /\ z.local_window = x.local_window
      /\ z.local_window_max = x.local_window_max
      /\ z.local_consumed = x.local_consumed
      /\ z.remote_window = x.remote_window /\ z.detach = "none"
      /\ z.pid = x.pid /\ z.sel = x.sel /\ z.wire = x.wire /\ z.rd = x.rd
      /\ z.wr = x.wr /\ z.erd = x.erd /\ z.ewr = x.ewr
      /\ z.failed = x.failed /\ z.status = x.status /\ z.fatal = x.fatal
  BY <1>2 DEF Channel, Detach
<1>5. z \in Channel
  BY <1>2, ZenonT(40) DEF Channel, Flags, HalfStates, Detach
<1> HIDE DEF z
<1>6. /\ Program(x.pid, x.type, x.detach, x.flags, x.usage)
      /\ Opens(x, x.type, y.wire, y.type)
  BY <1>1, Zenon DEF Known, LocalInv, OneWay
<1>40. Program(x.pid, x.type, "none", x.flags, x.usage)
  BY <1>6 DEF Program
<1>41. Opens(z, x.type, y.wire, y.type)
  BY <1>6, OpensSelf, Zenon
<1>42. Quiet(x, z)
  BY <1>2, <1>3, QuietSame
<1>90. LocalInv(z) /\ OneWay(z, y) /\ OneWay(y, z)
  BY <1>1, <1>3,
     <1>40, <1>41, ZenonT(30)
     DEF Known, LocalInv, OneWay, HeldBy
<1> QED
  BY <1>2, <1>3, <1>5, <1>90, <1>42, <1>1 DEF Known, Keeps, Established, z

\* channel_free: the channel goes after both CLOSEs.
LEMMA Frees ==
    ASSUME Counted, NEW x, NEW y,
           Established(x, y),
           x.type # "opening",
           x.istate = "closed", x.ostate = "closed",
           "close_sent" \in x.flags, "close_rcvd" \in x.flags
    PROVE  Keeps(x, channel_free(x), y)
<1> DEFINE z == channel_free(x)
<1>1. Known(x, y)
  BY KnownOf, Zenon
<1>2. x \in Channel /\ y \in Channel /\ x.wire \in Seq(Messages)
      /\ Len(x.wire) \in Nat
  BY <1>1 DEF Known, Typed
<1>0. y.type # "opening"
  <2>1. Closes(y.wire, y.flags, x.flags) /\ Opens(y, y.type, x.wire, x.type)
    BY <1>1, Zenon DEF Known, OneWay
  <2> QED
    BY <2>1 DEF Closes, Opens, IsClient, Fresh
<1>3. /\ z.type = "free" /\ z.ctype = x.ctype /\ z.istate = x.istate
      /\ z.ostate = x.ostate /\ z.flags = x.flags /\ z.input = 0
      /\ z.output = 0 /\ z.extended = 0 /\ z.efd = FALSE
      /\ z.usage = x.usage /\ z.local_window = x.local_window
      /\ z.local_window_max = x.local_window_max
      /\ z.local_consumed = x.local_consumed
      /\ z.remote_window = x.remote_window /\ z.detach = x.detach
      /\ z.pid = x.pid /\ z.sel = {} /\ z.wire = x.wire /\ z.rd = x.rd
      /\ z.wr = x.wr /\ z.erd = x.erd /\ z.ewr = x.ewr
      /\ z.failed = x.failed /\ z.status = x.status /\ z.fatal = x.fatal
  BY <1>2 DEF Channel, channel_free
<1>5. z \in Channel
  BY <1>2, ZenonT(40) DEF Channel, Types, Flags, HalfStates, channel_free
<1> HIDE DEF z
<1>6. /\ Halves(x.flags, x.istate, x.ostate, x.output)
      /\ Stderr(x.usage, x.efd, x.extended, x.ostate, x.failed, x.type)
      /\ Program(x.pid, x.type, x.detach, x.flags, x.usage)
      /\ Freed(x.type, x.flags, x.fatal)
      /\ Opens(y, y.type, x.wire, x.type)
      /\ Sent(x.istate, x.input, x.usage, x.efd, x.extended, y.failed)
  BY <1>1, Zenon DEF Known, LocalInv, OneWay
<1>40. Halves(x.flags, x.istate, x.ostate, 0)
  BY <1>6 DEF Halves
<1>41. Stderr(x.usage, FALSE, 0, x.ostate, x.failed, "free")
  BY <1>6 DEF Stderr
<1>42. Program(x.pid, "free", x.detach, x.flags, x.usage)
  BY <1>6 DEF Program
<1>43. Freed("free", x.flags, x.fatal)
  BY <1>6 DEF Freed
<1>44. Holding(x.local_window + 0 + x.local_consumed + ErrIn(x.usage, 0),
               x.local_window_max, "free", x.failed)
  <2>1. /\ Holding(HeldBy(x), x.local_window_max, x.type, x.failed)
        /\ x.local_window \in Nat /\ x.output \in Nat
        /\ x.local_consumed \in Nat /\ x.extended \in Nat
        /\ x.local_window_max \in Nat
    BY <1>1, Zenon DEF Known, LocalInv, OneWay, Typed, HeldNums
  <2> QED
    BY <2>1 DEF Holding, HeldBy, ErrIn
<1>45. Opens(z, z.type, y.wire, y.type)
  <2>1. Opens(x, x.type, y.wire, y.type)
    BY <1>1, Zenon DEF Known, OneWay
  <2> QED
    BY <2>1, <1>3 DEF Opens
<1>46. Opens(y, y.type, x.wire, "free")
  BY <1>6, OpensSelf, Zenon, <1>0
<1>47. Sent(x.istate, 0, x.usage, FALSE, 0, y.failed)
  BY <1>6 DEF Sent
<1>48. Balance(x.rd, 0, DataB(x.wire), y.output, y.wr, y.failed)
  <2>1. /\ Balance(x.rd, x.input, DataB(x.wire), y.output, y.wr, y.failed)
        /\ Sent(x.istate, x.input, x.usage, x.efd, x.extended, y.failed)
        /\ x.rd \in Nat /\ x.input \in Nat /\ DataB(x.wire) \in Nat
        /\ y.output \in Nat /\ y.wr \in Nat
    BY <1>1, Zenon DEF Known, LocalInv, OneWay, Typed, StdNums
  <2> QED
    BY <2>1 DEF Balance, Sent
<1>49. Balance(y.rd, y.input, DataB(y.wire), 0, x.wr, x.failed)
  <2>1. /\ Balance(y.rd, y.input, DataB(y.wire), x.output, x.wr, x.failed)
        /\ Halves(x.flags, x.istate, x.ostate, x.output)
        /\ y.rd \in Nat /\ y.input \in Nat /\ DataB(y.wire) \in Nat
        /\ x.output \in Nat /\ x.wr \in Nat
    BY <1>1, Zenon DEF Known, LocalInv, OneWay, Typed, StdNums
  <2> QED
    BY <2>1 DEF Balance, Halves
<1>50. ErrBalance(x.erd, ErrOut(x.usage, 0), ErrB(x.wire),
                  ErrIn(y.usage, y.extended), y.ewr, y.failed)
  <2>1. /\ ErrBalance(x.erd, ErrOut(x.usage, x.extended), ErrB(x.wire),
                      ErrIn(y.usage, y.extended), y.ewr, y.failed)
        /\ Sent(x.istate, x.input, x.usage, x.efd, x.extended, y.failed)
        /\ x.erd \in Nat /\ x.extended \in Nat
        /\ ErrB(x.wire) \in Nat /\ y.extended \in Nat
        /\ y.ewr \in Nat
    BY <1>1, Zenon DEF Known, LocalInv, OneWay, Typed, ErrNums
  <2> QED
    BY <2>1 DEF ErrBalance, ErrOut, ErrIn, Sent
<1>51. ErrBalance(y.erd, ErrOut(y.usage, y.extended), ErrB(y.wire),
                  ErrIn(x.usage, 0), x.ewr, x.failed)
  <2>1. /\ ErrBalance(y.erd, ErrOut(y.usage, y.extended), ErrB(y.wire),
                      ErrIn(x.usage, x.extended), x.ewr, x.failed)
        /\ Stderr(x.usage, x.efd, x.extended, x.ostate, x.failed, x.type)
        /\ y.erd \in Nat /\ y.extended \in Nat
        /\ ErrB(y.wire) \in Nat /\ x.extended \in Nat
        /\ x.ewr \in Nat
    BY <1>1, Zenon DEF Known, LocalInv, OneWay, Typed, ErrNums
  <2> QED
    BY <2>1 DEF ErrBalance, ErrOut, ErrIn, Stderr
<1>52. Windows(x.remote_window, BothB(x.wire), GrantB(y.wire), y.local_window,
               "free", y.type, y.failed)
  <2>1. /\ Windows(x.remote_window, BothB(x.wire), GrantB(y.wire), y.local_window,
                   x.type, y.type, y.failed)
        /\ x.remote_window \in Nat /\ BothB(x.wire) \in Nat
        /\ GrantB(y.wire) \in Nat /\ y.local_window \in Nat
    BY <1>1, Zenon DEF Known, LocalInv, OneWay, Typed, UsedNums
  <2> QED
    BY <2>1 DEF Windows
<1>53. Windows(y.remote_window, BothB(y.wire), GrantB(x.wire), x.local_window,
               y.type, "free", x.failed)
  <2>1. /\ Windows(y.remote_window, BothB(y.wire), GrantB(x.wire), x.local_window,
                   y.type, x.type, x.failed)
        /\ y.remote_window \in Nat /\ BothB(y.wire) \in Nat
        /\ GrantB(x.wire) \in Nat /\ x.local_window \in Nat
    BY <1>1, Zenon DEF Known, LocalInv, OneWay, Typed, UsedNums
  <2> QED
    BY <2>1 DEF Windows
<1>54. Quiet(x, z)
  BY <1>2, <1>3, QuietSame
<1>90. LocalInv(z) /\ OneWay(z, y) /\ OneWay(y, z)
  BY <1>1, <1>3,
     <1>40, <1>41, <1>42, <1>43, <1>44, <1>45, <1>46, <1>47, <1>48,
     <1>49, <1>50, <1>51, <1>52, <1>53, ZenonT(30)
     DEF Known, LocalInv, OneWay, HeldBy
<1> QED
  BY <1>2, <1>3, <1>5, <1>90, <1>54, <1>1 DEF Known, Keeps, Established, z

\* The program of the session ends.
LEMMA Exits ==
    ASSUME Counted, NEW x, NEW y,
           Established(x, y),
           x.type = "open",
           x.pid = "running",
           NEW end \in {"exited", "killed"}
    PROVE  Keeps(x, Exited(x, end), y)
<1> DEFINE z == Exited(x, end)
<1>1. Known(x, y)
  BY KnownOf, Zenon
<1>2. x \in Channel /\ y \in Channel /\ x.wire \in Seq(Messages)
      /\ Len(x.wire) \in Nat
  BY <1>1 DEF Known, Typed
<1>3. /\ z.type = x.type /\ z.ctype = x.ctype /\ z.istate = x.istate
      /\ z.ostate = x.ostate /\ z.flags = x.flags /\ z.input = x.input
      /\ z.output = x.output /\ z.extended = x.extended /\ z.efd = x.efd
      /\ z.usage = x.usage /\ z.local_window = x.local_window
      /\ z.local_window_max = x.local_window_max
      /\ z.local_consumed = x.local_consumed
      /\ z.remote_window = x.remote_window /\ z.detach = x.detach
      /\ z.pid = end /\ z.sel = x.sel /\ z.wire = x.wire
      /\ z.rd = x.rd /\ z.wr = x.wr /\ z.erd = x.erd /\ z.ewr = x.ewr
      /\ z.failed = x.failed /\ z.status = x.status /\ z.fatal = x.fatal
  BY <1>2 DEF Channel, Exited
<1>5. z \in Channel
  BY <1>2, Zenon DEF Channel, Flags, HalfStates, Exited
<1> HIDE DEF z
<1>6. /\ Program(x.pid, x.type, x.detach, x.flags, x.usage)
      /\ Status(x.pid, x.wire, y.status)
      /\ Opens(x, x.type, y.wire, y.type)
  BY <1>1, Zenon DEF Known, LocalInv, OneWay
<1>40. Program(end, x.type, x.detach, x.flags, x.usage)
  BY <1>6 DEF Program
<1>41. Status(end, x.wire, y.status)
  BY <1>6 DEF Status
<1>42. Opens(z, x.type, y.wire, y.type)
  BY <1>6, OpensSelf, Zenon
<1>43. Quiet(x, z)
  BY <1>2, <1>3, QuietSame
<1>90. LocalInv(z) /\ OneWay(z, y) /\ OneWay(y, z)
  BY <1>1, <1>3,
     <1>40, <1>41, <1>42, ZenonT(30)
     DEF Known, LocalInv, OneWay, HeldBy
<1> QED
  BY <1>2, <1>3, <1>5, <1>90, <1>43, <1>1 DEF Known, Keeps, Established, z

\* session_exit_message: the exit status, or the signal, is sent.
LEMMA Reaps ==
    ASSUME Counted, NEW x, NEW y,
           Established(x, y),
           x.type = "open",
           x.pid \in {"exited", "killed"}
    PROVE  Keeps(x, Reap(x), y)
<1> DEFINE z == Reap(x)
           t == Exiting(x)
           q == Reaped(x)
<1>0. /\ t \in {"exit-status", "exit-signal"} /\ q \in {"reaped", "reaped_killed"}
      /\ t = "exit-status" <=> q = "reaped"
  BY DEF Exiting, Reaped
<1> HIDE DEF t, q
<1>1. Known(x, y)
  BY KnownOf, Zenon
<1>2. x \in Channel /\ y \in Channel /\ x.wire \in Seq(Messages)
      /\ Len(x.wire) \in Nat
  BY <1>1 DEF Known, Typed
<1>3. /\ z.type = x.type /\ z.ctype = x.ctype /\ z.istate = x.istate
      /\ z.ostate = x.ostate /\ z.flags = x.flags /\ z.input = x.input
      /\ z.output = x.output /\ z.extended = x.extended /\ z.efd = x.efd
      /\ z.usage = x.usage /\ z.local_window = x.local_window
      /\ z.local_window_max = x.local_window_max
      /\ z.local_consumed = x.local_consumed
      /\ z.remote_window = x.remote_window /\ z.detach = "close"
      /\ z.pid = q /\ z.sel = x.sel /\ z.rd = x.rd /\ z.wr = x.wr
      /\ z.erd = x.erd /\ z.ewr = x.ewr /\ z.failed = x.failed
      /\ z.status = x.status /\ z.fatal = x.fatal
  BY <1>2 DEF Channel, Reap, Send, q
<1>5. z \in Channel /\ z.wire = Append(x.wire, Msg(t, 0))
  <2>1. x \in Channel
    BY <1>2, Zenon DEF Channel, Flags, HalfStates
  <2> DEFINE s == Send(x, Msg(t, 0))
  <2>2. s \in Channel
    BY <1>0, <2>1, SendTyped
  <2>3. z = [s EXCEPT !.detach = "close", !.pid = q]
    BY DEF Reap, t, q
  <2> HIDE DEF s
  <2>4. [s EXCEPT !.detach = "close", !.pid = q] \in Channel
    BY <1>0, <2>2, ZenonT(40) DEF Channel, HalfStates
  <2>5. z \in Channel
    BY <2>3, <2>4
  <2> USE DEF s
  <2> QED
    BY <1>2, <2>5, Zenon DEF Channel, Reap, Send, t
<1> HIDE DEF z
<1>7. Appended(x.wire, z.wire, t, 0)
  BY <1>0, <1>2, <1>5, Appending
<1>8. /\ DataB(z.wire) = DataB(x.wire)
      /\ ErrB(z.wire) = ErrB(x.wire)
      /\ BothB(z.wire) = BothB(x.wire)
      /\ GrantB(z.wire) = GrantB(x.wire)
  BY <1>0, <1>1, <1>7 DEF Appended, Known, Typed, StdNums, ErrNums, UsedNums
<1>9. "close_sent" \notin x.flags
  BY <1>1 DEF Known, LocalInv, Halves, Program
<1>6. /\ Program(x.pid, x.type, x.detach, x.flags, x.usage)
      /\ Opens(x, x.type, y.wire, y.type)
  BY <1>1, Zenon DEF Known, LocalInv, OneWay
<1>40. Outgoing(x, y, y, z.wire, x.flags, x.failed, q)
  <2>1. MaySend(x, y, y, t, x.flags, x.failed, q)
    BY <1>0, <1>9 DEF MaySend, Setup, Payload
  <2> QED
    BY <1>1, <1>7, <2>1, Sending
<1>41. Program(q, x.type, "close", x.flags, x.usage)
  BY <1>0, <1>6 DEF Program
<1>42. Opens(z, x.type, y.wire, y.type)
  BY <1>6, OpensSelf, Zenon
<1>43. Quiet(x, z)
  BY <1>0, <1>2, <1>3, <1>7, <1>9, QuietAppend, Zenon DEF Payload
<1>90. LocalInv(z) /\ OneWay(z, y) /\ OneWay(y, z)
  BY <1>1, <1>3, <1>8,
     <1>40, <1>41, <1>42, ZenonT(30)
     DEF Known, LocalInv, OneWay, HeldBy, Outgoing
<1> QED
  BY <1>2, <1>3, <1>5, <1>90, <1>43, <1>1 DEF Known, Keeps, Established, z

\* server_input_channel_req: the reply follows the window of the program.
LEMMA Replies ==
    ASSUME Counted, NEW x, NEW y,
           Established(x, y),
           x.type = "open",
           "close_sent" \notin x.flags
    PROVE  Keeps(x, Reply(x), y)
<1> DEFINE z == Reply(x)
<1>1. Known(x, y)
  BY KnownOf, Zenon
<1>2. x \in Channel /\ y \in Channel /\ x.wire \in Seq(Messages)
      /\ Len(x.wire) \in Nat
  BY <1>1 DEF Known, Typed
<1>3. /\ z.type = x.type /\ z.ctype = x.ctype /\ z.istate = x.istate
      /\ z.ostate = x.ostate /\ z.flags = x.flags /\ z.input = x.input
      /\ z.output = x.output /\ z.extended = x.extended /\ z.efd = x.efd
      /\ z.usage = x.usage /\ z.local_window = x.local_window
      /\ z.local_window_max = x.local_window_max
      /\ z.local_consumed = x.local_consumed
      /\ z.remote_window = x.remote_window /\ z.detach = x.detach
      /\ z.pid = x.pid /\ z.sel = x.sel /\ z.rd = x.rd /\ z.wr = x.wr
      /\ z.erd = x.erd /\ z.ewr = x.ewr /\ z.failed = x.failed
      /\ z.status = x.status /\ z.fatal = x.fatal
      /\ z.wire = Append(x.wire, Msg("channel-success", 0))
  BY <1>2 DEF Channel, Reply, Send
<1>5. z \in Channel
  BY <1>2, SendTyped DEF Reply
<1> HIDE DEF z
<1>7. Appended(x.wire, z.wire, "channel-success", 0)
  BY <1>2, <1>3, Appending
<1>8. /\ DataB(z.wire) = DataB(x.wire)
      /\ ErrB(z.wire) = ErrB(x.wire)
      /\ BothB(z.wire) = BothB(x.wire)
      /\ GrantB(z.wire) = GrantB(x.wire)
  BY <1>1, <1>7 DEF Appended, Known, Typed, StdNums, ErrNums, UsedNums
<1>6. Opens(x, x.type, y.wire, y.type)
  BY <1>1, Zenon DEF Known, LocalInv, OneWay
<1>40. Outgoing(x, y, y, z.wire, x.flags, x.failed, x.pid)
  <2>1. MaySend(x, y, y, "channel-success", x.flags, x.failed, x.pid)
    BY DEF MaySend, Setup, Payload
  <2> QED
    BY <1>1, <1>7, <2>1, Sending
<1>42. Opens(z, x.type, y.wire, y.type)
  BY <1>6, OpensSelf, Zenon
<1>43. Quiet(x, z)
  BY <1>2, <1>3, <1>7, QuietAppend, Zenon DEF Payload
<1>90. LocalInv(z) /\ OneWay(z, y) /\ OneWay(y, z)
  BY <1>1, <1>3, <1>8,
     <1>40, <1>42, ZenonT(30)
     DEF Known, LocalInv, OneWay, HeldBy, Outgoing
<1> QED
  BY <1>2, <1>3, <1>5, <1>90, <1>43, <1>1 DEF Known, Keeps, Established, z

\* channel_handle_rfd: data is read.
LEMMA Reads ==
    ASSUME Counted, NEW x, NEW y, NEW n \in Nat,
           Established(x, y),
           x.type = "open",
           x.istate = "open"
    PROVE  Keeps(x, Read(x, n), y)
<1> DEFINE z == Read(x, n)
<1>1. Known(x, y)
  BY KnownOf, Zenon
<1>2. x \in Channel /\ y \in Channel /\ x.wire \in Seq(Messages)
      /\ Len(x.wire) \in Nat
  BY <1>1 DEF Known, Typed
<1>3. /\ z.type = x.type /\ z.ctype = x.ctype /\ z.istate = x.istate
      /\ z.ostate = x.ostate /\ z.flags = x.flags
      /\ z.input = x.input + n /\ z.output = x.output
      /\ z.extended = x.extended /\ z.efd = x.efd /\ z.usage = x.usage
      /\ z.local_window = x.local_window
      /\ z.local_window_max = x.local_window_max
      /\ z.local_consumed = x.local_consumed
      /\ z.remote_window = x.remote_window /\ z.detach = x.detach
      /\ z.pid = x.pid /\ z.sel = x.sel /\ z.wire = x.wire
      /\ z.rd = x.rd + n /\ z.wr = x.wr /\ z.erd = x.erd /\ z.ewr = x.ewr
      /\ z.failed = x.failed /\ z.status = x.status /\ z.fatal = x.fatal
  BY <1>2 DEF Channel, Read
<1>4. x.input + n \in Nat /\ x.rd + n \in Nat
  <2>1. x.input \in Nat /\ x.rd \in Nat
    BY <1>2 DEF Channel
  <2> QED
    BY <2>1
<1>5. z \in Channel
  BY <1>2, <1>4, Zenon DEF Channel, Flags, HalfStates, Read
<1> HIDE DEF z
<1>6. /\ Opens(x, x.type, y.wire, y.type)
      /\ Sent(x.istate, x.input, x.usage, x.efd, x.extended, y.failed)
  BY <1>1, Zenon DEF Known, LocalInv, OneWay
<1>40. Opens(z, x.type, y.wire, y.type)
  BY <1>6, OpensSelf, Zenon
<1>41. Sent(x.istate, x.input + n, x.usage, x.efd, x.extended, y.failed)
  BY <1>6 DEF Sent
<1>42. Balance(x.rd + n, x.input + n, DataB(x.wire), y.output, y.wr, y.failed)
  <2>1. /\ Balance(x.rd, x.input, DataB(x.wire), y.output, y.wr, y.failed)
        /\ x.rd \in Nat /\ x.input \in Nat /\ DataB(x.wire) \in Nat
        /\ y.output \in Nat /\ y.wr \in Nat
    BY <1>1, Zenon DEF Known, LocalInv, OneWay, Typed, StdNums
  <2> QED
    BY <2>1 DEF Balance
<1>43. Quiet(x, z)
  BY <1>2, <1>3, QuietSame
<1>90. LocalInv(z) /\ OneWay(z, y) /\ OneWay(y, z)
  BY <1>1, <1>3,
     <1>40, <1>41, <1>42, ZenonT(30)
     DEF Known, LocalInv, OneWay, HeldBy
<1> QED
  BY <1>2, <1>3, <1>5, <1>90, <1>43, <1>1 DEF Known, Keeps, Established, z

\* chan_read_failed: there is nothing more to read.
LEMMA EndsRead ==
    ASSUME Counted, NEW x, NEW y,
           Established(x, y),
           x.type = "open",
           x.istate = "open"
    PROVE  Keeps(x, EndRead(x), y)
<1> DEFINE z == EndRead(x)
<1>1. Known(x, y)
  BY KnownOf, Zenon
<1>2. x \in Channel /\ y \in Channel /\ x.wire \in Seq(Messages)
      /\ Len(x.wire) \in Nat
  BY <1>1 DEF Known, Typed
<1>3. /\ z.type = x.type /\ z.ctype = x.ctype /\ z.istate = "drain"
      /\ z.ostate = x.ostate /\ z.flags = x.flags /\ z.input = x.input
      /\ z.output = x.output /\ z.extended = x.extended /\ z.efd = x.efd
      /\ z.usage = x.usage /\ z.local_window = x.local_window
      /\ z.local_window_max = x.local_window_max
      /\ z.local_consumed = x.local_consumed
      /\ z.remote_window = x.remote_window /\ z.detach = x.detach
      /\ z.pid = x.pid /\ z.sel = x.sel /\ z.wire = x.wire /\ z.rd = x.rd
      /\ z.wr = x.wr /\ z.erd = x.erd /\ z.ewr = x.ewr
      /\ z.failed = x.failed /\ z.status = x.status /\ z.fatal = x.fatal
  BY <1>2 DEF Channel, EndRead
<1>5. z \in Channel
  BY <1>2, Zenon DEF Channel, Flags, HalfStates, EndRead
<1> HIDE DEF z
<1>6. /\ Halves(x.flags, x.istate, x.ostate, x.output)
      /\ Opens(x, x.type, y.wire, y.type)
      /\ Sent(x.istate, x.input, x.usage, x.efd, x.extended, y.failed)
  BY <1>1, Zenon DEF Known, LocalInv, OneWay
<1>40. Halves(x.flags, "drain", x.ostate, x.output)
  BY <1>6 DEF Halves
<1>41. Opens(z, x.type, y.wire, y.type)
  BY <1>6, OpensSelf, Zenon
<1>42. Sent("drain", x.input, x.usage, x.efd, x.extended, y.failed)
  BY <1>6 DEF Sent
<1>43. Quiet(x, z)
  BY <1>2, <1>3, QuietSame
<1>90. LocalInv(z) /\ OneWay(z, y) /\ OneWay(y, z)
  BY <1>1, <1>3,
     <1>40, <1>41, <1>42, ZenonT(30)
     DEF Known, LocalInv, OneWay, HeldBy
<1> QED
  BY <1>2, <1>3, <1>5, <1>90, <1>43, <1>1 DEF Known, Keeps, Established, z

\* channel_handle_wfd: data is written.
LEMMA Writes ==
    ASSUME Counted, NEW x, NEW y, NEW n \in Nat,
           Established(x, y),
           x.type = "open",
           n <= x.output
    PROVE  Keeps(x, Write(x, n), y)
<1> DEFINE z == Write(x, n)
<1>1. Known(x, y)
  BY KnownOf, Zenon
<1>2. x \in Channel /\ y \in Channel /\ x.wire \in Seq(Messages)
      /\ Len(x.wire) \in Nat
  BY <1>1 DEF Known, Typed
<1>3. /\ z.type = x.type /\ z.ctype = x.ctype /\ z.istate = x.istate
      /\ z.ostate = x.ostate /\ z.flags = x.flags /\ z.input = x.input
      /\ z.output = x.output - n /\ z.extended = x.extended
      /\ z.efd = x.efd /\ z.usage = x.usage
      /\ z.local_window = x.local_window
      /\ z.local_window_max = x.local_window_max
      /\ z.local_consumed = x.local_consumed + n
      /\ z.remote_window = x.remote_window /\ z.detach = x.detach
      /\ z.pid = x.pid /\ z.sel = x.sel /\ z.wire = x.wire /\ z.rd = x.rd
      /\ z.wr = x.wr + n /\ z.erd = x.erd /\ z.ewr = x.ewr
      /\ z.failed = x.failed /\ z.status = x.status /\ z.fatal = x.fatal
  BY <1>2 DEF Channel, Write
<1>4. x.output - n \in Nat /\ x.wr + n \in Nat /\ x.local_consumed + n \in Nat
  <2>1. x.local_consumed \in Nat /\ x.output \in Nat /\ x.wr \in Nat
    BY <1>2 DEF Channel
  <2> QED
    BY <2>1
<1>5. z \in Channel
  BY <1>2, <1>4, Zenon DEF Channel, Flags, HalfStates, Write
<1> HIDE DEF z
<1>6. /\ Halves(x.flags, x.istate, x.ostate, x.output)
      /\ Opens(x, x.type, y.wire, y.type)
  BY <1>1, Zenon DEF Known, LocalInv, OneWay
<1>40. Halves(x.flags, x.istate, x.ostate, x.output - n)
  BY <1>6 DEF Halves
<1>41. Holding(x.local_window + (x.output - n) + (x.local_consumed + n)
               + ErrIn(x.usage, x.extended), x.local_window_max, x.type, x.failed)
  <2>1. /\ Holding(HeldBy(x), x.local_window_max, x.type, x.failed)
        /\ x.local_window \in Nat /\ x.output \in Nat
        /\ x.local_consumed \in Nat /\ x.extended \in Nat
        /\ x.local_window_max \in Nat
    BY <1>1, Zenon DEF Known, LocalInv, OneWay, Typed, HeldNums
  <2> QED
    BY <2>1 DEF Holding, HeldBy, ErrIn
<1>42. Opens(z, x.type, y.wire, y.type)
  BY <1>6, OpensSelf, Zenon
<1>43. Balance(y.rd, y.input, DataB(y.wire), x.output - n, x.wr + n, x.failed)
  <2>1. /\ Balance(y.rd, y.input, DataB(y.wire), x.output, x.wr, x.failed)
        /\ y.rd \in Nat /\ y.input \in Nat /\ DataB(y.wire) \in Nat
        /\ x.output \in Nat /\ x.wr \in Nat
    BY <1>1, Zenon DEF Known, LocalInv, OneWay, Typed, StdNums
  <2> QED
    BY <2>1 DEF Balance
<1>44. Quiet(x, z)
  BY <1>2, <1>3, QuietSame
<1>90. LocalInv(z) /\ OneWay(z, y) /\ OneWay(y, z)
  BY <1>1, <1>3,
     <1>40, <1>41, <1>42, <1>43, ZenonT(30)
     DEF Known, LocalInv, OneWay, HeldBy
<1> QED
  BY <1>2, <1>3, <1>5, <1>90, <1>44, <1>1 DEF Known, Keeps, Established, z

\* channel_handle_efd: stderr is written.
LEMMA WritesErr ==
    ASSUME Counted, NEW x, NEW y, NEW n \in Nat,
           Established(x, y),
           x.type = "open",
           x.usage = "write", n <= x.extended
    PROVE  Keeps(x, WriteErr(x, n), y)
<1> DEFINE z == WriteErr(x, n)
<1>1. Known(x, y)
  BY KnownOf, Zenon
<1>2. x \in Channel /\ y \in Channel /\ x.wire \in Seq(Messages)
      /\ Len(x.wire) \in Nat
  BY <1>1 DEF Known, Typed
<1>3. /\ z.type = x.type /\ z.ctype = x.ctype /\ z.istate = x.istate
      /\ z.ostate = x.ostate /\ z.flags = x.flags /\ z.input = x.input
      /\ z.output = x.output /\ z.extended = x.extended - n
      /\ z.efd = x.efd /\ z.usage = x.usage
      /\ z.local_window = x.local_window
      /\ z.local_window_max = x.local_window_max
      /\ z.local_consumed = x.local_consumed + n
      /\ z.remote_window = x.remote_window /\ z.detach = x.detach
      /\ z.pid = x.pid /\ z.sel = x.sel /\ z.wire = x.wire /\ z.rd = x.rd
      /\ z.wr = x.wr /\ z.erd = x.erd /\ z.ewr = x.ewr + n
      /\ z.failed = x.failed /\ z.status = x.status /\ z.fatal = x.fatal
  BY <1>2 DEF Channel, WriteErr
<1>4. x.extended - n \in Nat /\ x.ewr + n \in Nat /\ x.local_consumed + n \in Nat
  <2>1. x.ewr \in Nat /\ x.extended \in Nat /\ x.local_consumed \in Nat
    BY <1>2 DEF Channel
  <2> QED
    BY <2>1
<1>5. z \in Channel
  BY <1>2, <1>4, Zenon DEF Channel, Flags, HalfStates, WriteErr
<1> HIDE DEF z
<1>6. /\ Stderr(x.usage, x.efd, x.extended, x.ostate, x.failed, x.type)
      /\ Opens(x, x.type, y.wire, y.type)
      /\ Sent(x.istate, x.input, x.usage, x.efd, x.extended, y.failed)
  BY <1>1, Zenon DEF Known, LocalInv, OneWay
<1>40. Stderr(x.usage, x.efd, x.extended - n, x.ostate, x.failed, x.type)
  BY <1>6 DEF Stderr
<1>41. Holding(x.local_window + x.output + (x.local_consumed + n)
               + ErrIn(x.usage, x.extended - n), x.local_window_max, x.type,
               x.failed)
  <2>1. /\ Holding(HeldBy(x), x.local_window_max, x.type, x.failed)
        /\ x.local_window \in Nat /\ x.output \in Nat
        /\ x.local_consumed \in Nat /\ x.extended \in Nat
        /\ x.local_window_max \in Nat
    BY <1>1, Zenon DEF Known, LocalInv, OneWay, Typed, HeldNums
  <2> QED
    BY <2>1 DEF Holding, HeldBy, ErrIn
<1>42. Opens(z, x.type, y.wire, y.type)
  BY <1>6, OpensSelf, Zenon
<1>43. Sent(x.istate, x.input, x.usage, x.efd, x.extended - n, y.failed)
  BY <1>6 DEF Sent
<1>44. ErrBalance(x.erd, ErrOut(x.usage, x.extended - n), ErrB(x.wire),
                  ErrIn(y.usage, y.extended), y.ewr, y.failed)
  <2>1. /\ ErrBalance(x.erd, ErrOut(x.usage, x.extended), ErrB(x.wire),
                      ErrIn(y.usage, y.extended), y.ewr, y.failed)
        /\ x.erd \in Nat /\ x.extended \in Nat
        /\ ErrB(x.wire) \in Nat /\ y.extended \in Nat
        /\ y.ewr \in Nat
    BY <1>1, Zenon DEF Known, LocalInv, OneWay, Typed, ErrNums
  <2> QED
    BY <2>1 DEF ErrBalance, ErrOut, ErrIn
<1>45. ErrBalance(y.erd, ErrOut(y.usage, y.extended), ErrB(y.wire),
                  ErrIn(x.usage, x.extended - n), x.ewr + n, x.failed)
  <2>1. /\ ErrBalance(y.erd, ErrOut(y.usage, y.extended), ErrB(y.wire),
                      ErrIn(x.usage, x.extended), x.ewr, x.failed)
        /\ y.erd \in Nat /\ y.extended \in Nat
        /\ ErrB(y.wire) \in Nat /\ x.extended \in Nat
        /\ x.ewr \in Nat
    BY <1>1, Zenon DEF Known, LocalInv, OneWay, Typed, ErrNums
  <2> QED
    BY <2>1 DEF ErrBalance, ErrOut, ErrIn
<1>46. Quiet(x, z)
  BY <1>2, <1>3, QuietSame
<1>90. LocalInv(z) /\ OneWay(z, y) /\ OneWay(y, z)
  BY <1>1, <1>3,
     <1>40, <1>41, <1>42, <1>43, <1>44, <1>45, ZenonT(30)
     DEF Known, LocalInv, OneWay, HeldBy
<1> QED
  BY <1>2, <1>3, <1>5, <1>90, <1>46, <1>1 DEF Known, Keeps, Established, z

\* channel_handle_efd: stderr cannot be written.
LEMMA FailsErr ==
    ASSUME Counted, NEW x, NEW y,
           Established(x, y),
           x.type = "open",
           x.usage = "write"
    PROVE  Keeps(x, FailErr(x), y)
<1> DEFINE z == FailErr(x)
<1>1. Known(x, y)
  BY KnownOf, Zenon
<1>2. x \in Channel /\ y \in Channel /\ x.wire \in Seq(Messages)
      /\ Len(x.wire) \in Nat
  BY <1>1 DEF Known, Typed
<1>3. /\ z.type = x.type /\ z.ctype = x.ctype /\ z.istate = x.istate
      /\ z.ostate = x.ostate /\ z.flags = x.flags /\ z.input = x.input
      /\ z.output = x.output /\ z.extended = x.extended /\ z.efd = FALSE
      /\ z.usage = x.usage /\ z.local_window = x.local_window
      /\ z.local_window_max = x.local_window_max
      /\ z.local_consumed = x.local_consumed
      /\ z.remote_window = x.remote_window /\ z.detach = x.detach
      /\ z.pid = x.pid /\ z.sel = x.sel /\ z.wire = x.wire /\ z.rd = x.rd
      /\ z.wr = x.wr /\ z.erd = x.erd /\ z.ewr = x.ewr
      /\ z.failed = x.failed \cup {"efd"} /\ z.status = x.status
      /\ z.fatal = x.fatal
  BY <1>2 DEF Channel, FailErr
<1>5. z \in Channel
  BY <1>2, Zenon DEF Channel, Flags, HalfStates, FailErr
<1> HIDE DEF z
<1>6. /\ Outputs(x.flags, x.ostate, x.failed)
      /\ Stderr(x.usage, x.efd, x.extended, x.ostate, x.failed, x.type)
      /\ Carries(x.wire, x.failed, y.usage)
      /\ Opens(x, x.type, y.wire, y.type)
      /\ Sent(x.istate, x.input, x.usage, x.efd, x.extended, y.failed)
      /\ Sent(y.istate, y.input, y.usage, y.efd, y.extended, x.failed)
  BY <1>1, Zenon DEF Known, LocalInv, OneWay
<1>40. Outputs(x.flags, x.ostate, x.failed \cup {"efd"})
  BY <1>6 DEF Outputs, Received
<1>41. Stderr(x.usage, FALSE, x.extended, x.ostate, x.failed \cup {"efd"}, x.type)
  BY <1>6 DEF Stderr
<1>42. Holding(x.local_window + x.output + x.local_consumed
               + ErrIn(x.usage, x.extended), x.local_window_max, x.type,
               x.failed \cup {"efd"})
  <2>1. /\ Holding(HeldBy(x), x.local_window_max, x.type, x.failed)
        /\ x.local_window \in Nat /\ x.output \in Nat
        /\ x.local_consumed \in Nat /\ x.extended \in Nat
        /\ x.local_window_max \in Nat
    BY <1>1, Zenon DEF Known, LocalInv, OneWay, Typed, HeldNums
  <2> QED
    BY <2>1 DEF Holding, HeldBy, ErrIn
<1>43. Carries(x.wire, x.failed \cup {"efd"}, y.usage)
  BY <1>6 DEF Carries
<1>44. Opens(z, x.type, y.wire, y.type)
  BY <1>6, OpensSelf, Zenon
<1>45. Sent(x.istate, x.input, x.usage, FALSE, x.extended, y.failed)
  BY <1>6 DEF Sent
<1>46. Sent(y.istate, y.input, y.usage, y.efd, y.extended, x.failed \cup {"efd"})
  BY <1>6 DEF Sent
<1>47. Balance(y.rd, y.input, DataB(y.wire), x.output, x.wr,
               x.failed \cup {"efd"})
  <2>1. /\ Balance(y.rd, y.input, DataB(y.wire), x.output, x.wr, x.failed)
        /\ y.rd \in Nat /\ y.input \in Nat /\ DataB(y.wire) \in Nat
        /\ x.output \in Nat /\ x.wr \in Nat
    BY <1>1, Zenon DEF Known, LocalInv, OneWay, Typed, StdNums
  <2> QED
    BY <2>1 DEF Balance
<1>48. ErrBalance(y.erd, ErrOut(y.usage, y.extended), ErrB(y.wire),
                  ErrIn(x.usage, x.extended), x.ewr, x.failed \cup {"efd"})
  <2>1. /\ ErrBalance(y.erd, ErrOut(y.usage, y.extended), ErrB(y.wire),
                      ErrIn(x.usage, x.extended), x.ewr, x.failed)
        /\ y.erd \in Nat /\ y.extended \in Nat
        /\ ErrB(y.wire) \in Nat /\ x.extended \in Nat
        /\ x.ewr \in Nat
    BY <1>1, Zenon DEF Known, LocalInv, OneWay, Typed, ErrNums
  <2> QED
    BY <2>1 DEF ErrBalance, ErrOut, ErrIn
<1>49. Windows(y.remote_window, BothB(y.wire), GrantB(x.wire), x.local_window,
               y.type, x.type, x.failed \cup {"efd"})
  <2>1. /\ Windows(y.remote_window, BothB(y.wire), GrantB(x.wire), x.local_window,
                   y.type, x.type, x.failed)
        /\ y.remote_window \in Nat /\ BothB(y.wire) \in Nat
        /\ GrantB(x.wire) \in Nat /\ x.local_window \in Nat
    BY <1>1, Zenon DEF Known, LocalInv, OneWay, Typed, UsedNums
  <2> QED
    BY <2>1 DEF Windows
<1>50. Quiet(x, z)
  BY <1>2, <1>3, QuietSame
<1>90. LocalInv(z) /\ OneWay(z, y) /\ OneWay(y, z)
  BY <1>1, <1>3,
     <1>40, <1>41, <1>42, <1>43, <1>44, <1>45, <1>46, <1>47, <1>48,
     <1>49, ZenonT(30)
     DEF Known, LocalInv, OneWay, HeldBy
<1> QED
  BY <1>2, <1>3, <1>5, <1>90, <1>50, <1>1 DEF Known, Keeps, Established, z

\* channel_handle_efd: stderr is read.
LEMMA ReadsErr ==
    ASSUME Counted, NEW x, NEW y, NEW n \in Nat,
           Established(x, y),
           x.type = "open",
           x.usage = "read", x.efd = TRUE
    PROVE  Keeps(x, ReadErr(x, n), y)
<1> DEFINE z == ReadErr(x, n)
<1>1. Known(x, y)
  BY KnownOf, Zenon
<1>2. x \in Channel /\ y \in Channel /\ x.wire \in Seq(Messages)
      /\ Len(x.wire) \in Nat
  BY <1>1 DEF Known, Typed
<1>3. /\ z.type = x.type /\ z.ctype = x.ctype /\ z.istate = x.istate
      /\ z.ostate = x.ostate /\ z.flags = x.flags /\ z.input = x.input
      /\ z.output = x.output /\ z.extended = x.extended + n
      /\ z.efd = x.efd /\ z.usage = x.usage
      /\ z.local_window = x.local_window
      /\ z.local_window_max = x.local_window_max
      /\ z.local_consumed = x.local_consumed
      /\ z.remote_window = x.remote_window /\ z.detach = x.detach
      /\ z.pid = x.pid /\ z.sel = x.sel /\ z.wire = x.wire /\ z.rd = x.rd
      /\ z.wr = x.wr /\ z.erd = x.erd + n /\ z.ewr = x.ewr
      /\ z.failed = x.failed /\ z.status = x.status /\ z.fatal = x.fatal
  BY <1>2 DEF Channel, ReadErr
<1>4. x.extended + n \in Nat /\ x.erd + n \in Nat
  <2>1. x.erd \in Nat /\ x.extended \in Nat
    BY <1>2 DEF Channel
  <2> QED
    BY <2>1
<1>5. z \in Channel
  BY <1>2, <1>4, Zenon DEF Channel, Flags, HalfStates, ReadErr
<1> HIDE DEF z
<1>6. /\ Stderr(x.usage, x.efd, x.extended, x.ostate, x.failed, x.type)
      /\ Opens(x, x.type, y.wire, y.type)
      /\ Sent(x.istate, x.input, x.usage, x.efd, x.extended, y.failed)
  BY <1>1, Zenon DEF Known, LocalInv, OneWay
<1>40. Stderr(x.usage, x.efd, x.extended + n, x.ostate, x.failed, x.type)
  BY <1>6 DEF Stderr
<1>41. Holding(x.local_window + x.output + x.local_consumed
               + ErrIn(x.usage, x.extended + n), x.local_window_max, x.type,
               x.failed)
  <2>1. /\ Holding(HeldBy(x), x.local_window_max, x.type, x.failed)
        /\ x.local_window \in Nat /\ x.output \in Nat
        /\ x.local_consumed \in Nat /\ x.extended \in Nat
        /\ x.local_window_max \in Nat
    BY <1>1, Zenon DEF Known, LocalInv, OneWay, Typed, HeldNums
  <2> QED
    BY <2>1 DEF Holding, HeldBy, ErrIn
<1>42. Opens(z, x.type, y.wire, y.type)
  BY <1>6, OpensSelf, Zenon
<1>43. Sent(x.istate, x.input, x.usage, x.efd, x.extended + n, y.failed)
  BY <1>6 DEF Sent
<1>44. ErrBalance(x.erd + n, ErrOut(x.usage, x.extended + n), ErrB(x.wire),
                  ErrIn(y.usage, y.extended), y.ewr, y.failed)
  <2>1. /\ ErrBalance(x.erd, ErrOut(x.usage, x.extended), ErrB(x.wire),
                      ErrIn(y.usage, y.extended), y.ewr, y.failed)
        /\ x.erd \in Nat /\ x.extended \in Nat
        /\ ErrB(x.wire) \in Nat /\ y.extended \in Nat
        /\ y.ewr \in Nat
    BY <1>1, Zenon DEF Known, LocalInv, OneWay, Typed, ErrNums
  <2> QED
    BY <2>1 DEF ErrBalance, ErrOut, ErrIn
<1>45. ErrBalance(y.erd, ErrOut(y.usage, y.extended), ErrB(y.wire),
                  ErrIn(x.usage, x.extended + n), x.ewr, x.failed)
  <2>1. /\ ErrBalance(y.erd, ErrOut(y.usage, y.extended), ErrB(y.wire),
                      ErrIn(x.usage, x.extended), x.ewr, x.failed)
        /\ y.erd \in Nat /\ y.extended \in Nat
        /\ ErrB(y.wire) \in Nat /\ x.extended \in Nat
        /\ x.ewr \in Nat
    BY <1>1, Zenon DEF Known, LocalInv, OneWay, Typed, ErrNums
  <2> QED
    BY <2>1 DEF ErrBalance, ErrOut, ErrIn
<1>46. Quiet(x, z)
  BY <1>2, <1>3, QuietSame
<1>90. LocalInv(z) /\ OneWay(z, y) /\ OneWay(y, z)
  BY <1>1, <1>3,
     <1>40, <1>41, <1>42, <1>43, <1>44, <1>45, ZenonT(30)
     DEF Known, LocalInv, OneWay, HeldBy
<1> QED
  BY <1>2, <1>3, <1>5, <1>90, <1>46, <1>1 DEF Known, Keeps, Established, z

\* channel_handle_efd: there is no more stderr to read.
LEMMA EndsErr ==
    ASSUME Counted, NEW x, NEW y,
           Established(x, y),
           x.type = "open",
           x.usage = "read"
    PROVE  Keeps(x, EndErr(x), y)
<1> DEFINE z == EndErr(x)
<1>1. Known(x, y)
  BY KnownOf, Zenon
<1>2. x \in Channel /\ y \in Channel /\ x.wire \in Seq(Messages)
      /\ Len(x.wire) \in Nat
  BY <1>1 DEF Known, Typed
<1>3. /\ z.type = x.type /\ z.ctype = x.ctype /\ z.istate = x.istate
      /\ z.ostate = x.ostate /\ z.flags = x.flags /\ z.input = x.input
      /\ z.output = x.output /\ z.extended = x.extended /\ z.efd = FALSE
      /\ z.usage = x.usage /\ z.local_window = x.local_window
      /\ z.local_window_max = x.local_window_max
      /\ z.local_consumed = x.local_consumed
      /\ z.remote_window = x.remote_window /\ z.detach = x.detach
      /\ z.pid = x.pid /\ z.sel = x.sel /\ z.wire = x.wire /\ z.rd = x.rd
      /\ z.wr = x.wr /\ z.erd = x.erd /\ z.ewr = x.ewr
      /\ z.failed = x.failed /\ z.status = x.status /\ z.fatal = x.fatal
  BY <1>2 DEF Channel, EndErr
<1>5. z \in Channel
  BY <1>2, Zenon DEF Channel, Flags, HalfStates, EndErr
<1> HIDE DEF z
<1>6. /\ Stderr(x.usage, x.efd, x.extended, x.ostate, x.failed, x.type)
      /\ Opens(x, x.type, y.wire, y.type)
      /\ Sent(x.istate, x.input, x.usage, x.efd, x.extended, y.failed)
  BY <1>1, Zenon DEF Known, LocalInv, OneWay
<1>40. Stderr(x.usage, FALSE, x.extended, x.ostate, x.failed, x.type)
  BY <1>6 DEF Stderr
<1>41. Opens(z, x.type, y.wire, y.type)
  BY <1>6, OpensSelf, Zenon
<1>42. Sent(x.istate, x.input, x.usage, FALSE, x.extended, y.failed)
  BY <1>6 DEF Sent
<1>43. Quiet(x, z)
  BY <1>2, <1>3, QuietSame
<1>90. LocalInv(z) /\ OneWay(z, y) /\ OneWay(y, z)
  BY <1>1, <1>3,
     <1>40, <1>41, <1>42, ZenonT(30)
     DEF Known, LocalInv, OneWay, HeldBy
<1> QED
  BY <1>2, <1>3, <1>5, <1>90, <1>43, <1>1 DEF Known, Keeps, Established, z

\* channel_check_window: what was consumed is granted again.
LEMMA Adjusts ==
    ASSUME Counted, NEW x, NEW y,
           Established(x, y),
           x.type = "open",
           "close_sent" \notin x.flags
    PROVE  Keeps(x, Adjust(x), y)
<1> DEFINE z == Adjust(x)
<1>1. Known(x, y)
  BY KnownOf, Zenon
<1>2. x \in Channel /\ y \in Channel /\ x.wire \in Seq(Messages)
      /\ Len(x.wire) \in Nat
  BY <1>1 DEF Known, Typed
<1>3. /\ z.type = x.type /\ z.ctype = x.ctype /\ z.istate = x.istate
      /\ z.ostate = x.ostate /\ z.flags = x.flags /\ z.input = x.input
      /\ z.output = x.output /\ z.extended = x.extended /\ z.efd = x.efd
      /\ z.usage = x.usage
      /\ z.local_window = x.local_window + x.local_consumed
      /\ z.local_window_max = x.local_window_max /\ z.local_consumed = 0
      /\ z.remote_window = x.remote_window /\ z.detach = x.detach
      /\ z.pid = x.pid /\ z.sel = x.sel /\ z.rd = x.rd /\ z.wr = x.wr
      /\ z.erd = x.erd /\ z.ewr = x.ewr /\ z.failed = x.failed
      /\ z.status = x.status /\ z.fatal = x.fatal
  BY <1>2 DEF Channel, Adjust, Send
<1>4. x.local_window + x.local_consumed \in Nat /\ x.local_consumed \in Nat
  <2>1. x.local_consumed \in Nat /\ x.local_window \in Nat
    BY <1>2 DEF Channel
  <2> QED
    BY <2>1
<1>5. z \in Channel /\ z.wire = Append(x.wire, Msg("adjust", x.local_consumed))
  <2>1. [x EXCEPT !.local_window = @ + x.local_consumed,
         !.local_consumed = 0] \in Channel
    BY <1>2, <1>4, Zenon DEF Channel, Flags, HalfStates
  <2>2. z \in Channel
    BY <2>1, <1>4, SendTyped, Zenon DEF Adjust
  <2> QED
    BY <1>2, <2>2, Zenon DEF Channel, Adjust, Send
<1> HIDE DEF z
<1>7. Appended(x.wire, z.wire, "adjust", x.local_consumed)
  BY <1>2, <1>5, <1>4, Appending
<1>8. /\ DataB(z.wire) = DataB(x.wire)
      /\ ErrB(z.wire) = ErrB(x.wire)
      /\ BothB(z.wire) = BothB(x.wire)
      /\ GrantB(z.wire) = GrantB(x.wire) + x.local_consumed
  BY <1>1, <1>7 DEF Appended, Known, Typed, StdNums, ErrNums, UsedNums
<1>9. "close_sent" \notin x.flags
  BY <1>1 DEF Known, LocalInv, Halves, Program
<1>6. /\ Opens(x, x.type, y.wire, y.type)
  BY <1>1, Zenon DEF Known, LocalInv, OneWay
<1>40. Outgoing(x, y, y, z.wire, x.flags, x.failed, x.pid)
  <2>1. MaySend(x, y, y, "adjust", x.flags, x.failed, x.pid)
    BY <1>9 DEF MaySend, Setup, Payload
  <2> QED
    BY <1>1, <1>7, <2>1, Sending
<1>41. Holding((x.local_window + x.local_consumed) + x.output + 0
               + ErrIn(x.usage, x.extended), x.local_window_max, x.type, x.failed)
  <2>1. /\ Holding(HeldBy(x), x.local_window_max, x.type, x.failed)
        /\ x.local_window \in Nat /\ x.output \in Nat
        /\ x.local_consumed \in Nat /\ x.extended \in Nat
        /\ x.local_window_max \in Nat
    BY <1>1, Zenon DEF Known, LocalInv, OneWay, Typed, HeldNums
  <2> QED
    BY <2>1 DEF Holding, HeldBy, ErrIn
<1>42. Opens(z, x.type, y.wire, y.type)
  BY <1>6, OpensSelf, Zenon
<1>43. Windows(y.remote_window, BothB(y.wire), GrantB(x.wire) + x.local_consumed,
               x.local_window + x.local_consumed, y.type, x.type, x.failed)
  <2>1. /\ Windows(y.remote_window, BothB(y.wire), GrantB(x.wire), x.local_window,
                   y.type, x.type, x.failed)
        /\ y.remote_window \in Nat /\ BothB(y.wire) \in Nat
        /\ GrantB(x.wire) \in Nat /\ x.local_window \in Nat
    BY <1>1, Zenon DEF Known, LocalInv, OneWay, Typed, UsedNums
  <2> QED
    BY <2>1, <1>4 DEF Windows
<1>44. Quiet(x, z)
  BY <1>2, <1>3, <1>7, <1>9, QuietAppend, Zenon DEF Payload
<1>90. LocalInv(z) /\ OneWay(z, y) /\ OneWay(y, z)
  BY <1>1, <1>3, <1>8,
     <1>40, <1>41, <1>42, <1>43, ZenonT(30)
     DEF Known, LocalInv, OneWay, HeldBy, Outgoing
<1> QED
  BY <1>2, <1>3, <1>5, <1>90, <1>44, <1>1 DEF Known, Keeps, Established, z

\* channel_input_data: data is put into the output.
LEMMA TakesData ==
    ASSUME Counted, NEW x, NEW y,
           Established(x, y),
           y.wire # <<>>,
           Head(y.wire).t = "data",
           x.type = "open",
           x.ostate = "open"
    PROVE  Keeps(x, TakeData(x, Head(y.wire).n), Took(y))
<1> DEFINE n == Head(y.wire).n
           u == Took(y)
           z == TakeData(x, n)
<1>1. Known(x, y)
  BY KnownOf, Zenon
<1>2. x \in Channel /\ y \in Channel /\ x.wire \in Seq(Messages)
      /\ Len(x.wire) \in Nat
  BY <1>1 DEF Known, Typed
<1>20. TakenFrom(y, u, "data", n)
  BY <1>1, TakesFrom, Zenon
<1> HIDE DEF n, u
<1>21. /\ n \in Nat /\ y.type # "opening" /\ Typed(u)
       /\ Tailed(y.wire, u.wire, "data", n)
  BY <1>20, Zenon DEF TakenFrom
<1>26. /\ DataB(y.wire) = DataB(u.wire) + n
       /\ ErrB(y.wire) = ErrB(u.wire)
       /\ BothB(y.wire) = BothB(u.wire) + n
       /\ GrantB(y.wire) = GrantB(u.wire)
  BY <1>1, <1>21, ChannelConstants
     DEF Tailed, Known, Typed, StdNums, ErrNums, UsedNums
<1>0. /\ n <= x.local_window
      /\ x.ostate # "open" => "write" \in x.failed
      /\ "eof_rcvd" \notin x.flags
  BY <1>1, <1>21, Fits, Zenon
<1>3. /\ z.type = x.type /\ z.ctype = x.ctype /\ z.istate = x.istate
      /\ z.ostate = x.ostate /\ z.flags = x.flags /\ z.input = x.input
      /\ z.output = x.output + n /\ z.extended = x.extended
      /\ z.efd = x.efd /\ z.usage = x.usage
      /\ z.local_window = x.local_window - n
      /\ z.local_window_max = x.local_window_max
      /\ z.local_consumed = x.local_consumed
      /\ z.remote_window = x.remote_window /\ z.detach = x.detach
      /\ z.pid = x.pid /\ z.sel = x.sel /\ z.wire = x.wire /\ z.rd = x.rd
      /\ z.wr = x.wr /\ z.erd = x.erd /\ z.ewr = x.ewr
      /\ z.failed = x.failed /\ z.status = x.status /\ z.fatal = x.fatal
  BY <1>2 DEF Channel, TakeData
<1>4. x.local_window - n \in Nat /\ x.output + n \in Nat
  <2>1. x.local_window \in Nat /\ x.output \in Nat
    BY <1>2 DEF Channel
  <2> QED
    BY <2>1, <1>21, <1>0
<1>5. z \in Channel
  BY <1>2, <1>4, <1>21, Zenon DEF Channel, Flags, HalfStates, TakeData
<1> HIDE DEF z
<1>6. /\ Halves(x.flags, x.istate, x.ostate, x.output)
      /\ Opens(y, y.type, x.wire, x.type)
  BY <1>1, Zenon DEF Known, LocalInv, OneWay
<1>40. Incoming(y, z, u.wire, x.flags, x.usage, x.status)
  <2>1. MayTake(x, y, "data", x.flags, x.status)
    BY DEF MayTake
  <2> QED
    BY <1>1, <1>21, <2>1, Processing, Zenon
<1>41. Halves(x.flags, x.istate, x.ostate, x.output + n)
  BY <1>6 DEF Halves
<1>42. Holding((x.local_window - n) + (x.output + n) + x.local_consumed
               + ErrIn(x.usage, x.extended), x.local_window_max, x.type, x.failed)
  <2>1. /\ Holding(HeldBy(x), x.local_window_max, x.type, x.failed)
        /\ x.local_window \in Nat /\ x.output \in Nat
        /\ x.local_consumed \in Nat /\ x.extended \in Nat
        /\ x.local_window_max \in Nat
    BY <1>1, <1>21, <1>26, Zenon DEF Known, LocalInv, OneWay, Typed, HeldNums
  <2> QED
    BY <2>1, <1>21, <1>0 DEF Holding, HeldBy, ErrIn
<1>43. Opens(u, y.type, x.wire, x.type)
  BY <1>6, <1>21, OpensSelf, Zenon
<1>44. Balance(y.rd, y.input, DataB(u.wire), x.output + n, x.wr, x.failed)
  <2>1. /\ Balance(y.rd, y.input, DataB(u.wire) + n, x.output, x.wr, x.failed)
        /\ y.rd \in Nat /\ y.input \in Nat /\ DataB(u.wire) \in Nat
        /\ x.output \in Nat /\ x.wr \in Nat
    BY <1>1, <1>21, <1>26, Zenon DEF Known, LocalInv, OneWay, Typed, StdNums
  <2> QED
    BY <2>1, <1>21 DEF Balance
<1>45. Windows(y.remote_window, BothB(u.wire), GrantB(x.wire), x.local_window - n,
               y.type, x.type, x.failed)
  <2>1. /\ Windows(y.remote_window, BothB(u.wire) + n, GrantB(x.wire),
                   x.local_window, y.type, x.type, x.failed)
        /\ y.remote_window \in Nat /\ BothB(u.wire) \in Nat
        /\ GrantB(x.wire) \in Nat /\ x.local_window \in Nat
    BY <1>1, <1>21, <1>26, Zenon DEF Known, LocalInv, OneWay, Typed, UsedNums
  <2> QED
    BY <2>1, <1>21, SMTT(30) DEF Windows
<1>46. Quiet(x, z)
  BY <1>2, <1>3, QuietSame
<1>90. LocalInv(z) /\ OneWay(z, u) /\ OneWay(u, z)
  BY <1>1, <1>3, <1>20, <1>26,
     <1>40, <1>41, <1>42, <1>43, <1>44, <1>45, ZenonT(30)
     DEF Known, LocalInv, OneWay, HeldBy, Incoming, TakenFrom
<1> QED
  BY <1>2, <1>3, <1>5, <1>20, <1>90, <1>46, Zenon DEF Known, Keeps, Established,
     z, u, n,
     TakenFrom

\* channel_input_data: data for a failed output is dropped.
LEMMA DropsData ==
    ASSUME Counted, NEW x, NEW y,
           Established(x, y),
           y.wire # <<>>,
           Head(y.wire).t = "data",
           x.type = "open",
           x.ostate # "open"
    PROVE  Keeps(x, DropData(x, Head(y.wire).n), Took(y))
<1> DEFINE n == Head(y.wire).n
           u == Took(y)
           z == DropData(x, n)
<1>1. Known(x, y)
  BY KnownOf, Zenon
<1>2. x \in Channel /\ y \in Channel /\ x.wire \in Seq(Messages)
      /\ Len(x.wire) \in Nat
  BY <1>1 DEF Known, Typed
<1>20. TakenFrom(y, u, "data", n)
  BY <1>1, TakesFrom, Zenon
<1> HIDE DEF n, u
<1>21. /\ n \in Nat /\ y.type # "opening" /\ Typed(u)
       /\ Tailed(y.wire, u.wire, "data", n)
  BY <1>20, Zenon DEF TakenFrom
<1>26. /\ DataB(y.wire) = DataB(u.wire) + n
       /\ ErrB(y.wire) = ErrB(u.wire)
       /\ BothB(y.wire) = BothB(u.wire) + n
       /\ GrantB(y.wire) = GrantB(u.wire)
  BY <1>1, <1>21, ChannelConstants
     DEF Tailed, Known, Typed, StdNums, ErrNums, UsedNums
<1>0. /\ n <= x.local_window
      /\ x.ostate # "open" => "write" \in x.failed
      /\ "eof_rcvd" \notin x.flags
  BY <1>1, <1>21, Fits, Zenon
<1>3. /\ z.type = x.type /\ z.ctype = x.ctype /\ z.istate = x.istate
      /\ z.ostate = x.ostate /\ z.flags = x.flags /\ z.input = x.input
      /\ z.output = x.output /\ z.extended = x.extended /\ z.efd = x.efd
      /\ z.usage = x.usage /\ z.local_window = x.local_window - n
      /\ z.local_window_max = x.local_window_max
      /\ z.local_consumed = x.local_consumed + n
      /\ z.remote_window = x.remote_window /\ z.detach = x.detach
      /\ z.pid = x.pid /\ z.sel = x.sel /\ z.wire = x.wire /\ z.rd = x.rd
      /\ z.wr = x.wr /\ z.erd = x.erd /\ z.ewr = x.ewr
      /\ z.failed = x.failed /\ z.status = x.status /\ z.fatal = x.fatal
  BY <1>2 DEF Channel, DropData
<1>4. x.local_window - n \in Nat /\ x.local_consumed + n \in Nat
  <2>1. x.local_consumed \in Nat /\ x.local_window \in Nat
    BY <1>2 DEF Channel
  <2> QED
    BY <2>1, <1>21, <1>0
<1>5. z \in Channel
  BY <1>2, <1>4, <1>21, Zenon DEF Channel, Flags, HalfStates, DropData
<1> HIDE DEF z
<1>6. /\ Opens(y, y.type, x.wire, x.type)
  BY <1>1, Zenon DEF Known, LocalInv, OneWay
<1>40. Incoming(y, z, u.wire, x.flags, x.usage, x.status)
  <2>1. MayTake(x, y, "data", x.flags, x.status)
    BY DEF MayTake
  <2> QED
    BY <1>1, <1>21, <2>1, Processing, Zenon
<1>41. Holding((x.local_window - n) + x.output + (x.local_consumed + n)
               + ErrIn(x.usage, x.extended), x.local_window_max, x.type, x.failed)
  <2>1. /\ Holding(HeldBy(x), x.local_window_max, x.type, x.failed)
        /\ x.local_window \in Nat /\ x.output \in Nat
        /\ x.local_consumed \in Nat /\ x.extended \in Nat
        /\ x.local_window_max \in Nat
    BY <1>1, <1>21, <1>26, Zenon DEF Known, LocalInv, OneWay, Typed, HeldNums
  <2> QED
    BY <2>1, <1>21, SMTT(30) DEF Holding, HeldBy, ErrIn
<1>42. Opens(u, y.type, x.wire, x.type)
  BY <1>6, <1>21, OpensSelf, Zenon
<1>43. Balance(y.rd, y.input, DataB(u.wire), x.output, x.wr, x.failed)
  <2>1. /\ Balance(y.rd, y.input, DataB(u.wire) + n, x.output, x.wr, x.failed)
        /\ y.rd \in Nat /\ y.input \in Nat /\ DataB(u.wire) \in Nat
        /\ x.output \in Nat /\ x.wr \in Nat
    BY <1>1, <1>21, <1>26, Zenon DEF Known, LocalInv, OneWay, Typed, StdNums
  <2> QED
    BY <2>1, <1>21, <1>0 DEF Balance
<1>44. Windows(y.remote_window, BothB(u.wire), GrantB(x.wire), x.local_window - n,
               y.type, x.type, x.failed)
  <2>1. /\ Windows(y.remote_window, BothB(u.wire) + n, GrantB(x.wire),
                   x.local_window, y.type, x.type, x.failed)
        /\ y.remote_window \in Nat /\ BothB(u.wire) \in Nat
        /\ GrantB(x.wire) \in Nat /\ x.local_window \in Nat
    BY <1>1, <1>21, <1>26, Zenon DEF Known, LocalInv, OneWay, Typed, UsedNums
  <2> QED
    BY <2>1, <1>21, SMTT(30) DEF Windows
<1>45. Quiet(x, z)
  BY <1>2, <1>3, QuietSame
<1>90. LocalInv(z) /\ OneWay(z, u) /\ OneWay(u, z)
  BY <1>1, <1>3, <1>20, <1>26,
     <1>40, <1>41, <1>42, <1>43, <1>44, ZenonT(30)
     DEF Known, LocalInv, OneWay, HeldBy, Incoming, TakenFrom
<1> QED
  BY <1>2, <1>3, <1>5, <1>20, <1>90, <1>45, Zenon DEF Known, Keeps, Established,
     z, u, n,
     TakenFrom

\* channel_input_extended_data: stderr is put into its buffer.
LEMMA TakesErr ==
    ASSUME Counted, NEW x, NEW y,
           Established(x, y),
           y.wire # <<>>,
           Head(y.wire).t = "ext",
           x.type = "open",
           x.usage = "write", x.efd = TRUE
    PROVE  Keeps(x, TakeErr(x, Head(y.wire).n), Took(y))
<1> DEFINE n == Head(y.wire).n
           u == Took(y)
           z == TakeErr(x, n)
<1>1. Known(x, y)
  BY KnownOf, Zenon
<1>2. x \in Channel /\ y \in Channel /\ x.wire \in Seq(Messages)
      /\ Len(x.wire) \in Nat
  BY <1>1 DEF Known, Typed
<1>20. TakenFrom(y, u, "ext", n)
  BY <1>1, TakesFrom, Zenon
<1> HIDE DEF n, u
<1>21. /\ n \in Nat /\ y.type # "opening" /\ Typed(u)
       /\ Tailed(y.wire, u.wire, "ext", n)
  BY <1>20, Zenon DEF TakenFrom
<1>26. /\ DataB(y.wire) = DataB(u.wire)
       /\ ErrB(y.wire) = ErrB(u.wire) + n
       /\ BothB(y.wire) = BothB(u.wire) + n
       /\ GrantB(y.wire) = GrantB(u.wire)
  BY <1>1, <1>21, ChannelConstants
     DEF Tailed, Known, Typed, StdNums, ErrNums, UsedNums
<1>0. /\ n <= x.local_window
      /\ x.ostate # "open" => "write" \in x.failed
      /\ "eof_rcvd" \notin x.flags
  BY <1>1, <1>21, Fits, Zenon
<1>3. /\ z.type = x.type /\ z.ctype = x.ctype /\ z.istate = x.istate
      /\ z.ostate = x.ostate /\ z.flags = x.flags /\ z.input = x.input
      /\ z.output = x.output /\ z.extended = x.extended + n
      /\ z.efd = x.efd /\ z.usage = x.usage
      /\ z.local_window = x.local_window - n
      /\ z.local_window_max = x.local_window_max
      /\ z.local_consumed = x.local_consumed
      /\ z.remote_window = x.remote_window /\ z.detach = x.detach
      /\ z.pid = x.pid /\ z.sel = x.sel /\ z.wire = x.wire /\ z.rd = x.rd
      /\ z.wr = x.wr /\ z.erd = x.erd /\ z.ewr = x.ewr
      /\ z.failed = x.failed /\ z.status = x.status /\ z.fatal = x.fatal
  BY <1>2 DEF Channel, TakeErr
<1>4. x.local_window - n \in Nat /\ x.extended + n \in Nat
  <2>1. x.extended \in Nat /\ x.local_window \in Nat
    BY <1>2 DEF Channel
  <2> QED
    BY <2>1, <1>21, <1>0
<1>5. z \in Channel
  BY <1>2, <1>4, <1>21, Zenon DEF Channel, Flags, HalfStates, TakeErr
<1> HIDE DEF z
<1>6. /\ Stderr(x.usage, x.efd, x.extended, x.ostate, x.failed, x.type)
      /\ Opens(y, y.type, x.wire, x.type)
      /\ Sent(x.istate, x.input, x.usage, x.efd, x.extended, y.failed)
  BY <1>1, Zenon DEF Known, LocalInv, OneWay
<1>40. Incoming(y, z, u.wire, x.flags, x.usage, x.status)
  <2>1. MayTake(x, y, "ext", x.flags, x.status)
    BY DEF MayTake
  <2> QED
    BY <1>1, <1>21, <2>1, Processing, Zenon
<1>41. Stderr(x.usage, x.efd, x.extended + n, x.ostate, x.failed, x.type)
  BY <1>6, <1>0 DEF Stderr
<1>42. Holding((x.local_window - n) + x.output + x.local_consumed
               + ErrIn(x.usage, x.extended + n), x.local_window_max, x.type,
               x.failed)
  <2>1. /\ Holding(HeldBy(x), x.local_window_max, x.type, x.failed)
        /\ x.local_window \in Nat /\ x.output \in Nat
        /\ x.local_consumed \in Nat /\ x.extended \in Nat
        /\ x.local_window_max \in Nat
    BY <1>1, <1>21, <1>26, Zenon DEF Known, LocalInv, OneWay, Typed, HeldNums
  <2> QED
    BY <2>1, <1>21, SMTT(40) DEF Holding, HeldBy, ErrIn
<1>43. Opens(u, y.type, x.wire, x.type)
  BY <1>6, <1>21, OpensSelf, Zenon
<1>44. Sent(x.istate, x.input, x.usage, x.efd, x.extended + n, y.failed)
  BY <1>6 DEF Sent
<1>45. ErrBalance(x.erd, ErrOut(x.usage, x.extended + n), ErrB(x.wire),
                  ErrIn(y.usage, y.extended), y.ewr, y.failed)
  <2>1. /\ ErrBalance(x.erd, ErrOut(x.usage, x.extended), ErrB(x.wire),
                      ErrIn(y.usage, y.extended), y.ewr, y.failed)
        /\ x.erd \in Nat /\ x.extended \in Nat
        /\ ErrB(x.wire) \in Nat /\ y.extended \in Nat
        /\ y.ewr \in Nat
    BY <1>1, <1>21, <1>26, Zenon DEF Known, LocalInv, OneWay, Typed, ErrNums
  <2> QED
    BY <2>1, <1>21 DEF ErrBalance, ErrOut, ErrIn
<1>46. ErrBalance(y.erd, ErrOut(y.usage, y.extended), ErrB(u.wire),
                  ErrIn(x.usage, x.extended + n), x.ewr, x.failed)
  <2>1. /\ ErrBalance(y.erd, ErrOut(y.usage, y.extended), ErrB(u.wire) + n,
                      ErrIn(x.usage, x.extended), x.ewr, x.failed)
        /\ y.erd \in Nat /\ y.extended \in Nat
        /\ ErrB(u.wire) \in Nat /\ x.extended \in Nat
        /\ x.ewr \in Nat
    BY <1>1, <1>21, <1>26, Zenon DEF Known, LocalInv, OneWay, Typed, ErrNums
  <2> QED
    BY <2>1, <1>21 DEF ErrBalance, ErrOut, ErrIn
<1>47. Windows(y.remote_window, BothB(u.wire), GrantB(x.wire), x.local_window - n,
               y.type, x.type, x.failed)
  <2>1. /\ Windows(y.remote_window, BothB(u.wire) + n, GrantB(x.wire),
                   x.local_window, y.type, x.type, x.failed)
        /\ y.remote_window \in Nat /\ BothB(u.wire) \in Nat
        /\ GrantB(x.wire) \in Nat /\ x.local_window \in Nat
    BY <1>1, <1>21, <1>26, Zenon DEF Known, LocalInv, OneWay, Typed, UsedNums
  <2> QED
    BY <2>1, <1>21, SMTT(30) DEF Windows
<1>48. Quiet(x, z)
  BY <1>2, <1>3, QuietSame
<1>90. LocalInv(z) /\ OneWay(z, u) /\ OneWay(u, z)
  BY <1>1, <1>3, <1>20, <1>26,
     <1>40, <1>41, <1>42, <1>43, <1>44, <1>45, <1>46, <1>47, ZenonT(30)
     DEF Known, LocalInv, OneWay, HeldBy, Incoming, TakenFrom
<1> QED
  BY <1>2, <1>3, <1>5, <1>20, <1>90, <1>48, Zenon DEF Known, Keeps, Established,
     z, u, n,
     TakenFrom

\* channel_input_extended_data: stderr that cannot be written is dropped.
LEMMA DropsErr ==
    ASSUME Counted, NEW x, NEW y,
           Established(x, y),
           y.wire # <<>>,
           Head(y.wire).t = "ext",
           x.type = "open",
           x.usage = "write", x.efd = FALSE
    PROVE  Keeps(x, x, Took(y))
<1> DEFINE n == Head(y.wire).n
           u == Took(y)
           z == x
<1>1. Known(x, y)
  BY KnownOf, Zenon
<1>2. x \in Channel /\ y \in Channel /\ x.wire \in Seq(Messages)
      /\ Len(x.wire) \in Nat
  BY <1>1 DEF Known, Typed
<1>20. TakenFrom(y, u, "ext", n)
  BY <1>1, TakesFrom, Zenon
<1> HIDE DEF n, u
<1>21. /\ n \in Nat /\ y.type # "opening" /\ Typed(u)
       /\ Tailed(y.wire, u.wire, "ext", n)
  BY <1>20, Zenon DEF TakenFrom
<1>26. /\ DataB(y.wire) = DataB(u.wire)
       /\ ErrB(y.wire) = ErrB(u.wire) + n
       /\ BothB(y.wire) = BothB(u.wire) + n
       /\ GrantB(y.wire) = GrantB(u.wire)
  BY <1>1, <1>21, ChannelConstants
     DEF Tailed, Known, Typed, StdNums, ErrNums, UsedNums
<1>0. "efd" \in x.failed
  <2>1. Stderr(x.usage, x.efd, x.extended, x.ostate, x.failed, x.type)
    BY <1>1, Zenon DEF Known, LocalInv
  <2> QED
    BY <2>1 DEF Stderr
<1>3. /\ z.type = x.type /\ z.ctype = x.ctype /\ z.istate = x.istate
      /\ z.ostate = x.ostate /\ z.flags = x.flags /\ z.input = x.input
      /\ z.output = x.output /\ z.extended = x.extended /\ z.efd = x.efd
      /\ z.usage = x.usage /\ z.local_window = x.local_window
      /\ z.local_window_max = x.local_window_max
      /\ z.local_consumed = x.local_consumed
      /\ z.remote_window = x.remote_window /\ z.detach = x.detach
      /\ z.pid = x.pid /\ z.sel = x.sel /\ z.wire = x.wire /\ z.rd = x.rd
      /\ z.wr = x.wr /\ z.erd = x.erd /\ z.ewr = x.ewr
      /\ z.failed = x.failed /\ z.status = x.status /\ z.fatal = x.fatal
  BY <1>2 DEF Channel
<1>5. z \in Channel
  BY <1>2
<1> HIDE DEF z
<1>6. /\ Opens(y, y.type, x.wire, x.type)
  BY <1>1, Zenon DEF Known, LocalInv, OneWay
<1>40. Incoming(y, z, u.wire, x.flags, x.usage, x.status)
  <2>1. MayTake(x, y, "ext", x.flags, x.status)
    BY DEF MayTake
  <2> QED
    BY <1>1, <1>21, <2>1, Processing, Zenon
<1>41. Opens(u, y.type, x.wire, x.type)
  BY <1>6, <1>21, OpensSelf, Zenon
<1>42. ErrBalance(y.erd, ErrOut(y.usage, y.extended), ErrB(u.wire),
                  ErrIn(x.usage, x.extended), x.ewr, x.failed)
  <2>1. /\ ErrBalance(y.erd, ErrOut(y.usage, y.extended), ErrB(u.wire) + n,
                      ErrIn(x.usage, x.extended), x.ewr, x.failed)
        /\ y.erd \in Nat /\ y.extended \in Nat
        /\ ErrB(u.wire) \in Nat /\ x.extended \in Nat
        /\ x.ewr \in Nat
    BY <1>1, <1>21, <1>26, Zenon DEF Known, LocalInv, OneWay, Typed, ErrNums
  <2> QED
    BY <2>1, <1>21, <1>0 DEF ErrBalance, ErrOut, ErrIn
<1>43. Windows(y.remote_window, BothB(u.wire), GrantB(x.wire), x.local_window,
               y.type, x.type, x.failed)
  <2>1. /\ Windows(y.remote_window, BothB(u.wire) + n, GrantB(x.wire),
                   x.local_window, y.type, x.type, x.failed)
        /\ y.remote_window \in Nat /\ BothB(u.wire) \in Nat
        /\ GrantB(x.wire) \in Nat /\ x.local_window \in Nat
    BY <1>1, <1>21, <1>26, Zenon DEF Known, LocalInv, OneWay, Typed, UsedNums
  <2> QED
    BY <2>1, <1>21, <1>0 DEF Windows
<1>44. Quiet(x, z)
  BY <1>2, <1>3, QuietSame
<1>90. LocalInv(z) /\ OneWay(z, u) /\ OneWay(u, z)
  BY <1>1, <1>3, <1>20, <1>26,
     <1>40, <1>41, <1>42, <1>43, ZenonT(30)
     DEF Known, LocalInv, OneWay, HeldBy, Incoming, TakenFrom
<1> QED
  BY <1>2, <1>3, <1>5, <1>20, <1>90, <1>44 DEF Known, Keeps, Established, z, u, n,
     TakenFrom

\* chan_rcvd_ieof: the output will be closed when it is empty.
LEMMA TakesEof ==
    ASSUME Counted, NEW x, NEW y,
           Established(x, y),
           y.wire # <<>>,
           Head(y.wire).t = "eof",
           x.type = "open"
    PROVE  Keeps(x, TakeEof(x), Took(y))
<1> DEFINE n == Head(y.wire).n
           u == Took(y)
           z == TakeEof(x)
<1>1. Known(x, y)
  BY KnownOf, Zenon
<1>2. x \in Channel /\ y \in Channel /\ x.wire \in Seq(Messages)
      /\ Len(x.wire) \in Nat
  BY <1>1 DEF Known, Typed
<1>20. TakenFrom(y, u, "eof", n)
  BY <1>1, TakesFrom, Zenon
<1> HIDE DEF n, u
<1>21. /\ n \in Nat /\ y.type # "opening" /\ Typed(u)
       /\ Tailed(y.wire, u.wire, "eof", n)
  BY <1>20, Zenon DEF TakenFrom
<1>26. /\ DataB(y.wire) = DataB(u.wire)
       /\ ErrB(y.wire) = ErrB(u.wire)
       /\ BothB(y.wire) = BothB(u.wire)
       /\ GrantB(y.wire) = GrantB(u.wire)
  BY <1>1, <1>21, ChannelConstants
     DEF Tailed, Known, Typed, StdNums, ErrNums, UsedNums
<1>0. Drained(x.ostate) \in HalfStates
  BY <1>2 DEF Channel, HalfStates, Drained
<1>3. /\ z.type = x.type /\ z.ctype = x.ctype /\ z.istate = x.istate
      /\ z.ostate = Drained(x.ostate)
      /\ z.flags = x.flags \cup {"eof_rcvd"} /\ z.input = x.input
      /\ z.output = x.output /\ z.extended = x.extended /\ z.efd = x.efd
      /\ z.usage = x.usage /\ z.local_window = x.local_window
      /\ z.local_window_max = x.local_window_max
      /\ z.local_consumed = x.local_consumed
      /\ z.remote_window = x.remote_window /\ z.detach = x.detach
      /\ z.pid = x.pid /\ z.sel = x.sel /\ z.wire = x.wire /\ z.rd = x.rd
      /\ z.wr = x.wr /\ z.erd = x.erd /\ z.ewr = x.ewr
      /\ z.failed = x.failed /\ z.status = x.status /\ z.fatal = x.fatal
  BY <1>2 DEF Channel, TakeEof
<1>5. z \in Channel
  BY <1>2, <1>21, <1>0, Zenon DEF Channel, Flags, HalfStates, TakeEof
<1> HIDE DEF z
<1>6. /\ Halves(x.flags, x.istate, x.ostate, x.output)
      /\ Outputs(x.flags, x.ostate, x.failed)
      /\ Stderr(x.usage, x.efd, x.extended, x.ostate, x.failed, x.type)
      /\ Program(x.pid, x.type, x.detach, x.flags, x.usage)
      /\ Freed(x.type, x.flags, x.fatal)
      /\ Closes(x.wire, x.flags, y.flags) /\ Eofs(x.wire, x.flags, y.flags)
      /\ Opens(y, y.type, x.wire, x.type)
  BY <1>1, Zenon DEF Known, LocalInv, OneWay
<1>40. Incoming(y, z, u.wire, x.flags \cup {"eof_rcvd"}, x.usage, x.status)
  <2>1. MayTake(x, y, "eof", x.flags \cup {"eof_rcvd"}, x.status)
    BY DEF MayTake
  <2> QED
    BY <1>1, <1>21, <2>1, Processing, Zenon
<1>41. Halves(x.flags \cup {"eof_rcvd"}, x.istate, Drained(x.ostate), x.output)
  BY <1>6 DEF Halves, Drained
<1>42. Outputs(x.flags \cup {"eof_rcvd"}, Drained(x.ostate), x.failed)
  BY <1>6 DEF Outputs, Received, Drained
<1>43. Stderr(x.usage, x.efd, x.extended, Drained(x.ostate), x.failed, x.type)
  BY <1>6 DEF Stderr, Drained
<1>44. Program(x.pid, x.type, x.detach, x.flags \cup {"eof_rcvd"}, x.usage)
  BY <1>6 DEF Program
<1>45. Freed(x.type, x.flags \cup {"eof_rcvd"}, x.fatal)
  BY <1>6 DEF Freed
<1>46. Closes(x.wire, x.flags \cup {"eof_rcvd"}, y.flags)
  BY <1>6 DEF Closes
<1>47. Eofs(x.wire, x.flags \cup {"eof_rcvd"}, y.flags)
  BY <1>6 DEF Eofs
<1>48. Opens(u, y.type, x.wire, x.type)
  BY <1>6, <1>21, OpensSelf, Zenon
<1>49. Quiet(x, z)
  BY <1>2, <1>3, QuietSame
<1>90. LocalInv(z) /\ OneWay(z, u) /\ OneWay(u, z)
  BY <1>1, <1>3, <1>20, <1>26,
     <1>40, <1>41, <1>42, <1>43, <1>44, <1>45, <1>46, <1>47, <1>48, ZenonT(30)
     DEF Known, LocalInv, OneWay, HeldBy, Incoming, TakenFrom
<1> QED
  BY <1>2, <1>3, <1>5, <1>20, <1>90, <1>49 DEF Known, Keeps, Established, z, u, n,
     TakenFrom

\* chan_rcvd_close2: both halves are closed, the output when it is empty.
LEMMA TakesClose ==
    ASSUME Counted, NEW x, NEW y,
           Established(x, y),
           y.wire # <<>>,
           Head(y.wire).t = "close",
           x.type = "open",
           x.istate # "drain"
    PROVE  Keeps(x, TakeClose(x), Took(y))
<1> DEFINE n == Head(y.wire).n
           u == Took(y)
           z == TakeClose(x)
<1>1. Known(x, y)
  BY KnownOf, Zenon
<1>2. x \in Channel /\ y \in Channel /\ x.wire \in Seq(Messages)
      /\ Len(x.wire) \in Nat
  BY <1>1 DEF Known, Typed
<1>20. TakenFrom(y, u, "close", n)
  BY <1>1, TakesFrom, Zenon
<1> HIDE DEF n, u
<1>21. /\ n \in Nat /\ y.type # "opening" /\ Typed(u)
       /\ Tailed(y.wire, u.wire, "close", n)
  BY <1>20, Zenon DEF TakenFrom
<1>26. /\ DataB(y.wire) = DataB(u.wire)
       /\ ErrB(y.wire) = ErrB(u.wire)
       /\ BothB(y.wire) = BothB(u.wire)
       /\ GrantB(y.wire) = GrantB(u.wire)
  BY <1>1, <1>21, ChannelConstants
     DEF Tailed, Known, Typed, StdNums, ErrNums, UsedNums
<1>0. Drained(x.ostate) \in HalfStates
  BY <1>2 DEF Channel, HalfStates, Drained
<1>30. "write" \notin y.failed => x.istate = "closed"
  <2>1. /\ Closes(y.wire, y.flags, x.flags) /\ Closes(x.wire, x.flags, y.flags)
        /\ Eofs(x.wire, x.flags, y.flags) /\ Outputs(y.flags, y.ostate, y.failed)
        /\ Halves(y.flags, y.istate, y.ostate, y.output)
        /\ Halves(x.flags, x.istate, x.ostate, x.output)
    BY <1>1, Zenon DEF Known, LocalInv, OneWay
  <2>2. 1 \in 1..Len(y.wire) /\ y.wire[1].t = "close"
    BY <1>21 DEF Tailed
  <2>3. y.ostate = "closed"
    BY <2>1, <2>2 DEF Closes, Halves
  <2>4. "write" \notin y.failed
        => "eof_rcvd" \in y.flags \/ "close_rcvd" \in y.flags
    BY <2>1, <2>3 DEF Outputs, Received
  <2>5. ("eof_rcvd" \in y.flags => "eof_sent" \in x.flags)
        /\ ("close_rcvd" \in y.flags => "close_sent" \in x.flags)
    BY <2>1 DEF Eofs, Closes
  <2> QED
    BY <2>1, <2>4, <2>5 DEF Halves
<1>3. /\ z.type = x.type /\ z.ctype = x.ctype /\ z.istate = "closed"
      /\ z.ostate = Drained(x.ostate)
      /\ z.flags = x.flags \cup {"close_rcvd"} /\ z.input = x.input
      /\ z.output = x.output /\ z.extended = x.extended /\ z.efd = x.efd
      /\ z.usage = x.usage /\ z.local_window = x.local_window
      /\ z.local_window_max = x.local_window_max
      /\ z.local_consumed = x.local_consumed
      /\ z.remote_window = x.remote_window /\ z.detach = x.detach
      /\ z.pid = x.pid /\ z.sel = x.sel /\ z.wire = x.wire /\ z.rd = x.rd
      /\ z.wr = x.wr /\ z.erd = x.erd /\ z.ewr = x.ewr
      /\ z.failed = x.failed /\ z.status = x.status /\ z.fatal = x.fatal
  BY <1>2 DEF Channel, TakeClose
<1>5. z \in Channel
  BY <1>2, <1>21, <1>0, ZenonT(40) DEF Channel, Flags, HalfStates, TakeClose
<1> HIDE DEF z
<1>6. /\ Halves(x.flags, x.istate, x.ostate, x.output)
      /\ Outputs(x.flags, x.ostate, x.failed)
      /\ Stderr(x.usage, x.efd, x.extended, x.ostate, x.failed, x.type)
      /\ Program(x.pid, x.type, x.detach, x.flags, x.usage)
      /\ Freed(x.type, x.flags, x.fatal)
      /\ Closes(x.wire, x.flags, y.flags) /\ Eofs(x.wire, x.flags, y.flags)
      /\ Opens(y, y.type, x.wire, x.type)
      /\ Sent(x.istate, x.input, x.usage, x.efd, x.extended, y.failed)
  BY <1>1, Zenon DEF Known, LocalInv, OneWay
<1>40. Incoming(y, z, u.wire, x.flags \cup {"close_rcvd"}, x.usage, x.status)
  <2>1. MayTake(x, y, "close", x.flags \cup {"close_rcvd"}, x.status)
    BY DEF MayTake
  <2> QED
    BY <1>1, <1>21, <2>1, Processing, Zenon
<1>41. Halves(x.flags \cup {"close_rcvd"}, "closed", Drained(x.ostate), x.output)
  BY <1>6 DEF Halves, Drained
<1>42. Outputs(x.flags \cup {"close_rcvd"}, Drained(x.ostate), x.failed)
  BY <1>6 DEF Outputs, Received, Drained
<1>43. Stderr(x.usage, x.efd, x.extended, Drained(x.ostate), x.failed, x.type)
  BY <1>6 DEF Stderr, Drained
<1>44. Program(x.pid, x.type, x.detach, x.flags \cup {"close_rcvd"}, x.usage)
  BY <1>6 DEF Program
<1>45. Freed(x.type, x.flags \cup {"close_rcvd"}, x.fatal)
  BY <1>6 DEF Freed
<1>46. Closes(x.wire, x.flags \cup {"close_rcvd"}, y.flags)
  BY <1>6 DEF Closes
<1>47. Eofs(x.wire, x.flags \cup {"close_rcvd"}, y.flags)
  BY <1>6 DEF Eofs
<1>48. Opens(u, y.type, x.wire, x.type)
  BY <1>6, <1>21, OpensSelf, Zenon
<1>49. Sent("closed", x.input, x.usage, x.efd, x.extended, y.failed)
  BY <1>6, <1>30 DEF Sent
<1>50. Quiet(x, z)
  BY <1>2, <1>3, QuietSame
<1>90. LocalInv(z) /\ OneWay(z, u) /\ OneWay(u, z)
  BY <1>1, <1>3, <1>20, <1>26,
     <1>40, <1>41, <1>42, <1>43, <1>44, <1>45, <1>46, <1>47, <1>48,
     <1>49, ZenonT(30)
     DEF Known, LocalInv, OneWay, HeldBy, Incoming, TakenFrom
<1> QED
  BY <1>2, <1>3, <1>5, <1>20, <1>90, <1>50 DEF Known, Keeps, Established, z, u, n,
     TakenFrom

\* chan_rcvd_close2: an input that was draining sends EOF.
LEMMA AnswersClose ==
    ASSUME Counted, NEW x, NEW y,
           Established(x, y),
           y.wire # <<>>,
           Head(y.wire).t = "close",
           x.type = "open",
           x.istate = "drain"
    PROVE  Keeps(x, AnswerClose(x), Took(y))
<1> DEFINE n == Head(y.wire).n
           u == Took(y)
           z == AnswerClose(x)
<1>1. Known(x, y)
  BY KnownOf, Zenon
<1>2. x \in Channel /\ y \in Channel /\ x.wire \in Seq(Messages)
      /\ Len(x.wire) \in Nat
  BY <1>1 DEF Known, Typed
<1>20. TakenFrom(y, u, "close", n)
  BY <1>1, TakesFrom, Zenon
<1> HIDE DEF n, u
<1>21. /\ n \in Nat /\ y.type # "opening" /\ Typed(u)
       /\ Tailed(y.wire, u.wire, "close", n)
  BY <1>20, Zenon DEF TakenFrom
<1>26. /\ DataB(y.wire) = DataB(u.wire)
       /\ ErrB(y.wire) = ErrB(u.wire)
       /\ BothB(y.wire) = BothB(u.wire)
       /\ GrantB(y.wire) = GrantB(u.wire)
  BY <1>1, <1>21, ChannelConstants
     DEF Tailed, Known, Typed, StdNums, ErrNums, UsedNums
<1>0. Drained(x.ostate) \in HalfStates
  BY <1>2 DEF Channel, HalfStates, Drained
<1>30. "write" \notin y.failed => x.istate = "closed"
  <2>1. /\ Closes(y.wire, y.flags, x.flags) /\ Closes(x.wire, x.flags, y.flags)
        /\ Eofs(x.wire, x.flags, y.flags) /\ Outputs(y.flags, y.ostate, y.failed)
        /\ Halves(y.flags, y.istate, y.ostate, y.output)
        /\ Halves(x.flags, x.istate, x.ostate, x.output)
    BY <1>1, Zenon DEF Known, LocalInv, OneWay
  <2>2. 1 \in 1..Len(y.wire) /\ y.wire[1].t = "close"
    BY <1>21 DEF Tailed
  <2>3. y.ostate = "closed"
    BY <2>1, <2>2 DEF Closes, Halves
  <2>4. "write" \notin y.failed
        => "eof_rcvd" \in y.flags \/ "close_rcvd" \in y.flags
    BY <2>1, <2>3 DEF Outputs, Received
  <2>5. ("eof_rcvd" \in y.flags => "eof_sent" \in x.flags)
        /\ ("close_rcvd" \in y.flags => "close_sent" \in x.flags)
    BY <2>1 DEF Eofs, Closes
  <2> QED
    BY <2>1, <2>4, <2>5 DEF Halves
<1>3. /\ z.type = x.type /\ z.ctype = x.ctype /\ z.istate = "closed"
      /\ z.ostate = Drained(x.ostate)
      /\ z.flags = x.flags \cup {"close_rcvd", "eof_sent"}
      /\ z.input = x.input /\ z.output = x.output
      /\ z.extended = x.extended /\ z.efd = x.efd /\ z.usage = x.usage
      /\ z.local_window = x.local_window
      /\ z.local_window_max = x.local_window_max
      /\ z.local_consumed = x.local_consumed
      /\ z.remote_window = x.remote_window /\ z.detach = x.detach
      /\ z.pid = x.pid /\ z.sel = x.sel /\ z.rd = x.rd /\ z.wr = x.wr
      /\ z.erd = x.erd /\ z.ewr = x.ewr /\ z.failed = x.failed
      /\ z.status = x.status /\ z.fatal = x.fatal
  BY <1>2 DEF Channel, AnswerClose, Send
<1>5. z \in Channel /\ z.wire = Append(x.wire, Msg("eof", 0))
  <2>1. [x EXCEPT !.flags = @ \cup {"close_rcvd", "eof_sent"}] \in Channel
    BY <1>2, <1>21, Zenon DEF Channel, Flags, HalfStates
  <2> DEFINE s == Send([x EXCEPT !.flags = @ \cup {"close_rcvd", "eof_sent"}],
                       Msg("eof", 0))
  <2>2. s \in Channel
    BY <2>1, <1>21, SendTyped, Zenon
  <2>3. z = [s EXCEPT !.istate = "closed", !.ostate = Drained(@)]
    BY DEF AnswerClose
  <2> HIDE DEF s
  <2>4. [s EXCEPT !.istate = "closed", !.ostate = Drained(@)] \in Channel
    BY <2>2, ZenonT(40) DEF Channel, HalfStates, Drained
  <2>5. z \in Channel
    BY <2>3, <2>4
  <2> USE DEF s
  <2> QED
    BY <1>2, <2>5, Zenon DEF Channel, AnswerClose, Send
<1> HIDE DEF z
<1>7. Appended(x.wire, z.wire, "eof", 0)
  BY <1>2, <1>5, <1>21, Appending
<1>8. /\ DataB(z.wire) = DataB(x.wire)
      /\ ErrB(z.wire) = ErrB(x.wire)
      /\ BothB(z.wire) = BothB(x.wire)
      /\ GrantB(z.wire) = GrantB(x.wire)
  BY <1>1, <1>7 DEF Appended, Known, Typed, StdNums, ErrNums, UsedNums
<1>9. "close_sent" \notin x.flags /\ "eof_sent" \notin x.flags
  BY <1>1 DEF Known, LocalInv, Halves, Program
<1>6. /\ Halves(x.flags, x.istate, x.ostate, x.output)
      /\ Outputs(x.flags, x.ostate, x.failed)
      /\ Stderr(x.usage, x.efd, x.extended, x.ostate, x.failed, x.type)
      /\ Program(x.pid, x.type, x.detach, x.flags, x.usage)
      /\ Freed(x.type, x.flags, x.fatal)
      /\ Sent(x.istate, x.input, x.usage, x.efd, x.extended, y.failed)
  BY <1>1, Zenon DEF Known, LocalInv, OneWay
<1>40. Outgoing(x, y, u, z.wire, x.flags \cup {"close_rcvd", "eof_sent"},
                x.failed, x.pid)
  <2>1. MaySend(x, y, u, "eof", x.flags \cup {"close_rcvd", "eof_sent"}, x.failed,
                x.pid)
    BY <1>9, <1>21 DEF MaySend, Setup, Payload
  <2> QED
    BY <1>1, <1>7, <2>1, Sending, Zenon
<1>41. Incoming(y, z, u.wire, x.flags \cup {"close_rcvd", "eof_sent"}, x.usage,
                x.status)
  <2>1. MayTake(x, y, "close", x.flags \cup {"close_rcvd", "eof_sent"}, x.status)
    BY DEF MayTake
  <2> QED
    BY <1>1, <1>21, <2>1, Processing, Zenon
<1>42. Halves(x.flags \cup {"close_rcvd", "eof_sent"}, "closed",
              Drained(x.ostate), x.output)
  BY <1>6 DEF Halves, Drained
<1>43. Outputs(x.flags \cup {"close_rcvd", "eof_sent"}, Drained(x.ostate),
               x.failed)
  BY <1>6 DEF Outputs, Received, Drained
<1>44. Stderr(x.usage, x.efd, x.extended, Drained(x.ostate), x.failed, x.type)
  BY <1>6 DEF Stderr, Drained
<1>45. Program(x.pid, x.type, x.detach, x.flags \cup {"close_rcvd", "eof_sent"},
               x.usage)
  BY <1>6 DEF Program
<1>46. Freed(x.type, x.flags \cup {"close_rcvd", "eof_sent"}, x.fatal)
  BY <1>6 DEF Freed
<1>47. Sent("closed", x.input, x.usage, x.efd, x.extended, y.failed)
  BY <1>6, <1>30 DEF Sent
<1>48. Quiet(x, z)
  BY <1>2, <1>3, <1>7, <1>9, QuietAppend, Zenon DEF Payload
<1>90. LocalInv(z) /\ OneWay(z, u) /\ OneWay(u, z)
  BY <1>1, <1>3, <1>8, <1>20, <1>26,
     <1>40, <1>41, <1>42, <1>43, <1>44, <1>45, <1>46, <1>47, ZenonT(30)
     DEF Known, LocalInv, OneWay, HeldBy, Outgoing, Incoming, TakenFrom
<1> QED
  BY <1>2, <1>3, <1>5, <1>20, <1>90, <1>48 DEF Known, Keeps, Established, z, u, n,
     TakenFrom

\* chan_rcvd_eow: nobody reads any more, and the input is closed.
LEMMA TakesEow ==
    ASSUME Counted, NEW x, NEW y,
           Established(x, y),
           y.wire # <<>>,
           Head(y.wire).t = "eow",
           x.type = "open",
           x.istate = "open"
    PROVE  Keeps(x, TakeEow(x), Took(y))
<1> DEFINE n == Head(y.wire).n
           u == Took(y)
           z == TakeEow(x)
<1>1. Known(x, y)
  BY KnownOf, Zenon
<1>2. x \in Channel /\ y \in Channel /\ x.wire \in Seq(Messages)
      /\ Len(x.wire) \in Nat
  BY <1>1 DEF Known, Typed
<1>20. TakenFrom(y, u, "eow", n)
  BY <1>1, TakesFrom, Zenon
<1> HIDE DEF n, u
<1>21. /\ n \in Nat /\ y.type # "opening" /\ Typed(u)
       /\ Tailed(y.wire, u.wire, "eow", n)
  BY <1>20, Zenon DEF TakenFrom
<1>26. /\ DataB(y.wire) = DataB(u.wire)
       /\ ErrB(y.wire) = ErrB(u.wire)
       /\ BothB(y.wire) = BothB(u.wire)
       /\ GrantB(y.wire) = GrantB(u.wire)
  BY <1>1, <1>21, ChannelConstants
     DEF Tailed, Known, Typed, StdNums, ErrNums, UsedNums
<1>0. "write" \in y.failed
  <2>1. Carries(y.wire, y.failed, x.usage)
    BY <1>1, Zenon DEF Known, OneWay
  <2>2. 1 \in 1..Len(y.wire) /\ y.wire[1].t = "eow"
    BY <1>21 DEF Tailed
  <2> QED
    BY <2>1, <2>2 DEF Carries
<1>3. /\ z.type = x.type /\ z.ctype = x.ctype /\ z.istate = "closed"
      /\ z.ostate = x.ostate /\ z.flags = x.flags /\ z.input = x.input
      /\ z.output = x.output /\ z.extended = x.extended /\ z.efd = x.efd
      /\ z.usage = x.usage /\ z.local_window = x.local_window
      /\ z.local_window_max = x.local_window_max
      /\ z.local_consumed = x.local_consumed
      /\ z.remote_window = x.remote_window /\ z.detach = x.detach
      /\ z.pid = x.pid /\ z.sel = x.sel /\ z.wire = x.wire /\ z.rd = x.rd
      /\ z.wr = x.wr /\ z.erd = x.erd /\ z.ewr = x.ewr
      /\ z.failed = x.failed /\ z.status = x.status /\ z.fatal = x.fatal
  BY <1>2 DEF Channel, TakeEow
<1>5. z \in Channel
  BY <1>2, <1>21, Zenon DEF Channel, Flags, HalfStates, TakeEow
<1> HIDE DEF z
<1>6. /\ Halves(x.flags, x.istate, x.ostate, x.output)
      /\ Opens(y, y.type, x.wire, x.type)
      /\ Sent(x.istate, x.input, x.usage, x.efd, x.extended, y.failed)
  BY <1>1, Zenon DEF Known, LocalInv, OneWay
<1>40. Incoming(y, z, u.wire, x.flags, x.usage, x.status)
  <2>1. MayTake(x, y, "eow", x.flags, x.status)
    BY DEF MayTake
  <2> QED
    BY <1>1, <1>21, <2>1, Processing, Zenon
<1>41. Halves(x.flags, "closed", x.ostate, x.output)
  BY <1>6 DEF Halves
<1>42. Opens(u, y.type, x.wire, x.type)
  BY <1>6, <1>21, OpensSelf, Zenon
<1>43. Sent("closed", x.input, x.usage, x.efd, x.extended, y.failed)
  BY <1>6, <1>0 DEF Sent
<1>44. Quiet(x, z)
  BY <1>2, <1>3, QuietSame
<1>90. LocalInv(z) /\ OneWay(z, u) /\ OneWay(u, z)
  BY <1>1, <1>3, <1>20, <1>26,
     <1>40, <1>41, <1>42, <1>43, ZenonT(30)
     DEF Known, LocalInv, OneWay, HeldBy, Incoming, TakenFrom
<1> QED
  BY <1>2, <1>3, <1>5, <1>20, <1>90, <1>44 DEF Known, Keeps, Established, z, u, n,
     TakenFrom

\* chan_rcvd_eow: an input that is not open ignores it.
LEMMA IgnoresEow ==
    ASSUME Counted, NEW x, NEW y,
           Established(x, y),
           y.wire # <<>>,
           Head(y.wire).t = "eow",
           x.type = "open"
    PROVE  Keeps(x, x, Took(y))
<1> DEFINE n == Head(y.wire).n
           u == Took(y)
           z == x
<1>1. Known(x, y)
  BY KnownOf, Zenon
<1>2. x \in Channel /\ y \in Channel /\ x.wire \in Seq(Messages)
      /\ Len(x.wire) \in Nat
  BY <1>1 DEF Known, Typed
<1>20. TakenFrom(y, u, "eow", n)
  BY <1>1, TakesFrom, Zenon
<1> HIDE DEF n, u
<1>21. /\ n \in Nat /\ y.type # "opening" /\ Typed(u)
       /\ Tailed(y.wire, u.wire, "eow", n)
  BY <1>20, Zenon DEF TakenFrom
<1>26. /\ DataB(y.wire) = DataB(u.wire)
       /\ ErrB(y.wire) = ErrB(u.wire)
       /\ BothB(y.wire) = BothB(u.wire)
       /\ GrantB(y.wire) = GrantB(u.wire)
  BY <1>1, <1>21, ChannelConstants
     DEF Tailed, Known, Typed, StdNums, ErrNums, UsedNums
<1>3. /\ z.type = x.type /\ z.ctype = x.ctype /\ z.istate = x.istate
      /\ z.ostate = x.ostate /\ z.flags = x.flags /\ z.input = x.input
      /\ z.output = x.output /\ z.extended = x.extended /\ z.efd = x.efd
      /\ z.usage = x.usage /\ z.local_window = x.local_window
      /\ z.local_window_max = x.local_window_max
      /\ z.local_consumed = x.local_consumed
      /\ z.remote_window = x.remote_window /\ z.detach = x.detach
      /\ z.pid = x.pid /\ z.sel = x.sel /\ z.wire = x.wire /\ z.rd = x.rd
      /\ z.wr = x.wr /\ z.erd = x.erd /\ z.ewr = x.ewr
      /\ z.failed = x.failed /\ z.status = x.status /\ z.fatal = x.fatal
  BY <1>2 DEF Channel
<1>5. z \in Channel
  BY <1>2
<1> HIDE DEF z
<1>6. /\ Opens(y, y.type, x.wire, x.type)
  BY <1>1, Zenon DEF Known, LocalInv, OneWay
<1>40. Incoming(y, z, u.wire, x.flags, x.usage, x.status)
  <2>1. MayTake(x, y, "eow", x.flags, x.status)
    BY DEF MayTake
  <2> QED
    BY <1>1, <1>21, <2>1, Processing, Zenon
<1>41. Opens(u, y.type, x.wire, x.type)
  BY <1>6, <1>21, OpensSelf, Zenon
<1>42. Quiet(x, z)
  BY <1>2, <1>3, QuietSame
<1>90. LocalInv(z) /\ OneWay(z, u) /\ OneWay(u, z)
  BY <1>1, <1>3, <1>20, <1>26,
     <1>40, <1>41, ZenonT(30)
     DEF Known, LocalInv, OneWay, HeldBy, Incoming, TakenFrom
<1> QED
  BY <1>2, <1>3, <1>5, <1>20, <1>90, <1>42 DEF Known, Keeps, Established, z, u, n,
     TakenFrom

\* channel_input_status_confirm and client_input_channel_req: a success and a
\* signal change nothing.
LEMMA IgnoresMessage ==
    ASSUME Counted, NEW x, NEW y,
           Established(x, y),
           y.wire # <<>>,
           NEW t \in {"channel-success", "exit-signal"}, Head(y.wire).t = t,
           x.type = "open"
    PROVE  Keeps(x, x, Took(y))
<1> DEFINE n == Head(y.wire).n
           u == Took(y)
           z == x
<1>1. Known(x, y)
  BY KnownOf, Zenon
<1>2. x \in Channel /\ y \in Channel /\ x.wire \in Seq(Messages)
      /\ Len(x.wire) \in Nat
  BY <1>1 DEF Known, Typed
<1>20. TakenFrom(y, u, t, n)
  BY <1>1, TakesFrom, Zenon
<1> HIDE DEF n, u
<1>21. /\ n \in Nat /\ y.type # "opening" /\ Typed(u)
       /\ Tailed(y.wire, u.wire, t, n)
  BY <1>20, Zenon DEF TakenFrom
<1>26. /\ DataB(y.wire) = DataB(u.wire)
       /\ ErrB(y.wire) = ErrB(u.wire)
       /\ BothB(y.wire) = BothB(u.wire)
       /\ GrantB(y.wire) = GrantB(u.wire)
  BY <1>1, <1>21, ChannelConstants
     DEF Tailed, Known, Typed, StdNums, ErrNums, UsedNums
<1>3. /\ z.type = x.type /\ z.ctype = x.ctype /\ z.istate = x.istate
      /\ z.ostate = x.ostate /\ z.flags = x.flags /\ z.input = x.input
      /\ z.output = x.output /\ z.extended = x.extended /\ z.efd = x.efd
      /\ z.usage = x.usage /\ z.local_window = x.local_window
      /\ z.local_window_max = x.local_window_max
      /\ z.local_consumed = x.local_consumed
      /\ z.remote_window = x.remote_window /\ z.detach = x.detach
      /\ z.pid = x.pid /\ z.sel = x.sel /\ z.wire = x.wire /\ z.rd = x.rd
      /\ z.wr = x.wr /\ z.erd = x.erd /\ z.ewr = x.ewr
      /\ z.failed = x.failed /\ z.status = x.status /\ z.fatal = x.fatal
  BY <1>2 DEF Channel
<1>5. z \in Channel
  BY <1>2
<1> HIDE DEF z
<1>6. /\ Opens(y, y.type, x.wire, x.type)
  BY <1>1, Zenon DEF Known, LocalInv, OneWay
<1>40. Incoming(y, z, u.wire, x.flags, x.usage, x.status)
  <2>1. MayTake(x, y, t, x.flags, x.status)
    BY DEF MayTake
  <2> QED
    BY <1>1, <1>21, <2>1, Processing, Zenon
<1>41. Opens(u, y.type, x.wire, x.type)
  BY <1>6, <1>21, OpensSelf, Zenon
<1>42. Quiet(x, z)
  BY <1>2, <1>3, QuietSame
<1>90. LocalInv(z) /\ OneWay(z, u) /\ OneWay(u, z)
  BY <1>1, <1>3, <1>20, <1>26,
     <1>40, <1>41, ZenonT(30)
     DEF Known, LocalInv, OneWay, HeldBy, Incoming, TakenFrom
<1> QED
  BY <1>2, <1>3, <1>5, <1>20, <1>90, <1>42 DEF Known, Keeps, Established, z, u, n,
     TakenFrom

\* client_input_channel_req: the exit status arrives.
LEMMA TakesStatus ==
    ASSUME Counted, NEW x, NEW y,
           Established(x, y),
           y.wire # <<>>,
           Head(y.wire).t = "exit-status",
           x.type = "open"
    PROVE  Keeps(x, TakeStatus(x), Took(y))
<1> DEFINE n == Head(y.wire).n
           u == Took(y)
           z == TakeStatus(x)
<1>1. Known(x, y)
  BY KnownOf, Zenon
<1>2. x \in Channel /\ y \in Channel /\ x.wire \in Seq(Messages)
      /\ Len(x.wire) \in Nat
  BY <1>1 DEF Known, Typed
<1>20. TakenFrom(y, u, "exit-status", n)
  BY <1>1, TakesFrom, Zenon
<1> HIDE DEF n, u
<1>21. /\ n \in Nat /\ y.type # "opening" /\ Typed(u)
       /\ Tailed(y.wire, u.wire, "exit-status", n)
  BY <1>20, Zenon DEF TakenFrom
<1>26. /\ DataB(y.wire) = DataB(u.wire)
       /\ ErrB(y.wire) = ErrB(u.wire)
       /\ BothB(y.wire) = BothB(u.wire)
       /\ GrantB(y.wire) = GrantB(u.wire)
  BY <1>1, <1>21, ChannelConstants
     DEF Tailed, Known, Typed, StdNums, ErrNums, UsedNums
<1>3. /\ z.type = x.type /\ z.ctype = x.ctype /\ z.istate = x.istate
      /\ z.ostate = x.ostate /\ z.flags = x.flags /\ z.input = x.input
      /\ z.output = x.output /\ z.extended = x.extended /\ z.efd = x.efd
      /\ z.usage = x.usage /\ z.local_window = x.local_window
      /\ z.local_window_max = x.local_window_max
      /\ z.local_consumed = x.local_consumed
      /\ z.remote_window = x.remote_window /\ z.detach = x.detach
      /\ z.pid = x.pid /\ z.sel = x.sel /\ z.wire = x.wire /\ z.rd = x.rd
      /\ z.wr = x.wr /\ z.erd = x.erd /\ z.ewr = x.ewr
      /\ z.failed = x.failed /\ z.status = TRUE /\ z.fatal = x.fatal
  BY <1>2 DEF Channel, TakeStatus
<1>5. z \in Channel
  BY <1>2, <1>21, Zenon DEF Channel, Flags, HalfStates, TakeStatus
<1> HIDE DEF z
<1>6. /\ Opens(y, y.type, x.wire, x.type)
  BY <1>1, Zenon DEF Known, LocalInv, OneWay
<1>40. Incoming(y, z, u.wire, x.flags, x.usage, TRUE)
  <2>1. MayTake(x, y, "exit-status", x.flags, TRUE)
    BY DEF MayTake
  <2> QED
    BY <1>1, <1>21, <2>1, Processing, Zenon
<1>41. Opens(u, y.type, x.wire, x.type)
  BY <1>6, <1>21, OpensSelf, Zenon
<1>42. Quiet(x, z)
  BY <1>2, <1>3, QuietSame
<1>90. LocalInv(z) /\ OneWay(z, u) /\ OneWay(u, z)
  BY <1>1, <1>3, <1>20, <1>26,
     <1>40, <1>41, ZenonT(30)
     DEF Known, LocalInv, OneWay, HeldBy, Incoming, TakenFrom
<1> QED
  BY <1>2, <1>3, <1>5, <1>20, <1>90, <1>42 DEF Known, Keeps, Established, z, u, n,
     TakenFrom

\* channel_input_window_adjust: the window grows.
LEMMA TakesAdjust ==
    ASSUME Counted, NEW x, NEW y,
           Established(x, y),
           y.wire # <<>>,
           Head(y.wire).t = "adjust",
           x.type = "open"
    PROVE  Keeps(x, TakeAdjust(x, Head(y.wire).n), Took(y))
<1> DEFINE n == Head(y.wire).n
           u == Took(y)
           z == TakeAdjust(x, n)
<1>1. Known(x, y)
  BY KnownOf, Zenon
<1>2. x \in Channel /\ y \in Channel /\ x.wire \in Seq(Messages)
      /\ Len(x.wire) \in Nat
  BY <1>1 DEF Known, Typed
<1>20. TakenFrom(y, u, "adjust", n)
  BY <1>1, TakesFrom, Zenon
<1> HIDE DEF n, u
<1>21. /\ n \in Nat /\ y.type # "opening" /\ Typed(u)
       /\ Tailed(y.wire, u.wire, "adjust", n)
  BY <1>20, Zenon DEF TakenFrom
<1>26. /\ DataB(y.wire) = DataB(u.wire)
       /\ ErrB(y.wire) = ErrB(u.wire)
       /\ BothB(y.wire) = BothB(u.wire)
       /\ GrantB(y.wire) = GrantB(u.wire) + n
  BY <1>1, <1>21, ChannelConstants
     DEF Tailed, Known, Typed, StdNums, ErrNums, UsedNums
<1>3. /\ z.type = x.type /\ z.ctype = x.ctype /\ z.istate = x.istate
      /\ z.ostate = x.ostate /\ z.flags = x.flags /\ z.input = x.input
      /\ z.output = x.output /\ z.extended = x.extended /\ z.efd = x.efd
      /\ z.usage = x.usage /\ z.local_window = x.local_window
      /\ z.local_window_max = x.local_window_max
      /\ z.local_consumed = x.local_consumed
      /\ z.remote_window = x.remote_window + n /\ z.detach = x.detach
      /\ z.pid = x.pid /\ z.sel = x.sel /\ z.wire = x.wire /\ z.rd = x.rd
      /\ z.wr = x.wr /\ z.erd = x.erd /\ z.ewr = x.ewr
      /\ z.failed = x.failed /\ z.status = x.status /\ z.fatal = x.fatal
  BY <1>2 DEF Channel, TakeAdjust
<1>4. x.remote_window + n \in Nat
  <2>1. x.remote_window \in Nat
    BY <1>2 DEF Channel
  <2> QED
    BY <2>1, <1>21
<1>5. z \in Channel
  BY <1>2, <1>4, <1>21, Zenon DEF Channel, Flags, HalfStates, TakeAdjust
<1> HIDE DEF z
<1>6. /\ Opens(y, y.type, x.wire, x.type)
  BY <1>1, Zenon DEF Known, LocalInv, OneWay
<1>40. Incoming(y, z, u.wire, x.flags, x.usage, x.status)
  <2>1. MayTake(x, y, "adjust", x.flags, x.status)
    BY DEF MayTake
  <2> QED
    BY <1>1, <1>21, <2>1, Processing, Zenon
<1>41. Opens(u, y.type, x.wire, x.type)
  BY <1>6, <1>21, OpensSelf, Zenon
<1>42. Windows(x.remote_window + n, BothB(x.wire), GrantB(u.wire), y.local_window,
               x.type, y.type, y.failed)
  <2>1. /\ Windows(x.remote_window, BothB(x.wire), GrantB(u.wire) + n,
                   y.local_window, x.type, y.type, y.failed)
        /\ x.remote_window \in Nat /\ BothB(x.wire) \in Nat
        /\ GrantB(u.wire) \in Nat /\ y.local_window \in Nat
    BY <1>1, <1>21, <1>26, Zenon DEF Known, LocalInv, OneWay, Typed, UsedNums
  <2> QED
    BY <2>1, <1>21 DEF Windows
<1>43. Quiet(x, z)
  BY <1>2, <1>3, QuietSame
<1>90. LocalInv(z) /\ OneWay(z, u) /\ OneWay(u, z)
  BY <1>1, <1>3, <1>20, <1>26,
     <1>40, <1>41, <1>42, ZenonT(30)
     DEF Known, LocalInv, OneWay, HeldBy, Incoming, TakenFrom
<1> QED
  BY <1>2, <1>3, <1>5, <1>20, <1>90, <1>43, Zenon DEF Known, Keeps, Established,
     z, u, n,
     TakenFrom

\* channel_input_open_confirmation: the forwarding is open.
LEMMA TakesConfirm ==
    ASSUME Counted, NEW x, NEW y,
           Established(x, y),
           y.wire # <<>>,
           Head(y.wire).t = "confirm",
           x.type = "opening"
    PROVE  Keeps(x, TakeConfirm(x, Head(y.wire).n), Took(y))
<1> DEFINE n == Head(y.wire).n
           u == Took(y)
           z == TakeConfirm(x, n)
<1>1. Known(x, y)
  BY KnownOf, Zenon
<1>2. x \in Channel /\ y \in Channel /\ x.wire \in Seq(Messages)
      /\ Len(x.wire) \in Nat
  BY <1>1 DEF Known, Typed
<1>20. TakenFrom(y, u, "confirm", n)
  BY <1>1, TakesFrom, Zenon
<1> HIDE DEF n, u
<1>21. /\ n \in Nat /\ y.type # "opening" /\ Typed(u)
       /\ Tailed(y.wire, u.wire, "confirm", n)
  BY <1>20, Zenon DEF TakenFrom
<1>26. /\ DataB(y.wire) = DataB(u.wire)
       /\ ErrB(y.wire) = ErrB(u.wire)
       /\ BothB(y.wire) = BothB(u.wire)
       /\ GrantB(y.wire) = GrantB(u.wire) + n
  BY <1>1, <1>21, ChannelConstants
     DEF Tailed, Known, Typed, StdNums, ErrNums, UsedNums
<1>0. /\ x.remote_window = 0 /\ x.local_window = Window
         /\ x.local_window_max = Window
      /\ x.output = 0 /\ x.local_consumed = 0 /\ x.usage = "ignore"
      /\ x.failed = {}
  <2>1. Opens(x, x.type, y.wire, y.type)
    BY <1>1, Zenon DEF Known, OneWay
  <2>2. IsClient(x, "direct-tcpip", <<>>, "opening")
    BY <2>1 DEF Opens
  <2> QED
    BY <2>2 DEF IsClient, Fresh
<1>3. /\ z.type = "open" /\ z.ctype = x.ctype /\ z.istate = x.istate
      /\ z.ostate = x.ostate /\ z.flags = x.flags /\ z.input = x.input
      /\ z.output = x.output /\ z.extended = x.extended /\ z.efd = x.efd
      /\ z.usage = x.usage /\ z.local_window = x.local_window
      /\ z.local_window_max = x.local_window_max
      /\ z.local_consumed = x.local_consumed /\ z.remote_window = n
      /\ z.detach = x.detach /\ z.pid = x.pid /\ z.sel = x.sel
      /\ z.wire = x.wire /\ z.rd = x.rd /\ z.wr = x.wr /\ z.erd = x.erd
      /\ z.ewr = x.ewr /\ z.failed = x.failed /\ z.status = x.status
      /\ z.fatal = x.fatal
  BY <1>2 DEF Channel, TakeConfirm
<1>5. z \in Channel
  BY <1>2, <1>21, Zenon DEF Channel, Types, Flags, HalfStates, TakeConfirm
<1> HIDE DEF z
<1>6. /\ Stderr(x.usage, x.efd, x.extended, x.ostate, x.failed, x.type)
      /\ Program(x.pid, x.type, x.detach, x.flags, x.usage)
      /\ Freed(x.type, x.flags, x.fatal)
      /\ Opens(y, y.type, x.wire, x.type)
  BY <1>1, Zenon DEF Known, LocalInv, OneWay
<1>40. Incoming(y, z, u.wire, x.flags, x.usage, x.status)
  <2>1. MayTake(x, y, "confirm", x.flags, x.status)
    BY <1>0 DEF MayTake
  <2> QED
    BY <1>1, <1>21, <2>1, Processing, Zenon
<1>41. Stderr(x.usage, x.efd, x.extended, x.ostate, x.failed, "open")
  BY <1>6, <1>0 DEF Stderr
<1>42. Program(x.pid, "open", x.detach, x.flags, x.usage)
  BY <1>6, <1>0 DEF Program
<1>43. Freed("open", x.flags, x.fatal)
  BY <1>6, <1>0 DEF Freed
<1>44. Holding(x.local_window + x.output + x.local_consumed
               + ErrIn(x.usage, x.extended), x.local_window_max, "open", x.failed)
  <2>1. /\ Holding(HeldBy(x), x.local_window_max, x.type, x.failed)
        /\ x.local_window \in Nat /\ x.output \in Nat
        /\ x.local_consumed \in Nat /\ x.extended \in Nat
        /\ x.local_window_max \in Nat
    BY <1>1, <1>21, <1>26, Zenon DEF Known, LocalInv, OneWay, Typed, HeldNums
  <2> QED
    BY <2>1, <1>21, <1>0 DEF Holding, HeldBy, ErrIn
<1>45. Opens(u, y.type, x.wire, "open")
  BY <1>6, <1>21, OpensSelf, Zenon
<1>46. Windows(n, BothB(x.wire), GrantB(u.wire), y.local_window, "open", y.type,
               y.failed)
  <2>1. /\ Windows(x.remote_window, BothB(x.wire), GrantB(u.wire) + n,
                   y.local_window, x.type, y.type, y.failed)
        /\ x.remote_window \in Nat /\ BothB(x.wire) \in Nat
        /\ GrantB(u.wire) \in Nat /\ y.local_window \in Nat
    BY <1>1, <1>21, <1>26, Zenon DEF Known, LocalInv, OneWay, Typed, UsedNums
  <2> QED
    BY <2>1, <1>21, <1>0 DEF Windows
<1>47. Windows(y.remote_window, BothB(u.wire), GrantB(x.wire), x.local_window,
               y.type, "open", x.failed)
  <2>1. /\ Windows(y.remote_window, BothB(u.wire), GrantB(x.wire), x.local_window,
                   y.type, x.type, x.failed)
        /\ y.remote_window \in Nat /\ BothB(u.wire) \in Nat
        /\ GrantB(x.wire) \in Nat /\ x.local_window \in Nat
    BY <1>1, <1>21, <1>26, Zenon DEF Known, LocalInv, OneWay, Typed, UsedNums
  <2> QED
    BY <2>1, <1>21, <1>0 DEF Windows
<1>48. Quiet(x, z)
  BY <1>2, <1>3, QuietSame
<1>90. LocalInv(z) /\ OneWay(z, u) /\ OneWay(u, z)
  BY <1>1, <1>3, <1>20, <1>26,
     <1>40, <1>41, <1>42, <1>43, <1>44, <1>45, <1>46, <1>47, ZenonT(30)
     DEF Known, LocalInv, OneWay, HeldBy, Incoming, TakenFrom
<1> QED
  BY <1>2, <1>3, <1>5, <1>20, <1>90, <1>48, Zenon DEF Known, Keeps, Established,
     z, u, n,
     TakenFrom

-----------------------------------------------------------------------------
(* Steps one after the other.                                              *)

\* Nothing changes.
LEMMA KeepsSame ==
    ASSUME NEW x, NEW y, Established(x, y)
    PROVE  Keeps(x, x, y)
<1>1. x.wire \in Seq(Messages)
  BY DEF Established, Channel, Messages
<1>2. Len(x.wire) \in Nat
  BY <1>1
<1>3. Quiet(x, x)
  BY <1>2, QuietSame
<1> QED
  BY <1>3 DEF Keeps

\* One step after another.
LEMMA KeepsThen ==
    ASSUME NEW x, NEW z, NEW v, NEW y, NEW u, x \in Channel,
           Keeps(x, z, u), Keeps(z, v, y)
    PROVE  Keeps(x, v, y)
<1>1. /\ x.wire \in Seq(Messages) /\ z.wire \in Seq(Messages)
      /\ v.wire \in Seq(Messages)
  BY DEF Keeps, Established, Channel, Messages
<1>2. Len(x.wire) \in Nat /\ Len(z.wire) \in Nat /\ Len(v.wire) \in Nat
  BY <1>1
<1>3. Quiet(x, z) /\ Quiet(z, v)
  BY DEF Keeps
<1>4. ASSUME NEW i \in Len(x.wire) + 1 .. Len(v.wire), "eof_sent" \in x.flags
      PROVE  v.wire[i].t \notin Payload
  <2>1. CASE i \in 1..Len(z.wire)
    <3>1. i \in Len(x.wire) + 1 .. Len(z.wire) /\ v.wire[i] = z.wire[i]
      BY <1>2, <1>3, <2>1 DEF Quiet
    <3> QED
      BY <1>3, <1>4, <3>1 DEF Quiet
  <2>2. CASE i \notin 1..Len(z.wire)
    <3>1. i \in Len(z.wire) + 1 .. Len(v.wire)
      BY <1>2, <2>2
    <3> QED
      BY <1>3, <1>4, <3>1 DEF Quiet
  <2> QED
    BY <2>1, <2>2
<1>5. Len(x.wire) <= Len(v.wire)
      /\ \A i \in 1..Len(x.wire) : v.wire[i] = x.wire[i]
  BY <1>2, <1>3 DEF Quiet
<1>6. Quiet(x, v)
  BY <1>3, <1>4, <1>5 DEF Quiet
<1> QED
  BY <1>6 DEF Keeps

\* The fields that later functions look at.
LEMMA KeepsTyped ==
    ASSUME NEW x, NEW z, NEW y, Keeps(x, z, y)
    PROVE  z \in Channel /\ Established(z, y) /\ z.usage = x.usage
  BY DEF Keeps, Established

-----------------------------------------------------------------------------
(* What the functions of an iteration do to an open channel.               *)

\* chan_write_failed, for a session and for a socket.
LEMMA WriteFailed ==
    ASSUME Counted, NEW x, NEW y, Established(x, y), x.type = "open"
    PROVE  /\ Keeps(x, chan_write_failed(x), y)
           /\ chan_write_failed(x).type = "open"
           /\ chan_write_failed(x).istate = x.istate
           /\ chan_write_failed(x).sel = x.sel
           /\ chan_write_failed(x).extended = x.extended
           /\ chan_write_failed(x).pid = x.pid
           /\ chan_write_failed(x).detach = x.detach
           /\ chan_write_failed(x).efd = x.efd
<1>1. x \in Channel
  BY DEF Established
<1>2. CASE x.ostate = "closed"
  BY <1>2, KeepsSame DEF chan_write_failed
<1>3. CASE x.ostate # "closed" /\ x.ctype = "session"
  <2>1. chan_write_failed(x) = FailSession(x)
    BY <1>3 DEF chan_write_failed, FailSession, chan_shutdown_write
  <2>2. /\ FailSession(x).type = "open" /\ FailSession(x).istate = x.istate
        /\ FailSession(x).sel = x.sel /\ FailSession(x).extended = x.extended
        /\ FailSession(x).pid = x.pid /\ FailSession(x).detach = x.detach
        /\ FailSession(x).efd = x.efd
    BY <1>1 DEF FailSession, Channel, Send
  <2> QED
    BY <1>3, <2>1, <2>2, FailsSession
<1>4. CASE x.ostate # "closed" /\ x.ctype # "session"
  <2>1. chan_write_failed(x) = FailWrite(x)
    BY <1>1, <1>4 DEF chan_write_failed, FailWrite, chan_shutdown_write, Channel
  <2>2. /\ FailWrite(x).type = "open" /\ FailWrite(x).istate = x.istate
        /\ FailWrite(x).sel = x.sel /\ FailWrite(x).extended = x.extended
        /\ FailWrite(x).pid = x.pid /\ FailWrite(x).detach = x.detach
        /\ FailWrite(x).efd = x.efd
    BY <1>1 DEF FailWrite, Channel
  <2> QED
    BY <1>4, <2>1, <2>2, FailsWrite
<1> QED
  BY <1>2, <1>3, <1>4

\* channel_output_poll
LEMMA PollsOutput ==
    ASSUME Counted, NEW x, NEW y, Established(x, y), x.type = "open"
    PROVE  /\ Keeps(x, channel_output_poll(x), y)
           /\ channel_output_poll(x).type = "open"
<1> DEFINE Least(a, b) == IF a < b THEN a ELSE b
           Len3(m, win) == Least(Least(m, win), MaxPacket)
           n == Len3(x.input, x.remote_window)
           d == IF x.istate # "closed" /\ x.input > 0
                THEN IF n > 0 THEN SendData(x, n) ELSE x
                ELSE IF x.istate = "drain" /\ ~CHANNEL_EFD_INPUT_ACTIVE(x)
                     THEN chan_ibuf_empty(x) ELSE x
           k == Len3(d.extended, d.remote_window)
           z == channel_output_poll(x)
<1>1. x \in Channel
  BY DEF Established
<1>2. z = IF x.flags \cap {"close_sent", "close_rcvd"} # {} THEN x
          ELSE IF "eof_sent" \notin d.flags /\ k > 0 /\ d.usage = "read"
          THEN SendErr(d, k) ELSE d
  BY DEF channel_output_poll, SendData, SendErr
<1>3. ASSUME NEW a \in Nat, NEW b \in Nat
      PROVE  Len3(a, b) \in Nat /\ Len3(a, b) <= a /\ Len3(a, b) <= b
  BY ChannelConstants
<1> HIDE DEF z, Len3, Least
<1>4. x.input \in Nat /\ x.remote_window \in Nat
  BY <1>1 DEF Channel
<1>5. n \in Nat /\ n <= x.input /\ n <= x.remote_window
  BY <1>3, <1>4, Zenon
<1> HIDE DEF n
<1>6. ASSUME x.flags \cap {"close_sent", "close_rcvd"} = {}
      PROVE  Keeps(x, d, y) /\ d.type = "open" /\ "close_sent" \notin d.flags
  <2>1. CASE x.istate # "closed" /\ x.input > 0 /\ n > 0
    <3>1. d = SendData(x, n)
      BY <2>1
    <3>2. SendData(x, n).type = "open" /\ SendData(x, n).flags = x.flags
      BY <1>1 DEF SendData, Send, Channel
    <3>3. Keeps(x, SendData(x, n), y)
      BY <1>5, <2>1, SendsData
    <3> QED
      BY <1>6, <3>1, <3>2, <3>3
  <2>2. CASE /\ ~(x.istate # "closed" /\ x.input > 0)
             /\ x.istate = "drain" /\ ~CHANNEL_EFD_INPUT_ACTIVE(x)
    <3>1. x.input = 0 /\ x.extended \in Nat /\ x.efd \in BOOLEAN
      BY <1>1, <1>4, <2>2 DEF Channel
    <3>2. x.usage = "read" => ~x.efd /\ x.extended = 0
      BY <2>2, <3>1 DEF CHANNEL_EFD_INPUT_ACTIVE
    <3>3. d = CloseInput(x)
      BY <1>6, <2>2, <3>1 DEF chan_ibuf_empty, chan_send_eof2, CloseInput
    <3>4. /\ CloseInput(x).type = "open"
          /\ CloseInput(x).flags = x.flags \cup {"eof_sent"}
      BY <1>1 DEF CloseInput, Send, Channel
    <3>5. Keeps(x, CloseInput(x), y)
      BY <2>2, <3>1, <3>2, ClosesInput
    <3> QED
      BY <1>6, <3>3, <3>4, <3>5
  <2>3. CASE d = x
    BY <1>6, <2>3, KeepsSame
  <2> QED
    BY <2>1, <2>2, <2>3
<1> HIDE DEF d
<1>7. ASSUME x.flags \cap {"close_sent", "close_rcvd"} = {},
             "eof_sent" \notin d.flags, k > 0, d.usage = "read"
      PROVE  Keeps(x, SendErr(d, k), y) /\ SendErr(d, k).type = "open"
  <2>1. Keeps(x, d, y) /\ d.type = "open" /\ "close_sent" \notin d.flags
    BY <1>6, <1>7
  <2>2. Established(d, y) /\ d \in Channel
    BY <2>1, KeepsTyped
  <2>3. d.extended \in Nat /\ d.remote_window \in Nat
    BY <2>2 DEF Channel
  <2>4. k \in Nat /\ k <= d.extended /\ k <= d.remote_window
    BY <1>3, <2>3, Zenon
  <2>5. Keeps(d, SendErr(d, k), y)
    BY <1>7, <2>1, <2>2, <2>4, SendsErr
  <2>6. SendErr(d, k).type = "open"
    BY <2>1, <2>2 DEF SendErr, Send, Channel
  <2> QED
    BY <1>1, <2>1, <2>5, <2>6, KeepsThen
<1> QED
  BY <1>2, <1>6, <1>7, KeepsSame, SMTT(30) DEF z

\* chan_send_close2, as the garbage collector uses it: no program runs that
\* could still write.
LEMMA SendsClose2 ==
    ASSUME Counted, NEW x, NEW y, Established(x, y), x.type # "opening",
           x.pid \notin {"running", "exited", "killed"}
    PROVE  LET z == chan_send_close2(x) IN
           /\ Keeps(x, z, y)
           /\ z.type = x.type /\ z.istate = x.istate /\ z.ostate = x.ostate
           /\ z.sel = x.sel /\ z.pid = x.pid /\ z.detach = x.detach
           /\ BothClosed(x) => "close_sent" \in z.flags
<1>1. x \in Channel
  BY DEF Established
<1>2. CASE ~(BothClosed(x) /\ "close_sent" \notin x.flags)
  BY <1>2, KeepsSame DEF chan_send_close2
<1>3. CASE BothClosed(x) /\ "close_sent" \notin x.flags
  <2>1. chan_send_close2(x) = SendClose(x)
    BY <1>3 DEF chan_send_close2, SendClose
  <2>2. Freed(x.type, x.flags, x.fatal) /\ Opens(x, x.type, y.wire, y.type)
    BY Zenon DEF Established, LocalInv, OneWay
  <2>3. x.type = "open"
    BY <1>3, <2>2 DEF Freed, Opens
  <2>4. Keeps(x, SendClose(x), y)
    BY <1>3, <2>3, SendsClose DEF BothClosed
  <2>5. /\ SendClose(x).type = x.type /\ SendClose(x).istate = x.istate
        /\ SendClose(x).ostate = x.ostate /\ SendClose(x).sel = x.sel
        /\ SendClose(x).pid = x.pid /\ SendClose(x).detach = x.detach
        /\ SendClose(x).flags = x.flags \cup {"close_sent"}
    BY <1>1 DEF SendClose, Send, Channel
  <2> QED
    BY <2>1, <2>4, <2>5
<1> QED
  BY <1>2, <1>3

\* detach_user
LEMMA DetachesUser ==
    ASSUME Counted, NEW x, NEW y, Established(x, y), x.type # "opening"
    PROVE  LET z == detach_user(x) IN
           /\ Keeps(x, z, y)
           /\ z.type = x.type /\ z.istate = x.istate /\ z.sel = x.sel
<1>1. x \in Channel
  BY DEF Established
<1>2. CASE detach_user(x) = x
  BY <1>2, KeepsSame
<1>3. CASE detach_user(x) # x
  <2>1. Program(x.pid, x.type, x.detach, x.flags, x.usage)
    BY Zenon DEF Established, LocalInv
  <2>2. x.pid \notin {"running", "exited", "killed"}
    BY <1>3, <2>1 DEF Program, detach_user, session_close_by_channel
  <2>3. detach_user(x) = Detach(x)
    BY <2>2 DEF detach_user, session_close_by_channel, client_channel_closed,
       Detach
  <2>4. /\ Detach(x).type = x.type /\ Detach(x).istate = x.istate
        /\ Detach(x).sel = x.sel
    BY <1>1 DEF Detach, Channel
  <2>5. Keeps(x, Detach(x), y)
    BY <2>2, Detaches
  <2> QED
    BY <2>3, <2>4, <2>5
<1> QED
  BY <1>2, <1>3

\* A channel that selects for reading has an open input.
SelOK(x) == "rfd" \in x.sel => x.istate = "open"

\* channel_garbage_collect
LEMMA CollectsGarbage ==
    ASSUME Counted, NEW x, NEW y, Established(x, y), x.type # "opening"
    PROVE  LET z == channel_garbage_collect(x) IN
           /\ Keeps(x, z, y)
           /\ z.type # "opening"
           /\ SelOK(x) => SelOK(z)
<1> DEFINE d == chan_is_dead_effect(x, x.detach = "close")
           e == IF x.detach = "none" THEN x ELSE detach_user(d)
           f == chan_is_dead_effect(e, TRUE)
<1>1. x \in Channel
  BY DEF Established
<1>2. ASSUME NEW a, Established(a, y)
      PROVE  /\ a.pid \in {"running", "exited", "killed"} => a.detach = "wait"
             /\ a.type \in {"opening", "open", "free"}
  <2>1. /\ Program(a.pid, a.type, a.detach, a.flags, a.usage)
        /\ Opens(a, a.type, y.wire, y.type)
    BY <1>2, Zenon DEF Established, LocalInv, OneWay
  <2> QED
    BY <2>1 DEF Program, Opens
<1>3. /\ Keeps(x, d, y)
      /\ d.type = x.type /\ d.istate = x.istate /\ d.sel = x.sel
  <2>1. CASE x.detach # "close"
    BY <2>1, KeepsSame DEF chan_is_dead_effect
  <2>2. CASE x.detach = "close"
    <3>1. d = chan_send_close2(x) /\ x.pid \notin {"running", "exited", "killed"}
      BY <1>2, <2>2 DEF chan_is_dead_effect
    <3> QED
      BY <3>1, SendsClose2
  <2> QED
    BY <2>1, <2>2
<1> HIDE DEF d
<1>4. /\ Keeps(x, e, y)
      /\ e.type = x.type /\ e.istate = x.istate /\ e.sel = x.sel
  <2>1. CASE x.detach = "none"
    BY <2>1, KeepsSame
  <2>2. CASE x.detach # "none"
    <3>1. Established(d, y) /\ d.type # "opening"
      BY <1>3, KeepsTyped
    <3>2. /\ Keeps(d, detach_user(d), y)
          /\ detach_user(d).type = d.type /\ detach_user(d).istate = d.istate
          /\ detach_user(d).sel = d.sel
      BY <3>1, DetachesUser
    <3> QED
      BY <1>1, <1>3, <2>2, <3>2, KeepsThen
  <2> QED
    BY <2>1, <2>2
<1>5. channel_garbage_collect(x) =
         IF x.detach # "none" /\ ~chan_is_dead(d, x.detach = "close") THEN d
         ELSE IF e.detach # "none" THEN e
         ELSE IF chan_is_dead(f, TRUE) THEN channel_free(f) ELSE f
  BY DEF channel_garbage_collect, d
<1> HIDE DEF e
<1>6. ASSUME e.detach = "none"
      PROVE  /\ Keeps(x, f, y)
             /\ f.type = x.type /\ f.istate = x.istate /\ f.sel = x.sel
  <2>1. Established(e, y) /\ e.type # "opening"
    BY <1>4, KeepsTyped
  <2>2. e.pid \notin {"running", "exited", "killed"} /\ e.type # "zombie"
    BY <1>2, <1>6, <2>1
  <2>3. f = chan_send_close2(e)
    BY <2>2 DEF chan_is_dead_effect
  <2>4. /\ Keeps(e, f, y)
        /\ f.type = e.type /\ f.istate = e.istate /\ f.sel = e.sel
    BY <2>1, <2>2, <2>3, SendsClose2, Zenon
  <2> QED
    BY <1>1, <1>4, <2>4, KeepsThen, Zenon
<1> HIDE DEF f
<1>7. ASSUME e.detach = "none", chan_is_dead(f, TRUE)
      PROVE  /\ Keeps(x, channel_free(f), y)
             /\ channel_free(f).type = "free" /\ channel_free(f).sel = {}
  <2>1. Keeps(x, f, y) /\ Established(f, y) /\ f \in Channel /\ f.type # "opening"
    BY <1>6, <1>7, KeepsTyped
  <2>2. f.type # "zombie"
    BY <1>2, <2>1
  <2>3. BothClosed(f) /\ "close_sent" \in f.flags /\ "close_rcvd" \in f.flags
    BY <1>7, <2>2 DEF chan_is_dead
  <2>4. Keeps(f, channel_free(f), y)
    BY <2>1, <2>3, Frees DEF BothClosed
  <2>5. channel_free(f).type = "free" /\ channel_free(f).sel = {}
    BY <2>1 DEF channel_free, Channel
  <2> QED
    BY <1>1, <2>1, <2>4, <2>5, KeepsThen
<1> QED
  BY <1>3, <1>4, <1>5, <1>6, <1>7, Zenon DEF SelOK

\* channel_pre_open and the garbage collector after it.
LEMMA PreparesSelect ==
    ASSUME Counted, NEW x, NEW y, Established(x, y), x.type = "open"
    PROVE  LET z == channel_prepare_select(x) IN
           Keeps(x, z, y) /\ z.type # "opening" /\ SelOK(z)
<1> DEFINE d == IF /\ x.ostate = "drain" /\ x.output = 0
                   /\ ~CHANNEL_EFD_OUTPUT_ACTIVE(x)
                THEN chan_obuf_empty(x) ELSE x
           r == x.istate = "open" /\ x.input < x.remote_window
           w == x.ostate # "closed" /\ x.output > 0
           e == /\ d.efd /\ ~BothClosed(d)
                /\ \/ d.usage = "write" /\ d.extended > 0
                   \/ /\ d.usage # "write" /\ "eof_sent" \notin d.flags
                      /\ d.extended < d.remote_window
           S == (IF r THEN {"rfd"} ELSE {}) \cup (IF w THEN {"wfd"} ELSE {})
                \cup (IF e THEN {"efd"} ELSE {})
<1>1. x \in Channel
  BY DEF Established
<1>2. channel_prepare_select(x) = channel_garbage_collect(Select(d, S))
  BY DEF channel_prepare_select, channel_pre_open, Select
<1>3. S \in SUBSET {"rfd", "wfd", "efd"} /\ ("rfd" \in S => x.istate = "open")
  OBVIOUS
<1> HIDE DEF S
<1>4. Keeps(x, d, y) /\ d.type = "open" /\ d.istate = x.istate
  <2>1. CASE d = x
    BY <2>1, KeepsSame
  <2>2. CASE /\ x.ostate = "drain" /\ x.output = 0
             /\ ~CHANNEL_EFD_OUTPUT_ACTIVE(x)
    <3>1. x.extended \in Nat /\ x.efd \in BOOLEAN
      BY <1>1 DEF Channel
    <3>2. x.usage = "write" => ~x.efd \/ x.extended = 0
      BY <2>2, <3>1 DEF CHANNEL_EFD_OUTPUT_ACTIVE
    <3>3. d = CloseOutput(x)
      BY <1>1, <2>2 DEF chan_obuf_empty, chan_shutdown_write, CloseOutput, Channel
    <3>4. CloseOutput(x).type = "open" /\ CloseOutput(x).istate = x.istate
      BY <1>1 DEF CloseOutput, Channel
    <3>5. Keeps(x, CloseOutput(x), y)
      BY <2>2, <3>2, ClosesOutput
    <3> QED
      BY <3>3, <3>4, <3>5
  <2> QED
    BY <2>1, <2>2
<1> HIDE DEF d
<1>5. d \in Channel /\ Established(d, y)
  BY <1>4, KeepsTyped
<1>6. Keeps(d, Select(d, S), y)
  BY <1>3, <1>4, <1>5, Selects
<1>7. /\ Select(d, S).type = "open" /\ Select(d, S).istate = x.istate
      /\ Select(d, S).sel = S
  BY <1>4, <1>5 DEF Select, Channel
<1>8. SelOK(Select(d, S)) /\ Select(d, S).type # "opening"
  BY <1>3, <1>7 DEF SelOK
<1>9. Keeps(x, Select(d, S), y)
  BY <1>1, <1>4, <1>6, KeepsThen
<1> DEFINE q == Select(d, S)
<1> HIDE DEF q
<1>10. Established(q, y) /\ Keeps(x, q, y) /\ SelOK(q) /\ q.type # "opening"
  BY <1>8, <1>9, KeepsTyped DEF q
<1>11. /\ Keeps(q, channel_garbage_collect(q), y)
       /\ channel_garbage_collect(q).type # "opening"
       /\ SelOK(channel_garbage_collect(q))
  BY <1>10, CollectsGarbage
<1>12. Keeps(x, channel_garbage_collect(q), y)
  BY <1>1, <1>10, <1>11, KeepsThen
<1> QED
  BY <1>2, <1>11, <1>12 DEF q

\* collect_children: the status is sent, and the output is given up.
LEMMA CollectsChildren ==
    ASSUME Counted, NEW x, NEW y, Established(x, y), x.type # "opening", SelOK(x)
    PROVE  LET z == collect_children(x) IN
           Keeps(x, z, y) /\ z.type # "opening" /\ SelOK(z)
<1>1. x \in Channel
  BY DEF Established
<1>2. CASE x.pid \notin {"exited", "killed"}
  BY <1>2, KeepsSame DEF collect_children
<1>3. CASE x.pid \in {"exited", "killed"}
  <2>1. Program(x.pid, x.type, x.detach, x.flags, x.usage)
    BY Zenon DEF Established, LocalInv
  <2>2. x.type = "open"
    BY <1>3, <2>1 DEF Program
  <2> DEFINE t == Exiting(x)
             q0 == Reaped(x)
             a == [Send(x, Msg(t, 0)) EXCEPT !.detach = "close"]
  <2>3. collect_children(x) = [chan_write_failed(a) EXCEPT !.pid = q0]
    BY <1>3, <2>2 DEF collect_children, session_close_by_pid,
                      session_exit_message, channel_lookup, Reaped
  <2>4. Send(x, Msg(t, 0)) \in Channel /\ t \in {"exit-status", "exit-signal"}
    <3>1. t \in {"exit-status", "exit-signal"}
      BY DEF Exiting
    <3> HIDE DEF t
    <3> QED
      BY <1>1, <3>1, SendTyped
  <2>5. a \in Channel
    <3> DEFINE b == Send(x, Msg(t, 0))
    <3> HIDE DEF b
    <3>1. b \in Channel
      BY <2>4 DEF b
    <3>2. [b EXCEPT !.detach = "close"] \in Channel
      BY <3>1, Zenon DEF Channel
    <3> QED
      BY <3>2 DEF b
  <2>6. Reap(x) = [a EXCEPT !.pid = q0]
    <3> DEFINE b == Send(x, Msg(t, 0))
    <3> HIDE DEF b
    <3>1. b \in Channel
      BY <2>4 DEF b
    <3>2. [b EXCEPT !.detach = "close", !.pid = q0]
             = [[b EXCEPT !.detach = "close"] EXCEPT !.pid = q0]
      BY <3>1 DEF Channel
    <3> QED
      BY <3>2 DEF Reap, b
  <2> HIDE DEF a, q0
  <2>7. [chan_write_failed(a) EXCEPT !.pid = q0]
           = chan_write_failed([a EXCEPT !.pid = q0])
    BY <2>5, ZenonT(40) DEF chan_write_failed, chan_shutdown_write, Send, Channel
  <2>8. collect_children(x) = chan_write_failed(Reap(x))
    BY <2>3, <2>6, <2>7
  <2>9. Keeps(x, Reap(x), y)
    BY <1>3, <2>2, Reaps
  <2>10. /\ Reap(x).type = "open" /\ Reap(x).sel = x.sel
         /\ Reap(x).istate = x.istate
    BY <1>1, <2>2 DEF Reap, Send, Channel
  <2>11. Established(Reap(x), y)
    BY <2>9, KeepsTyped
  <2> DEFINE q == Reap(x)
  <2> HIDE DEF q
  <2>12. /\ Established(q, y) /\ q.type = "open" /\ q.sel = x.sel
         /\ q.istate = x.istate /\ Keeps(x, q, y)
    BY <2>9, <2>10, <2>11 DEF q
  <2>13. /\ Keeps(q, chan_write_failed(q), y)
         /\ chan_write_failed(q).type = "open"
         /\ chan_write_failed(q).istate = q.istate
         /\ chan_write_failed(q).sel = q.sel
    BY <2>12, WriteFailed
  <2>14. Keeps(x, chan_write_failed(q), y)
    BY <1>1, <2>12, <2>13, KeepsThen, SMTT(30)
  <2> QED
    BY <2>8, <2>12, <2>13, <2>14 DEF SelOK, q
<1> QED
  BY <1>2, <1>3

\* channel_handle_rfd
LEMMA HandlesRfd ==
    ASSUME Counted, NEW x, NEW y, Established(x, y), x.type = "open", SelOK(x),
           NEW r \in Int, r >= Ended, "rfd" \in x.sel \/ r = Again
    PROVE  LET z == channel_handle_rfd(x, r) IN
           /\ Keeps(x, z, y) /\ z.type = "open" /\ z.sel = x.sel
           /\ z.output = x.output /\ z.extended = x.extended
<1>1. x \in Channel
  BY DEF Established
<1>2. CASE "rfd" \notin x.sel
  BY <1>2, KeepsSame DEF channel_handle_rfd
<1>3. CASE "rfd" \in x.sel /\ r = Ended
  <2>1. channel_handle_rfd(x, r) = EndRead(x) /\ x.istate = "open"
    BY <1>3 DEF channel_handle_rfd, chan_read_failed, EndRead, SelOK
  <2>2. /\ EndRead(x).type = "open" /\ EndRead(x).sel = x.sel
        /\ EndRead(x).output = x.output /\ EndRead(x).extended = x.extended
    BY <1>1 DEF EndRead, Channel
  <2> QED
    BY <2>1, <2>2, EndsRead
<1>4. CASE "rfd" \in x.sel /\ r # Ended
  <2>1. channel_handle_rfd(x, r) = Read(x, r) /\ x.istate = "open" /\ r \in Nat
    BY <1>4 DEF channel_handle_rfd, Read, SelOK, Ended
  <2>2. /\ Read(x, r).type = "open" /\ Read(x, r).sel = x.sel
        /\ Read(x, r).output = x.output /\ Read(x, r).extended = x.extended
    BY <1>1 DEF Read, Channel
  <2> QED
    BY <2>1, <2>2, Reads
<1> QED
  BY <1>2, <1>3, <1>4

\* channel_handle_wfd
LEMMA HandlesWfd ==
    ASSUME Counted, NEW x, NEW y, Established(x, y), x.type = "open",
           NEW w \in Int, w >= Ended, "wfd" \in x.sel => w <= x.output
    PROVE  LET z == channel_handle_wfd(x, w) IN
           /\ Keeps(x, z, y) /\ z.type = "open" /\ z.sel = x.sel
           /\ z.extended = x.extended
<1>1. x \in Channel
  BY DEF Established
<1>2. CASE "wfd" \notin x.sel \/ x.output = 0
  BY <1>2, KeepsSame DEF channel_handle_wfd
<1>3. CASE ~("wfd" \notin x.sel \/ x.output = 0) /\ w = Ended
  <2>1. channel_handle_wfd(x, w) = chan_write_failed(x)
    BY <1>3 DEF channel_handle_wfd
  <2> QED
    BY <2>1, WriteFailed
<1>4. CASE ~("wfd" \notin x.sel \/ x.output = 0) /\ w # Ended
  <2>1. channel_handle_wfd(x, w) = Write(x, w) /\ w \in Nat /\ w <= x.output
    BY <1>4 DEF channel_handle_wfd, Write, Ended
  <2>2. /\ Write(x, w).type = "open" /\ Write(x, w).sel = x.sel
        /\ Write(x, w).extended = x.extended
    BY <1>1 DEF Write, Channel
  <2> QED
    BY <2>1, <2>2, Writes
<1> QED
  BY <1>2, <1>3, <1>4

\* channel_handle_efd
LEMMA HandlesEfd ==
    ASSUME Counted, NEW x, NEW y, Established(x, y), x.type = "open",
           NEW e \in Int, e >= Ended,
           x.usage = "write" /\ "efd" \in x.sel => e <= x.extended
    PROVE  LET z == channel_handle_efd(x, e) IN
           Keeps(x, z, y) /\ z.type = "open"
<1>1. x \in Channel
  BY DEF Established
<1>2. CASE x.efd /\ x.usage = "write" /\ "efd" \in x.sel /\ x.extended > 0
  <2>1. CASE e = Ended
    <3>1. channel_handle_efd(x, e) = FailErr(x)
      BY <1>2, <2>1 DEF channel_handle_efd, FailErr
    <3>2. FailErr(x).type = "open"
      BY <1>1 DEF FailErr, Channel
    <3> QED
      BY <1>2, <3>1, <3>2, FailsErr
  <2>2. CASE e # Ended
    <3>1. channel_handle_efd(x, e) = WriteErr(x, e)
      BY <1>2, <2>2 DEF channel_handle_efd, WriteErr
    <3>2. WriteErr(x, e).type = "open"
      BY <1>1 DEF WriteErr, Channel
    <3>3. e \in Nat /\ e <= x.extended
      BY <1>2, <2>2 DEF Ended
    <3> QED
      BY <1>2, <3>1, <3>2, <3>3, WritesErr
  <2> QED
    BY <2>1, <2>2
<1>3. CASE x.efd /\ x.usage = "read" /\ ("efd" \in x.sel \/ x.detach = "close")
  <2>1. CASE e = Ended \/ (e = Again /\ x.detach = "close")
    <3>1. channel_handle_efd(x, e) = EndErr(x)
      BY <1>3, <2>1 DEF channel_handle_efd, EndErr
    <3>2. EndErr(x).type = "open"
      BY <1>1 DEF EndErr, Channel
    <3> QED
      BY <1>3, <3>1, <3>2, EndsErr
  <2>2. CASE ~(e = Ended \/ (e = Again /\ x.detach = "close"))
    <3>1. channel_handle_efd(x, e) = ReadErr(x, e)
      BY <1>3, <2>2 DEF channel_handle_efd, ReadErr
    <3>2. ReadErr(x, e).type = "open"
      BY <1>1 DEF ReadErr, Channel
    <3>3. e \in Nat
      BY <2>2 DEF Ended
    <3>4. x.efd = TRUE
      BY <1>1, <1>3 DEF Channel
    <3> QED
      BY <1>3, <3>1, <3>2, <3>3, <3>4, ReadsErr, Zenon
  <2> QED
    BY <2>1, <2>2
<1>4. CASE /\ ~(x.efd /\ x.usage = "write" /\ "efd" \in x.sel /\ x.extended > 0)
           /\ ~(x.efd /\ x.usage = "read"
                /\ ("efd" \in x.sel \/ x.detach = "close"))
  <2>1. channel_handle_efd(x, e) = x
    BY <1>4 DEF channel_handle_efd
  <2> QED
    BY <2>1, KeepsSame
<1> QED
  BY <1>2, <1>3, <1>4

\* channel_check_window
LEMMA ChecksWindow ==
    ASSUME Counted, NEW x, NEW y, Established(x, y), x.type = "open"
    PROVE  LET z == channel_check_window(x) IN
           Keeps(x, z, y) /\ z.type = "open"
<1>1. x \in Channel
  BY DEF Established
<1>2. CASE channel_check_window(x) = x
  BY <1>2, KeepsSame
<1>3. CASE channel_check_window(x) # x
  <2>1. channel_check_window(x) = Adjust(x) /\ "close_sent" \notin x.flags
    BY <1>3 DEF channel_check_window, Adjust
  <2>2. Adjust(x).type = "open"
    BY <1>1 DEF Adjust, Send, Channel
  <2> QED
    BY <2>1, <2>2, Adjusts
<1> QED
  BY <1>2, <1>3

\* channel_post_open
LEMMA HandlesOpen ==
    ASSUME Counted, NEW p, NEW x, NEW y, Established(x, y), x.type = "open",
           SelOK(x),
           NEW r \in Readable(p, x), NEW w \in Writable(x), NEW e \in ErrReady(x)
    PROVE  LET z == channel_post_open(x, r, w, e) IN
           Keeps(x, z, y) /\ z.type = "open"
<1>1. x \in Channel
  BY DEF Established
<1>2. x.output \in Nat /\ x.extended \in Nat
  BY <1>1 DEF Channel
<1>3. r \in Int /\ r >= Ended /\ ("rfd" \in x.sel \/ r = Again)
  BY ChannelConstants DEF Readable, Ended, Again
<1>4. w \in Int /\ w >= Ended /\ ("wfd" \in x.sel => w <= x.output)
  BY <1>2 DEF Writable, Ended, Again
<1>5. e \in Int /\ e >= Ended
  BY <1>2 DEF ErrReady, Ended, Again
<1>6. x.usage = "write" /\ "efd" \in x.sel => e <= x.extended
  BY <1>2 DEF ErrReady, Ended
<1> DEFINE a == channel_handle_rfd(x, r)
           b == channel_handle_wfd(a, w)
           c == channel_handle_efd(b, e)
           d == channel_check_window(c)
<1>7. /\ Keeps(x, a, y) /\ a.type = "open" /\ a.sel = x.sel
      /\ a.output = x.output /\ a.extended = x.extended
  BY <1>3, HandlesRfd
<1> HIDE DEF a
<1>8. Established(a, y) /\ a.usage = x.usage
  BY <1>7, KeepsTyped
<1>9. /\ Keeps(a, b, y) /\ b.type = "open" /\ b.sel = a.sel
      /\ b.extended = a.extended
  BY <1>4, <1>7, <1>8, HandlesWfd
<1> HIDE DEF b
<1>10. Keeps(x, b, y) /\ Established(b, y) /\ b.usage = x.usage
  BY <1>1, <1>7, <1>9, KeepsThen, KeepsTyped, SMTT(30)
<1>11. Keeps(b, c, y) /\ c.type = "open"
  BY <1>5, <1>6, <1>7, <1>9, <1>10, HandlesEfd, SMTT(30)
<1> HIDE DEF c
<1>12. Keeps(x, c, y) /\ Established(c, y)
  BY <1>1, <1>10, <1>11, KeepsThen, KeepsTyped
<1>13. Keeps(c, d, y) /\ d.type = "open"
  BY <1>11, <1>12, ChecksWindow
<1>14. channel_post_open(x, r, w, e) = d
  BY DEF channel_post_open, a, b, c
<1> HIDE DEF d
<1> QED
  BY <1>1, <1>12, <1>13, <1>14, KeepsThen

\* channel_after_select
LEMMA HandlesSelect ==
    ASSUME Counted, NEW p, NEW x, NEW y, Established(x, y), x.type # "opening",
           SelOK(x),
           NEW r \in Readable(p, x), NEW w \in Writable(x), NEW e \in ErrReady(x)
    PROVE  LET z == channel_after_select(x, r, w, e) IN
           Keeps(x, z, y) /\ z.sel = {}
<1> DEFINE d == IF x.type = "open" THEN channel_post_open(x, r, w, e) ELSE x
           f == channel_garbage_collect(d)
<1>1. x \in Channel
  BY DEF Established
<1>2. Opens(x, x.type, y.wire, y.type)
  BY Zenon DEF Established, OneWay
<1>3. x.type = "open" \/ x.type = "free"
  BY <1>2 DEF Opens
<1>4. channel_after_select(x, r, w, e) = Select(f, {})
  BY <1>3 DEF channel_after_select, Select
<1>5. Keeps(x, d, y) /\ d.type # "opening"
  <2>1. CASE x.type = "open"
    BY <2>1, HandlesOpen
  <2>2. CASE x.type # "open"
    BY <2>2, KeepsSame
  <2> QED
    BY <2>1, <2>2
<1> HIDE DEF d
<1>6. Established(d, y)
  BY <1>5, KeepsTyped
<1>7. Keeps(d, f, y) /\ f.type # "opening"
  BY <1>5, <1>6, CollectsGarbage
<1> HIDE DEF f
<1>8. Keeps(x, f, y) /\ Established(f, y) /\ f \in Channel
  BY <1>1, <1>5, <1>7, KeepsThen, KeepsTyped
<1>9. Keeps(f, Select(f, {}), y)
  BY <1>7, <1>8, Selects
<1>10. Select(f, {}).sel = {}
  BY <1>8 DEF Select, Channel
<1> QED
  BY <1>1, <1>4, <1>8, <1>9, <1>10, KeepsThen

\* An iteration of the loop with an open channel.
LEMMA Iterates ==
    ASSUME Counted, NEW p, NEW x, NEW y, Established(x, y), x.type = "open",
           NEW poll \in BOOLEAN, NEW c,
           c = collect_children(channel_prepare_select(
                  IF poll THEN channel_output_poll(x) ELSE x)),
           NEW r \in Readable(p, c), NEW w \in Writable(c), NEW e \in ErrReady(c)
    PROVE  LET z == channel_after_select(c, r, w, e) IN
           Keeps(x, z, y) /\ z.sel = {}
<1> DEFINE a == IF poll THEN channel_output_poll(x) ELSE x
           b == channel_prepare_select(a)
           z == channel_after_select(c, r, w, e)
<1>1. x \in Channel
  BY DEF Established
<1>2. Keeps(x, a, y) /\ a.type = "open"
  <2>1. CASE poll
    BY <2>1, PollsOutput
  <2>2. CASE ~poll
    BY <2>2, KeepsSame
  <2> QED
    BY <2>1, <2>2
<1>3. c = collect_children(b)
  OBVIOUS
<1> HIDE DEF a
<1>4. Established(a, y)
  BY <1>2, KeepsTyped
<1>5. Keeps(a, b, y) /\ b.type # "opening" /\ SelOK(b)
  BY <1>2, <1>4, PreparesSelect
<1> HIDE DEF b
<1>6. Keeps(x, b, y) /\ Established(b, y)
  BY <1>1, <1>2, <1>5, KeepsThen, KeepsTyped
<1>7. Keeps(b, c, y) /\ c.type # "opening" /\ SelOK(c)
  BY <1>3, <1>5, <1>6, CollectsChildren
<1>8. Keeps(x, c, y) /\ Established(c, y)
  BY <1>1, <1>6, <1>7, KeepsThen, KeepsTyped, SMTT(30)
<1>9. Keeps(c, z, y) /\ z.sel = {}
  BY <1>7, <1>8, HandlesSelect, SMTT(30)
<1> HIDE DEF z
<1>10. Keeps(x, z, y)
  BY <1>1, <1>8, <1>9, KeepsThen
<1> QED
  BY <1>9, <1>10 DEF z
=============================================================================
