------------------------------ MODULE SshAuth ------------------------------
(***************************************************************************)
(* User authentication in the server of openssh-6.4p1 with privilege       *)
(* separation: the unprivileged child talks to the client (auth2.c and the *)
(* methods) and asks the monitor (monitor.c) for each decision.  Both keep *)
(* an Authctxt of their own and must come to the same conclusion.  Default *)
(* build: no PAM, GSSAPI or other device, hence no keyboard-interactive.   *)
(*                                                                         *)
(* A request to the monitor is a call: the child waits for the answer, and *)
(* what the monitor does after answering touches only its own state.  The  *)
(* treatment of one message of the client is therefore one step.  s holds  *)
(* the two processes and, while a message is treated, the last answer of   *)
(* the monitor (ans) and the result of the method (auth).                  *)
(***************************************************************************)
EXTENDS Integers, Sequences, FiniteSetsExt

CONSTANTS
    Configs,    \* the configurations: records as in Options
    Users,      \* the user names that clients give
    Keys,       \* the public keys that clients have
    MaxTries    \* options.max_authtries

VARIABLES
    options,    \* the configuration of this server
    s           \* the child (net), the monitor (mon), ans and auth

Methods == {"none", "publickey", "password", "keyboard-interactive", "hostbased"}
Requests == {"SIGN", "PWNAM", "AUTHSERV", "AUTHPASSWORD", "KEYALLOWED", "KEYVERIFY"}
Services == {"ssh-connection", "other"}
RootLogin == {"yes", "without-password", "forced-commands-only", "no"}

\* authorized[u][k]: is the key listed for the user, with a command or not.
Options ==
    [enabled: SUBSET Methods, permit_empty: BOOLEAN, permit_root: RootLogin,
     auth_methods: Seq(Seq(Methods)), accounts: SUBSET Users, root: Users,
     authorized: [Users -> [Keys -> {"no", "plain", "forced"}]]]

\* Every option has its type; an empty list of methods is refused when the
\* configuration is read (servconf.c).
ASSUME AuthConstants ==
    /\ MaxTries \in Nat
    /\ \A o \in Configs :
          /\ o \in Options
          /\ \A i \in DOMAIN o.auth_methods : o.auth_methods[i] # <<>>

Configured == options.auth_methods # <<>>

-----------------------------------------------------------------------------
(* AuthenticationMethods (auth2.c).  A list is a sequence of methods.      *)

list_starts_with(list, m) == list # <<>> /\ Head(list) = m

auth2_method_allowed(lists, m) ==
    Configured => \E i \in DOMAIN lists : list_starts_with(lists[i], m)

\* A list with a disabled method is dropped: an empty one is left in its
\* place, which no method starts.
auth2_methods_valid(list) == Range(list) \subseteq options.enabled
auth2_setup_methods_lists ==
    [i \in DOMAIN options.auth_methods |->
        IF auth2_methods_valid(options.auth_methods[i])
        THEN options.auth_methods[i] ELSE <<>>]
NoList(lists) == \A i \in DOMAIN lists : lists[i] = <<>>

\* Variant: the first list that starts with the method is enough.
FirstListEnough(lists, m) ==
    LET hits == {i \in DOMAIN lists : list_starts_with(lists[i], m)} IN
    [lists |-> lists, found |-> hits # {}, done |-> hits # {}]

\* The method is removed from the front of each list, up to and with the
\* first list that is complete.
auth2_update_methods_lists(lists, m) ==
    LET hits == {i \in DOMAIN lists : list_starts_with(lists[i], m)}
        complete == {i \in hits : Len(lists[i]) = 1}
        last == IF complete = {} THEN Len(lists) ELSE Min(complete)
    IN  [lists |-> [i \in DOMAIN lists |-> IF i \in hits /\ i <= last
                                           THEN Tail(lists[i]) ELSE lists[i]],
         found |-> hits # {}, done |-> complete # {}]

auth_root_allowed(method, forced) ==
    CASE options.permit_root = "yes" -> TRUE
      [] options.permit_root = "without-password" -> method # "password"
      [] options.permit_root = "forced-commands-only" -> forced
      [] OTHER -> FALSE

-----------------------------------------------------------------------------
(* The monitor.                                                            *)

MON_ONCE == {"SIGN", "PWNAM", "AUTHSERV"}
MON_AUTH == {"AUTHPASSWORD", "KEYALLOWED", "KEYVERIFY"}
MON_AUTHDECIDE == {"AUTHPASSWORD", "KEYVERIFY"}

Fatal(t, why) == [t EXCEPT !.mon.phase = "dead", !.mon.fatal = why]
Answer(t, ok) == [t EXCEPT !.ans = [sent |-> TRUE, ok |-> ok,
                                    forced |-> t.mon.forced]]
monitor_permit(t, requests) == [t EXCEPT !.mon.permit = @ \cup requests]

\* A handler returns the state and what the C function returns.
Ret(t, ret) == [s |-> t, ret |-> ret]

\* The signature of the key exchange, before which no user is looked up.
mm_answer_sign(t) == Ret(monitor_permit(Answer(t, TRUE), {"PWNAM"}), FALSE)

getpwnamallow(user) == user \in options.accounts

\* Variant: the monitor does not set up its lists.
ListsNotSetUp(t, user) ==
    LET u == [t EXCEPT !.mon.attempt = 1, !.mon.user = user,
                       !.mon.valid = getpwnamallow(user)]
    IN  IF t.mon.attempt # 0 THEN Ret(Fatal(t, "multiple attempts"), FALSE)
        ELSE Ret(monitor_permit(Answer(u, getpwnamallow(user)), {"AUTHSERV"}), FALSE)

mm_answer_pwnamallow(t, user) ==
    LET u == [t EXCEPT !.mon.attempt = 1, !.mon.user = user,
                       !.mon.valid = getpwnamallow(user),
                       !.mon.lists = auth2_setup_methods_lists]
    IN  IF t.mon.attempt # 0 THEN Ret(Fatal(t, "multiple attempts"), FALSE)
        ELSE Ret(monitor_permit(Answer(u, getpwnamallow(user)), {"AUTHSERV"}), FALSE)

mm_answer_authserv(t) == Ret(monitor_permit(t, MON_AUTH), FALSE)

\* r: is the password empty, is it the right one.  Root may use a password
\* only with PermitRootLogin yes.
auth_password(t, r) ==
    /\ t.mon.valid
    /\ t.mon.user = options.root => options.permit_root = "yes"
    /\ r.empty => options.permit_empty
    /\ r.good

\* The first call with an empty password counts as the method "none".
mm_answer_authpassword(t, r) ==
    LET ok == "password" \in options.enabled /\ auth_password(t, r)
        u == [Answer(t, ok) EXCEPT
                 !.mon.method = IF r.empty /\ t.mon.calls = 0
                                THEN "none" ELSE "password",
                 !.mon.calls = 1]
    IN  Ret(u, ok)

\* Is the key listed; with it comes the forced command.
user_key_allowed(t, k) == options.authorized[t.mon.user][k] # "no"

monitor_reset_key_state(t) == [t EXCEPT !.mon.key = <<>>]

\* r: the type of the key, the key, and for a host key whether the files of
\* this host list it.
mm_answer_keyallowed(t, r) ==
    LET allowed == /\ t.mon.valid /\ r.type \in options.enabled
                   /\ IF r.type = "publickey" THEN user_key_allowed(t, r.key)
                                              ELSE r.listed
        forced == IF t.mon.valid /\ r.type = "publickey" /\ r.type \in options.enabled
                  THEN allowed /\ options.authorized[t.mon.user][r.key] = "forced"
                  ELSE t.mon.forced
        u == [monitor_reset_key_state(t) EXCEPT
                 !.mon.forced = forced,
                 !.mon.key = IF allowed THEN <<r.type, r.key>> ELSE @]
    IN  Ret(Answer(u, allowed), FALSE)

monitor_allowed_key(t, k) == t.mon.key # <<>> /\ t.mon.key[2] = k

\* r: the key, the user name in the signed data, is the signature good.
mm_answer_keyverify(t, r) ==
    LET u == [t EXCEPT !.mon.method = t.mon.key[1]]
    IN  IF ~monitor_allowed_key(t, r.key) THEN Ret(Fatal(t, "bad key"), FALSE)
        ELSE IF r.user # t.mon.user THEN Ret(Fatal(t, "bad data blob"), FALSE)
        ELSE Ret(Answer(monitor_reset_key_state(u), r.good), r.good)

Handler(t, type, r) ==
    CASE type = "SIGN" -> mm_answer_sign(t)
      [] type = "PWNAM" -> mm_answer_pwnamallow(t, r)
      [] type = "AUTHSERV" -> mm_answer_authserv(t)
      [] type = "AUTHPASSWORD" -> mm_answer_authpassword(t, r)
      [] type = "KEYALLOWED" -> mm_answer_keyallowed(t, r)
      [] type = "KEYVERIFY" -> mm_answer_keyverify(t, r)

\* The rest of the loop in monitor_child_preauth, after a request that
\* returned ret.  proved and refused are history: what was verified, and how
\* often something was not.
monitor_child_preauth(t, type, ret) ==
    LET method == t.mon.method
        upd == auth2_update_methods_lists(t.mon.lists, method)
        done == ret /\ (Configured => upd.done)
        root == /\ t.mon.user = options.root
                /\ ~auth_root_allowed(method, t.mon.forced)
        u == [t EXCEPT
                 !.mon.lists = IF ret /\ Configured THEN upd.lists ELSE @,
                 !.mon.proved = IF ret THEN Append(@, IF type = "AUTHPASSWORD"
                                                      THEN "password" ELSE method)
                                ELSE @,
                 !.mon.refused = IF type \in MON_AUTHDECIDE /\ ~ret
                                 THEN @ + 1 ELSE @]
    IN  CASE ret /\ Configured /\ ~upd.found -> Fatal(t, "method not in lists")
          [] done /\ type \notin MON_AUTHDECIDE -> Fatal(t, "unexpected")
          [] done /\ ~root /\ ~t.mon.valid -> Fatal(t, "invalid user")
          [] done /\ ~root /\ method = "unknown" -> Fatal(t, "unknown method")
          [] done /\ ~root -> [u EXCEPT !.mon.phase = "keystate"]
          [] OTHER -> u

\* One request.  After authentication the monitor expects the key state.
monitor_read(t, type, r) ==
    LET h == Handler([t EXCEPT !.mon.method = "unknown"], type, r)
        u == [h.s EXCEPT !.mon.permit = @ \ (MON_ONCE \cap {type})]
    IN  CASE t.mon.phase # "loop" -> Fatal(t, "unexpected type")
          [] t.mon.phase = "loop" /\ type \notin t.mon.permit -> Fatal(t, "unpermitted")
          [] OTHER -> IF u.mon.phase = "dead" THEN u
                      ELSE monitor_child_preauth(u, type, h.ret)

-----------------------------------------------------------------------------
(* The child.  It dies when it waits for an answer that does not come.     *)

Alive(t) == t.net.state = "run"
packet_disconnect(t) == [t EXCEPT !.net.state = "dead"]

mm_request_send(t, type, r) ==
    IF ~Alive(t) THEN t
    ELSE IF t.mon.phase = "dead" THEN packet_disconnect(t)
    ELSE monitor_read([t EXCEPT !.ans.sent = FALSE], type, r)
mm_request_receive_expect(t) ==
    IF t.ans.sent THEN t ELSE packet_disconnect(t)
Call(t, type, r) == mm_request_receive_expect(mm_request_send(t, type, r))

Result(t, ok) == [t EXCEPT !.auth = ok]

mm_auth_password(t, empty, good) ==
    LET u == Call(t, "AUTHPASSWORD", [empty |-> empty, good |-> good])
    IN  Result(u, u.ans.ok)

mm_key_allowed(t, type, r) ==
    LET u == Call(t, "KEYALLOWED",
                  [type |-> type, key |-> r.key, listed |-> r.listed])
    IN  Result([u EXCEPT !.net.forced = u.ans.forced], u.ans.ok)

mm_key_verify(t, r) ==
    LET u == Call(t, "KEYVERIFY",
                  [key |-> r.key, user |-> t.net.user, good |-> r.good])
    IN  Result(u, u.ans.ok)

\* The methods.
userauth_none(t, r) ==
    LET u == [t EXCEPT !.net.none_enabled = FALSE]
    IN  IF options.permit_empty /\ "password" \in options.enabled
        THEN mm_auth_password(u, TRUE, r.good) ELSE Result(u, FALSE)

userauth_passwd(t, r) ==
    IF r.change THEN Result(t, FALSE) ELSE mm_auth_password(t, r.empty, r.good)

\* No device, so that auth2_challenge_start fails at once.
userauth_kbdint(t, r) == Result(t, FALSE)

\* Variant: the signature is verified whether or not the key is allowed.
VerifiesFirst(t, type, r) == mm_key_verify(mm_key_allowed(t, type, r), r)

AllowedAndVerified(t, type, r) ==
    LET u == mm_key_allowed(t, type, r)
    IN  IF u.auth /\ Alive(u) THEN mm_key_verify(u, r) ELSE u

\* Without a signature the client only asks whether the key would do.
userauth_pubkey(t, r) ==
    LET u == IF r.have_sig THEN AllowedAndVerified(t, "publickey", r)
             ELSE LET q == mm_key_allowed(t, "publickey", r)
                  IN  [q EXCEPT !.net.postponed = q.auth, !.auth = FALSE]
    IN  IF ~t.net.valid \/ ~r.decoded THEN Result(t, FALSE)
        ELSE [u EXCEPT !.net.forced = @ /\ u.auth]

userauth_hostbased(t, r) ==
    IF ~t.net.valid \/ ~r.decoded THEN Result(t, FALSE)
    ELSE AllowedAndVerified(t, "hostbased", r)

Enabled(t, m) == IF m = "none" THEN t.net.none_enabled ELSE m \in options.enabled

authmethod_lookup(t, m) == Enabled(t, m) /\ auth2_method_allowed(t.net.lists, m)

\* Variant: a failure is counted only for the method "password".
CountsPasswords(t, method) ==
    LET n == IF method = "password" THEN t.net.failures + 1 ELSE t.net.failures
    IN  IF n >= MaxTries THEN packet_disconnect(t)
        ELSE [t EXCEPT !.net.failures = n]

\* The first try of "none" is free.
Failure(t, method) ==
    LET n == IF t.net.attempt > 1 \/ method # "none"
             THEN t.net.failures + 1 ELSE t.net.failures
    IN  IF n >= MaxTries THEN packet_disconnect(t)
        ELSE [t EXCEPT !.net.failures = n]

\* Variant: the child leaves root to the monitor.
RootUnchecked(t, method) ==
    LET upd == auth2_update_methods_lists(t.net.lists, method)
        u == [t EXCEPT !.net.lists = IF t.auth /\ Configured THEN upd.lists ELSE @]
    IN  CASE ~Alive(t) -> t
          [] Alive(t) /\ t.auth /\ ~t.net.valid -> packet_disconnect(t)
          [] OTHER -> IF t.net.postponed THEN u
                      ELSE IF t.auth /\ (Configured => upd.done)
                      THEN [u EXCEPT !.net.state = "success"]
                      ELSE Failure(u, method)

userauth_finish(t, method) ==
    LET upd == auth2_update_methods_lists(t.net.lists, method)
        ok == /\ t.auth
              /\ \/ t.net.user # options.root
                 \/ auth_root_allowed(method, t.net.forced)
        u == [t EXCEPT !.net.lists = IF ok /\ Configured THEN upd.lists ELSE @]
    IN  CASE ~Alive(t) -> t
          [] Alive(t) /\ t.auth /\ ~t.net.valid -> packet_disconnect(t)
          [] Alive(t) /\ ok /\ Configured /\ ~upd.found -> packet_disconnect(t)
          [] OTHER -> IF t.net.postponed THEN u
                      ELSE IF ok /\ (Configured => upd.done)
                      THEN [u EXCEPT !.net.state = "success"]
                      ELSE Failure(u, method)

\* The first request sets up the context in both processes.
SetUp(t, r) ==
    LET u == Call(t, "PWNAM", r.user)
        v == [u EXCEPT !.net.user = r.user, !.net.service = r.service,
                       !.net.valid = u.ans.ok /\ r.service = "ssh-connection",
                       !.net.lists = auth2_setup_methods_lists]
        w == mm_request_send(v, "AUTHSERV", r.service)
    IN  IF Alive(w) /\ Configured /\ NoList(w.net.lists)
        THEN packet_disconnect(w) ELSE w

Userauth(t, r) ==
    CASE r.method = "none" -> userauth_none(t, r)
      [] r.method = "password" -> userauth_passwd(t, r)
      [] r.method = "publickey" -> userauth_pubkey(t, r)
      [] r.method = "hostbased" -> userauth_hostbased(t, r)
      [] OTHER -> userauth_kbdint(t, r)

input_userauth_request(t, r) ==
    LET u == IF t.net.attempt = 0 THEN SetUp(t, r)
             ELSE IF r.user # t.net.user \/ r.service # t.net.service
             THEN packet_disconnect(t) ELSE t
        v == [u EXCEPT !.net.postponed = FALSE, !.auth = FALSE,
                       !.net.attempt = IF @ < 2 THEN @ + 1 ELSE @]
        w == IF authmethod_lookup(v, r.method) /\ v.net.failures < MaxTries
             THEN Userauth(v, r) ELSE v
    IN  IF Alive(v) THEN userauth_finish(w, r.method) ELSE v

-----------------------------------------------------------------------------
(* The steps.                                                              *)

\* Between two messages the answer and the result are not used any more, and
\* the monitor's loop starts with the method "unknown".
NoAnswer == [sent |-> FALSE, ok |-> FALSE, forced |-> FALSE]
Settled(t) == [t EXCEPT !.ans = NoAnswer, !.auth = FALSE, !.mon.method = "unknown"]

Net0 == [state |-> "run", keyed |-> FALSE, dispatch |-> FALSE, attempt |-> 0,
         user |-> CHOOSE u \in Users : TRUE, service |-> "ssh-connection",
         valid |-> FALSE, lists |-> <<>>, failures |-> 0, none_enabled |-> TRUE,
         forced |-> FALSE, postponed |-> FALSE]
Mon0 == [phase |-> "loop", permit |-> {"SIGN"}, attempt |-> 0,
         user |-> CHOOSE u \in Users : TRUE, valid |-> FALSE, lists |-> <<>>,
         calls |-> 0, key |-> <<>>, forced |-> FALSE, method |-> "unknown",
         fatal |-> "", proved |-> <<>>, refused |-> 0]

Init ==
    /\ options \in Configs
    /\ s = [net |-> Net0, mon |-> Mon0, ans |-> NoAnswer, auth |-> FALSE]

\* What a client can send in a request.  good: the password is the user's, or
\* the signature is good; decoded: the key blob is one; listed: a host key is
\* known here.
Blank == [user |-> CHOOSE u \in Users : TRUE, service |-> "ssh-connection",
          method |-> "keyboard-interactive", empty |-> FALSE, good |-> FALSE,
          change |-> FALSE, key |-> CHOOSE k \in Keys : TRUE, have_sig |-> TRUE,
          decoded |-> TRUE, listed |-> TRUE]
Credentials ==
    {Blank}
    \cup {[Blank EXCEPT !.method = "none", !.good = g] : g \in BOOLEAN}
    \cup {[Blank EXCEPT !.method = "password", !.empty = e, !.good = g,
                        !.change = c] : e, g, c \in BOOLEAN}
    \cup {[Blank EXCEPT !.method = "publickey", !.key = k, !.have_sig = h,
                        !.good = g, !.decoded = d] :
              k \in Keys, h, g, d \in BOOLEAN}
    \cup {[Blank EXCEPT !.method = "hostbased", !.key = k, !.good = g,
                        !.listed = l] : k \in Keys, g, l \in BOOLEAN}

\* The key exchange of the child.
do_ssh2_kex ==
    /\ Alive(s) /\ ~s.net.keyed
    /\ s' = Settled([Call(s, "SIGN", <<>>) EXCEPT !.net.keyed = TRUE])
    /\ UNCHANGED options

\* do_authentication2 serves requests until there is a success.  A request for
\* another service than ssh-userauth ends the connection.
input_service_request ==
    /\ Alive(s) /\ s.net.keyed
    /\ s' \in {[s EXCEPT !.net.dispatch = TRUE], packet_disconnect(s)}
    /\ UNCHANGED options

UserauthRequest ==
    /\ Alive(s) /\ s.net.dispatch
    /\ \E c \in Credentials, u \in Users, v \in Services :
          s' = Settled(input_userauth_request(
                          s, [c EXCEPT !.user = u, !.service = v]))
    /\ UNCHANGED options

\* Any other message, and the end of the connection, end the child.
ClientGone ==
    /\ Alive(s)
    /\ s' = packet_disconnect(s)
    /\ UNCHANGED options

\* After the success the child exports its keys and exits.
mm_send_keystate ==
    /\ s.net.state = "success"
    /\ s' = IF s.mon.phase = "keystate"
            THEN [s EXCEPT !.net.state = "exit", !.mon.phase = "wait"]
            ELSE packet_disconnect(s)
    /\ UNCHANGED options

\* The monitor has the keys and collects the child.
privsep_preauth ==
    /\ s.mon.phase = "wait" /\ s.net.state = "exit"
    /\ s' = [s EXCEPT !.mon.phase = "authenticated"]
    /\ UNCHANGED options

\* Reading from a child that is gone ends the monitor.
mm_request_receive ==
    /\ s.mon.phase \in {"loop", "keystate"} /\ s.net.state = "dead"
    /\ s' = [s EXCEPT !.mon.phase = "dead"]
    /\ UNCHANGED options

\* LoginGraceTime is over: the monitor signals the child and exits.
grace_alarm_handler ==
    /\ s.mon.phase \in {"loop", "keystate", "wait"}
    /\ s' = [s EXCEPT !.mon.phase = "dead"]
    /\ UNCHANGED options

\* Variant: only a fatal error signals the child.
KilledAfterFatal ==
    /\ s.mon.phase = "dead" /\ s.mon.fatal # "" /\ s.net.state \in {"run", "success"}
    /\ s' = packet_disconnect(s)
    /\ UNCHANGED options

\* The signal of the alarm or of cleanup_exit arrives.  The child may have gone
\* on with an earlier answer meanwhile.
Killed ==
    /\ s.mon.phase = "dead" /\ s.net.state \in {"run", "success"}
    /\ s' = packet_disconnect(s)
    /\ UNCHANGED options

Over == s.mon.phase \in {"authenticated", "dead"} /\ s.net.state \in {"exit", "dead"}

Next ==
    \/ do_ssh2_kex \/ input_service_request \/ UserauthRequest \/ ClientGone
    \/ mm_send_keystate \/ privsep_preauth \/ mm_request_receive
    \/ grace_alarm_handler \/ Killed

vars == <<options, s>>

\* The alarm was set, and a signal arrives.  Nothing is assumed of the
\* client.
Spec == /\ Init /\ [][Next]_vars
        /\ WF_vars(Killed) /\ WF_vars(grace_alarm_handler)
        /\ WF_vars(mm_request_receive) /\ WF_vars(privsep_preauth)

-----------------------------------------------------------------------------
(* Properties.                                                             *)

\* All methods of the list are among the proved ones, in this order.
InOrder(list, proved) ==
    \E at \in [DOMAIN list -> DOMAIN proved] :
        /\ \A i \in DOMAIN list : proved[at[i]] = list[i]
        /\ \A i, j \in DOMAIN list : i < j => at[i] < at[j]

Granted == s.net.state \in {"success", "exit"}

\* When the child tells the client that it is authenticated (userauth_finish),
\* the monitor has come to the same conclusion for the same, valid user, unless
\* the login grace time is over; and root got in only as auth_root_allowed and
\* auth_password let it: never with "no", and without a password unless "yes";
\* with "forced-commands-only", a command is in force, and it comes from a key
\* that is listed for root with that command.  It need not be the key, nor the
\* method, that root proved: auth_root_allowed looks only at the command, which
\* a key sets when it is asked about, before it signs.
SuccessAgreed ==
    Granted => /\ \/ s.mon.phase \in {"keystate", "wait", "authenticated"}
                  \/ s.mon.phase = "dead" /\ s.mon.fatal = ""
               /\ s.mon.user = s.net.user
               /\ s.mon.valid /\ s.net.valid
               /\ s.net.user = options.root =>
                    /\ options.permit_root # "no"
                    /\ options.permit_root = "forced-commands-only" =>
                          /\ s.mon.forced
                          /\ \E k \in Keys : options.authorized[options.root][k] = "forced"
                    /\ options.permit_root # "yes" =>
                          "password" \notin Range(s.mon.proved)

\* Nobody is granted access by a child or authenticated by a monitor unless the
\* monitor has verified every method of one of the configured lists, in the
\* order of the list (sshd_config.5:168); without lists, some method.
ListCompleted ==
    (Granted \/ s.mon.phase \in {"keystate", "wait", "authenticated"}) =>
        IF Configured
        THEN \E i \in DOMAIN options.auth_methods :
                /\ auth2_methods_valid(options.auth_methods[i])
                /\ InOrder(options.auth_methods[i], s.mon.proved)
        ELSE s.mon.proved # <<>>

\* While both processes work, what is left of the lists is the same for both
\* (auth2_update_methods_lists runs in each), so that the methods that the
\* child offers are those that the monitor accepts.
ListsAgree ==
    s.net.attempt > 0 /\ Alive(s) /\ s.mon.phase = "loop" => s.net.lists = s.mon.lists

\* The requests of an honest child never make the monitor give up: each is
\* permitted when it comes, a signature is only shown for a key that was
\* allowed, and the method is one that the lists expect.
NoMonitorFatal == s.mon.fatal = ""

\* A client gets no more than MaxAuthTries wrong passwords and signatures
\* checked; with PermitEmptyPasswords one more, since the first "none" is free.
ChecksBounded ==
    s.mon.refused <= MaxTries + (IF options.permit_empty THEN 1 ELSE 0)

\* In the end there is no child and the monitor has either authenticated the
\* user or ended, whatever the client does and whichever process fails first.
Concluded == <>[]Over
=============================================================================
