---------------------------- MODULE SshAuthProofs ----------------------------
(***************************************************************************)
(* Proofs about child and monitor of module SshAuth, for every set of      *)
(* configurations, users and keys.                                         *)
(***************************************************************************)
EXTENDS SshAuth, TLAPS

\* The configurations for which both processes follow the same rules: with
\* lists of methods, no empty passwords, and no root login that depends on
\* anything but the method.
SameRules ==
    Configured => ~options.permit_empty /\ options.permit_root \in {"yes", "without-password"}

Lists == [DOMAIN options.auth_methods -> Seq(Methods)]
KeyTypes == {"publickey", "hostbased"}

Faults == {"", "multiple attempts", "bad key", "bad data blob", "method not in lists",
           "unexpected", "invalid user", "unknown method", "unexpected type", "unpermitted"}

Net ==
    [state: {"run", "success", "exit", "dead"}, keyed: BOOLEAN, dispatch: BOOLEAN,
     attempt: 0..2, user: Users, service: Services, valid: BOOLEAN,
     lists: Lists \cup {<<>>}, failures: Nat, none_enabled: BOOLEAN,
     forced: BOOLEAN, postponed: BOOLEAN]
Mon ==
    [phase: {"loop", "keystate", "wait", "authenticated", "dead"},
     permit: SUBSET Requests, attempt: 0..1, user: Users, valid: BOOLEAN,
     lists: Lists \cup {<<>>}, calls: 0..1, key: {<<>>} \cup (KeyTypes \X Keys),
     forced: BOOLEAN, method: Methods \cup {"unknown"}, fatal: Faults,
     proved: Seq(Methods), refused: Nat]
State == [net: Net, mon: Mon, ans: [sent: BOOLEAN, ok: BOOLEAN, forced: BOOLEAN],
          auth: BOOLEAN]

-----------------------------------------------------------------------------
(* The inductive invariant.                                                *)

\* How far each process is, seen from the other.
PhasesInv(t) ==
    /\ t.net.state = "run" => t.mon.phase \in {"loop", "dead"}
    /\ t.net.state = "success" => t.mon.phase \in {"keystate", "dead"}
    /\ t.net.state = "exit" => t.mon.phase \in {"wait", "authenticated", "dead"}
    /\ t.mon.fatal = ""

\* What has happened before the next message, and what the monitor permits.
PermitInv(t) ==
    /\ t.net.dispatch => t.net.keyed
    /\ t.net.attempt > 0 => t.net.dispatch
    /\ t.net.attempt = 0 => /\ t.net.state \in {"run", "dead"}
                            /\ t.mon.attempt = 0 /\ t.mon.proved = <<>>
                            /\ t.mon.refused = 0 /\ ~t.mon.forced
    /\ Alive(t) /\ t.mon.phase = "loop" =>
         /\ ~t.net.keyed => "SIGN" \in t.mon.permit
         /\ t.net.keyed /\ t.net.attempt = 0 => "PWNAM" \in t.mon.permit
         /\ t.net.attempt > 0 => MON_AUTH \subseteq t.mon.permit

\* What both know is the same.
AgreeInv(t) ==
    t.net.attempt > 0 /\ t.net.state # "dead" =>
      /\ t.mon.attempt = 1 /\ t.mon.user = t.net.user
      /\ t.net.valid => t.mon.valid
      /\ t.net.lists \in Lists /\ t.mon.lists \in Lists
      /\ t.mon.phase = "loop" => t.net.lists = t.mon.lists

\* Some key of the user is listed with a command.
Commanded(user) == \E k \in Keys : options.authorized[user][k] = "forced"

\* How root gets in, and where a command in force comes from.
RootInv(t) ==
    /\ t.mon.forced => Commanded(t.mon.user)
    /\ t.mon.user = options.root /\ options.permit_root # "yes" =>
         \A i \in DOMAIN t.mon.proved : t.mon.proved[i] # "password"
    /\ t.net.state \in {"success", "exit"} =>
         /\ t.net.attempt > 0 /\ t.net.valid
         /\ t.net.user = options.root =>
              /\ options.permit_root # "no"
              /\ options.permit_root = "forced-commands-only" => t.mon.forced

\* The methods that are gone from a list were verified in its order.
Progress(full, rest, proved) ==
    \E n \in 0..Len(full) :
      /\ Len(rest) = Len(full) - n
      /\ \A j \in 1..Len(rest) : rest[j] = full[n + j]
      /\ \E at \in [1..n -> DOMAIN proved] :
           /\ \A j \in 1..n : proved[at[j]] = full[j]
           /\ \A j, k \in 1..n : j < k => at[j] < at[k]

Completed(t) ==
    IF Configured
    THEN \E i \in DOMAIN options.auth_methods :
            /\ auth2_methods_valid(options.auth_methods[i])
            /\ InOrder(options.auth_methods[i], t.mon.proved)
    ELSE t.mon.proved # <<>>

ListsInv(t) ==
    /\ t.mon.attempt = 1 =>
         /\ t.mon.lists \in Lists
         /\ \A i \in DOMAIN options.auth_methods :
              Progress(auth2_setup_methods_lists[i], t.mon.lists[i], t.mon.proved)
    /\ \/ t.net.state \in {"success", "exit"}
       \/ t.mon.phase \in {"keystate", "wait", "authenticated"}
       => Completed(t)

\* One more wrong try than failures, at most, if a first "none" was free.
Free(t) == IF options.permit_empty /\ t.net.attempt > 0 THEN 1 ELSE 0
BoundInv(t) ==
    /\ t.mon.refused <= MaxTries + (IF options.permit_empty THEN 1 ELSE 0)
    /\ Alive(t) => t.mon.refused <= t.net.failures + Free(t)

Inv(t) ==
    /\ t \in State /\ PhasesInv(t) /\ PermitInv(t) /\ AgreeInv(t) /\ RootInv(t)
    /\ ListsInv(t) /\ BoundInv(t)

AuthInv == options \in Configs /\ (SameRules => Inv(s))

-----------------------------------------------------------------------------
(* The lists of methods.                                                   *)

\* The options of a configuration have their types.
LEMMA OptionTypes ==
  ASSUME options \in Configs
  PROVE  /\ options \in Options
         /\ \A i \in DOMAIN options.auth_methods :
              /\ options.auth_methods[i] \in Seq(Methods)
              /\ options.auth_methods[i] # <<>>
         /\ options.root \in Users /\ options.permit_empty \in BOOLEAN
         /\ options.permit_root \in RootLogin
         /\ options.enabled \subseteq Methods
BY AuthConstants DEF Options

\* The lists that both processes set up.
LEMMA SetUpType ==
  ASSUME options \in Configs
  PROVE  /\ auth2_setup_methods_lists \in Lists
         /\ \A i \in DOMAIN options.auth_methods :
              /\ auth2_setup_methods_lists[i] # <<>> =>
                   /\ auth2_setup_methods_lists[i] = options.auth_methods[i]
                   /\ auth2_methods_valid(options.auth_methods[i])
BY OptionTypes DEF auth2_setup_methods_lists, Lists

\* What an update of the lists does to each of them.
LEMMA UpdateLists ==
  ASSUME NEW lists \in Lists, NEW m,
         NEW upd, upd = auth2_update_methods_lists(lists, m)
  PROVE  /\ upd.lists \in Lists
         /\ upd.found \in BOOLEAN /\ upd.done \in BOOLEAN
         /\ upd.found <=> \E i \in DOMAIN options.auth_methods :
                             list_starts_with(lists[i], m)
         /\ \A i \in DOMAIN options.auth_methods :
              \/ upd.lists[i] = lists[i]
              \/ list_starts_with(lists[i], m) /\ upd.lists[i] = Tail(lists[i])
         /\ upd.done => \E i \in DOMAIN options.auth_methods :
                          list_starts_with(lists[i], m) /\ Len(lists[i]) = 1
<1> DEFINE hits == {i \in DOMAIN lists : list_starts_with(lists[i], m)}
           complete == {i \in hits : Len(lists[i]) = 1}
           last == IF complete = {} THEN Len(lists) ELSE Min(complete)
           new == [i \in DOMAIN lists |-> IF i \in hits /\ i <= last
                                          THEN Tail(lists[i]) ELSE lists[i]]
<1>1. upd = [lists |-> new, found |-> hits # {}, done |-> complete # {}]
  BY DEF auth2_update_methods_lists
<1>2. DOMAIN lists = DOMAIN options.auth_methods
  BY DEF Lists
<1> HIDE DEF last
<1>3. ASSUME NEW i \in DOMAIN lists
      PROVE  /\ new[i] \in Seq(Methods)
             /\ \/ new[i] = lists[i]
                \/ list_starts_with(lists[i], m) /\ new[i] = Tail(lists[i])
  BY <1>3 DEF Lists, list_starts_with
<1>4. new \in Lists
  BY Zenon, <1>2, <1>3 DEF Lists
<1> HIDE DEF new
<1>5. upd.lists = new /\ upd.found = (hits # {}) /\ upd.done = (complete # {})
  BY <1>1
<1> QED BY Zenon, <1>2, <1>3, <1>4, <1>5

\* Another verified method changes nothing.
LEMMA ProgressKeep ==
  ASSUME NEW full \in Seq(Methods), NEW rest \in Seq(Methods),
         NEW proved \in Seq(Methods), NEW m \in Methods,
         Progress(full, rest, proved)
  PROVE  Progress(full, rest, Append(proved, m))
<1>1. PICK n \in 0..Len(full) :
        /\ Len(rest) = Len(full) - n
        /\ \A j \in 1..Len(rest) : rest[j] = full[n + j]
        /\ \E at \in [1..n -> DOMAIN proved] :
             /\ \A j \in 1..n : proved[at[j]] = full[j]
             /\ \A j, k \in 1..n : j < k => at[j] < at[k]
  BY Zenon DEF Progress
<1>2. PICK at \in [1..n -> DOMAIN proved] :
             /\ \A j \in 1..n : proved[at[j]] = full[j]
             /\ \A j, k \in 1..n : j < k => at[j] < at[k]
  BY Zenon, <1>1
<1>3. /\ at \in [1..n -> DOMAIN Append(proved, m)]
      /\ \A j \in 1..n : Append(proved, m)[at[j]] = full[j]
  BY <1>2
<1> QED BY Zenon, <1>1, <1>2, <1>3 DEF Progress

\* The first method of what is left, when verified, may be removed.
LEMMA ProgressStep ==
  ASSUME NEW full \in Seq(Methods), NEW rest \in Seq(Methods),
         NEW proved \in Seq(Methods), NEW m \in Methods,
         Progress(full, rest, proved), list_starts_with(rest, m)
  PROVE  Progress(full, Tail(rest), Append(proved, m))
<1>0. rest # <<>> /\ Len(rest) \in Nat /\ Len(rest) > 0 /\ rest[1] = m
  BY DEF list_starts_with
<1>1. PICK n \in 0..Len(full) :
        /\ Len(rest) = Len(full) - n
        /\ \A j \in 1..Len(rest) : rest[j] = full[n + j]
        /\ \E at \in [1..n -> DOMAIN proved] :
             /\ \A j \in 1..n : proved[at[j]] = full[j]
             /\ \A j, k \in 1..n : j < k => at[j] < at[k]
  BY Zenon DEF Progress
<1>2. PICK at \in [1..n -> DOMAIN proved] :
             /\ \A j \in 1..n : proved[at[j]] = full[j]
             /\ \A j, k \in 1..n : j < k => at[j] < at[k]
  BY Zenon, <1>1
<1> DEFINE new == Append(proved, m)
           L == Len(proved)
           to == [j \in 1..(n + 1) |-> IF j = n + 1 THEN L + 1 ELSE at[j]]
<1>3. /\ n + 1 \in 0..Len(full) /\ full[n + 1] = m
      /\ Len(Tail(rest)) = Len(full) - (n + 1)
  BY <1>0, <1>1
<1>4. \A j \in 1..Len(Tail(rest)) : Tail(rest)[j] = full[(n + 1) + j]
  BY <1>0, <1>1
<1>5. /\ L \in Nat /\ DOMAIN proved = 1..L /\ DOMAIN new = 1..(L + 1)
      /\ new[L + 1] = m /\ \A j \in 1..L : new[j] = proved[j]
  OBVIOUS
<1> HIDE DEF new, L
<1>6. to \in [1..(n + 1) -> DOMAIN new]
  BY <1>2, <1>5
<1>7. \A j \in 1..(n + 1) : new[to[j]] = full[j]
  BY <1>2, <1>3, <1>5
<1>8. \A j, k \in 1..(n + 1) : j < k => to[j] < to[k]
  <2> SUFFICES ASSUME NEW j \in 1..(n + 1), NEW k \in 1..(n + 1), j < k
               PROVE  to[j] < to[k]
    BY Zenon
  <2>1. j \in 1..n /\ to[j] = at[j] /\ at[j] \in 1..L
    BY <1>2, <1>5
  <2>2. CASE k = n + 1
    <3>1. to[k] = L + 1
      BY <2>2
    <3> QED BY <1>5, <2>1, <3>1
  <2>3. CASE k # n + 1
    <3>1. k \in 1..n /\ to[k] = at[k]
      BY <2>3
    <3>2. at[j] < at[k]
      BY <1>2, <2>1, <3>1
    <3> QED BY <2>1, <3>1, <3>2
  <2> QED BY <2>2, <2>3
<1> HIDE DEF to
<1> QED BY Zenon, <1>3, <1>4, <1>6, <1>7, <1>8 DEF Progress, new

\* When nothing is left, the whole list was verified in order.
LEMMA ProgressDone ==
  ASSUME NEW full \in Seq(Methods), NEW proved \in Seq(Methods),
         NEW rest \in Seq(Methods), Len(rest) = 0, Progress(full, rest, proved)
  PROVE  InOrder(full, proved)
<1>1. PICK n \in 0..Len(full) :
        /\ Len(rest) = Len(full) - n
        /\ \E at \in [1..n -> DOMAIN proved] :
             /\ \A j \in 1..n : proved[at[j]] = full[j]
             /\ \A j, k \in 1..n : j < k => at[j] < at[k]
  BY Zenon DEF Progress
<1>2. n = Len(full) /\ DOMAIN full = 1..n
  BY <1>1
<1> QED BY <1>1, <1>2, ZenonT(40) DEF InOrder

\* Nothing is verified yet.
LEMMA ProgressStart ==
  ASSUME NEW full \in Seq(Methods)
  PROVE  Progress(full, full, <<>>)
<1> DEFINE at == [j \in 1..0 |-> 0]
<1>1. at \in [1..0 -> DOMAIN <<>>]
  OBVIOUS
<1>2. 0 \in 0..Len(full) /\ Len(full) = Len(full) - 0
  OBVIOUS
<1>3. \A j \in 1..Len(full) : full[j] = full[0 + j]
  OBVIOUS
<1>4. /\ \A j \in 1..0 : <<>>[at[j]] = full[j]
      /\ \A j, k \in 1..0 : j < k => at[j] < at[k]
  OBVIOUS
<1> HIDE DEF at
<1>5. \E f \in [1..0 -> DOMAIN <<>>] :
        /\ \A j \in 1..0 : <<>>[f[j]] = full[j]
        /\ \A j, k \in 1..0 : j < k => f[j] < f[k]
  BY Zenon, <1>1, <1>4
<1> QED BY Zenon, <1>2, <1>3, <1>5 DEF Progress

-----------------------------------------------------------------------------
(* The monitor.  Each lemma says which fields an operator changes.         *)

\* The fields of a state have their types.
LEMMA StateFields ==
  ASSUME NEW t \in State
  PROVE  /\ t.net \in Net /\ t.mon \in Mon /\ t.auth \in BOOLEAN
         /\ t.ans \in [sent: BOOLEAN, ok: BOOLEAN, forced: BOOLEAN]
         /\ t = [net |-> t.net, mon |-> t.mon, ans |-> t.ans, auth |-> t.auth]
BY DEF State

\* A state is its fields.
LEMMA StateOf ==
  ASSUME NEW net \in Net, NEW mon \in Mon, NEW auth \in BOOLEAN,
         NEW ans \in [sent: BOOLEAN, ok: BOOLEAN, forced: BOOLEAN],
         NEW t, t = [net |-> net, mon |-> mon, ans |-> ans, auth |-> auth]
  PROVE  /\ t \in State /\ t.net = net /\ t.mon = mon
         /\ t.ans = ans /\ t.auth = auth
BY DEF State

\* Answering changes the answer.
LEMMA AnswerEffect ==
  ASSUME NEW t \in State, NEW ok \in BOOLEAN,
         NEW u, u = Answer(t, ok)
  PROVE  /\ u \in State /\ u.net = t.net /\ u.mon = t.mon /\ u.auth = t.auth
         /\ u.ans = [sent |-> TRUE, ok |-> ok, forced |-> t.mon.forced]
BY Zenon DEF State, Mon, Answer

\* What no request of a method changes.
SameUser(t, u) ==
    /\ u.mon.user = t.mon.user /\ u.mon.valid = t.mon.valid
    /\ u.mon.attempt = t.mon.attempt /\ u.mon.permit = t.mon.permit
    /\ u.mon.fatal = t.mon.fatal
    /\ u.mon.forced => t.mon.forced \/ Commanded(t.mon.user)

\* The monitor has verified nothing.
NotProved(t, u) ==
    /\ u.mon.lists = t.mon.lists /\ u.mon.proved = t.mon.proved
    /\ u.mon.phase = t.mon.phase

\* What the loop does after a request that verified nothing.
Refused(t, u, type) ==
    /\ u \in State /\ u.net = t.net /\ u.ans = t.ans /\ u.auth = t.auth
    /\ SameUser(t, u) /\ NotProved(t, u)
    /\ u.mon.forced = t.mon.forced /\ u.mon.key = t.mon.key
    /\ u.mon.refused = t.mon.refused + (IF type \in MON_AUTHDECIDE THEN 1 ELSE 0)

\* A request that verified nothing is counted if it was to decide.
LEMMA PreauthRefused ==
  ASSUME NEW t \in State, NEW type \in Requests,
         NEW u, u = monitor_child_preauth(t, type, FALSE)
  PROVE  Refused(t, u, type)
<1> DEFINE mon == [t.mon EXCEPT !.refused = IF type \in MON_AUTHDECIDE
                                            THEN @ + 1 ELSE @]
<1>1. u = [t EXCEPT !.mon.lists = t.mon.lists, !.mon.proved = t.mon.proved,
                    !.mon.refused = IF type \in MON_AUTHDECIDE THEN @ + 1 ELSE @]
  BY DEF monitor_child_preauth
<1>2. mon \in Mon
  BY SMTT(30) DEF State, Mon
<1>3. u = [t EXCEPT !.mon = mon]
  <2> DEFINE n == IF type \in MON_AUTHDECIDE THEN t.mon.refused + 1
                  ELSE t.mon.refused
             m1 == [t.mon EXCEPT !.lists = t.mon.lists]
             m2 == [m1 EXCEPT !.proved = t.mon.proved]
             m3 == [m2 EXCEPT !.refused = n]
  <2>1. t.mon \in Mon
    BY DEF State
  <2>2. m1 = t.mon
    BY <2>1 DEF Mon
  <2>3. m2 = t.mon
    BY Zenon, <2>1, <2>2 DEF Mon
  <2>4. m3 = mon
    BY Zenon, <2>3
  <2>5. u = [t EXCEPT !.mon = m3]
    BY Zenon, <1>1, <2>2, <2>3 DEF State
  <2> QED BY Zenon, <2>4, <2>5
<1> HIDE DEF mon
<1>4. /\ u \in State /\ u.net = t.net /\ u.ans = t.ans /\ u.auth = t.auth
      /\ u.mon = mon
  BY Zenon, <1>2, <1>3 DEF State
<1>5. /\ t.mon \in Mon /\ u.mon.user = t.mon.user /\ u.mon.valid = t.mon.valid
      /\ u.mon.attempt = t.mon.attempt /\ u.mon.permit = t.mon.permit
      /\ u.mon.fatal = t.mon.fatal /\ u.mon.forced = t.mon.forced
      /\ u.mon.key = t.mon.key
  BY Zenon, <1>4 DEF mon, State, Mon
<1>6. /\ u.mon.lists = t.mon.lists /\ u.mon.proved = t.mon.proved
      /\ u.mon.phase = t.mon.phase
  BY Zenon, <1>4 DEF mon, State, Mon
<1>7. u.mon.refused = t.mon.refused + (IF type \in MON_AUTHDECIDE THEN 1 ELSE 0)
  <2>1. t.mon.refused \in Nat
    BY <1>5 DEF Mon
  <2>2. u.mon.refused = IF type \in MON_AUTHDECIDE THEN t.mon.refused + 1
                        ELSE t.mon.refused
    BY Zenon, <1>4, <1>5 DEF mon, Mon
  <2>3. CASE type \in MON_AUTHDECIDE
    BY Zenon, <2>2, <2>3
  <2>4. CASE type \notin MON_AUTHDECIDE
    <3>1. u.mon.refused = t.mon.refused
      BY Zenon, <2>2, <2>4
    <3>2. t.mon.refused + 0 = t.mon.refused
      BY <2>1
    <3>3. (IF type \in MON_AUTHDECIDE THEN 1 ELSE 0) = 0
      BY <2>4
    <3> QED BY Zenon, <3>1, <3>2, <3>3
  <2> QED BY Zenon, <2>3, <2>4
<1> QED BY Zenon, <1>4, <1>5, <1>6, <1>7 DEF Refused, SameUser, NotProved

\* The lists after the method that the monitor has just verified.
Updated(t) == auth2_update_methods_lists(t.mon.lists, t.mon.method)

\* The method that the monitor has verified.
Verified(t, type) == IF type = "AUTHPASSWORD" THEN "password" ELSE t.mon.method

\* The monitor's own check of root.
RootPasses(t) ==
    t.mon.user = options.root => auth_root_allowed(t.mon.method, t.mon.forced)

\* The method that is verified is one that the lists expect.
MayAdvance(t) ==
    /\ t.mon.valid /\ t.mon.method \in Methods /\ t.mon.lists \in Lists
    /\ Configured => Updated(t).found

\* What the loop does then.
Advanced(t, u, type) ==
    /\ u \in State /\ u.net = t.net /\ u.ans = t.ans /\ u.auth = t.auth
    /\ SameUser(t, u)
    /\ u.mon.forced = t.mon.forced /\ u.mon.refused = t.mon.refused
    /\ u.mon.lists = IF Configured THEN Updated(t).lists ELSE t.mon.lists
    /\ u.mon.proved = Append(t.mon.proved, Verified(t, type))
    /\ u.mon.phase = IF (Configured => Updated(t).done) /\ RootPasses(t)
                     THEN "keystate" ELSE t.mon.phase

\* A request that verified something updates the lists, and ends the loop if
\* nothing more is required.
LEMMA PreauthVerified ==
  ASSUME NEW t \in State, NEW type \in MON_AUTHDECIDE, MayAdvance(t),
         NEW u, u = monitor_child_preauth(t, type, TRUE)
  PROVE  Advanced(t, u, type)
<1> DEFINE upd == Updated(t)
           what == Verified(t, type)
           mid == [t.mon EXCEPT
              !.lists = IF Configured THEN upd.lists ELSE @,
              !.proved = Append(@, what)]
           mon == [t.mon EXCEPT
              !.lists = IF Configured THEN upd.lists ELSE @,
              !.proved = Append(@, what),
              !.phase = IF (Configured => upd.done) /\ RootPasses(t)
                        THEN "keystate" ELSE @]
<1>0. upd = auth2_update_methods_lists(t.mon.lists, t.mon.method)
  BY DEF Updated
<1> HIDE DEF upd
<1>1. upd.lists \in Lists /\ upd.found \in BOOLEAN /\ upd.done \in BOOLEAN
  BY <1>0, UpdateLists DEF MayAdvance
<1>2. what \in Methods
  BY DEF Methods, Verified, MayAdvance
<1> HIDE DEF what
<1>3. mid \in Mon /\ mon \in Mon
  <2>1. Append(t.mon.proved, what) \in Seq(Methods) /\ t.mon \in Mon
    BY <1>2 DEF State, Mon
  <2>2. mid \in Mon
    BY ZenonT(40), <1>1, <2>1 DEF Mon
  <2>3. mon \in Mon
    BY ZenonT(40), <1>1, <2>1 DEF Mon
  <2> QED BY <2>2, <2>3
<1>4. /\ mid = [t.mon EXCEPT !.lists = IF Configured THEN upd.lists ELSE @,
                             !.proved = Append(@, what), !.refused = @]
      /\ mon = [mid EXCEPT !.phase = IF (Configured => upd.done) /\ RootPasses(t)
                                     THEN "keystate" ELSE @]
  BY Zenon DEF State, Mon
<1> DEFINE v == [t EXCEPT
                  !.mon.lists = IF TRUE /\ Configured THEN upd.lists ELSE @,
                  !.mon.proved = IF TRUE THEN Append(@, what) ELSE @,
                  !.mon.refused = IF type \in MON_AUTHDECIDE /\ ~TRUE
                                  THEN @ + 1 ELSE @]
<1>5. v = [t EXCEPT !.mon = mid]
  BY Zenon, <1>4 DEF State, Mon
<1>6. u = IF (Configured => upd.done) /\ RootPasses(t)
          THEN [v EXCEPT !.mon.phase = "keystate"] ELSE v
  BY ZenonT(40), <1>0, <1>1 DEF monitor_child_preauth, RootPasses, what, Verified, Methods, upd,
                    MayAdvance
<1> HIDE DEF v, mid, mon
<1>7. u = [t EXCEPT !.mon = mon]
  <2>1. CASE (Configured => upd.done) /\ RootPasses(t)
    <3>1. mon = [mid EXCEPT !.phase = "keystate"]
      BY Zenon, <1>4, <2>1
    <3>2. u = [[t EXCEPT !.mon = mid] EXCEPT !.mon.phase = "keystate"]
      BY Zenon, <1>5, <1>6, <2>1
    <3> QED BY Zenon, <3>1, <3>2 DEF State
  <2>2. CASE ~((Configured => upd.done) /\ RootPasses(t))
    <3>1. mon = mid
      <4>1. mon = [mid EXCEPT !.phase = mid.phase]
        BY Zenon, <1>4, <2>2
      <4> QED BY <1>3, <4>1 DEF Mon
    <3> QED BY Zenon, <1>5, <1>6, <2>2, <3>1
  <2> QED BY Zenon, <2>1, <2>2
<1>8. /\ u \in State /\ u.net = t.net /\ u.ans = t.ans /\ u.auth = t.auth
      /\ u.mon = mon
  BY Zenon, <1>3, <1>7 DEF State
<1>9. /\ t.mon \in Mon /\ u.mon.user = t.mon.user /\ u.mon.valid = t.mon.valid
      /\ u.mon.attempt = t.mon.attempt /\ u.mon.permit = t.mon.permit
      /\ u.mon.fatal = t.mon.fatal /\ u.mon.forced = t.mon.forced
      /\ u.mon.refused = t.mon.refused
  BY Zenon, <1>8 DEF mon, State, Mon
<1>10. u.mon.lists = IF Configured THEN upd.lists ELSE t.mon.lists
  BY Zenon, <1>8, <1>9 DEF mon, Mon
<1>11. u.mon.proved = Append(t.mon.proved, what)
  BY Zenon, <1>8, <1>9 DEF mon, Mon
<1>12. u.mon.phase = IF (Configured => upd.done) /\ RootPasses(t)
                     THEN "keystate" ELSE t.mon.phase
  BY Zenon, <1>8, <1>9 DEF mon, Mon
<1> QED BY Zenon, <1>8, <1>9, <1>10, <1>11, <1>12 DEF what, upd, SameUser, Advanced

\* The state in which the monitor handles a request.
Asked(t) == [[t EXCEPT !.ans.sent = FALSE] EXCEPT !.mon.method = "unknown"]

\* Asking changes the answer and the method.
LEMMA AskedEffect ==
  ASSUME NEW t \in State, NEW u, u = Asked(t)
  PROVE  /\ u \in State /\ u.net = t.net /\ u.auth = t.auth
         /\ u.mon = [t.mon EXCEPT !.method = "unknown"]
         /\ u.ans = [t.ans EXCEPT !.sent = FALSE]
<1> DEFINE mon == [t.mon EXCEPT !.method = "unknown"]
           ans == [t.ans EXCEPT !.sent = FALSE]
<1>1. mon \in Mon
  BY DEF State, Mon
<1>2. ans \in [sent: BOOLEAN, ok: BOOLEAN, forced: BOOLEAN]
  BY Zenon DEF State
<1>3. u = [[t EXCEPT !.ans = ans] EXCEPT !.mon = mon]
  BY DEF Asked, State
<1> HIDE DEF mon, ans
<1>4. /\ u \in State /\ u.net = t.net /\ u.auth = t.auth
      /\ u.mon = mon /\ u.ans = ans
  BY Zenon, <1>1, <1>2, <1>3 DEF State
<1> QED BY <1>4 DEF mon, ans

\* A child whose monitor is gone ends at its next request.
LEMMA CallDead ==
  ASSUME NEW t \in State, Alive(t), t.mon.phase = "dead", NEW type, NEW r,
         NEW u, u = Call(t, type, r)
  PROVE  /\ u \in State /\ u.mon = t.mon /\ u.ans = t.ans /\ u.auth = t.auth
         /\ u.net = [t.net EXCEPT !.state = "dead"]
<1> DEFINE net == [t.net EXCEPT !.state = "dead"]
           v == packet_disconnect(t)
<1>1. net \in Net
  BY DEF State, Net
<1>2. v = [t EXCEPT !.net = net]
  BY DEF packet_disconnect, State
<1>3. mm_request_send(t, type, r) = v
  BY DEF mm_request_send
<1> HIDE DEF v, net
<1>4. v \in State /\ v.mon = t.mon /\ v.ans = t.ans /\ v.auth = t.auth /\ v.net = net
  BY <1>1, <1>2 DEF State
<1>5. packet_disconnect(v) = v
  <2>1. packet_disconnect(v) = [v EXCEPT !.net = [v.net EXCEPT !.state = "dead"]]
    BY <1>4 DEF packet_disconnect, State
  <2>2. [v.net EXCEPT !.state = "dead"] = v.net
    BY Zenon, <1>4 DEF net, State, Net
  <2> QED BY <1>4, <2>1, <2>2 DEF State
<1>6. u = v
  BY <1>3, <1>5 DEF Call, mm_request_receive_expect
<1> QED BY <1>4, <1>6 DEF net

\* A request that is permitted is handled, and the loop goes on from what
\* the handler returns.
LEMMA CallPermitted ==
  ASSUME NEW t \in State, Alive(t), t.mon.phase = "loop",
         NEW type \in t.mon.permit, NEW r,
         NEW h, h = Handler(Asked(t), type, r), h.s \in State,
         h.s.mon.phase = "loop",
         NEW u, u = monitor_child_preauth(
                      [h.s EXCEPT !.mon.permit = @ \ (MON_ONCE \cap {type})],
                      type, h.ret)
  PROVE  /\ mm_request_send(t, type, r) = u
         /\ u.ans.sent => Call(t, type, r) = u
<1> DEFINE t0 == [t EXCEPT !.ans.sent = FALSE]
           v == [h.s EXCEPT !.mon.permit = @ \ (MON_ONCE \cap {type})]
<1>1. t0.mon = t.mon /\ t0.net = t.net
  BY DEF State
<1>2. h = Handler([t0 EXCEPT !.mon.method = "unknown"], type, r)
  BY DEF Asked
<1>3. v.mon.phase = "loop"
  BY DEF State, Mon
<1> HIDE DEF t0, v
<1>4. monitor_read(t0, type, r) = u
  BY Zenon, <1>1, <1>2, <1>3 DEF monitor_read, v
<1>5. mm_request_send(t, type, r) = u
  BY <1>4 DEF mm_request_send, t0
<1> QED BY <1>5 DEF Call, mm_request_receive_expect

\* The requests that may be repeated stay permitted.
LEMMA PermitKept ==
  ASSUME NEW t \in State, NEW type \in MON_AUTH
  PROVE  [t EXCEPT !.mon.permit = @ \ (MON_ONCE \cap {type})] = t
<1>1. t.mon.permit \ (MON_ONCE \cap {type}) = t.mon.permit
  BY DEF MON_ONCE, MON_AUTH
<1>2. [t.mon EXCEPT !.permit = @ \ (MON_ONCE \cap {type})] = t.mon
  BY <1>1 DEF State, Mon
<1> QED BY <1>2 DEF State

\* The monitor has verified the method m.
Proved(t, u, m) ==
    LET upd == auth2_update_methods_lists(t.mon.lists, m) IN
    /\ t.mon.valid
    /\ Configured => upd.found
    /\ u.mon.lists = IF Configured THEN upd.lists ELSE t.mon.lists
    /\ u.mon.proved = Append(t.mon.proved, m)
    /\ u.mon.refused = t.mon.refused
    /\ u.mon.phase =
         IF /\ Configured => upd.done
            /\ t.mon.user = options.root => auth_root_allowed(m, u.mon.forced)
         THEN "keystate" ELSE "loop"

\* The monitor's answer to a password.  Root has a good one only with
\* PermitRootLogin yes.
LEMMA CallPassword ==
  ASSUME NEW t \in State, Alive(t), t.mon.phase = "loop",
         "AUTHPASSWORD" \in t.mon.permit,
         options \in Configs, SameRules, t.mon.lists \in Lists,
         NEW empty \in BOOLEAN, NEW good \in BOOLEAN,
         Configured => \E i \in DOMAIN options.auth_methods :
                         list_starts_with(t.mon.lists[i], "password") \/ empty,
         NEW u, u = Call(t, "AUTHPASSWORD", [empty |-> empty, good |-> good])
  PROVE  /\ u \in State /\ u.net = t.net /\ u.auth = t.auth /\ SameUser(t, u)
         /\ ~u.ans.ok => NotProved(t, u) /\ u.mon.refused = t.mon.refused + 1
         /\ u.ans.ok => /\ Proved(t, u, "password")
                        /\ empty => options.permit_empty
                        /\ t.mon.user = options.root => options.permit_root = "yes"
<1> DEFINE r == [empty |-> empty, good |-> good]
           a == Asked(t)
           m == IF empty /\ t.mon.calls = 0 THEN "none" ELSE "password"
           mon == [t.mon EXCEPT !.method = m, !.calls = 1]
           h == Handler(a, "AUTHPASSWORD", r)
<1>1. /\ a \in State /\ a.net = t.net /\ a.auth = t.auth
      /\ a.mon = [t.mon EXCEPT !.method = "unknown"]
  BY Zenon, AskedEffect
<1> HIDE DEF a
<1>2. PICK ok \in BOOLEAN :
        ok = ("password" \in options.enabled /\ auth_password(a, r))
  BY Zenon
<1>3. ok => /\ t.mon.valid /\ (empty => options.permit_empty)
            /\ t.mon.user = options.root => options.permit_root = "yes"
  BY Zenon, <1>1, <1>2 DEF auth_password, State, Mon
<1>4. m \in Methods
  BY DEF Methods
<1>5. h = Ret([Answer(a, ok) EXCEPT !.mon.method = m, !.mon.calls = 1], ok)
  <2>1. a.mon.calls = t.mon.calls
    BY <1>1 DEF State, Mon
  <2> QED BY <1>2, <2>1 DEF Handler, mm_answer_authpassword
<1>6. h.ret = ok /\ h.s = [Answer(a, ok) EXCEPT !.mon.method = m, !.mon.calls = 1]
  BY <1>5 DEF Ret
<1>7. Configured /\ ok => m = "password" /\ ~empty
  BY <1>3 DEF SameRules
<1> HIDE DEF h, m
<1>8. /\ mon \in Mon /\ mon.method = m /\ mon.lists = t.mon.lists
      /\ mon.forced = t.mon.forced
      /\ mon.proved = t.mon.proved /\ mon.phase = "loop"
      /\ mon.refused = t.mon.refused /\ mon.user = t.mon.user
      /\ mon.valid = t.mon.valid /\ mon.attempt = t.mon.attempt
      /\ mon.permit = t.mon.permit /\ mon.fatal = t.mon.fatal
  <2>1. t.mon \in Mon
    BY DEF State
  <2> DEFINE m1 == [t.mon EXCEPT !.method = m]
  <2>2. m1 \in Mon
    BY <1>4, <2>1 DEF Mon
  <2>3. mon = [m1 EXCEPT !.calls = 1]
    OBVIOUS
  <2> HIDE DEF m1
  <2>4. mon \in Mon
    <3> HIDE DEF mon
    <3> QED BY <2>2, <2>3 DEF Mon
  <2> QED BY <2>1, <2>4 DEF Mon
<1>9. /\ h.s \in State /\ h.s.net = t.net /\ h.s.auth = t.auth /\ h.s.mon = mon
      /\ h.s.ans.sent /\ h.s.ans.ok = ok
  <2> DEFINE b == Answer(a, ok)
  <2>1. /\ b \in State /\ b.net = t.net /\ b.auth = t.auth
        /\ b.mon = [t.mon EXCEPT !.method = "unknown"]
        /\ b.ans = [sent |-> TRUE, ok |-> ok, forced |-> a.mon.forced]
    <3>1. b = Answer(a, ok)
      OBVIOUS
    <3> HIDE DEF b
    <3> QED BY ZenonT(40), <1>1, <1>2, <3>1, AnswerEffect
  <2>2. h.s = [b EXCEPT !.mon.method = m, !.mon.calls = 1]
    BY <1>6
  <2> HIDE DEF b
  <2>3. h.s = [b EXCEPT !.mon = [b.mon EXCEPT !.method = m, !.calls = 1]]
    BY Zenon, <2>1, <2>2 DEF State
  <2>4. [b.mon EXCEPT !.method = m, !.calls = 1] = mon
    BY Zenon, <2>1 DEF State, Mon
  <2> HIDE DEF mon
  <2> QED BY <1>8, <2>1, <2>3, <2>4 DEF State
<1> HIDE DEF mon
<1> DEFINE w == monitor_child_preauth(h.s, "AUTHPASSWORD", ok)
<1>10. w.ans.sent => u = w
  <2>1. [h.s EXCEPT !.mon.permit = @ \ (MON_ONCE \cap {"AUTHPASSWORD"})] = h.s
    BY Zenon, <1>9, PermitKept DEF MON_AUTH
  <2>2. w = monitor_child_preauth(
              [h.s EXCEPT !.mon.permit = @ \ (MON_ONCE \cap {"AUTHPASSWORD"})],
              "AUTHPASSWORD", h.ret)
    BY <1>6, <2>1
  <2>3. h = Handler(Asked(t), "AUTHPASSWORD", r) /\ h.s.mon.phase = "loop"
    BY <1>8, <1>9 DEF h, a
  <2> HIDE DEF w
  <2>4. w.ans.sent => Call(t, "AUTHPASSWORD", r) = w
    <3> HIDE DEF r
    <3> QED BY <1>9, <2>2, <2>3, CallPermitted
  <2> QED BY <2>4
<1>11. CASE ~ok
  <2>1. w = monitor_child_preauth(h.s, "AUTHPASSWORD", FALSE)
    BY Zenon, <1>2, <1>11
  <2> HIDE DEF w
  <2>2. "AUTHPASSWORD" \in Requests /\ "AUTHPASSWORD" \in MON_AUTHDECIDE
    BY DEF Requests, MON_AUTHDECIDE
  <2>3. /\ w \in State /\ w.net = t.net /\ w.auth = t.auth /\ w.ans = h.s.ans
        /\ SameUser(h.s, w) /\ NotProved(h.s, w)
        /\ w.mon.refused = h.s.mon.refused + 1
    <3>1. Refused(h.s, w, "AUTHPASSWORD")
      BY Zenon, <1>9, <2>1, <2>2, PreauthRefused
    <3> QED BY <1>9, <2>2, <3>1 DEF Refused
  <2>4. u = w /\ ~u.ans.ok
    BY <1>9, <1>10, <1>11, <2>3
  <2>5. /\ u.mon.refused = t.mon.refused + 1 /\ NotProved(t, u) /\ SameUser(t, u)
    BY Zenon, <1>8, <1>9, <2>3, <2>4 DEF NotProved, SameUser
  <2> QED BY <2>3, <2>4, <2>5
<1>12. CASE ok
  <2> DEFINE upd == auth2_update_methods_lists(mon.lists, m)
  <2>1. w = monitor_child_preauth(h.s, "AUTHPASSWORD", TRUE)
    BY Zenon, <1>2, <1>12
  <2> HIDE DEF w
  <2>2. upd = auth2_update_methods_lists(t.mon.lists, m)
    BY <1>8
  <2>3. Configured => upd.found
    BY <1>7, <1>12, <2>2, UpdateLists
  <2>4. upd = Updated(h.s)
    BY <1>8, <1>9 DEF Updated
  <2> HIDE DEF upd
  <2>5. h.s.mon.valid /\ h.s.mon.method \in Methods /\ h.s.mon.lists \in Lists
    BY <1>3, <1>4, <1>8, <1>9, <1>12
  <2>6. "AUTHPASSWORD" \in MON_AUTHDECIDE
    BY DEF MON_AUTHDECIDE
  <2>7. /\ w \in State /\ w.net = t.net /\ w.auth = t.auth /\ w.ans = h.s.ans
        /\ SameUser(h.s, w) /\ w.mon.refused = h.s.mon.refused
        /\ w.mon.lists = IF Configured THEN upd.lists ELSE h.s.mon.lists
        /\ w.mon.proved = Append(h.s.mon.proved, "password")
        /\ w.mon.phase = IF (Configured => upd.done) /\ RootPasses(h.s)
                         THEN "keystate" ELSE h.s.mon.phase
    <3>1. Advanced(h.s, w, "AUTHPASSWORD")
      <4>1. MayAdvance(h.s)
        BY <2>3, <2>4, <2>5 DEF MayAdvance
      <4> QED BY Zenon, <1>9, <2>1, <2>6, <4>1, PreauthVerified
    <3>2. Verified(h.s, "AUTHPASSWORD") = "password"
      BY DEF Verified
    <3> QED BY <1>9, <2>4, <3>1, <3>2 DEF Advanced
  <2>8. u = w /\ u.ans.ok
    BY Zenon, <1>9, <1>10, <1>12, <2>7
  <2>9. t.mon.user = options.root =>
           RootPasses(h.s) /\ auth_root_allowed("password", u.mon.forced)
    BY <1>3, <1>12 DEF RootPasses, auth_root_allowed
  <2>10. t.mon.user # options.root => RootPasses(h.s)
    BY Zenon, <1>8, <1>9 DEF RootPasses
  <2>11. /\ SameUser(t, u) /\ u.mon.refused = t.mon.refused
         /\ u.mon.proved = Append(t.mon.proved, "password")
         /\ u.mon.lists = IF Configured THEN upd.lists ELSE t.mon.lists
         /\ u.mon.phase = IF (Configured => upd.done) /\ RootPasses(h.s)
                          THEN "keystate" ELSE "loop"
    BY <1>8, <1>9, <2>7, <2>8, ZenonT(40) DEF SameUser
  <2>12. Configured => upd = auth2_update_methods_lists(t.mon.lists, "password")
    BY <1>7, <1>12, <2>2
  <2>13. Proved(t, u, "password")
    BY Zenon, <1>3, <1>12, <2>3, <2>9, <2>10, <2>11, <2>12 DEF Proved
  <2> QED BY <1>3, <1>12, <2>7, <2>8, <2>11, <2>13
<1> QED BY <1>11, <1>12

\* A request of a method whose handler answers and returns 0.
LEMMA CallRefused ==
  ASSUME NEW t \in State, Alive(t), t.mon.phase = "loop",
         NEW type \in MON_AUTH, type \in t.mon.permit, NEW r,
         NEW h, h = Handler(Asked(t), type, r), h.ret = FALSE,
         h.s \in State, h.s.mon.phase = "loop", h.s.ans.sent,
         NEW u, u = Call(t, type, r)
  PROVE  Refused(h.s, u, type)
<1> DEFINE w == monitor_child_preauth(h.s, type, FALSE)
<1>1. type \in Requests
  BY DEF Requests, MON_AUTH
<1>2. w = monitor_child_preauth(
            [h.s EXCEPT !.mon.permit = @ \ (MON_ONCE \cap {type})], type, h.ret)
  BY Zenon, PermitKept
<1>3. w = monitor_child_preauth(h.s, type, FALSE)
  OBVIOUS
<1> HIDE DEF w
<1>4. Refused(h.s, w, type)
  BY Zenon, <1>1, <1>3, PreauthRefused
<1>5. w.ans.sent
  BY <1>4 DEF Refused
<1>6. u = w
  BY <1>2, <1>5, CallPermitted
<1> QED BY <1>4, <1>6

\* One whose handler answers and has verified something.
LEMMA CallVerified ==
  ASSUME NEW t \in State, Alive(t), t.mon.phase = "loop",
         NEW type \in MON_AUTHDECIDE, type \in t.mon.permit, NEW r,
         NEW h, h = Handler(Asked(t), type, r), h.ret = TRUE,
         h.s \in State, h.s.mon.phase = "loop", h.s.ans.sent, MayAdvance(h.s),
         NEW u, u = Call(t, type, r)
  PROVE  Advanced(h.s, u, type)
<1> DEFINE w == monitor_child_preauth(h.s, type, TRUE)
<1>1. type \in MON_AUTH
  BY DEF MON_AUTHDECIDE, MON_AUTH
<1>2. w = monitor_child_preauth(
            [h.s EXCEPT !.mon.permit = @ \ (MON_ONCE \cap {type})], type, h.ret)
  BY Zenon, <1>1, PermitKept
<1>3. w = monitor_child_preauth(h.s, type, TRUE)
  OBVIOUS
<1> HIDE DEF w
<1>4. Advanced(h.s, w, type)
  BY Zenon, <1>3, PreauthVerified
<1>5. w.ans.sent
  BY <1>4 DEF Advanced
<1>6. u = w
  BY <1>2, <1>5, CallPermitted
<1> QED BY <1>4, <1>6

\* The monitor's answer on a key: it keeps the key if it is allowed.
LEMMA CallKeyAllowed ==
  ASSUME NEW t \in State, Alive(t), t.mon.phase = "loop",
         "KEYALLOWED" \in t.mon.permit, options \in Configs,
         NEW type \in KeyTypes, NEW key \in Keys, NEW listed \in BOOLEAN,
         NEW u, u = Call(t, "KEYALLOWED", [type |-> type, key |-> key, listed |-> listed])
  PROVE  /\ u \in State /\ u.net = t.net /\ u.auth = t.auth
         /\ SameUser(t, u) /\ NotProved(t, u) /\ u.mon.refused = t.mon.refused
         /\ u.ans.forced = u.mon.forced
         /\ u.ans.ok => t.mon.valid /\ u.mon.key = <<type, key>>
<1> DEFINE r == [type |-> type, key |-> key, listed |-> listed]
           a == Asked(t)
           h == Handler(a, "KEYALLOWED", r)
<1>1. /\ a \in State /\ a.net = t.net /\ a.auth = t.auth
      /\ a.mon = [t.mon EXCEPT !.method = "unknown"]
  BY Zenon, AskedEffect
<1> HIDE DEF a
<1>2. PICK allowed \in BOOLEAN :
        allowed = (/\ a.mon.valid /\ r.type \in options.enabled
                   /\ IF r.type = "publickey" THEN user_key_allowed(a, r.key)
                                              ELSE r.listed)
  BY Zenon
<1>3. PICK forced \in BOOLEAN :
        forced = IF a.mon.valid /\ r.type = "publickey" /\ r.type \in options.enabled
                 THEN allowed /\ options.authorized[a.mon.user][r.key] = "forced"
                 ELSE a.mon.forced
  <2>1. a.mon.forced \in BOOLEAN
    BY <1>1 DEF State, Mon
  <2> QED BY Zenon, <2>1
<1> DEFINE k == IF allowed THEN <<type, key>> ELSE <<>>
           mon == [t.mon EXCEPT !.method = "unknown", !.forced = forced, !.key = k]
           b == [monitor_reset_key_state(a) EXCEPT
                    !.mon.forced = forced,
                    !.mon.key = IF allowed THEN <<r.type, r.key>> ELSE @]
<1>4. h = Ret(Answer(b, allowed), FALSE)
  BY <1>2, <1>3 DEF Handler, mm_answer_keyallowed
<1>5. h.ret = FALSE /\ h.s = Answer(b, allowed)
  BY <1>4 DEF Ret
<1>6. k \in {<<>>} \cup (KeyTypes \X Keys)
  OBVIOUS
<1>7. b = [a EXCEPT !.mon = mon]
  <2>1. b = [a EXCEPT !.mon = [[a.mon EXCEPT !.key = <<>>] EXCEPT
                                   !.forced = forced, !.key = k]]
    BY Zenon, <1>1 DEF monitor_reset_key_state, State, Mon
  <2>2. [[a.mon EXCEPT !.key = <<>>] EXCEPT !.forced = forced, !.key = k] = mon
    <3> HIDE DEF k
    <3> QED BY Zenon, <1>1 DEF State, Mon
  <2> QED BY <2>1, <2>2
<1> HIDE DEF h, b, k
<1>8. /\ mon \in Mon /\ mon.key = k /\ mon.forced = forced
      /\ mon.lists = t.mon.lists
      /\ mon.proved = t.mon.proved /\ mon.phase = "loop"
      /\ mon.refused = t.mon.refused /\ mon.user = t.mon.user
      /\ mon.valid = t.mon.valid /\ mon.attempt = t.mon.attempt
      /\ mon.permit = t.mon.permit /\ mon.fatal = t.mon.fatal
  <2> DEFINE m1 == [t.mon EXCEPT !.method = "unknown"]
             m2 == [m1 EXCEPT !.forced = forced]
  <2>1. t.mon \in Mon
    BY DEF State
  <2>2. m1 \in Mon
    BY <2>1 DEF Mon
  <2>3. m2 \in Mon
    <3> HIDE DEF m1
    <3> QED BY <2>2 DEF Mon
  <2>4. mon = [m2 EXCEPT !.key = k]
    OBVIOUS
  <2>5. mon \in Mon
    <3> HIDE DEF m2, mon
    <3> QED BY <1>6, <2>3, <2>4 DEF Mon
  <2> QED BY <2>1, <2>5 DEF Mon
<1> HIDE DEF mon
<1>9. b \in State /\ b.net = t.net /\ b.auth = t.auth /\ b.mon = mon
  BY <1>1, <1>7, <1>8 DEF State
<1>10. /\ h.s \in State /\ h.s.net = t.net /\ h.s.auth = t.auth /\ h.s.mon = mon
       /\ h.s.ans = [sent |-> TRUE, ok |-> allowed, forced |-> forced]
  <2>1. /\ h.s \in State /\ h.s.net = b.net /\ h.s.mon = b.mon /\ h.s.auth = b.auth
        /\ h.s.ans = [sent |-> TRUE, ok |-> allowed, forced |-> b.mon.forced]
    BY <1>5, <1>9, AnswerEffect
  <2> QED BY <1>8, <1>9, <2>1
<1>11. h.s.ans.sent /\ h.s.mon.phase = "loop"
  BY <1>8, <1>10
<1>12. h = Handler(Asked(t), "KEYALLOWED", r)
  BY DEF h, a
<1>13. "KEYALLOWED" \in MON_AUTH /\ "KEYALLOWED" \notin MON_AUTHDECIDE
  BY Zenon DEF MON_AUTH, MON_AUTHDECIDE
<1>14. /\ u \in State /\ u.net = h.s.net /\ u.ans = h.s.ans /\ u.auth = h.s.auth
       /\ SameUser(h.s, u) /\ NotProved(h.s, u)
       /\ u.mon.forced = h.s.mon.forced /\ u.mon.key = h.s.mon.key
       /\ u.mon.refused = h.s.mon.refused + 0
  <2>1. u = Call(t, "KEYALLOWED", r)
    OBVIOUS
  <2> HIDE DEF r
  <2>2. Refused(h.s, u, "KEYALLOWED")
    BY Zenon, <1>5, <1>10, <1>11, <1>12, <1>13, <2>1, CallRefused
  <2> QED BY <1>13, <2>2 DEF Refused
<1>15. u.mon.refused = t.mon.refused
  BY <1>8, <1>10, <1>14 DEF Mon
<1>16. SameUser(t, u) /\ NotProved(t, u)
  <2>1. a.mon.user = t.mon.user /\ a.mon.forced = t.mon.forced
    BY Zenon, <1>1 DEF State, Mon
  <2>2. forced => t.mon.forced \/ Commanded(t.mon.user)
    BY <1>3, <2>1, ZenonT(30) DEF Commanded
  <2>3. u.mon.forced => t.mon.forced \/ Commanded(t.mon.user)
    BY Zenon, <1>8, <1>10, <1>14, <2>2
  <2> QED BY Zenon, <1>8, <1>10, <1>14, <2>3 DEF SameUser, NotProved
<1>17. u.ans.ok => t.mon.valid /\ u.mon.key = <<type, key>>
  BY <1>1, <1>2, <1>8, <1>10, <1>14 DEF k, State, Mon
<1>18. u.ans.forced = u.mon.forced
  BY <1>8, <1>10, <1>14
<1> QED BY <1>10, <1>14, <1>15, <1>16, <1>17, <1>18

\* The monitor's answer on a signature by the key that it allowed.
LEMMA CallKeyVerify ==
  ASSUME NEW t \in State, Alive(t), t.mon.phase = "loop",
         "KEYVERIFY" \in t.mon.permit, t.mon.lists \in Lists, t.mon.valid,
         NEW type \in KeyTypes, NEW key \in Keys, NEW good \in BOOLEAN,
         t.mon.key = <<type, key>>,
         Configured => \E i \in DOMAIN options.auth_methods :
                         list_starts_with(t.mon.lists[i], type),
         NEW u, u = Call(t, "KEYVERIFY", [key |-> key, user |-> t.mon.user, good |-> good])
  PROVE  /\ u \in State /\ u.net = t.net /\ u.auth = t.auth
         /\ SameUser(t, u) /\ u.mon.forced = t.mon.forced
         /\ ~u.ans.ok => NotProved(t, u) /\ u.mon.refused = t.mon.refused + 1
         /\ u.ans.ok => Proved(t, u, type)
<1> DEFINE r == [key |-> key, user |-> t.mon.user, good |-> good]
           a == Asked(t)
           h == Handler(a, "KEYVERIFY", r)
           mon == [t.mon EXCEPT !.method = type, !.key = <<>>]
           b == monitor_reset_key_state([a EXCEPT !.mon.method = a.mon.key[1]])
<1>1. /\ a \in State /\ a.net = t.net /\ a.auth = t.auth
      /\ a.mon = [t.mon EXCEPT !.method = "unknown"]
  BY Zenon, AskedEffect
<1> HIDE DEF a
<1>2. a.mon.key = <<type, key>> /\ a.mon.user = t.mon.user
  BY <1>1 DEF State, Mon
<1>3. monitor_allowed_key(a, key)
  BY <1>2 DEF monitor_allowed_key
<1>4. h = Ret(Answer(b, good), good)
  BY <1>2, <1>3 DEF Handler, mm_answer_keyverify
<1>5. h.ret = good /\ h.s = Answer(b, good)
  BY <1>4 DEF Ret
<1>6. b = [a EXCEPT !.mon = mon]
  <2>1. b = [a EXCEPT !.mon = [[a.mon EXCEPT !.method = type] EXCEPT !.key = <<>>]]
    <3> DEFINE m1 == [a.mon EXCEPT !.method = type]
               c == [a EXCEPT !.mon = m1]
    <3>1. b = monitor_reset_key_state(c)
      <4>1. a.mon.key[1] = type
        BY <1>2
      <4> QED BY <4>1
    <3>2. c.mon = m1 /\ \A x : [c EXCEPT !.mon = x] = [a EXCEPT !.mon = x]
      <4> HIDE DEF m1
      <4> QED BY Zenon, <1>1 DEF State
    <3> HIDE DEF c, b
    <3> QED BY <3>1, <3>2 DEF monitor_reset_key_state
  <2>2. [[a.mon EXCEPT !.method = type] EXCEPT !.key = <<>>] = mon
    BY Zenon, <1>1 DEF State, Mon
  <2> QED BY <2>1, <2>2
<1> HIDE DEF h, b
<1>7. type \in Methods
  BY DEF KeyTypes, Methods
<1>8. /\ mon \in Mon /\ mon.method = type /\ mon.forced = t.mon.forced
      /\ mon.lists = t.mon.lists
      /\ mon.proved = t.mon.proved /\ mon.phase = "loop"
      /\ mon.refused = t.mon.refused /\ mon.user = t.mon.user
      /\ mon.valid = t.mon.valid /\ mon.attempt = t.mon.attempt
      /\ mon.permit = t.mon.permit /\ mon.fatal = t.mon.fatal
  <2> DEFINE m1 == [t.mon EXCEPT !.method = type]
  <2>1. t.mon \in Mon
    BY DEF State
  <2>2. m1 \in Mon
    BY <1>7, <2>1 DEF Mon
  <2>3. mon = [m1 EXCEPT !.key = <<>>]
    OBVIOUS
  <2>4. mon \in Mon
    <3> HIDE DEF m1, mon
    <3> QED BY <2>2, <2>3 DEF Mon
  <2> QED BY Zenon, <2>1, <2>4 DEF Mon
<1> HIDE DEF mon
<1>9. b \in State /\ b.net = t.net /\ b.auth = t.auth /\ b.mon = mon
  BY <1>1, <1>6, <1>8 DEF State
<1>10. /\ h.s \in State /\ h.s.net = t.net /\ h.s.auth = t.auth /\ h.s.mon = mon
       /\ h.s.ans.sent /\ h.s.ans.ok = good
  <2>1. /\ h.s \in State /\ h.s.net = b.net /\ h.s.mon = b.mon /\ h.s.auth = b.auth
        /\ h.s.ans = [sent |-> TRUE, ok |-> good, forced |-> b.mon.forced]
    BY <1>5, <1>9, AnswerEffect
  <2> QED BY <1>9, <2>1
<1>11. /\ h = Handler(Asked(t), "KEYVERIFY", r) /\ h.s.mon.phase = "loop"
       /\ u = Call(t, "KEYVERIFY", r)
  BY <1>8, <1>10 DEF h, a
<1>12. "KEYVERIFY" \in MON_AUTH /\ "KEYVERIFY" \in MON_AUTHDECIDE
  BY Zenon DEF MON_AUTH, MON_AUTHDECIDE
<1> HIDE DEF r
<1>13. CASE ~good
  <2>1. h.ret = FALSE
    BY <1>5, <1>13
  <2>2. Refused(h.s, u, "KEYVERIFY")
    BY Zenon, <1>10, <1>11, <1>12, <2>1, CallRefused
  <2>3. /\ u \in State /\ u.net = t.net /\ u.auth = t.auth /\ ~u.ans.ok
        /\ u.mon.forced = t.mon.forced /\ u.mon.refused = t.mon.refused + 1
    BY <1>8, <1>10, <1>12, <1>13, <2>2 DEF Refused
  <2>4. SameUser(t, u) /\ NotProved(t, u)
    BY ZenonT(40), <1>8, <1>10, <2>2 DEF Refused, SameUser, NotProved
  <2> QED BY <2>3, <2>4
<1>14. CASE good
  <2>1. h.ret = TRUE
    BY <1>5, <1>14
  <2>2. Updated(h.s) = auth2_update_methods_lists(t.mon.lists, type)
    BY <1>8, <1>10 DEF Updated
  <2>3. Configured => Updated(h.s).found
    BY <2>2, UpdateLists
  <2>4. MayAdvance(h.s)
    BY Zenon, <1>7, <1>8, <1>10, <2>3 DEF MayAdvance
  <2>5. Advanced(h.s, u, "KEYVERIFY")
    BY Zenon, <1>10, <1>11, <1>12, <2>1, <2>4, CallVerified
  <2>6. /\ u \in State /\ u.net = t.net /\ u.auth = t.auth /\ u.ans.ok
        /\ u.mon.forced = t.mon.forced /\ u.mon.refused = t.mon.refused
    BY Zenon, <1>8, <1>10, <1>14, <2>5 DEF Advanced
  <2>7. SameUser(t, u)
    BY ZenonT(40), <1>8, <1>10, <2>5 DEF Advanced, SameUser
  <2>8. Verified(h.s, "KEYVERIFY") = type
    BY <1>8, <1>10 DEF Verified
  <2>9. u.mon.proved = Append(t.mon.proved, type)
    BY Zenon, <1>8, <1>10, <2>5, <2>8 DEF Advanced
  <2>10. u.mon.lists = IF Configured THEN Updated(h.s).lists ELSE t.mon.lists
    BY Zenon, <1>8, <1>10, <2>5 DEF Advanced
  <2>11. u.mon.phase = IF (Configured => Updated(h.s).done) /\ RootPasses(h.s)
                       THEN "keystate" ELSE "loop"
    BY Zenon, <1>8, <1>10, <2>5 DEF Advanced
  <2>12. RootPasses(h.s) <=>
           (t.mon.user = options.root => auth_root_allowed(type, u.mon.forced))
    BY ZenonT(40), <1>8, <1>10, <2>6 DEF RootPasses
  <2>13. Proved(t, u, type)
    BY <2>2, <2>3, <2>6, <2>9, <2>10, <2>11, <2>12, ZenonT(40) DEF Proved
  <2> QED BY Zenon, <2>6, <2>7, <2>13
<1> QED BY <1>13, <1>14

-----------------------------------------------------------------------------
(* The methods in the child.                                               *)

\* The state in which a method is tried.
Askable(v) ==
    /\ v \in State /\ Alive(v) /\ v.mon.phase \in {"loop", "dead"}
    /\ v.mon.phase = "loop" => MON_AUTH \subseteq v.mon.permit
    /\ v.mon.lists \in Lists /\ ~v.net.postponed /\ ~v.auth
    /\ v.net.failures < MaxTries

\* The monitor, as long as it is there, expects the method.
Expected(v, m) ==
    v.mon.phase = "loop" /\ Configured =>
      \E i \in DOMAIN options.auth_methods : list_starts_with(v.mon.lists[i], m)

\* What no method changes in the child.
NetKept(v, w) ==
    /\ w.net.keyed = v.net.keyed /\ w.net.dispatch = v.net.dispatch
    /\ w.net.attempt = v.net.attempt /\ w.net.user = v.net.user
    /\ w.net.service = v.net.service /\ w.net.valid = v.net.valid
    /\ w.net.lists = v.net.lists /\ w.net.failures = v.net.failures

\* The method in the eyes of the monitor.
Named(m) == IF m = "none" THEN "password" ELSE m

\* The monitor was gone.
Gone(v, w) ==
    /\ w.net.state = "dead" /\ v.mon.phase = "dead" /\ w.mon.phase = "dead"
    /\ NotProved(v, w) /\ w.mon.refused = v.mon.refused

\* Nothing was verified.  A check that failed is counted.
Failed(v, w, m) ==
    /\ Alive(w) /\ ~w.auth /\ NotProved(v, w)
    /\ \/ w.mon.refused = v.mon.refused
       \/ /\ w.mon.refused = v.mon.refused + 1
          /\ ~w.net.postponed /\ v.net.failures < MaxTries
          /\ m # "none" \/ options.permit_empty

\* The monitor has verified the method.
Passed(v, w, m) ==
    /\ Alive(w) /\ w.auth /\ ~w.net.postponed /\ v.mon.phase = "loop"
    /\ Proved(v, w, Named(m))
    /\ m \in {"none", "password"} \cup KeyTypes
    /\ m = "none" => ~Configured
    /\ m \in {"none", "password"} /\ v.mon.user = options.root =>
         options.permit_root = "yes"
    /\ m \in KeyTypes => w.net.forced = w.mon.forced

\* What a method comes to.
Outcome(v, w, m) ==
    /\ w \in State /\ NetKept(v, w) /\ SameUser(v, w)
    /\ Gone(v, w) \/ Failed(v, w, m) \/ Passed(v, w, m)

\* A result changes nothing else.
LEMMA ResultEffect ==
  ASSUME NEW t \in State, NEW ok \in BOOLEAN, NEW u, u = Result(t, ok)
  PROVE  /\ u \in State /\ u.net = t.net /\ u.mon = t.mon /\ u.ans = t.ans
         /\ u.auth = ok
BY DEF State, Result

\* The types of an answer.
LEMMA AnswerTypes ==
  ASSUME NEW t \in State
  PROVE  t.ans.ok \in BOOLEAN /\ t.ans.forced \in BOOLEAN /\ t.mon.forced \in BOOLEAN
BY DEF State, Mon

\* A method that asks nothing fails.
LEMMA NothingAsked ==
  ASSUME NEW v, Askable(v), NEW m, NEW w, w = Result(v, FALSE)
  PROVE  Outcome(v, w, m)
<1>1. /\ w \in State /\ w.net = v.net /\ w.mon = v.mon /\ w.auth = FALSE
  BY Zenon, ResultEffect DEF Askable
<1>2. SameUser(v, w) /\ NetKept(v, w) /\ NotProved(v, w) /\ w.mon.refused = v.mon.refused
  BY Zenon, <1>1 DEF SameUser, NetKept, NotProved
<1> QED BY Zenon, <1>1, <1>2 DEF Outcome, Failed, Alive, Askable

\* A password.
LEMMA PasswordOutcome ==
  ASSUME NEW v, Askable(v), options \in Configs, SameRules,
         NEW m \in {"none", "password"}, NEW empty \in BOOLEAN, NEW good \in BOOLEAN,
         m = "none" => empty /\ options.permit_empty,
         m = "password" => Expected(v, "password"),
         NEW w, w = mm_auth_password(v, empty, good)
  PROVE  Outcome(v, w, m)
<1> DEFINE u == Call(v, "AUTHPASSWORD", [empty |-> empty, good |-> good])
<1>1. w = Result(u, u.ans.ok) /\ u = Call(v, "AUTHPASSWORD", [empty |-> empty, good |-> good])
  BY DEF mm_auth_password
<1> HIDE DEF u
<1>2. v \in State /\ Alive(v) /\ v.mon.lists \in Lists
  BY Zenon DEF Askable
<1>3. CASE v.mon.phase = "dead"
  <2>1. /\ u \in State /\ u.mon = v.mon /\ u.ans = v.ans /\ u.auth = v.auth
        /\ u.net = [v.net EXCEPT !.state = "dead"]
    BY <1>1, <1>2, <1>3, CallDead
  <2>2. w \in State /\ w.net = u.net /\ w.mon = v.mon
    <3>1. u.ans.ok \in BOOLEAN
      BY <2>1, AnswerTypes
    <3>2. w \in State /\ w.net = u.net /\ w.mon = u.mon
      BY <1>1, <2>1, <3>1, ResultEffect
    <3> QED BY <2>1, <3>2
  <2>3. NetKept(v, w) /\ w.net.state = "dead"
    BY <1>2, <2>1, <2>2 DEF NetKept, State, Net
  <2>4. SameUser(v, w) /\ Gone(v, w)
    BY <1>3, <2>2, <2>3 DEF SameUser, Gone, NotProved
  <2> QED BY <2>2, <2>3, <2>4 DEF Outcome
<1>4. CASE v.mon.phase = "loop"
  <2>1. "AUTHPASSWORD" \in v.mon.permit
    BY <1>4 DEF Askable, MON_AUTH
  <2>2. Configured => \E i \in DOMAIN options.auth_methods :
                         list_starts_with(v.mon.lists[i], "password") \/ empty
    BY Zenon, <1>4 DEF SameRules, Expected
  <2>3. /\ u \in State /\ u.net = v.net /\ u.auth = v.auth /\ SameUser(v, u)
        /\ ~u.ans.ok => NotProved(v, u) /\ u.mon.refused = v.mon.refused + 1
        /\ u.ans.ok => /\ Proved(v, u, "password")
                       /\ empty => options.permit_empty
                       /\ v.mon.user = options.root => options.permit_root = "yes"
    BY <1>1, <1>2, <1>4, <2>1, <2>2, CallPassword
  <2>4. w \in State /\ w.net = v.net /\ w.mon = u.mon /\ w.auth = u.ans.ok
    <3>1. u.ans.ok \in BOOLEAN
      BY Zenon, <2>3, AnswerTypes
    <3>2. w \in State /\ w.net = u.net /\ w.mon = u.mon /\ w.auth = u.ans.ok
      BY <1>1, <2>3, <3>1, ResultEffect
    <3> QED BY <2>3, <3>2
  <2>5. NetKept(v, w) /\ SameUser(v, w) /\ Alive(w)
    BY Zenon, <1>2, <2>3, <2>4 DEF NetKept, SameUser, Alive
  <2>6. CASE u.ans.ok
    <3>1. Proved(v, w, "password") /\ Named(m) = "password"
      BY Zenon, <2>3, <2>4, <2>6 DEF Proved, Named
    <3>2. Passed(v, w, m)
      BY <1>4, <2>3, <2>4, <2>5, <2>6, <3>1 DEF Passed, SameRules, Askable, KeyTypes
    <3> QED BY Zenon, <2>4, <2>5, <3>2 DEF Outcome
  <2>7. CASE ~u.ans.ok
    <3>1. NotProved(v, w) /\ w.mon.refused = v.mon.refused + 1
      BY <2>3, <2>4, <2>7 DEF NotProved
    <3>2. Failed(v, w, m)
      BY <2>4, <2>5, <2>7, <3>1 DEF Failed, Askable
    <3> QED BY Zenon, <2>4, <2>5, <3>2 DEF Outcome
  <2> QED BY <2>6, <2>7
<1> QED BY <1>3, <1>4 DEF Askable

\* Noting that there is a forced command.
Note(t, b) == [t EXCEPT !.net.forced = b]

\* It changes nothing else.
LEMMA ForcedEffect ==
  ASSUME NEW t \in State, NEW b \in BOOLEAN, NEW u, u = Note(t, b)
  PROVE  /\ u \in State /\ u.mon = t.mon /\ u.ans = t.ans /\ u.auth = t.auth
         /\ NetKept(t, u) /\ u.net.forced = b /\ u.net.state = t.net.state
         /\ u.net.postponed = t.net.postponed
<1> DEFINE net == [t.net EXCEPT !.forced = b]
<1>1. t.net \in Net /\ net \in Net
  BY DEF State, Net
<1>2. u = [t EXCEPT !.net = net]
  BY DEF State, Note
<1>3. /\ net.keyed = t.net.keyed /\ net.dispatch = t.net.dispatch
      /\ net.attempt = t.net.attempt /\ net.user = t.net.user
      /\ net.service = t.net.service /\ net.valid = t.net.valid
      /\ net.lists = t.net.lists /\ net.failures = t.net.failures
      /\ net.forced = b /\ net.state = t.net.state /\ net.postponed = t.net.postponed
  BY <1>1 DEF Net
<1> HIDE DEF net
<1>4. /\ u \in State /\ u.mon = t.mon /\ u.ans = t.ans /\ u.auth = t.auth
      /\ u.net = net
  BY <1>1, <1>2 DEF State
<1> QED BY <1>3, <1>4 DEF NetKept

\* Postponing the result of a method.
Postpone(t, b) == [t EXCEPT !.net.postponed = b, !.auth = FALSE]

\* It changes nothing else.
LEMMA PostponedEffect ==
  ASSUME NEW t \in State, NEW b \in BOOLEAN, NEW u, u = Postpone(t, b)
  PROVE  /\ u \in State /\ u.mon = t.mon /\ u.auth = FALSE
         /\ NetKept(t, u) /\ u.net.forced = t.net.forced /\ u.net.state = t.net.state
<1> DEFINE net == [t.net EXCEPT !.postponed = b]
<1>1. t.net \in Net /\ net \in Net
  BY DEF State, Net
<1>2. u = [[t EXCEPT !.net = net] EXCEPT !.auth = FALSE]
  BY DEF State, Postpone
<1>3. /\ net.keyed = t.net.keyed /\ net.dispatch = t.net.dispatch
      /\ net.attempt = t.net.attempt /\ net.user = t.net.user
      /\ net.service = t.net.service /\ net.valid = t.net.valid
      /\ net.lists = t.net.lists /\ net.failures = t.net.failures
      /\ net.forced = t.net.forced /\ net.state = t.net.state
  BY <1>1 DEF Net
<1> HIDE DEF net
<1>4. u \in State /\ u.mon = t.mon /\ u.auth = FALSE /\ u.net = net
  BY Zenon, <1>1, <1>2 DEF State
<1> QED BY <1>3, <1>4 DEF NetKept

\* The child has asked about a key.
KeyAsked(v, q, type, key) ==
    /\ q \in State /\ NetKept(v, q) /\ SameUser(v, q) /\ ~q.net.postponed
    /\ NotProved(v, q) /\ q.mon.refused = v.mon.refused
    /\ \/ v.mon.phase = "dead" /\ q.net.state = "dead"
       \/ /\ v.mon.phase = "loop" /\ Alive(q) /\ q.net.forced = q.mon.forced
          /\ q.auth => v.mon.valid /\ q.mon.key = <<type, key>>

\* Asking about a key.
LEMMA KeyAllowedEffect ==
  ASSUME NEW v, Askable(v), options \in Configs, NEW type \in KeyTypes, NEW r,
         r.key \in Keys, r.listed \in BOOLEAN,
         NEW q, q = mm_key_allowed(v, type, r)
  PROVE  KeyAsked(v, q, type, r.key)
<1> DEFINE u == Call(v, "KEYALLOWED", [type |-> type, key |-> r.key, listed |-> r.listed])
           x == Note(u, u.ans.forced)
<1>1. /\ u = Call(v, "KEYALLOWED", [type |-> type, key |-> r.key, listed |-> r.listed])
      /\ x = Note(u, u.ans.forced) /\ q = Result(x, u.ans.ok)
  BY DEF mm_key_allowed, Note
<1> HIDE DEF u, x
<1>2. v \in State /\ Alive(v) /\ ~v.net.postponed
  BY DEF Askable
<1>3. ASSUME u \in State
      PROVE  /\ q \in State /\ q.mon = u.mon /\ q.auth = u.ans.ok
             /\ NetKept(u, q) /\ q.net.forced = u.ans.forced
             /\ q.net.state = u.net.state /\ q.net.postponed = u.net.postponed
  <2>1. PICK ok \in BOOLEAN, forced \in BOOLEAN :
          ok = u.ans.ok /\ forced = u.ans.forced
    BY Zenon, <1>3, AnswerTypes
  <2>2. x = Note(u, forced) /\ q = Result(x, ok)
    BY Zenon, <1>1, <2>1
  <2>3. /\ x \in State /\ x.mon = u.mon
        /\ NetKept(u, x) /\ x.net.forced = forced
        /\ x.net.state = u.net.state /\ x.net.postponed = u.net.postponed
    BY <1>3, <2>2, ForcedEffect, SMTT(40)
  <2>4. q \in State /\ q.net = x.net /\ q.mon = x.mon /\ q.auth = ok
    BY <2>2, <2>3, ResultEffect, SMTT(30)
  <2> QED BY <2>1, <2>3, <2>4 DEF NetKept
<1>4. CASE v.mon.phase = "dead"
  <2>1. u \in State /\ u.mon = v.mon /\ u.net = [v.net EXCEPT !.state = "dead"]
    BY <1>1, <1>2, <1>4, CallDead
  <2>2. NetKept(v, u) /\ u.net.state = "dead" /\ ~u.net.postponed
    BY <1>2, <2>1 DEF NetKept, State, Net
  <2>3. SameUser(v, q) /\ NotProved(v, q) /\ q.mon.refused = v.mon.refused
    BY <1>3, <2>1 DEF SameUser, NotProved
  <2>4. NetKept(v, q)
    BY Zenon, <1>3, <2>1, <2>2 DEF NetKept
  <2> QED BY <1>3, <1>4, <2>1, <2>2, <2>3, <2>4 DEF KeyAsked
<1>5. CASE v.mon.phase = "loop"
  <2>1. "KEYALLOWED" \in v.mon.permit
    BY Zenon, <1>5 DEF Askable, MON_AUTH
  <2>2. /\ u \in State /\ u.net = v.net /\ u.auth = v.auth
        /\ SameUser(v, u) /\ NotProved(v, u) /\ u.mon.refused = v.mon.refused
        /\ u.ans.forced = u.mon.forced
        /\ u.ans.ok => v.mon.valid /\ u.mon.key = <<type, r.key>>
    BY <1>1, <1>2, <1>5, <2>1, CallKeyAllowed
  <2>3. SameUser(v, q) /\ NotProved(v, q) /\ q.mon.refused = v.mon.refused
    BY ZenonT(40), <1>3, <2>2 DEF SameUser, NotProved
  <2>4. NetKept(v, q) /\ Alive(q) /\ ~q.net.postponed
    BY ZenonT(40), <1>2, <1>3, <2>2 DEF NetKept, Alive
  <2>5. /\ q.net.forced = q.mon.forced
        /\ q.auth => v.mon.valid /\ q.mon.key = <<type, r.key>>
    BY <1>3, <2>2
  <2> QED BY Zenon, <1>3, <1>5, <2>2, <2>3, <2>4, <2>5 DEF KeyAsked
<1> QED BY <1>4, <1>5 DEF Askable

\* A key that is allowed, with a signature.
LEMMA KeyOutcome ==
  ASSUME NEW v, Askable(v), options \in Configs, NEW type \in KeyTypes, NEW r,
         r.key \in Keys, r.listed \in BOOLEAN, r.good \in BOOLEAN,
         Expected(v, type), v.net.user = v.mon.user,
         NEW w, w = AllowedAndVerified(v, type, r)
  PROVE  Outcome(v, w, type)
<1> DEFINE q == mm_key_allowed(v, type, r)
<1>1. q = mm_key_allowed(v, type, r) /\ w = IF q.auth /\ Alive(q) THEN mm_key_verify(q, r) ELSE q
  BY DEF AllowedAndVerified
<1> HIDE DEF q
<1>2. KeyAsked(v, q, type, r.key)
  BY Zenon, <1>1, KeyAllowedEffect
<1>3. CASE q.net.state = "dead"
  <2>1. w = q /\ v.mon.phase = "dead"
    BY Zenon, <1>1, <1>2, <1>3 DEF KeyAsked, Alive
  <2>2. Gone(v, w)
    BY Zenon, <1>2, <1>3, <2>1 DEF KeyAsked, Gone, NotProved
  <2> QED BY <1>2, <2>1, <2>2 DEF Outcome, KeyAsked
<1>4. CASE q.net.state # "dead" /\ ~q.auth
  <2>1. w = q /\ Alive(q)
    BY <1>1, <1>2, <1>4 DEF KeyAsked
  <2>2. Failed(v, w, type)
    BY Zenon, <1>2, <1>4, <2>1 DEF KeyAsked, Failed
  <2> QED BY Zenon, <1>2, <2>1, <2>2 DEF Outcome, KeyAsked
<1>5. CASE q.net.state # "dead" /\ q.auth
  <2> DEFINE u == Call(q, "KEYVERIFY", [key |-> r.key, user |-> q.net.user, good |-> r.good])
  <2>1. /\ q \in State /\ Alive(q) /\ v.mon.phase = "loop" /\ v.mon.valid
        /\ q.mon.key = <<type, r.key>> /\ q.net.forced = q.mon.forced
        /\ ~q.net.postponed /\ NetKept(v, q) /\ SameUser(v, q) /\ NotProved(v, q)
        /\ q.mon.refused = v.mon.refused
    BY Zenon, <1>2, <1>5 DEF KeyAsked
  <2>2. /\ u = Call(q, "KEYVERIFY", [key |-> r.key, user |-> q.net.user, good |-> r.good])
        /\ w = Result(u, u.ans.ok)
    BY Zenon, <1>1, <1>5, <2>1 DEF mm_key_verify
  <2> HIDE DEF u
  <2>3. /\ q.net.user = q.mon.user /\ q.mon.phase = "loop" /\ q.mon.valid
        /\ q.mon.lists = v.mon.lists /\ q.mon.permit = v.mon.permit
        /\ q.mon.proved = v.mon.proved /\ q.mon.user = v.mon.user
    BY Zenon, <2>1 DEF NetKept, SameUser, NotProved
  <2>4. "KEYVERIFY" \in q.mon.permit /\ q.mon.lists \in Lists
    BY Zenon, <2>1, <2>3 DEF Askable, MON_AUTH
  <2>5. Configured => \E i \in DOMAIN options.auth_methods :
                         list_starts_with(q.mon.lists[i], type)
    BY Zenon, <2>1, <2>3 DEF Expected
  <2>6. u = Call(q, "KEYVERIFY", [key |-> r.key, user |-> q.mon.user, good |-> r.good])
    BY Zenon, <2>2, <2>3
  <2>7. /\ u \in State /\ u.net = q.net /\ u.auth = q.auth
        /\ SameUser(q, u) /\ u.mon.forced = q.mon.forced
        /\ ~u.ans.ok => NotProved(q, u) /\ u.mon.refused = q.mon.refused + 1
        /\ u.ans.ok => Proved(q, u, type)
    BY <2>1, <2>3, <2>4, <2>5, <2>6, CallKeyVerify
  <2>8. w \in State /\ w.net = q.net /\ w.mon = u.mon /\ w.auth = u.ans.ok
    <3>1. u.ans.ok \in BOOLEAN
      BY ZenonT(40), <2>7, AnswerTypes
    <3>2. w \in State /\ w.net = u.net /\ w.mon = u.mon /\ w.auth = u.ans.ok
      BY <2>2, <2>7, <3>1, ResultEffect, SMTT(40)
    <3> QED BY Zenon, <2>7, <3>2
  <2>9. NetKept(v, w) /\ SameUser(v, w) /\ Alive(w) /\ ~w.net.postponed
    BY Zenon, <2>1, <2>7, <2>8 DEF NetKept, SameUser, Alive
  <2>10. CASE u.ans.ok
    <3>1. Proved(v, w, type) /\ Named(type) = type
      BY ZenonT(40), <2>1, <2>3, <2>7, <2>8, <2>10 DEF Proved, Named, KeyTypes
    <3>2. w.net.forced = w.mon.forced
      BY Zenon, <2>1, <2>7, <2>8
    <3>3. Passed(v, w, type)
      BY Zenon, <2>1, <2>8, <2>9, <2>10, <3>1, <3>2 DEF Passed, KeyTypes
    <3> QED BY Zenon, <2>8, <2>9, <3>3 DEF Outcome
  <2>11. CASE ~u.ans.ok
    <3>1. NotProved(v, w) /\ w.mon.refused = v.mon.refused + 1
      BY Zenon, <2>1, <2>7, <2>8, <2>11 DEF NotProved
    <3>2. Failed(v, w, type)
      BY <2>8, <2>9, <2>11, <3>1 DEF Failed, Askable, KeyTypes
    <3> QED BY Zenon, <2>8, <2>9, <3>2 DEF Outcome
  <2> QED BY Zenon, <2>10, <2>11
<1> QED BY <1>3, <1>4, <1>5

\* The method "none" is tried once.
NoneOff(t) == [t EXCEPT !.net.none_enabled = FALSE]

\* It changes nothing else.
LEMMA NoneOffEffect ==
  ASSUME NEW t \in State, NEW u, u = NoneOff(t)
  PROVE  /\ u \in State /\ u.mon = t.mon /\ u.auth = t.auth
         /\ NetKept(t, u) /\ u.net.state = t.net.state
         /\ u.net.postponed = t.net.postponed
<1> DEFINE net == [t.net EXCEPT !.none_enabled = FALSE]
<1>1. t.net \in Net /\ net \in Net
  BY Zenon DEF State, Net
<1>2. u = [t EXCEPT !.net = net]
  BY DEF State, NoneOff
<1>3. /\ net.keyed = t.net.keyed /\ net.dispatch = t.net.dispatch
      /\ net.attempt = t.net.attempt /\ net.user = t.net.user
      /\ net.service = t.net.service /\ net.valid = t.net.valid
      /\ net.lists = t.net.lists /\ net.failures = t.net.failures
      /\ net.state = t.net.state /\ net.postponed = t.net.postponed
  BY <1>1 DEF Net
<1> HIDE DEF net
<1>4. u \in State /\ u.mon = t.mon /\ u.auth = t.auth /\ u.net = net
  BY <1>1, <1>2 DEF State
<1> QED BY <1>3, <1>4 DEF NetKept

\* What a client sends.
IsRequest(r) ==
    /\ r.user \in Users /\ r.service \in Services /\ r.method \in Methods
    /\ r.empty \in BOOLEAN /\ r.good \in BOOLEAN /\ r.change \in BOOLEAN
    /\ r.have_sig \in BOOLEAN /\ r.decoded \in BOOLEAN /\ r.listed \in BOOLEAN
    /\ r.method \in KeyTypes => r.key \in Keys

\* The method "none".
LEMMA NoneOutcome ==
  ASSUME NEW v, Askable(v), options \in Configs, SameRules, NEW r, IsRequest(r),
         NEW w, w = userauth_none(v, r)
  PROVE  Outcome(v, w, "none")
<1> DEFINE u == NoneOff(v)
<1>1. /\ u = NoneOff(v)
      /\ w = IF options.permit_empty /\ "password" \in options.enabled
             THEN mm_auth_password(u, TRUE, r.good) ELSE Result(u, FALSE)
  BY DEF userauth_none, NoneOff
<1> HIDE DEF u
<1>2. v \in State
  BY DEF Askable
<1>3. /\ u \in State /\ u.mon = v.mon /\ u.auth = v.auth
      /\ NetKept(v, u) /\ u.net.state = v.net.state /\ u.net.postponed = v.net.postponed
  BY <1>1, <1>2, NoneOffEffect
<1>4. Askable(u)
  BY <1>3 DEF Askable, Alive, NetKept
<1>5. r.good \in BOOLEAN
  BY DEF IsRequest
<1>6. Outcome(u, w, "none")
  <2>1. CASE options.permit_empty /\ "password" \in options.enabled
    <3>1. w = mm_auth_password(u, TRUE, r.good)
      BY <1>1, <2>1
    <3> QED BY Zenon, <1>4, <1>5, <2>1, <3>1, PasswordOutcome
  <2>2. CASE ~(options.permit_empty /\ "password" \in options.enabled)
    <3>1. w = Result(u, FALSE)
      BY Zenon, <1>1, <2>2
    <3> QED BY Zenon, <1>4, <3>1, NothingAsked
  <2> QED BY <2>1, <2>2
<1>7. w \in State /\ NetKept(v, w) /\ SameUser(v, w)
  BY <1>3, <1>6 DEF Outcome, NetKept, SameUser
<1>8. /\ Gone(u, w) => Gone(v, w)
      /\ Failed(u, w, "none") => Failed(v, w, "none")
      /\ Passed(u, w, "none") => Passed(v, w, "none")
  BY Zenon, <1>3 DEF Gone, Failed, Passed, NotProved, Proved, NetKept
<1> QED BY <1>6, <1>7, <1>8 DEF Outcome

\* A public key.
LEMMA PubkeyOutcome ==
  ASSUME NEW v, Askable(v), options \in Configs, NEW r, IsRequest(r), r.key \in Keys,
         Expected(v, "publickey"), v.net.user = v.mon.user,
         NEW w, w = userauth_pubkey(v, r)
  PROVE  Outcome(v, w, "publickey")
<1>1. r.listed \in BOOLEAN /\ r.good \in BOOLEAN /\ "publickey" \in KeyTypes
  BY DEF IsRequest, KeyTypes
<1>2. CASE ~v.net.valid \/ ~r.decoded
  <2>1. w = Result(v, FALSE)
    BY Zenon, <1>2 DEF userauth_pubkey
  <2> QED BY Zenon, <2>1, NothingAsked
<1>3. CASE v.net.valid /\ r.decoded /\ r.have_sig
  <2> DEFINE u == AllowedAndVerified(v, "publickey", r)
  <2>1. /\ u = AllowedAndVerified(v, "publickey", r)
        /\ w = Note(u, u.net.forced /\ u.auth)
    BY Zenon, <1>3 DEF userauth_pubkey, Note
  <2> HIDE DEF u
  <2>2. Outcome(v, u, "publickey")
    BY <1>1, <2>1, KeyOutcome
  <2>3. PICK b \in BOOLEAN : b = (u.net.forced /\ u.auth)
    BY Zenon
  <2>4. u \in State /\ w = Note(u, b)
    BY Zenon, <2>1, <2>2, <2>3 DEF Outcome
  <2>5. /\ w \in State /\ w.mon = u.mon /\ w.auth = u.auth
        /\ NetKept(u, w) /\ w.net.forced = b /\ w.net.state = u.net.state
        /\ w.net.postponed = u.net.postponed
    BY <2>4, ForcedEffect
  <2>6. NetKept(v, w) /\ SameUser(v, w)
    BY Zenon, <2>2, <2>5 DEF Outcome, NetKept, SameUser
  <2>7. u.net.forced \in BOOLEAN /\ u.auth \in BOOLEAN
    BY Zenon, <2>4 DEF State, Net
  <2>8. u.auth => w.net.forced = u.net.forced
    BY Zenon, <2>3, <2>5, <2>7
  <2>9. Passed(v, u, "publickey") => Passed(v, w, "publickey")
    BY Zenon, <2>5, <2>8 DEF Passed, Proved, Alive
  <2>10. /\ Gone(v, u) => Gone(v, w)
         /\ Failed(v, u, "publickey") => Failed(v, w, "publickey")
    BY Zenon, <2>5 DEF Gone, Failed, NotProved, Alive
  <2> QED BY <2>2, <2>5, <2>6, <2>9, <2>10 DEF Outcome
<1>4. CASE v.net.valid /\ r.decoded /\ ~r.have_sig
  <2> DEFINE q == mm_key_allowed(v, "publickey", r)
             u == Postpone(q, q.auth)
  <2>1. /\ q = mm_key_allowed(v, "publickey", r) /\ u = Postpone(q, q.auth)
        /\ w = Note(u, u.net.forced /\ u.auth)
    BY Zenon, <1>4 DEF userauth_pubkey, Note, Postpone
  <2> HIDE DEF u, q
  <2>2. KeyAsked(v, q, "publickey", r.key)
    BY Zenon, <1>1, <2>1, KeyAllowedEffect
  <2>3. q \in State /\ q.auth \in BOOLEAN
    BY <2>2 DEF KeyAsked, State
  <2>4. /\ u \in State /\ u.mon = q.mon /\ u.auth = FALSE
        /\ NetKept(q, u) /\ u.net.state = q.net.state
    BY ZenonT(40), <2>1, <2>3, PostponedEffect
  <2>5. w = Note(u, FALSE)
    BY Zenon, <2>1, <2>4
  <2>6. /\ w \in State /\ w.mon = u.mon /\ w.auth = u.auth
        /\ NetKept(u, w) /\ w.net.state = u.net.state
    BY ZenonT(40), <2>4, <2>5, ForcedEffect
  <2>7. NetKept(v, w) /\ SameUser(v, w) /\ NotProved(v, w) /\ ~w.auth
    BY ZenonT(40), <2>2, <2>4, <2>6 DEF KeyAsked, NetKept, SameUser, NotProved
  <2>8. w.mon.refused = v.mon.refused
    BY Zenon, <2>2, <2>4, <2>6 DEF KeyAsked
  <2>9. CASE q.net.state = "dead"
    <3>1. Gone(v, w)
      BY Zenon, <2>2, <2>4, <2>6, <2>7, <2>8, <2>9 DEF KeyAsked, Gone, NotProved, Alive
    <3> QED BY Zenon, <2>6, <2>7, <3>1 DEF Outcome
  <2>10. CASE q.net.state # "dead"
    <3>1. Failed(v, w, "publickey")
      BY Zenon, <2>2, <2>4, <2>6, <2>7, <2>8, <2>10 DEF KeyAsked, Failed, Alive
    <3> QED BY Zenon, <2>6, <2>7, <3>1 DEF Outcome
  <2> QED BY <2>9, <2>10
<1> QED BY Zenon, <1>2, <1>3, <1>4

\* Whatever the method, its outcome is one of three.
LEMMA UserauthOutcome ==
  ASSUME NEW v, Askable(v), options \in Configs, SameRules, NEW r, IsRequest(r),
         r.method # "none" => Expected(v, r.method), v.net.user = v.mon.user,
         NEW w, w = Userauth(v, r)
  PROVE  Outcome(v, w, r.method)
<1>1. CASE r.method = "none"
  <2>1. w = userauth_none(v, r)
    BY Zenon, <1>1 DEF Userauth
  <2> QED BY <1>1, <2>1, NoneOutcome
<1>2. CASE r.method = "password"
  <2>1. w = IF r.change THEN Result(v, FALSE) ELSE mm_auth_password(v, r.empty, r.good)
    BY <1>2 DEF Userauth, userauth_passwd
  <2>2. r.empty \in BOOLEAN /\ r.good \in BOOLEAN /\ Expected(v, "password")
    BY <1>2 DEF IsRequest
  <2>3. CASE r.change
    <3>1. w = Result(v, FALSE)
      BY <2>1, <2>3
    <3> QED BY Zenon, <3>1, NothingAsked
  <2>4. CASE ~r.change
    <3>1. w = mm_auth_password(v, r.empty, r.good)
      BY <2>1, <2>4
    <3>2. Outcome(v, w, "password")
      BY <2>2, <3>1, PasswordOutcome
    <3> QED BY <1>2, <3>2
  <2> QED BY <2>3, <2>4
<1>3. CASE r.method = "publickey"
  <2>1. w = userauth_pubkey(v, r)
    BY <1>3 DEF Userauth
  <2>2. r.key \in Keys /\ Expected(v, "publickey")
    BY <1>3 DEF IsRequest, KeyTypes
  <2>3. Outcome(v, w, "publickey")
    BY Zenon, <2>1, <2>2, PubkeyOutcome
  <2> QED BY <1>3, <2>3
<1>4. CASE r.method = "hostbased"
  <2>1. w = userauth_hostbased(v, r)
    BY <1>4 DEF Userauth
  <2>2. /\ r.key \in Keys /\ r.listed \in BOOLEAN /\ r.good \in BOOLEAN
        /\ "hostbased" \in KeyTypes /\ Expected(v, "hostbased")
    BY <1>4 DEF IsRequest, KeyTypes
  <2>3. CASE ~v.net.valid \/ ~r.decoded
    <3>1. w = Result(v, FALSE)
      BY Zenon, <2>1, <2>3 DEF userauth_hostbased
    <3> QED BY Zenon, <3>1, NothingAsked
  <2>4. CASE ~(~v.net.valid \/ ~r.decoded)
    <3>1. w = AllowedAndVerified(v, "hostbased", r)
      BY <2>1, <2>4 DEF userauth_hostbased
    <3>2. Outcome(v, w, "hostbased")
      BY <2>2, <3>1, KeyOutcome
    <3> QED BY <1>4, <3>2
  <2> QED BY <2>3, <2>4
<1>5. CASE r.method = "keyboard-interactive"
  <2>1. w = Result(v, FALSE)
    BY Zenon, <1>5 DEF Userauth, userauth_kbdint
  <2> QED BY Zenon, <2>1, NothingAsked
<1> QED BY Zenon, <1>1, <1>2, <1>3, <1>4, <1>5 DEF IsRequest, Methods

-----------------------------------------------------------------------------
(* The end of a request.                                                   *)

\* What the invariant says of the monitor alone.
MonGood(t) ==
    /\ t.mon.fatal = "" /\ (t.mon.forced => Commanded(t.mon.user))
    /\ t.mon.user = options.root /\ options.permit_root # "yes" =>
         \A i \in DOMAIN t.mon.proved : t.mon.proved[i] # "password"
    /\ t.mon.attempt = 1 =>
         /\ t.mon.lists \in Lists
         /\ \A i \in DOMAIN options.auth_methods :
              Progress(auth2_setup_methods_lists[i], t.mon.lists[i], t.mon.proved)
    /\ t.mon.phase \in {"keystate", "wait", "authenticated"} => Completed(t)

\* After a request: the child is gone, goes on, or has told the client of the
\* success.
Ended(t) == t.net.state = "dead"
GoesOn(t) ==
    /\ t.net.state = "run" /\ t.mon.phase \in {"loop", "dead"}
    /\ t.mon.phase = "loop" => MON_AUTH \subseteq t.mon.permit
    /\ t.mon.user = t.net.user /\ (t.net.valid => t.mon.valid)
    /\ t.net.lists \in Lists /\ t.mon.lists \in Lists
    /\ t.mon.phase = "loop" => t.net.lists = t.mon.lists
    /\ t.mon.refused <= t.net.failures + Free(t)
Succeeds(t) ==
    /\ t.net.state = "success" /\ t.mon.phase = "keystate"
    /\ t.mon.user = t.net.user /\ t.net.valid /\ t.mon.valid
    /\ t.net.lists \in Lists /\ t.mon.lists \in Lists
    /\ t.net.user = options.root =>
         /\ options.permit_root # "no"
         /\ options.permit_root = "forced-commands-only" => t.mon.forced

Requested(t) ==
    /\ t.net.keyed /\ t.net.dispatch /\ t.net.attempt > 0 /\ t.mon.attempt = 1
    /\ t.mon.refused <= MaxTries + (IF options.permit_empty THEN 1 ELSE 0)

\* Each of the three satisfies the invariant.
LEMMA InvAfterRequest ==
  ASSUME NEW t \in State, MonGood(t), Requested(t), t.net.attempt \in 0..2,
         Ended(t) \/ GoesOn(t) \/ Succeeds(t)
  PROVE  Inv(t)
<1>1. PhasesInv(t)
  BY Zenon DEF PhasesInv, MonGood, Ended, GoesOn, Succeeds
<1>2. PermitInv(t)
  BY DEF PermitInv, Requested, Ended, GoesOn, Succeeds, Alive
<1>3. AgreeInv(t)
  BY DEF AgreeInv, Requested, Ended, GoesOn, Succeeds
<1>4. RootInv(t)
  BY Zenon DEF RootInv, MonGood, Requested, Ended, GoesOn, Succeeds
<1>5. ListsInv(t)
  BY Zenon DEF ListsInv, MonGood, Ended, GoesOn, Succeeds
<1>6. BoundInv(t)
  BY DEF BoundInv, Requested, Ended, GoesOn, Succeeds, Alive
<1> QED BY <1>1, <1>2, <1>3, <1>4, <1>5, <1>6 DEF Inv

\* The monitor's part of the invariant after a request that verified nothing.
LEMMA MonKept ==
  ASSUME NEW v, MonGood(v), NEW w, SameUser(v, w), NotProved(v, w)
  PROVE  MonGood(w)
BY Zenon DEF MonGood, SameUser, NotProved, Completed

\* A method that completes a list completes the authentication, and a method
\* that does not leaves lists that agree with what was verified.
LEMMA ListsProved ==
  ASSUME NEW v, v \in State, MonGood(v), v.mon.attempt = 1,
         options \in Configs, NEW m \in Methods, NEW w, w \in State, Proved(v, w, m)
  PROVE  /\ w.mon.lists \in Lists
         /\ \A i \in DOMAIN options.auth_methods :
              Progress(auth2_setup_methods_lists[i], w.mon.lists[i], w.mon.proved)
         /\ w.mon.phase = "keystate" => Completed(w)
<1> DEFINE upd == auth2_update_methods_lists(v.mon.lists, m)
           full(i) == auth2_setup_methods_lists[i]
<1>1. /\ v.mon.lists \in Lists /\ v.mon.proved \in Seq(Methods)
      /\ \A i \in DOMAIN options.auth_methods :
           Progress(auth2_setup_methods_lists[i], v.mon.lists[i], v.mon.proved)
  BY Zenon DEF MonGood, State, Mon
<1>2. /\ w.mon.lists = IF Configured THEN upd.lists ELSE v.mon.lists
      /\ w.mon.proved = Append(v.mon.proved, m)
      /\ Configured => upd.found
      /\ w.mon.phase = "keystate" => (Configured => upd.done)
  BY DEF Proved
<1>3. upd = auth2_update_methods_lists(v.mon.lists, m)
  OBVIOUS
<1> HIDE DEF upd
<1>4. /\ upd.lists \in Lists
      /\ \A i \in DOMAIN options.auth_methods :
           \/ upd.lists[i] = v.mon.lists[i]
           \/ /\ list_starts_with(v.mon.lists[i], m)
              /\ upd.lists[i] = Tail(v.mon.lists[i])
      /\ upd.done => \E i \in DOMAIN options.auth_methods :
                       list_starts_with(v.mon.lists[i], m) /\ Len(v.mon.lists[i]) = 1
  BY <1>1, <1>3, UpdateLists
<1>5. w.mon.lists \in Lists
  BY Zenon, <1>1, <1>2, <1>4
<1>6. \A i \in DOMAIN options.auth_methods :
         /\ auth2_setup_methods_lists[i] \in Seq(Methods)
         /\ v.mon.lists[i] \in Seq(Methods)
  BY <1>1, SetUpType DEF Lists
<1>7. ASSUME NEW i \in DOMAIN options.auth_methods
      PROVE  Progress(auth2_setup_methods_lists[i], w.mon.lists[i], w.mon.proved)
  <2> DEFINE f == auth2_setup_methods_lists[i]
             l == v.mon.lists[i]
  <2>1. /\ f \in Seq(Methods) /\ l \in Seq(Methods) /\ Progress(f, l, v.mon.proved)
    BY Zenon, <1>1, <1>6, <1>7
  <2>2. \/ w.mon.lists[i] = l
        \/ list_starts_with(l, m) /\ w.mon.lists[i] = Tail(l)
    BY <1>2, <1>4, <1>7
  <2> HIDE DEF f, l
  <2>3. Progress(f, l, Append(v.mon.proved, m))
    BY <1>1, <2>1, ProgressKeep
  <2>4. list_starts_with(l, m) => Progress(f, Tail(l), Append(v.mon.proved, m))
    BY <1>1, <2>1, ProgressStep
  <2>5. Progress(f, w.mon.lists[i], w.mon.proved)
    BY Zenon, <1>2, <2>2, <2>3, <2>4
  <2> QED BY <2>5 DEF f
<1>8. ASSUME w.mon.phase = "keystate" PROVE Completed(w)
  <2>1. CASE ~Configured
    <3>1. w.mon.proved # <<>>
      <4> DEFINE p == v.mon.proved
      <4>1. p \in Seq(Methods) /\ w.mon.proved = Append(p, m)
        BY <1>1, <1>2
      <4> HIDE DEF p
      <4>2. Len(Append(p, m)) = Len(p) + 1 /\ Len(p) \in Nat
        BY <4>1
      <4>3. Len(Append(p, m)) # 0
        BY <4>2
      <4> QED BY SMTT(30), <4>1, <4>3
    <3> QED BY <2>1, <3>1 DEF Completed
  <2>2. CASE Configured
    <3>1. PICK i \in DOMAIN options.auth_methods :
            list_starts_with(v.mon.lists[i], m) /\ Len(v.mon.lists[i]) = 1
      BY Zenon, <1>2, <1>4, <1>8, <2>2
    <3> DEFINE f == auth2_setup_methods_lists[i]
               l == v.mon.lists[i]
    <3>2. /\ f \in Seq(Methods) /\ l \in Seq(Methods) /\ Progress(f, l, v.mon.proved)
          /\ list_starts_with(l, m) /\ Len(l) = 1
      BY <1>1, <1>6, <3>1
    <3>3. /\ f # <<>> => /\ f = options.auth_methods[i]
                         /\ auth2_methods_valid(options.auth_methods[i])
      BY Zenon, SetUpType
    <3> HIDE DEF f, l
    <3>4. Progress(f, Tail(l), Append(v.mon.proved, m))
      BY <1>1, <3>2, ProgressStep
    <3>5. Tail(l) \in Seq(Methods) /\ Len(Tail(l)) = 0
      BY <3>2 DEF list_starts_with
    <3>6. InOrder(f, w.mon.proved)
      <4>1. w.mon.proved \in Seq(Methods)
        BY DEF State, Mon
      <4> QED BY Zenon, <1>2, <3>2, <3>4, <3>5, <4>1, ProgressDone
    <3>7. f # <<>>
      <4>1. PICK n \in 0..Len(f) : Len(l) = Len(f) - n
        BY Zenon, <3>2 DEF Progress
      <4>2. f \in Seq(Methods) /\ Len(l) = 1
        BY <3>2
      <4>3. Len(f) \in Nat
        BY <4>2
      <4>4. Len(f) # 0
        <5> DEFINE k == Len(f)
        <5>1. k \in Nat /\ n \in 0..k /\ 1 = k - n
          BY Zenon, <4>1, <4>2, <4>3
        <5> HIDE DEF k
        <5>2. k # 0
          BY <5>1
        <5> QED BY <5>2 DEF k
      <4> QED BY <4>2, <4>4
    <3> QED BY Zenon, <2>2, <3>3, <3>6, <3>7 DEF Completed
  <2> QED BY <2>1, <2>2
<1> QED BY <1>5, <1>7, <1>8

\* The monitor's part of the invariant after a method was verified.
LEMMA MonProved ==
  ASSUME NEW v, v \in State, MonGood(v), v.mon.attempt = 1, options \in Configs,
         NEW m \in Methods, NEW w, w \in State, SameUser(v, w), Proved(v, w, m),
         m = "password" /\ v.mon.user = options.root => options.permit_root = "yes"
  PROVE  MonGood(w)
<1>1. /\ w.mon.lists \in Lists
      /\ \A i \in DOMAIN options.auth_methods :
           Progress(auth2_setup_methods_lists[i], w.mon.lists[i], w.mon.proved)
      /\ w.mon.phase = "keystate" => Completed(w)
  BY ListsProved
<1>2. /\ w.mon.fatal = "" /\ w.mon.user = v.mon.user
      /\ w.mon.forced => Commanded(w.mon.user)
  BY Zenon DEF MonGood, SameUser
<1>3. w.mon.phase \in {"keystate", "wait", "authenticated"} => w.mon.phase = "keystate"
  BY DEF Proved
<1>4. ASSUME w.mon.user = options.root, options.permit_root # "yes",
             NEW i \in DOMAIN w.mon.proved
      PROVE  w.mon.proved[i] # "password"
  <2> DEFINE p == v.mon.proved
  <2>1. /\ p \in Seq(Methods) /\ w.mon.proved = Append(p, m)
        /\ \A j \in DOMAIN p : p[j] # "password"
    BY Zenon, <1>2, <1>4 DEF State, Mon, Proved, MonGood
  <2>2. m # "password"
    BY Zenon, <1>2, <1>4
  <2> HIDE DEF p
  <2>3. i \in 1..(Len(p) + 1) /\ Len(p) \in Nat /\ DOMAIN p = 1..Len(p)
    BY <1>4, <2>1
  <2>4. CASE i = Len(p) + 1
    BY <2>1, <2>2, <2>4
  <2>5. CASE i # Len(p) + 1
    <3>1. i \in 1..Len(p)
      BY <2>3, <2>5
    <3> QED BY <2>1, <2>3, <3>1
  <2> QED BY <2>4, <2>5
<1> QED BY Zenon, <1>1, <1>2, <1>3, <1>4 DEF MonGood

\* What the end of a request leaves alone.
Moved(t, u) ==
    /\ u \in State /\ u.mon = t.mon
    /\ u.net.keyed = t.net.keyed /\ u.net.dispatch = t.net.dispatch
    /\ u.net.attempt = t.net.attempt /\ u.net.user = t.net.user
    /\ u.net.valid = t.net.valid

\* The end of the connection.
LEMMA DisconnectEffect ==
  ASSUME NEW t \in State, NEW u, u = packet_disconnect(t)
  PROVE  /\ Moved(t, u) /\ u.net.state = "dead" /\ u.net.lists = t.net.lists
         /\ u.net.failures = t.net.failures
<1> DEFINE net == [t.net EXCEPT !.state = "dead"]
<1>1. t.net \in Net /\ net \in Net
  BY DEF State, Net
<1>2. u = [t EXCEPT !.net = net]
  BY DEF State, packet_disconnect
<1>3. /\ net.keyed = t.net.keyed /\ net.dispatch = t.net.dispatch
      /\ net.attempt = t.net.attempt /\ net.user = t.net.user
      /\ net.valid = t.net.valid /\ net.state = "dead" /\ net.lists = t.net.lists
      /\ net.failures = t.net.failures
  BY <1>1 DEF Net
<1> HIDE DEF net
<1>4. u \in State /\ u.mon = t.mon /\ u.net = net
  BY <1>1, <1>2 DEF State
<1> QED BY <1>3, <1>4 DEF Moved

\* The success.
Success(t) == [t EXCEPT !.net.state = "success"]

\* It changes nothing else.
LEMMA SuccessEffect ==
  ASSUME NEW t \in State, NEW u, u = Success(t)
  PROVE  Moved(t, u) /\ u.net.state = "success" /\ u.net.lists = t.net.lists
<1> DEFINE net == [t.net EXCEPT !.state = "success"]
<1>1. t.net \in Net /\ net \in Net
  BY DEF State, Net
<1>2. u = [t EXCEPT !.net = net]
  BY DEF State, Success
<1>3. /\ net.keyed = t.net.keyed /\ net.dispatch = t.net.dispatch
      /\ net.attempt = t.net.attempt /\ net.user = t.net.user
      /\ net.valid = t.net.valid /\ net.state = "success" /\ net.lists = t.net.lists
  BY <1>1 DEF Net
<1> HIDE DEF net
<1>4. u \in State /\ u.mon = t.mon /\ u.net = net
  BY <1>1, <1>2 DEF State
<1> QED BY <1>3, <1>4 DEF Moved

\* The lists of the child.
SetLists(t, lists) == [t EXCEPT !.net.lists = lists]

\* Setting them changes nothing else.
LEMMA SetListsEffect ==
  ASSUME NEW t \in State, NEW lists \in Lists, NEW u, u = SetLists(t, lists)
  PROVE  /\ Moved(t, u) /\ u.net.state = t.net.state /\ u.net.lists = lists
         /\ u.net.failures = t.net.failures /\ u.net.postponed = t.net.postponed
<1> DEFINE net == [t.net EXCEPT !.lists = lists]
<1>1. t.net \in Net /\ net \in Net
  BY DEF State, Net
<1>2. u = [t EXCEPT !.net = net]
  BY DEF State, SetLists
<1>3. /\ net.keyed = t.net.keyed /\ net.dispatch = t.net.dispatch
      /\ net.attempt = t.net.attempt /\ net.user = t.net.user
      /\ net.valid = t.net.valid /\ net.state = t.net.state /\ net.lists = lists
      /\ net.failures = t.net.failures /\ net.postponed = t.net.postponed
  BY <1>1 DEF Net
<1> HIDE DEF net
<1>4. u \in State /\ u.mon = t.mon /\ u.net = net
  BY Zenon, <1>1, <1>2 DEF State
<1> QED BY <1>3, <1>4 DEF Moved

\* A failure is counted, but not the first "none".
Count(t, m) ==
    IF t.net.attempt > 1 \/ m # "none" THEN t.net.failures + 1 ELSE t.net.failures

\* The child counts it or ends.
LEMMA FailureEffect ==
  ASSUME NEW t \in State, NEW m, NEW u, u = Failure(t, m)
  PROVE  /\ Moved(t, u) /\ u.net.lists = t.net.lists
         /\ \/ u.net.state = "dead"
            \/ u.net.state = t.net.state /\ u.net.failures = Count(t, m)
<1>1. CASE Count(t, m) >= MaxTries
  <2>1. u = packet_disconnect(t)
    BY <1>1 DEF Failure, Count
  <2> QED BY <2>1, DisconnectEffect
<1>2. CASE ~(Count(t, m) >= MaxTries)
  <2> DEFINE n == Count(t, m)
             net == [t.net EXCEPT !.failures = n]
  <2>1. t.net \in Net /\ t.net.failures \in Nat
    BY DEF State, Net
  <2>2. n \in Nat
    BY <2>1 DEF Count
  <2>3. u = [t EXCEPT !.net = net]
    BY <1>2 DEF State, Failure, Count
  <2> HIDE DEF n
  <2>4. /\ net \in Net /\ net.keyed = t.net.keyed /\ net.dispatch = t.net.dispatch
        /\ net.attempt = t.net.attempt /\ net.user = t.net.user
        /\ net.valid = t.net.valid /\ net.state = t.net.state
        /\ net.lists = t.net.lists /\ net.failures = n
    BY <2>1, <2>2 DEF Net
  <2> HIDE DEF net
  <2>5. u \in State /\ u.mon = t.mon /\ u.net = net
    BY <2>3, <2>4 DEF State
  <2> QED BY <2>4, <2>5 DEF Moved, n
<1> QED BY <1>1, <1>2

\* Between two messages.
LEMMA SettledEffect ==
  ASSUME NEW t \in State, NEW u, u = Settled(t)
  PROVE  /\ u \in State /\ u.net = t.net /\ SameUser(t, u) /\ NotProved(t, u)
         /\ u.mon.refused = t.mon.refused /\ u.mon.forced = t.mon.forced
         /\ u.mon.permit = t.mon.permit /\ u.auth = FALSE
<1> DEFINE mon == [t.mon EXCEPT !.method = "unknown"]
<1>1. t.mon \in Mon /\ mon \in Mon
  BY DEF State, Mon
<1>2. u = [[[t EXCEPT !.ans = NoAnswer] EXCEPT !.auth = FALSE] EXCEPT !.mon = mon]
  BY DEF State, Settled
<1>3. /\ mon.user = t.mon.user /\ mon.valid = t.mon.valid
      /\ mon.attempt = t.mon.attempt /\ mon.permit = t.mon.permit
      /\ mon.fatal = t.mon.fatal /\ mon.lists = t.mon.lists
      /\ mon.proved = t.mon.proved /\ mon.phase = t.mon.phase
      /\ mon.refused = t.mon.refused /\ mon.forced = t.mon.forced
  BY <1>1 DEF Mon
<1> HIDE DEF mon
<1>4. NoAnswer \in [sent: BOOLEAN, ok: BOOLEAN, forced: BOOLEAN]
  BY DEF NoAnswer
<1>5. u \in State /\ u.net = t.net /\ u.mon = mon /\ u.auth = FALSE
  BY Zenon, <1>1, <1>2, <1>4 DEF State
<1> QED BY <1>3, <1>5 DEF SameUser, NotProved

\* The state in which the child looks for the method of a request.
Ready(v) ==
    /\ Inv(v) /\ Alive(v) /\ v.net.attempt > 0 /\ ~v.net.postponed /\ ~v.auth
    /\ v.net.attempt = 1 => v.mon.refused = 0

\* What holds in it.
LEMMA ReadyFacts ==
  ASSUME NEW v, Ready(v)
  PROVE  /\ v \in State /\ Alive(v) /\ v.mon.phase \in {"loop", "dead"}
         /\ MonGood(v) /\ Requested(v) /\ GoesOn(v)
         /\ v.mon.refused \in Nat /\ v.net.failures \in Nat /\ v.net.attempt \in 1..2
<1>1. v \in State
  BY DEF Ready, Inv
<1>2. v.mon.refused \in Nat /\ v.net.failures \in Nat /\ v.net.attempt \in 1..2
  BY <1>1 DEF State, Mon, Net, Ready
<1>3. MonGood(v)
  BY Zenon DEF Ready, Inv, MonGood, PhasesInv, RootInv, ListsInv
<1>4. GoesOn(v)
  BY Zenon DEF Ready, Inv, GoesOn, PhasesInv, PermitInv, AgreeInv, BoundInv, Alive
<1>5. Requested(v)
  BY Zenon DEF Ready, Inv, Requested, PermitInv, AgreeInv, BoundInv, Alive
<1> QED BY Zenon, <1>1, <1>2, <1>3, <1>4, <1>5 DEF Ready, GoesOn

\* From the end of a request to the next message.
LEMMA SettleRequest ==
  ASSUME NEW x \in State, MonGood(x), Requested(x),
         Ended(x) \/ GoesOn(x) \/ Succeeds(x), NEW y, y = Settled(x)
  PROVE  Inv(y)
<1>1. /\ y \in State /\ y.net = x.net /\ SameUser(x, y) /\ NotProved(x, y)
      /\ y.mon.refused = x.mon.refused /\ y.mon.forced = x.mon.forced
      /\ y.mon.permit = x.mon.permit
  BY Zenon, SettledEffect
<1>2. MonGood(y)
  BY Zenon, <1>1, MonKept
<1>3. Requested(y)
  BY Zenon, <1>1 DEF Requested, SameUser
<1>4. /\ Ended(x) => Ended(y)
      /\ Succeeds(x) => Succeeds(y)
  BY <1>1 DEF Ended, Succeeds, SameUser, NotProved
<1>5. GoesOn(x) => GoesOn(y)
  BY Zenon, <1>1 DEF GoesOn, SameUser, NotProved, Free
<1>6. y.net.attempt \in 0..2
  BY <1>1 DEF State, Net
<1> QED BY <1>1, <1>2, <1>3, <1>4, <1>5, <1>6, InvAfterRequest

\* The end of a request after the monitor was gone.
LEMMA FinishGone ==
  ASSUME NEW v, Ready(v), NEW m, NEW w, w \in State, NetKept(v, w), SameUser(v, w),
         Gone(v, w), NEW x, x = userauth_finish(w, m)
  PROVE  x \in State /\ MonGood(x) /\ Requested(x) /\ Ended(x)
<1>1. x = w
  BY Zenon DEF userauth_finish, Alive, Gone
<1>2. MonGood(v) /\ Requested(v)
  BY ReadyFacts
<1>3. MonGood(w)
  BY Zenon, <1>2, MonKept DEF Gone
<1>4. Requested(w) /\ Ended(w)
  BY Zenon, <1>2 DEF Requested, Ended, Gone, NetKept, SameUser
<1> QED BY <1>1, <1>3, <1>4

\* The end of a request that verified nothing.
LEMMA FinishFailed ==
  ASSUME NEW v, Ready(v), options \in Configs, NEW m, NEW w, w \in State,
         NetKept(v, w), SameUser(v, w),
         Failed(v, w, m), NEW x, x = userauth_finish(w, m)
  PROVE  x \in State /\ MonGood(x) /\ Requested(x) /\ (Ended(x) \/ GoesOn(x))
<1>1. /\ v \in State /\ MonGood(v) /\ Requested(v) /\ GoesOn(v)
      /\ v.mon.refused \in Nat /\ v.net.failures \in Nat /\ v.net.attempt \in 1..2
      /\ v.net.attempt = 1 => v.mon.refused = 0
  BY Zenon, ReadyFacts DEF Ready
<1>2. MonGood(w)
  BY Zenon, <1>1, MonKept DEF Failed
<1>3. /\ MaxTries \in Nat /\ options.permit_empty \in BOOLEAN
      /\ Free(v) = IF options.permit_empty THEN 1 ELSE 0
  BY <1>1, AuthConstants, OptionTypes DEF Free
<1>4. x = IF w.net.postponed THEN SetLists(w, w.net.lists)
          ELSE Failure(SetLists(w, w.net.lists), m)
  BY Zenon DEF userauth_finish, Failed, SetLists
<1>5. w.net.lists \in Lists /\ w.net.postponed \in BOOLEAN
  BY Zenon, <1>1 DEF NetKept, GoesOn, State, Net
<1> DEFINE u == SetLists(w, w.net.lists)
<1>6. /\ Moved(w, u) /\ u.net.state = w.net.state /\ u.net.lists = w.net.lists
      /\ u.net.failures = w.net.failures
  BY <1>5, SetListsEffect
<1>7. x = IF w.net.postponed THEN u ELSE Failure(u, m)
  BY Zenon, <1>4
<1> HIDE DEF u
<1>8. /\ Moved(w, x) /\ x.net.lists = w.net.lists
      /\ \/ w.net.postponed /\ x.net.state = "run" /\ x.net.failures = w.net.failures
         \/ x.net.state = "dead"
         \/ x.net.state = "run" /\ x.net.failures = Count(w, m)
  <2>1. CASE w.net.postponed
    BY <1>6, <1>7, <2>1 DEF Failed, Alive
  <2>2. CASE ~w.net.postponed
    <3>1. x = Failure(u, m) /\ u \in State
      BY Zenon, <1>6, <1>7, <2>2 DEF Moved
    <3>2. /\ Moved(u, x) /\ x.net.lists = u.net.lists
          /\ \/ x.net.state = "dead"
             \/ x.net.state = u.net.state /\ x.net.failures = Count(u, m)
      BY ZenonT(40), <3>1, FailureEffect
    <3>3. Count(u, m) = Count(w, m) /\ u.net.state = "run"
      BY <1>6 DEF Count, Moved, Failed, Alive
    <3> QED BY Zenon, <1>6, <3>2, <3>3 DEF Moved
  <2> QED BY Zenon, <2>1, <2>2
<1>9. /\ x \in State /\ x.mon = w.mon /\ MonGood(x)
  <2>1. x \in State /\ x.mon = w.mon
    BY Zenon, <1>8 DEF Moved
  <2>2. SameUser(w, x) /\ NotProved(w, x)
    BY Zenon, <2>1 DEF SameUser, NotProved
  <2> QED BY Zenon, <1>2, <2>1, <2>2, MonKept
<1>10. \/ x.mon.refused = v.mon.refused
       \/ /\ x.mon.refused = v.mon.refused + 1 /\ ~w.net.postponed
          /\ v.net.failures < MaxTries
          /\ m # "none" \/ options.permit_empty
  BY <1>9 DEF Failed
<1>11. /\ x.net.keyed = v.net.keyed /\ x.net.dispatch = v.net.dispatch
       /\ x.net.attempt = v.net.attempt /\ x.net.user = v.net.user
       /\ x.net.valid = v.net.valid /\ x.net.lists = v.net.lists
       /\ w.net.failures = v.net.failures /\ w.net.attempt = v.net.attempt
  BY Zenon, <1>8 DEF Moved, NetKept
<1>12. /\ x.mon.attempt = v.mon.attempt /\ x.mon.user = v.mon.user
       /\ x.mon.valid = v.mon.valid /\ x.mon.permit = v.mon.permit
       /\ x.mon.lists = v.mon.lists /\ x.mon.phase = v.mon.phase
  BY <1>9 DEF SameUser, NotProved, Failed
<1>13. Requested(x)
  <2>1. x.mon.refused <= MaxTries + (IF options.permit_empty THEN 1 ELSE 0)
    <3> DEFINE one == IF options.permit_empty THEN 1 ELSE 0
    <3>1. /\ one \in Nat /\ v.mon.refused <= v.net.failures + one
          /\ v.mon.refused <= MaxTries + one
      BY Zenon, <1>1, <1>3 DEF Requested, GoesOn
    <3> HIDE DEF one
    <3>2. \/ x.mon.refused = v.mon.refused
          \/ x.mon.refused = v.mon.refused + 1 /\ v.net.failures < MaxTries
      BY Zenon, <1>10
    <3>3. x.mon.refused <= MaxTries + one
      BY <1>1, <1>3, <3>1, <3>2
    <3> QED BY Zenon, <3>3 DEF one
  <2> QED BY Zenon, <1>1, <1>11, <1>12, <2>1 DEF Requested
<1>14. ASSUME x.net.state = "run" PROVE GoesOn(x)
  <2>1. Free(x) = Free(v)
    BY Zenon, <1>11 DEF Free
  <2>2. x.mon.refused <= x.net.failures + Free(v)
    <3>1. \/ w.net.postponed /\ x.net.failures = v.net.failures
          \/ x.net.failures = IF v.net.attempt > 1 \/ m # "none"
                              THEN v.net.failures + 1 ELSE v.net.failures
      BY Zenon, <1>8, <1>11, <1>14 DEF Count
    <3>2. v.mon.refused <= v.net.failures + Free(v)
      BY Zenon, <1>1 DEF GoesOn
    <3> QED BY <1>1, <1>3, <1>10, <3>1, <3>2
  <2> QED BY Zenon, <1>1, <1>11, <1>12, <1>14, <2>1, <2>2 DEF GoesOn
<1> QED BY Zenon, <1>8, <1>9, <1>13, <1>14 DEF Ended

\* The end of a request whose method the monitor has verified: both processes
\* come to the same conclusion on root and on the lists.
LEMMA FinishPassed ==
  ASSUME NEW v, Ready(v), options \in Configs, SameRules, NEW m \in Methods,
         NEW w, w \in State, NetKept(v, w), SameUser(v, w),
         Passed(v, w, m), NEW x, x = userauth_finish(w, m)
  PROVE  /\ x \in State /\ MonGood(x) /\ Requested(x)
         /\ Ended(x) \/ GoesOn(x) \/ Succeeds(x)
<1> DEFINE root == w.net.user # options.root \/ auth_root_allowed(m, w.net.forced)
           upd == auth2_update_methods_lists(w.net.lists, m)
           done == Configured => upd.done
<1>1. /\ v \in State /\ MonGood(v) /\ Requested(v) /\ GoesOn(v)
      /\ v.mon.refused \in Nat /\ v.net.failures \in Nat /\ v.net.attempt \in 1..2
  BY Zenon, ReadyFacts
<1>2. /\ Named(m) \in Methods /\ Proved(v, w, Named(m))
      /\ Named(m) = "password" <=> m \in {"none", "password"}
      /\ Configured => Named(m) = m
      /\ m \in KeyTypes => Named(m) = m
  BY DEF Passed, Named, Methods, KeyTypes
<1>3. MonGood(w)
  <2>1. v.mon.attempt = 1
    BY Zenon, <1>1 DEF Requested
  <2>2. Named(m) = "password" /\ v.mon.user = options.root => options.permit_root = "yes"
    BY <1>2 DEF Passed
  <2> QED BY Zenon, <1>1, <1>2, <2>1, <2>2, MonProved
<1>4. /\ w.net.user = v.net.user /\ w.net.user = w.mon.user /\ w.mon.user = v.mon.user
      /\ w.net.lists = v.mon.lists /\ w.net.lists \in Lists
      /\ w.net.failures = v.net.failures /\ w.net.attempt = v.net.attempt
      /\ w.mon.refused = v.mon.refused /\ w.mon.permit = v.mon.permit
      /\ w.mon.valid /\ MON_AUTH \subseteq w.mon.permit
      /\ Alive(w) /\ w.auth /\ ~w.net.postponed
  BY Zenon, <1>1 DEF NetKept, SameUser, GoesOn, Passed, Proved
<1>5. Requested(w)
  BY Zenon, <1>1, <1>4 DEF Requested, NetKept, SameUser
<1>6. w.net.user = options.root /\ m \in {"none", "password"} => options.permit_root = "yes"
  BY Zenon, <1>4 DEF Passed
<1>7. Configured => root
  <2>1. ASSUME Configured, w.net.user = options.root
        PROVE  auth_root_allowed(m, w.net.forced)
    <3>1. options.permit_root \in {"yes", "without-password"}
      BY Zenon, <2>1 DEF SameRules
    <3>2. m = "password" => options.permit_root = "yes"
      BY Zenon, <1>6, <2>1
    <3> QED BY Zenon, <3>1, <3>2 DEF auth_root_allowed
  <2> QED BY <2>1
<1>8. root <=> (v.mon.user = options.root => auth_root_allowed(Named(m), w.mon.forced))
  <2>1. CASE m \in {"none", "password"}
    <3>1. w.net.user = options.root =>
            /\ auth_root_allowed(m, w.net.forced)
            /\ auth_root_allowed(Named(m), w.mon.forced)
      BY Zenon, <1>6, <2>1 DEF auth_root_allowed
    <3> QED BY <1>4, <3>1
  <2>2. CASE m \in KeyTypes
    <3>1. w.net.forced = w.mon.forced /\ Named(m) = m
      BY <1>2, <2>2 DEF Passed
    <3> QED BY Zenon, <1>4, <3>1
  <2> QED BY Zenon, <2>1, <2>2 DEF Passed
<1>9. /\ Configured => upd.found
      /\ w.mon.lists = IF Configured THEN upd.lists ELSE w.net.lists
      /\ w.mon.phase = IF done /\ root THEN "keystate" ELSE "loop"
  <2> DEFINE p == auth2_update_methods_lists(v.mon.lists, Named(m))
  <2>1. Configured => upd = p
    BY <1>2, <1>4
  <2>2. /\ Configured => p.found
        /\ w.mon.lists = IF Configured THEN p.lists ELSE v.mon.lists
        /\ w.mon.phase =
             IF /\ Configured => p.done
                /\ v.mon.user = options.root => auth_root_allowed(Named(m), w.mon.forced)
             THEN "keystate" ELSE "loop"
    BY Zenon, <1>2 DEF Proved
  <2> HIDE DEF p, upd, root
  <2> QED BY ZenonT(40), <1>4, <1>8, <2>1, <2>2
<1>10. w.mon.lists \in Lists
  <2>1. upd.lists \in Lists
    BY Zenon, <1>4, UpdateLists
  <2> HIDE DEF upd
  <2> QED BY Zenon, <1>4, <1>9, <2>1
<1>11. CASE ~w.net.valid
  <2>1. x = packet_disconnect(w)
    BY Zenon, <1>4, <1>11 DEF userauth_finish
  <2>2. Moved(w, x) /\ x.net.state = "dead"
    BY Zenon, <2>1, DisconnectEffect
  <2>3. SameUser(w, x) /\ NotProved(w, x) /\ Requested(x) /\ x \in State
    BY <1>5, <2>2 DEF SameUser, NotProved, Requested, Moved
  <2>4. MonGood(x)
    BY <1>3, <2>3, MonKept
  <2> QED BY <2>2, <2>3, <2>4 DEF Ended
<1>12. CASE w.net.valid
  <2> DEFINE u == SetLists(w, w.mon.lists)
  <2>1. x = IF root /\ done THEN Success(u) ELSE Failure(u, m)
    <3>1. (IF (w.auth /\ root) /\ Configured THEN upd.lists ELSE w.net.lists) = w.mon.lists
      <4> HIDE DEF upd, root
      <4> QED BY Zenon, <1>4, <1>7, <1>9
    <3>2. x = LET s1 == [w EXCEPT !.net.lists =
                           IF (w.auth /\ root) /\ Configured THEN upd.lists ELSE @]
              IN  IF (w.auth /\ root) /\ done
                  THEN [s1 EXCEPT !.net.state = "success"] ELSE Failure(s1, m)
      BY <1>4, <1>9, <1>12 DEF userauth_finish
    <3>3. x = LET s1 == SetLists(w, IF (w.auth /\ root) /\ Configured THEN upd.lists
                                    ELSE w.net.lists)
              IN  IF (w.auth /\ root) /\ done THEN Success(s1) ELSE Failure(s1, m)
      BY <3>2 DEF SetLists, Success
    <3> HIDE DEF upd, root
    <3> QED BY Zenon, <1>4, <3>1, <3>3
  <2>2. u = SetLists(w, w.mon.lists)
    OBVIOUS
  <2> HIDE DEF u, root, done
  <2>3. /\ Moved(w, u) /\ u.net.state = w.net.state /\ u.net.lists = w.mon.lists
        /\ u.net.failures = w.net.failures
    BY <1>10, <2>2, SetListsEffect
  <2>4. CASE root /\ done
    <3>1. x = Success(u) /\ u \in State
      BY Zenon, <2>1, <2>3, <2>4 DEF Moved
    <3>2. Moved(u, x) /\ x.net.state = "success" /\ x.net.lists = u.net.lists
      BY Zenon, <3>1, SuccessEffect
    <3>3. Moved(w, x)
      BY <2>3, <3>2 DEF Moved
    <3>4. SameUser(w, x) /\ NotProved(w, x) /\ Requested(x) /\ x \in State
      BY Zenon, <1>5, <3>3 DEF SameUser, NotProved, Requested, Moved
    <3>5. MonGood(x)
      BY <1>3, <3>4, MonKept
    <3>6. w.net.user = options.root =>
            /\ options.permit_root # "no"
            /\ options.permit_root = "forced-commands-only" => w.mon.forced
      <4>1. CASE m \in {"none", "password"}
        BY <1>6, <4>1
      <4>2. CASE m \in KeyTypes
        <5>1. w.net.forced = w.mon.forced
          BY Zenon, <4>2 DEF Passed
        <5>2. w.net.user = options.root => auth_root_allowed(m, w.net.forced)
          BY Zenon, <2>4 DEF root
        <5> QED BY Zenon, <5>1, <5>2 DEF auth_root_allowed
      <4> QED BY Zenon, <4>1, <4>2 DEF Passed
    <3>7. w.mon.phase = "keystate"
      BY <1>9, <2>4
    <3>8. Succeeds(x)
      BY Zenon, <1>4, <1>10, <1>12, <2>3, <3>2, <3>3, <3>6, <3>7 DEF Succeeds, Moved
    <3> QED BY Zenon, <3>4, <3>5, <3>8
  <2>5. CASE ~(root /\ done)
    <3>1. x = Failure(u, m) /\ u \in State
      BY Zenon, <2>1, <2>3, <2>5 DEF Moved
    <3>2. /\ Moved(u, x) /\ x.net.lists = u.net.lists
          /\ \/ x.net.state = "dead"
             \/ x.net.state = u.net.state /\ x.net.failures = Count(u, m)
      BY ZenonT(40), <3>1, FailureEffect
    <3>3. Moved(w, x)
      BY Zenon, <2>3, <3>2 DEF Moved
    <3>4. SameUser(w, x) /\ NotProved(w, x) /\ Requested(x) /\ x \in State
      BY Zenon, <1>5, <3>3 DEF SameUser, NotProved, Requested, Moved
    <3>5. MonGood(x)
      BY <1>3, <3>4, MonKept
    <3>6. w.mon.phase = "loop"
      BY <1>9, <2>5
    <3>7. ASSUME x.net.state # "dead" PROVE GoesOn(x)
      <4>1. x.net.state = "run" /\ x.net.failures = Count(u, m)
        BY Zenon, <1>4, <2>3, <3>2, <3>7 DEF Alive
      <4>2. x.net.failures \in Nat /\ x.net.failures >= v.net.failures
        <5>1. Count(u, m) \in {u.net.failures, u.net.failures + 1}
          BY Zenon DEF Count
        <5>2. u.net.failures = v.net.failures /\ x.net.failures = Count(u, m)
          BY Zenon, <1>4, <2>3, <4>1
        <5>3. v.net.failures \in Nat
          BY Zenon, <1>1
        <5> QED BY <5>1, <5>2, <5>3
      <4>3. Free(x) = Free(v) /\ Free(v) \in Nat
        BY Zenon, <1>4, <3>3 DEF Free, Moved
      <4>4. x.mon.refused <= x.net.failures + Free(x)
        <5>1. v.mon.refused <= v.net.failures + Free(v)
          BY Zenon, <1>1 DEF GoesOn
        <5>2. x.mon.refused = v.mon.refused
          BY Zenon, <1>4, <3>3 DEF Moved
        <5>3. v.mon.refused \in Nat /\ v.net.failures \in Nat
          BY Zenon, <1>1
        <5> QED BY <4>2, <4>3, <5>1, <5>2, <5>3
      <4>5. x.mon = w.mon /\ x.net.user = w.net.user /\ x.net.lists = w.mon.lists
        BY Zenon, <2>3, <3>2, <3>3 DEF Moved
      <4> QED BY Zenon, <1>4, <1>10, <3>6, <4>1, <4>4, <4>5 DEF GoesOn
    <3> QED BY Zenon, <3>4, <3>5, <3>7 DEF Ended
  <2> QED BY <2>4, <2>5
<1> QED BY Zenon, <1>11, <1>12

-----------------------------------------------------------------------------
(* The requests that come once.                                            *)

\* What only a method changes in the monitor.
MonKeeps(t, u) ==
    /\ u.mon.user = t.mon.user /\ u.mon.valid = t.mon.valid
    /\ u.mon.attempt = t.mon.attempt /\ u.mon.fatal = t.mon.fatal
    /\ u.mon.lists = t.mon.lists /\ u.mon.proved = t.mon.proved
    /\ u.mon.phase = t.mon.phase /\ u.mon.refused = t.mon.refused
    /\ u.mon.forced = t.mon.forced

\* The request is not permitted again.
Spent(t, type) == [t EXCEPT !.mon.permit = @ \ (MON_ONCE \cap {type})]

\* This changes nothing else.
LEMMA SpentEffect ==
  ASSUME NEW t \in State, NEW type \in MON_ONCE, NEW u, u = Spent(t, type)
  PROVE  /\ u \in State /\ u.net = t.net /\ u.ans = t.ans /\ u.auth = t.auth
         /\ MonKeeps(t, u) /\ u.mon.permit = t.mon.permit \ {type}
<1> DEFINE p == t.mon.permit \ {type}
           mon == [t.mon EXCEPT !.permit = p]
<1>1. t.mon \in Mon
  BY Zenon DEF State
<1>2. p \in SUBSET Requests
  BY Zenon, <1>1 DEF Mon
<1>3. t.mon.permit \ (MON_ONCE \cap {type}) = p
  OBVIOUS
<1>4. u = [t EXCEPT !.mon = mon]
  BY <1>3 DEF Spent, State
<1> HIDE DEF p
<1>5. /\ mon \in Mon /\ mon.user = t.mon.user /\ mon.valid = t.mon.valid
      /\ mon.attempt = t.mon.attempt /\ mon.fatal = t.mon.fatal
      /\ mon.lists = t.mon.lists /\ mon.proved = t.mon.proved
      /\ mon.phase = t.mon.phase /\ mon.refused = t.mon.refused /\ mon.permit = p
      /\ mon.forced = t.mon.forced
  BY <1>1, <1>2 DEF Mon
<1> HIDE DEF mon
<1>6. /\ u \in State /\ u.net = t.net /\ u.ans = t.ans /\ u.auth = t.auth
      /\ u.mon = mon
  BY Zenon, <1>4, <1>5 DEF State
<1> QED BY <1>5, <1>6 DEF MonKeeps, p

\* More requests are permitted, and nothing else changes.
Permits(t, u, more) ==
    /\ u \in State /\ u.net = t.net /\ u.ans = t.ans /\ u.auth = t.auth
    /\ MonKeeps(t, u) /\ u.mon.permit = t.mon.permit \cup more

\* So it is.
LEMMA PermitEffect ==
  ASSUME NEW t \in State, NEW more \in SUBSET Requests,
         NEW u, u = monitor_permit(t, more)
  PROVE  Permits(t, u, more)
<1> DEFINE p == t.mon.permit \cup more
           mon == [t.mon EXCEPT !.permit = p]
<1>1. t.mon \in Mon
  BY Zenon DEF State
<1>2. p \in SUBSET Requests
  BY <1>1 DEF Mon
<1>3. u = [t EXCEPT !.mon = mon]
  BY DEF monitor_permit, State
<1> HIDE DEF p
<1>4. /\ mon \in Mon /\ mon.user = t.mon.user /\ mon.valid = t.mon.valid
      /\ mon.attempt = t.mon.attempt /\ mon.fatal = t.mon.fatal
      /\ mon.lists = t.mon.lists /\ mon.proved = t.mon.proved
      /\ mon.phase = t.mon.phase /\ mon.refused = t.mon.refused /\ mon.permit = p
      /\ mon.forced = t.mon.forced
  BY <1>1, <1>2 DEF Mon
<1> HIDE DEF mon
<1>5. /\ u \in State /\ u.net = t.net /\ u.ans = t.ans /\ u.auth = t.auth
      /\ u.mon = mon
  BY <1>3, <1>4 DEF State
<1> QED BY <1>4, <1>5 DEF Permits, MonKeeps, p

\* What asking leaves.
LEMMA AskedKeeps ==
  ASSUME NEW t \in State, NEW u, u = Asked(t)
  PROVE  /\ u \in State /\ u.net = t.net /\ u.auth = t.auth
         /\ MonKeeps(t, u) /\ u.mon.permit = t.mon.permit
<1>1. /\ u \in State /\ u.net = t.net /\ u.auth = t.auth
      /\ u.mon = [t.mon EXCEPT !.method = "unknown"]
  BY Zenon, AskedEffect
<1>2. MonKeeps(t, u) /\ u.mon.permit = t.mon.permit
  BY ZenonT(40), <1>1 DEF MonKeeps, State, Mon
<1> QED BY <1>1, <1>2

\* u is left when the monitor has gone on from the state t of its handler.
SentOnce(t, u, type) ==
    /\ u \in State /\ u.net = t.net /\ u.ans = t.ans /\ u.auth = t.auth
    /\ MonKeeps(t, u) /\ u.mon.permit = t.mon.permit \ {type}

\* A request that comes once.
LEMMA SendOnce ==
  ASSUME NEW t \in State, Alive(t), t.mon.phase = "loop",
         NEW type \in MON_ONCE, type \in t.mon.permit, NEW r,
         NEW h, h = Handler(Asked(t), type, r), h.ret = FALSE,
         h.s \in State, h.s.mon.phase = "loop",
         NEW u, u = mm_request_send(t, type, r)
  PROVE  SentOnce(h.s, u, type) /\ (u.ans.sent => Call(t, type, r) = u)
<1> DEFINE x == Spent(h.s, type)
           w == monitor_child_preauth(x, type, FALSE)
<1>1. w = monitor_child_preauth(
            [h.s EXCEPT !.mon.permit = @ \ (MON_ONCE \cap {type})], type, h.ret)
  BY Zenon DEF Spent
<1>2. x = Spent(h.s, type) /\ w = monitor_child_preauth(x, type, FALSE)
  OBVIOUS
<1> HIDE DEF x, w
<1>3. u = w /\ (u.ans.sent => Call(t, type, r) = u)
  BY <1>1, CallPermitted
<1>4. type \in Requests /\ type \notin MON_AUTHDECIDE
  BY Zenon DEF MON_ONCE, Requests, MON_AUTHDECIDE
<1>5. /\ x \in State /\ x.net = h.s.net /\ x.ans = h.s.ans /\ x.auth = h.s.auth
      /\ MonKeeps(h.s, x) /\ x.mon.permit = h.s.mon.permit \ {type}
  BY <1>2, SpentEffect
<1>6. Refused(x, w, type)
  BY Zenon, <1>2, <1>4, <1>5, PreauthRefused
<1>7. w.mon.refused = x.mon.refused
  <2>1. w.mon.refused = x.mon.refused + 0 /\ x.mon.refused \in Nat
    BY Zenon, <1>4, <1>5, <1>6 DEF Refused, State, Mon
  <2> QED BY <2>1
<1>8. /\ w \in State /\ w.net = x.net /\ w.ans = x.ans /\ w.auth = x.auth
      /\ MonKeeps(x, w) /\ w.mon.permit = x.mon.permit
  BY Zenon, <1>6, <1>7 DEF Refused, MonKeeps, SameUser, NotProved
<1>9. MonKeeps(h.s, w)
  BY Zenon, <1>5, <1>8 DEF MonKeeps
<1>10. /\ w \in State /\ w.net = h.s.net /\ w.ans = h.s.ans /\ w.auth = h.s.auth
       /\ w.mon.permit = h.s.mon.permit \ {type}
  BY ZenonT(40), <1>5, <1>8
<1> QED BY ZenonT(40), <1>3, <1>9, <1>10 DEF SentOnce

\* The signature of the key exchange.
LEMMA CallSign ==
  ASSUME NEW t \in State, Alive(t), t.mon.phase = "loop", "SIGN" \in t.mon.permit,
         NEW u, u = Call(t, "SIGN", <<>>)
  PROVE  /\ u \in State /\ u.net = t.net /\ MonKeeps(t, u) /\ "PWNAM" \in u.mon.permit
<1> DEFINE a == Asked(t)
           b == Answer(a, TRUE)
           c == monitor_permit(b, {"PWNAM"})
           h == Handler(a, "SIGN", <<>>)
           x == mm_request_send(t, "SIGN", <<>>)
<1>1. a = Asked(t) /\ b = Answer(a, TRUE) /\ c = monitor_permit(b, {"PWNAM"})
  OBVIOUS
<1>2. h = Handler(Asked(t), "SIGN", <<>>) /\ h.ret = FALSE /\ h.s = c
  BY Zenon DEF Handler, mm_answer_sign, Ret
<1>3. x = mm_request_send(t, "SIGN", <<>>)
  OBVIOUS
<1> HIDE DEF a, b, c, h, x
<1>4. /\ a \in State /\ a.net = t.net /\ MonKeeps(t, a)
  BY <1>1, AskedKeeps
<1>5. /\ b \in State /\ b.net = a.net /\ b.mon = a.mon
      /\ b.ans = [sent |-> TRUE, ok |-> TRUE, forced |-> a.mon.forced]
  BY Zenon, <1>1, <1>4, AnswerEffect
<1>6. {"PWNAM"} \in SUBSET Requests
  BY Zenon DEF Requests
<1>7. /\ c \in State /\ c.net = b.net /\ c.ans = b.ans /\ MonKeeps(b, c)
      /\ c.mon.permit = b.mon.permit \cup {"PWNAM"}
  <2>1. Permits(b, c, {"PWNAM"})
    BY Zenon, <1>1, <1>5, <1>6, PermitEffect
  <2> QED BY <2>1 DEF Permits
<1>8. "SIGN" \in MON_ONCE /\ c.mon.phase = "loop" /\ c.ans.sent
  BY <1>4, <1>5, <1>7 DEF MON_ONCE, MonKeeps
<1>9. /\ x \in State /\ x.net = c.net /\ x.ans = c.ans
      /\ MonKeeps(c, x) /\ x.mon.permit = c.mon.permit \ {"SIGN"}
      /\ x.ans.sent => Call(t, "SIGN", <<>>) = x
  <2>1. h.s \in State /\ h.s.mon.phase = "loop"
    BY Zenon, <1>2, <1>7, <1>8
  <2>2. SentOnce(h.s, x, "SIGN") /\ (x.ans.sent => Call(t, "SIGN", <<>>) = x)
    <3> DEFINE r == <<>>
    <3>1. /\ h = Handler(Asked(t), "SIGN", r) /\ h.ret = FALSE
          /\ x = mm_request_send(t, "SIGN", r) /\ "SIGN" \in MON_ONCE
      BY <1>2, <1>3, <1>8
    <3> HIDE DEF r
    <3>2. SentOnce(h.s, x, "SIGN") /\ (x.ans.sent => Call(t, "SIGN", r) = x)
      BY Zenon, <2>1, <3>1, SendOnce
    <3> QED BY Zenon, <3>2 DEF r
  <2> QED BY Zenon, <1>2, <2>2 DEF SentOnce
<1>10. u = x
  BY Zenon, <1>8, <1>9
<1>11. MonKeeps(t, x)
  BY Zenon, <1>4, <1>5, <1>7, <1>9 DEF MonKeeps
<1>12. "PWNAM" \in x.mon.permit
  BY Zenon, <1>7, <1>9
<1> QED BY Zenon, <1>4, <1>5, <1>7, <1>9, <1>10, <1>11, <1>12

\* The monitor has looked up the user and set up its lists.
LookedUp(t, u, user) ==
    /\ u \in State /\ u.net = t.net /\ u.ans.ok = u.mon.valid
    /\ u.mon.attempt = 1 /\ u.mon.user = user
    /\ u.mon.lists = auth2_setup_methods_lists
    /\ u.mon.fatal = t.mon.fatal /\ u.mon.proved = t.mon.proved
    /\ u.mon.refused = t.mon.refused /\ u.mon.phase = "loop"
    /\ u.mon.forced = t.mon.forced /\ "AUTHSERV" \in u.mon.permit

\* The first request of the client is passed on.
LEMMA CallPwnam ==
  ASSUME NEW t \in State, Alive(t), t.mon.phase = "loop", "PWNAM" \in t.mon.permit,
         t.mon.attempt = 0, options \in Configs, NEW user \in Users,
         NEW u, u = Call(t, "PWNAM", user)
  PROVE  LookedUp(t, u, user)
<1> DEFINE a == Asked(t)
           mon == [a.mon EXCEPT !.attempt = 1, !.user = user,
                                !.valid = getpwnamallow(user),
                                !.lists = auth2_setup_methods_lists]
           a1 == [a EXCEPT !.mon = mon]
           b == Answer(a1, getpwnamallow(user))
           c == monitor_permit(b, {"AUTHSERV"})
           h == Handler(a, "PWNAM", user)
           x == mm_request_send(t, "PWNAM", user)
<1>1. a = Asked(t)
  OBVIOUS
<1>2. h = Handler(Asked(t), "PWNAM", user) /\ x = mm_request_send(t, "PWNAM", user)
  OBVIOUS
<1> HIDE DEF a, x
<1>3. /\ a \in State /\ a.net = t.net /\ MonKeeps(t, a) /\ a.mon \in Mon
      /\ a.mon.attempt = 0
  BY <1>1, AskedKeeps DEF MonKeeps, State
<1>4. h.ret = FALSE /\ h.s = c
  BY Zenon, <1>3 DEF Handler, mm_answer_pwnamallow, Ret, State
<1>5. b = Answer(a1, getpwnamallow(user)) /\ c = monitor_permit(b, {"AUTHSERV"})
  OBVIOUS
<1>6. getpwnamallow(user) \in BOOLEAN
  BY DEF getpwnamallow
<1>7. auth2_setup_methods_lists \in Lists
  BY SetUpType
<1>8. /\ mon \in Mon /\ mon.attempt = 1 /\ mon.user = user
      /\ mon.valid = getpwnamallow(user) /\ mon.lists = auth2_setup_methods_lists
      /\ mon.fatal = a.mon.fatal /\ mon.proved = a.mon.proved
      /\ mon.refused = a.mon.refused /\ mon.phase = a.mon.phase
      /\ mon.forced = a.mon.forced
  <2> DEFINE m0 == [a.mon EXCEPT !.attempt = 1]
             m1 == [m0 EXCEPT !.user = user]
             m2 == [m1 EXCEPT !.valid = getpwnamallow(user)]
  <2>0. m0 \in Mon
    BY <1>3 DEF Mon
  <2>1. m1 \in Mon
    <3> HIDE DEF m0
    <3> QED BY <2>0 DEF Mon
  <2>2. m2 \in Mon
    <3> HIDE DEF m1
    <3> QED BY <1>6, <2>1 DEF Mon
  <2>3. mon = [m2 EXCEPT !.lists = auth2_setup_methods_lists]
    OBVIOUS
  <2>4. mon \in Mon
    <3> HIDE DEF m2, mon
    <3> QED BY Zenon, <1>7, <2>2, <2>3 DEF Mon
  <2> QED BY <1>3, <2>4 DEF Mon
<1> HIDE DEF b, c, h, mon
<1>9. a1 \in State /\ a1.net = t.net /\ a1.mon = mon
  BY <1>3, <1>8 DEF State
<1> HIDE DEF a1
<1>10. /\ b \in State /\ b.net = a1.net /\ b.mon = a1.mon
       /\ b.ans.sent /\ b.ans.ok = getpwnamallow(user)
  <2>1. PICK ok \in BOOLEAN : ok = getpwnamallow(user)
    BY Zenon, <1>6
  <2>2. b = Answer(a1, ok)
    BY Zenon, <1>5, <2>1
  <2>3. /\ b \in State /\ b.net = a1.net /\ b.mon = a1.mon
        /\ b.ans = [sent |-> TRUE, ok |-> ok, forced |-> a1.mon.forced]
    BY Zenon, <1>9, <2>2, AnswerEffect
  <2> QED BY <2>1, <2>3
<1>11. {"AUTHSERV"} \in SUBSET Requests /\ "PWNAM" \in MON_ONCE
  BY Zenon DEF Requests, MON_ONCE
<1>12. Permits(b, c, {"AUTHSERV"})
  BY Zenon, <1>5, <1>10, <1>11, PermitEffect
<1>13. /\ h.s \in State /\ h.s.mon.phase = "loop" /\ c.mon.phase = "loop"
       /\ c.mon.attempt = 1 /\ c.mon.user = user
       /\ c.mon.valid = getpwnamallow(user) /\ c.mon.lists = auth2_setup_methods_lists
       /\ c.mon.fatal = t.mon.fatal /\ c.mon.proved = t.mon.proved
       /\ c.mon.refused = t.mon.refused /\ "AUTHSERV" \in c.mon.permit
       /\ c.mon.forced = t.mon.forced
       /\ c.net = t.net /\ c.ans = b.ans
  BY <1>3, <1>4, <1>8, <1>9, <1>10, <1>12 DEF Permits, MonKeeps
<1>14. SentOnce(h.s, x, "PWNAM") /\ (x.ans.sent => Call(t, "PWNAM", user) = x)
  <2>1. h = Handler(Asked(t), "PWNAM", user) /\ h.ret = FALSE
    BY <1>2, <1>4
  <2> QED BY ZenonT(40), <1>2, <1>11, <1>13, <2>1, SendOnce
<1>15. SentOnce(c, x, "PWNAM")
  BY Zenon, <1>4, <1>14
<1>16. u = x
  BY Zenon, <1>10, <1>13, <1>14, <1>15 DEF SentOnce
<1> QED BY Zenon, <1>10, <1>13, <1>15, <1>16 DEF LookedUp, SentOnce, MonKeeps

\* The service is passed on without an answer.  The methods may follow.
LEMMA SendAuthserv ==
  ASSUME NEW t \in State, Alive(t), t.mon.phase = "loop", "AUTHSERV" \in t.mon.permit,
         NEW service, NEW u, u = mm_request_send(t, "AUTHSERV", service)
  PROVE  /\ u \in State /\ u.net = t.net /\ MonKeeps(t, u)
         /\ MON_AUTH \subseteq u.mon.permit
<1> DEFINE a == Asked(t)
           c == monitor_permit(a, MON_AUTH)
           h == Handler(a, "AUTHSERV", service)
<1>1. /\ a = Asked(t) /\ c = monitor_permit(a, MON_AUTH)
      /\ h = Handler(Asked(t), "AUTHSERV", service)
  OBVIOUS
<1>2. h.ret = FALSE /\ h.s = c
  BY Zenon DEF Handler, mm_answer_authserv, Ret
<1> HIDE DEF a, c, h
<1>3. a \in State /\ a.net = t.net /\ MonKeeps(t, a)
  BY Zenon, <1>1, AskedKeeps
<1>4. MON_AUTH \in SUBSET Requests /\ "AUTHSERV" \in MON_ONCE
  BY Zenon DEF MON_AUTH, Requests, MON_ONCE
<1>5. Permits(a, c, MON_AUTH)
  BY Zenon, <1>1, <1>3, <1>4, PermitEffect
<1>6. h.s \in State /\ h.s.mon.phase = "loop"
  BY <1>2, <1>3, <1>5 DEF Permits, MonKeeps
<1>7. SentOnce(h.s, u, "AUTHSERV")
  BY Zenon, <1>1, <1>2, <1>4, <1>6, SendOnce
<1>8. SentOnce(c, u, "AUTHSERV")
  BY Zenon, <1>2, <1>7
<1>9. MON_AUTH \subseteq u.mon.permit
  BY Zenon, <1>5, <1>8 DEF SentOnce, Permits, MON_AUTH
<1>10. MonKeeps(t, u)
  BY Zenon, <1>3, <1>5, <1>8 DEF SentOnce, Permits, MonKeeps
<1> QED BY Zenon, <1>3, <1>5, <1>8, <1>9, <1>10 DEF SentOnce, Permits

\* The child notes what it knows of the user.
Enter(t, r) ==
    [t EXCEPT !.net.user = r.user, !.net.service = r.service,
              !.net.valid = t.ans.ok /\ r.service = "ssh-connection",
              !.net.lists = auth2_setup_methods_lists]

\* This changes nothing else.
LEMMA EnterEffect ==
  ASSUME NEW t \in State, options \in Configs, NEW r,
         r.user \in Users, r.service \in Services, NEW u, u = Enter(t, r)
  PROVE  /\ u \in State /\ u.mon = t.mon /\ u.net.user = r.user
         /\ u.net.valid => t.ans.ok
         /\ u.net.lists = auth2_setup_methods_lists /\ u.net.lists \in Lists
         /\ u.net.state = t.net.state /\ u.net.keyed = t.net.keyed
         /\ u.net.dispatch = t.net.dispatch /\ u.net.attempt = t.net.attempt
         /\ u.net.failures = t.net.failures
<1> DEFINE b == t.ans.ok /\ r.service = "ssh-connection"
           l == auth2_setup_methods_lists
           n1 == [t.net EXCEPT !.user = r.user]
           n2 == [n1 EXCEPT !.service = r.service]
           n3 == [n2 EXCEPT !.valid = b]
           net == [n3 EXCEPT !.lists = l]
<1>1. t.net \in Net /\ b \in BOOLEAN
  BY Zenon DEF State
<1>2. l \in Lists
  BY SetUpType
<1>3. u = [t EXCEPT !.net = net]
  <2> HIDE DEF b, l
  <2> QED BY Zenon DEF Enter, State, b, l
<1> HIDE DEF b, l
<1>4. n1 \in Net
  BY <1>1 DEF Net
<1>5. n2 \in Net
  <2> HIDE DEF n1
  <2> QED BY <1>4 DEF Net
<1>6. n3 \in Net
  <2> HIDE DEF n2
  <2> QED BY <1>1, <1>5 DEF Net
<1>7. net \in Net
  <2> HIDE DEF n3
  <2> QED BY <1>2, <1>6 DEF Net
<1>8. /\ net.user = r.user /\ net.valid = b /\ net.lists = l
      /\ net.state = t.net.state /\ net.keyed = t.net.keyed
      /\ net.dispatch = t.net.dispatch /\ net.attempt = t.net.attempt
      /\ net.failures = t.net.failures
  BY <1>1 DEF Net
<1> HIDE DEF net
<1>9. u \in State /\ u.mon = t.mon /\ u.net = net
  BY <1>3, <1>7 DEF State
<1>10. b => t.ans.ok
  BY DEF b
<1> QED BY <1>2, <1>8, <1>9, <1>10 DEF l

\* What the first request leaves: a dead child, or two processes that know the
\* same.
Introduced(t, u) ==
    /\ u \in State /\ MonGood(u) /\ u.mon.refused = 0
    /\ u.net.keyed = t.net.keyed /\ u.net.dispatch = t.net.dispatch
    /\ u.net.attempt = t.net.attempt /\ u.net.failures = t.net.failures
    /\ \/ u.net.state = "dead"
       \/ /\ Alive(u) /\ u.mon.phase = "loop" /\ MON_AUTH \subseteq u.mon.permit
          /\ u.mon.attempt = 1 /\ u.mon.user = u.net.user
          /\ u.net.valid => u.mon.valid
          /\ u.net.lists \in Lists /\ u.net.lists = u.mon.lists

\* The first request.
LEMMA SetUpEffect ==
  ASSUME NEW t, Inv(t), Alive(t), t.net.attempt = 0, t.net.dispatch,
         options \in Configs, NEW r, IsRequest(r), NEW x, x = SetUp(t, r)
  PROVE  Introduced(t, x)
<1> DEFINE u == Call(t, "PWNAM", r.user)
           v == Enter(u, r)
           w == mm_request_send(v, "AUTHSERV", r.service)
<1>1. x = IF Alive(w) /\ Configured /\ NoList(w.net.lists) THEN packet_disconnect(w) ELSE w
  BY Zenon DEF SetUp, Enter
<1>2. /\ u = Call(t, "PWNAM", r.user) /\ v = Enter(u, r)
      /\ w = mm_request_send(v, "AUTHSERV", r.service)
  OBVIOUS
<1> HIDE DEF u, v, w
<1>3. /\ t \in State /\ t.mon.attempt = 0 /\ t.mon.proved = <<>> /\ t.mon.refused = 0
      /\ t.mon.phase \in {"loop", "dead"} /\ t.mon.fatal = "" /\ ~t.mon.forced
      /\ t.mon.phase = "loop" => "PWNAM" \in t.mon.permit
  BY Zenon DEF Inv, PermitInv, PhasesInv, Alive
<1>4. r.user \in Users /\ r.service \in Services
  BY DEF IsRequest
<1>5. CASE t.mon.phase = "dead"
  <2>1. u \in State /\ u.mon = t.mon /\ u.net = [t.net EXCEPT !.state = "dead"]
    <3>1. t \in State /\ u = Call(t, "PWNAM", r.user)
      BY Zenon, <1>2, <1>3
    <3> QED BY <1>5, <3>1, CallDead
  <2>2. /\ u.net.state = "dead" /\ u.net.keyed = t.net.keyed
        /\ u.net.dispatch = t.net.dispatch /\ u.net.attempt = t.net.attempt
        /\ u.net.failures = t.net.failures
    BY ZenonT(40), <1>3, <2>1 DEF State, Net
  <2>3. /\ v \in State /\ v.mon = u.mon /\ v.net.state = u.net.state
        /\ v.net.keyed = u.net.keyed /\ v.net.dispatch = u.net.dispatch
        /\ v.net.attempt = u.net.attempt /\ v.net.failures = u.net.failures
    BY <1>2, <1>4, <2>1, EnterEffect
  <2>4. w = v
    BY Zenon, <1>2, <2>2, <2>3 DEF mm_request_send, Alive
  <2>5. x = v
    BY Zenon, <1>1, <2>2, <2>3, <2>4 DEF Alive
  <2>6. MonGood(v)
    <3>1. MonGood(t)
      BY Zenon DEF Inv, MonGood, PhasesInv, RootInv, ListsInv
    <3>2. v.mon = t.mon
      BY Zenon, <2>1, <2>3
    <3>3. SameUser(t, v) /\ NotProved(t, v)
      BY Zenon, <3>2 DEF SameUser, NotProved
    <3> QED BY <3>1, <3>3, MonKept
  <2> QED BY ZenonT(40), <1>3, <2>1, <2>2, <2>3, <2>5, <2>6 DEF Introduced
<1>6. CASE t.mon.phase = "loop"
  <2>1. LookedUp(t, u, r.user)
    BY Zenon, <1>2, <1>3, <1>4, <1>6, CallPwnam
  <2>2. u \in State
    BY ZenonT(40), <2>1 DEF LookedUp
  <2>3. /\ v \in State /\ v.mon = u.mon /\ v.net.user = r.user
        /\ v.net.valid => u.ans.ok
        /\ v.net.lists = auth2_setup_methods_lists /\ v.net.lists \in Lists
        /\ v.net.state = u.net.state /\ v.net.keyed = u.net.keyed
        /\ v.net.dispatch = u.net.dispatch /\ v.net.attempt = u.net.attempt
        /\ v.net.failures = u.net.failures
    BY <1>2, <1>4, <2>2, EnterEffect
  <2>4. Alive(v) /\ v.mon.phase = "loop" /\ "AUTHSERV" \in v.mon.permit
    BY ZenonT(40), <2>1, <2>3 DEF LookedUp, Alive
  <2>5. /\ w \in State /\ w.net = v.net /\ MonKeeps(v, w)
        /\ MON_AUTH \subseteq w.mon.permit
    BY <1>2, <2>3, <2>4, SendAuthserv
  <2>6. /\ w.mon.attempt = 1 /\ w.mon.user = r.user /\ w.mon.valid = u.ans.ok
        /\ w.mon.lists = auth2_setup_methods_lists /\ w.mon.fatal = ""
        /\ w.mon.proved = <<>> /\ w.mon.refused = 0 /\ w.mon.phase = "loop"
        /\ ~w.mon.forced
    <3>1. v.mon = u.mon /\ MonKeeps(v, w)
      BY Zenon, <2>3, <2>5
    <3>2. /\ w.mon.attempt = 1 /\ w.mon.user = r.user /\ w.mon.valid = u.ans.ok
          /\ w.mon.lists = auth2_setup_methods_lists /\ w.mon.phase = "loop"
      BY Zenon, <2>1, <3>1 DEF LookedUp, MonKeeps
    <3>3. /\ w.mon.fatal = t.mon.fatal /\ w.mon.proved = t.mon.proved
          /\ w.mon.refused = t.mon.refused /\ w.mon.forced = t.mon.forced
      BY <2>1, <3>1 DEF LookedUp, MonKeeps
    <3> QED BY Zenon, <1>3, <3>2, <3>3
  <2>7. MonGood(w)
    <3>1. auth2_setup_methods_lists \in Lists
      BY Zenon, SetUpType
    <3>2. ASSUME NEW i \in DOMAIN options.auth_methods
          PROVE  Progress(auth2_setup_methods_lists[i], auth2_setup_methods_lists[i], <<>>)
      <4>1. auth2_setup_methods_lists[i] \in Seq(Methods)
        BY Zenon, <3>1, <3>2 DEF Lists
      <4> QED BY Zenon, <4>1, ProgressStart
    <3>3. \A i \in DOMAIN <<>> : <<>>[i] # "password"
      OBVIOUS
    <3>4. w.mon.user = options.root /\ options.permit_root # "yes" =>
             \A i \in DOMAIN w.mon.proved : w.mon.proved[i] # "password"
      BY Zenon, <2>6, <3>3
    <3>5. w.mon.attempt = 1 =>
             /\ w.mon.lists \in Lists
             /\ \A i \in DOMAIN options.auth_methods :
                  Progress(auth2_setup_methods_lists[i], w.mon.lists[i], w.mon.proved)
      BY Zenon, <2>6, <3>1, <3>2
    <3>6. w.mon.fatal = "" /\ ~w.mon.forced /\ w.mon.phase \notin {"keystate", "wait", "authenticated"}
      BY Zenon, <2>6
    <3> QED BY Zenon, <3>4, <3>5, <3>6 DEF MonGood
  <2>8. /\ w.net.keyed = t.net.keyed /\ w.net.dispatch = t.net.dispatch
        /\ w.net.attempt = t.net.attempt /\ w.net.failures = t.net.failures
    BY Zenon, <2>1, <2>3, <2>5 DEF LookedUp
  <2>9. Introduced(t, w)
    BY Zenon, <2>3, <2>4, <2>5, <2>6, <2>7, <2>8 DEF Introduced, Alive
  <2>10. CASE x = w
    BY Zenon, <2>9, <2>10
  <2>11. CASE x = packet_disconnect(w)
    <3>1. /\ Moved(w, x) /\ x.net.state = "dead" /\ x.net.failures = w.net.failures
      BY Zenon, <2>5, <2>11, DisconnectEffect
    <3>2. x \in State /\ x.mon = w.mon
      BY Zenon, <3>1 DEF Moved
    <3>3. SameUser(w, x) /\ NotProved(w, x)
      BY Zenon, <3>2 DEF SameUser, NotProved
    <3>4. MonGood(x)
      BY Zenon, <2>7, <3>3, MonKept
    <3> QED BY Zenon, <2>6, <2>8, <3>1, <3>2, <3>4 DEF Introduced, Moved
  <2> QED BY <1>1, <2>10, <2>11
<1> QED BY Zenon, <1>3, <1>5, <1>6

-----------------------------------------------------------------------------
(* A request of the client.                                                *)

\* The child starts on a request.
Begin(t) ==
    [t EXCEPT !.net.postponed = FALSE, !.auth = FALSE,
              !.net.attempt = IF @ < 2 THEN @ + 1 ELSE @]

\* What this changes.
Begun(t, u) ==
    /\ u \in State /\ u.mon = t.mon /\ u.auth = FALSE /\ u.net.postponed = FALSE
    /\ u.net.attempt = IF t.net.attempt < 2 THEN t.net.attempt + 1 ELSE t.net.attempt
    /\ u.net.state = t.net.state /\ u.net.keyed = t.net.keyed
    /\ u.net.dispatch = t.net.dispatch /\ u.net.user = t.net.user
    /\ u.net.valid = t.net.valid /\ u.net.lists = t.net.lists
    /\ u.net.failures = t.net.failures

\* So it is.
LEMMA BeginEffect ==
  ASSUME NEW t \in State, NEW u, u = Begin(t)
  PROVE  Begun(t, u)
<1> DEFINE n == IF t.net.attempt < 2 THEN t.net.attempt + 1 ELSE t.net.attempt
           n1 == [t.net EXCEPT !.postponed = FALSE]
           net == [n1 EXCEPT !.attempt = n]
<1>1. t.net \in Net /\ t.net.attempt \in 0..2
  BY Zenon DEF State, Net
<1>2. n \in 0..2
  BY <1>1
<1>3. n1.attempt = t.net.attempt
  BY <1>1 DEF Net
<1>4. u = [[t EXCEPT !.auth = FALSE] EXCEPT !.net = net]
  <2>1. u = [t EXCEPT !.net = net, !.auth = FALSE]
    BY Zenon, <1>3 DEF Begin, State
  <2> HIDE DEF net
  <2> QED BY Zenon, <2>1 DEF State
<1> HIDE DEF n
<1>5. n1 \in Net
  BY Zenon, <1>1 DEF Net
<1>6. net \in Net
  <2> HIDE DEF n1
  <2> QED BY <1>2, <1>5 DEF Net
<1>7. /\ net.postponed = FALSE /\ net.attempt = n /\ net.state = t.net.state
      /\ net.keyed = t.net.keyed /\ net.dispatch = t.net.dispatch
      /\ net.user = t.net.user /\ net.valid = t.net.valid
      /\ net.lists = t.net.lists /\ net.failures = t.net.failures
  BY <1>1 DEF Net
<1> HIDE DEF net
<1>8. u \in State /\ u.mon = t.mon /\ u.auth = FALSE /\ u.net = net
  BY Zenon, <1>4, <1>6 DEF State
<1> QED BY Zenon, <1>7, <1>8 DEF Begun, n

\* A child that ended during its first request, or for another user name.
Broken(t) ==
    /\ t.net.state = "dead" /\ t.net.keyed /\ t.net.dispatch /\ t.net.attempt > 0
    /\ t.mon.refused <= MaxTries + (IF options.permit_empty THEN 1 ELSE 0)

\* The invariant holds of it.
LEMMA SettleBroken ==
  ASSUME NEW x \in State, MonGood(x), Broken(x), NEW y, y = Settled(x)
  PROVE  Inv(y)
<1>1. /\ y \in State /\ y.net = x.net /\ SameUser(x, y) /\ NotProved(x, y)
      /\ y.mon.refused = x.mon.refused
  BY Zenon, SettledEffect
<1>2. MonGood(y)
  BY Zenon, <1>1, MonKept
<1>3. Broken(y) /\ y.net.attempt \in 0..2
  BY <1>1 DEF Broken, State, Net
<1>4. PhasesInv(y) /\ AgreeInv(y) /\ RootInv(y) /\ ListsInv(y)
  BY Zenon, <1>2, <1>3 DEF MonGood, Broken, PhasesInv, AgreeInv, RootInv, ListsInv
<1>5. PermitInv(y) /\ BoundInv(y)
  BY SMTT(30), <1>3 DEF Broken, PermitInv, BoundInv, Alive
<1> QED BY <1>1, <1>4, <1>5 DEF Inv

\* The state after the first lines of a request: the child has ended, or looks
\* for the method.
LEMMA RequestBegins ==
  ASSUME NEW t, Inv(t), Alive(t), t.net.dispatch, options \in Configs,
         NEW r, IsRequest(r),
         NEW u, u = IF t.net.attempt = 0 THEN SetUp(t, r)
                    ELSE IF r.user # t.net.user \/ r.service # t.net.service
                    THEN packet_disconnect(t) ELSE t,
         NEW v, v = Begin(u)
  PROVE  \/ Ready(v)
         \/ v \in State /\ MonGood(v) /\ Broken(v)
<1>1. t \in State /\ t.net.keyed /\ t.net.attempt \in 0..2 /\ t.net.failures \in Nat
  BY Zenon DEF Inv, PermitInv, State, Net
<1>2. MonGood(t)
  BY Zenon DEF Inv, MonGood, PhasesInv, RootInv, ListsInv
<1>3. MaxTries \in Nat
  BY Zenon, AuthConstants
<1>4. CASE t.net.attempt = 0
  <2>1. Introduced(t, u)
    BY <1>4, SetUpEffect
  <2>2. Begun(u, v)
    BY Zenon, <2>1, BeginEffect DEF Introduced
  <2>9. /\ u.net.keyed = t.net.keyed /\ u.net.dispatch = t.net.dispatch
        /\ u.net.attempt = 0 /\ u.net.failures \in Nat /\ u.mon.refused = 0
    BY Zenon, <1>1, <1>4, <2>1 DEF Introduced
  <2>10. /\ v \in State /\ v.mon = u.mon /\ v.auth = FALSE /\ v.net.postponed = FALSE
        /\ v.net.state = u.net.state /\ v.net.keyed = u.net.keyed
        /\ v.net.dispatch = u.net.dispatch /\ v.net.user = u.net.user
        /\ v.net.valid = u.net.valid /\ v.net.lists = u.net.lists
        /\ v.net.failures = u.net.failures
    BY Zenon, <2>2 DEF Begun
  <2>3. v \in State /\ v.mon = u.mon /\ v.net.attempt = 1 /\ v.mon.refused = 0
    <3>1. v.net.attempt = IF u.net.attempt < 2 THEN u.net.attempt + 1 ELSE u.net.attempt
      BY Zenon, <2>2 DEF Begun
    <3>2. u.net.attempt = 0
      BY Zenon, <2>9
    <3>3. v.net.attempt = 1
      BY <3>1, <3>2
    <3>4. v \in State /\ v.mon = u.mon /\ u.mon.refused = 0
      BY Zenon, <2>9, <2>10
    <3> QED BY <3>3, <3>4
  <2>4. MonGood(v)
    <3>1. SameUser(u, v) /\ NotProved(u, v)
      BY Zenon, <2>3 DEF SameUser, NotProved
    <3> QED BY Zenon, <2>1, <3>1, MonKept DEF Introduced
  <2>5. v.net.keyed /\ v.net.dispatch /\ v.net.failures \in Nat
    BY Zenon, <1>1, <2>9, <2>10
  <2>6. v.mon.refused <= MaxTries + (IF options.permit_empty THEN 1 ELSE 0)
    BY <1>3, <2>3
  <2>7. CASE u.net.state = "dead"
    <3>1. Broken(v)
      <4>1. v.net.state = "dead" /\ v.net.attempt > 0
        <5>1. v.net.attempt = 1
          BY Zenon, <2>3
        <5>2. v.net.attempt > 0
          BY <5>1
        <5> QED BY Zenon, <2>10, <2>7, <5>2
      <4> QED BY Zenon, <2>5, <2>6, <4>1 DEF Broken
    <3> QED BY Zenon, <2>3, <2>4, <3>1
  <2>8. CASE u.net.state # "dead"
    <3>1. /\ v.net.state = "run" /\ v.mon.phase = "loop" /\ MON_AUTH \subseteq v.mon.permit
          /\ v.mon.attempt = 1 /\ v.mon.user = v.net.user
          /\ v.net.valid => v.mon.valid
          /\ v.net.lists \in Lists /\ v.net.lists = v.mon.lists
      <4>1. /\ u.net.state = "run" /\ u.mon.phase = "loop" /\ MON_AUTH \subseteq u.mon.permit
            /\ u.mon.attempt = 1 /\ u.mon.user = u.net.user
            /\ u.net.valid => u.mon.valid
            /\ u.net.lists \in Lists /\ u.net.lists = u.mon.lists
        BY Zenon, <2>1, <2>8 DEF Introduced, Alive
      <4> QED BY ZenonT(40), <2>10, <4>1
    <3>2. v.mon.refused <= v.net.failures + Free(v)
      BY <2>3, <2>5 DEF Free
    <3>3. GoesOn(v)
      BY Zenon, <3>1, <3>2 DEF GoesOn
    <3>4. Requested(v)
      <4>1. v.net.attempt = 1 /\ v.mon.attempt = 1
        BY Zenon, <2>3, <3>1
      <4>2. v.net.attempt > 0
        BY SMTT(30), <4>1
      <4> QED BY Zenon, <2>5, <2>6, <4>1, <4>2 DEF Requested
    <3>5. Inv(v)
      BY SMTT(30), <2>3, <2>4, <3>3, <3>4, InvAfterRequest
    <3>6. v.net.state = "run" /\ v.net.attempt > 0 /\ ~v.net.postponed /\ ~v.auth
      <4>1. v.net.postponed = FALSE /\ v.auth = FALSE
        BY Zenon, <2>10
      <4>2. v.net.attempt > 0
        BY <2>3
      <4>3. v.net.state = "run"
        BY Zenon, <3>1
      <4> QED BY <4>1, <4>2, <4>3
    <3>7. Ready(v)
      BY Zenon, <2>3, <3>5, <3>6 DEF Ready, Alive
    <3> QED BY <3>7
  <2> QED BY Zenon, <2>7, <2>8
<1>5. CASE t.net.attempt # 0
  <2>1. /\ t.mon.attempt = 1 /\ GoesOn(t)
        /\ t.mon.refused <= MaxTries + (IF options.permit_empty THEN 1 ELSE 0)
    <3>1. t.net.attempt > 0 /\ t.net.state = "run"
      BY <1>1, <1>5 DEF Alive
    <3>2. /\ t.mon.attempt = 1 /\ t.mon.user = t.net.user
          /\ t.net.valid => t.mon.valid
          /\ t.net.lists \in Lists /\ t.mon.lists \in Lists
          /\ t.mon.phase = "loop" => t.net.lists = t.mon.lists
      BY Zenon, <3>1 DEF Inv, AgreeInv
    <3>3. t.mon.phase \in {"loop", "dead"}
      BY Zenon, <3>1 DEF Inv, PhasesInv
    <3>4. t.mon.phase = "loop" => MON_AUTH \subseteq t.mon.permit
      BY Zenon, <3>1 DEF Inv, PermitInv, Alive
    <3>5. /\ t.mon.refused <= t.net.failures + Free(t)
          /\ t.mon.refused <= MaxTries + (IF options.permit_empty THEN 1 ELSE 0)
      BY Zenon DEF Inv, BoundInv
    <3>6. GoesOn(t)
      BY Zenon, <3>1, <3>2, <3>3, <3>4, <3>5 DEF GoesOn
    <3> QED BY Zenon, <3>2, <3>5, <3>6
  <2>2. CASE u = packet_disconnect(t)
    <3>1. Moved(t, u) /\ u.net.state = "dead"
      BY Zenon, <1>1, <2>2, DisconnectEffect
    <3>2. Begun(u, v)
      BY <3>1, BeginEffect DEF Moved
    <3>3. v \in State /\ v.mon = t.mon /\ v.net.state = "dead" /\ v.net.attempt > 0
      <4>1. /\ v \in State /\ v.mon = t.mon /\ v.net.state = "dead"
            /\ v.net.attempt =
                 IF t.net.attempt < 2 THEN t.net.attempt + 1 ELSE t.net.attempt
        BY Zenon, <3>1, <3>2 DEF Moved, Begun
      <4>2. v.net.attempt > 0
        BY <1>1, <1>5, <4>1
      <4> QED BY Zenon, <4>1, <4>2
    <3>4. SameUser(t, v) /\ NotProved(t, v)
      BY Zenon, <3>3 DEF SameUser, NotProved
    <3>5. MonGood(v)
      BY <1>2, <3>4, MonKept
    <3>6. Broken(v)
      BY Zenon, <1>1, <2>1, <3>1, <3>2, <3>3 DEF Broken, Moved, Begun
    <3> QED BY Zenon, <3>3, <3>5, <3>6
  <2>3. CASE u = t
    <3>1. Begun(t, v)
      BY ZenonT(40), <1>1, <2>3, BeginEffect
    <3>2. v \in State /\ v.mon = t.mon /\ v.net.attempt = 2
      BY <1>1, <1>5, <3>1 DEF Begun
    <3>3. SameUser(t, v) /\ NotProved(t, v)
      BY Zenon, <3>2 DEF SameUser, NotProved
    <3>4. MonGood(v)
      BY <1>2, <3>3, MonKept
    <3>5. Free(v) = Free(t)
      BY <1>1, <1>5, <3>2 DEF Free
    <3>6. GoesOn(v)
      BY ZenonT(40), <2>1, <3>1, <3>2, <3>5 DEF GoesOn, Begun
    <3>7. Requested(v)
      <4>1. v.net.keyed /\ v.net.dispatch
        BY Zenon, <1>1, <3>1 DEF Begun
      <4>2. v.net.attempt > 0 /\ v.mon.attempt = 1
        BY SMTT(30), <2>1, <3>2
      <4> QED BY Zenon, <2>1, <3>2, <4>1, <4>2 DEF Requested
    <3>8. Inv(v)
      BY <3>2, <3>4, <3>6, <3>7, InvAfterRequest
    <3>9. v.net.state = "run" /\ ~v.net.postponed /\ ~v.auth
      BY ZenonT(40), <3>1, <3>6 DEF Begun, GoesOn
    <3>10. Ready(v)
      BY <3>2, <3>8, <3>9 DEF Ready, Alive
    <3> QED BY <3>10
  <2> QED BY Zenon, <1>5, <2>2, <2>3
<1> QED BY <1>4, <1>5

\* A request of the client keeps the invariant.
LEMMA RequestInv ==
  ASSUME NEW t, Inv(t), Alive(t), t.net.dispatch, options \in Configs, SameRules,
         NEW r, IsRequest(r), NEW y, y = Settled(input_userauth_request(t, r))
  PROVE  Inv(y)
<1> DEFINE u == IF t.net.attempt = 0 THEN SetUp(t, r)
                ELSE IF r.user # t.net.user \/ r.service # t.net.service
                THEN packet_disconnect(t) ELSE t
           v == Begin(u)
           w == IF authmethod_lookup(v, r.method) /\ v.net.failures < MaxTries
                THEN Userauth(v, r) ELSE v
           x == IF Alive(v) THEN userauth_finish(w, r.method) ELSE v
<1>1. y = Settled(x)
  BY Zenon DEF input_userauth_request, Begin
<1>2. Ready(v) \/ (v \in State /\ MonGood(v) /\ Broken(v))
  <2>1. v = Begin(u)
    OBVIOUS
  <2> HIDE DEF v
  <2> QED BY Zenon, <2>1, RequestBegins
<1> HIDE DEF v
<1>3. CASE Broken(v) /\ v \in State /\ MonGood(v)
  <2>1. x = v
    BY <1>3 DEF Broken, Alive
  <2> QED BY Zenon, <1>1, <1>3, <2>1, SettleBroken
<1>4. CASE Ready(v)
  <2> DEFINE m == r.method
  <2>1. /\ v \in State /\ Alive(v) /\ v.mon.phase \in {"loop", "dead"} /\ GoesOn(v)
    BY Zenon, <1>4, ReadyFacts
  <2>2. m \in Methods
    BY Zenon DEF IsRequest
  <2>3. Outcome(v, w, m)
    <3>1. CASE authmethod_lookup(v, m) /\ v.net.failures < MaxTries
      <4>1. w = Userauth(v, r)
        BY Zenon, <3>1
      <4> HIDE DEF w
      <4>2. Askable(v) /\ v.net.user = v.mon.user
        BY Zenon, <1>4, <2>1, <3>1 DEF Askable, GoesOn, Ready
      <4>3. Expected(v, m)
        BY Zenon, <2>1, <3>1 DEF Expected, GoesOn, authmethod_lookup, auth2_method_allowed, Lists
      <4> QED BY Zenon, <4>1, <4>2, <4>3, UserauthOutcome
    <3>2. CASE ~(authmethod_lookup(v, m) /\ v.net.failures < MaxTries)
      <4>1. w = v
        BY <3>2
      <4> HIDE DEF w
      <4>2. NetKept(v, w) /\ SameUser(v, w) /\ Failed(v, w, m)
        BY Zenon, <1>4, <2>1, <4>1 DEF NetKept, SameUser, Failed, NotProved, Ready
      <4> QED BY Zenon, <2>1, <4>1, <4>2 DEF Outcome
    <3> QED BY Zenon, <3>1, <3>2
  <2>4. x = userauth_finish(w, m)
    BY Zenon, <2>1
  <2> HIDE DEF w, x, m
  <2>5. w \in State /\ NetKept(v, w) /\ SameUser(v, w)
    BY Zenon, <2>3 DEF Outcome
  <2>6. /\ x \in State /\ MonGood(x) /\ Requested(x)
        /\ Ended(x) \/ GoesOn(x) \/ Succeeds(x)
    <3>1. CASE Gone(v, w)
      BY Zenon, <1>4, <2>4, <2>5, <3>1, FinishGone
    <3>2. CASE Failed(v, w, m)
      BY Zenon, <1>4, <2>4, <2>5, <3>2, FinishFailed
    <3>3. CASE Passed(v, w, m)
      BY <1>4, <2>2, <2>4, <2>5, <3>3, FinishPassed
    <3> QED BY Zenon, <2>3, <3>1, <3>2, <3>3 DEF Outcome
  <2> QED BY Zenon, <1>1, <2>6, SettleRequest
<1> QED BY Zenon, <1>2, <1>3, <1>4

-----------------------------------------------------------------------------
(* The steps.                                                              *)

\* What the model lets a client send is a request.
LEMMA CredentialTypes ==
  ASSUME NEW q \in Credentials, NEW user \in Users, NEW service \in Services,
         NEW r, r = [q EXCEPT !.user = user, !.service = service]
  PROVE  IsRequest(r)
<1> DEFINE Rec == [user: {Blank.user}, service: {Blank.service}, method: Methods,
                   empty: BOOLEAN, good: BOOLEAN, change: BOOLEAN,
                   key: Keys \cup {Blank.key}, have_sig: BOOLEAN,
                   decoded: BOOLEAN, listed: BOOLEAN]
           Typed(x) == x \in Rec /\ (x.method \in KeyTypes => x.key \in Keys)
           N(g) == [Blank EXCEPT !.method = "none", !.good = g]
           W(e, g, c) == [Blank EXCEPT !.method = "password", !.empty = e, !.good = g,
                                       !.change = c]
           P(k, h, g, d) == [Blank EXCEPT !.method = "publickey", !.key = k,
                                          !.have_sig = h, !.good = g, !.decoded = d]
           H(k, g, l) == [Blank EXCEPT !.method = "hostbased", !.key = k, !.good = g,
                                       !.listed = l]
<1>1. Blank \in Rec /\ Blank.method \notin KeyTypes
  <2> DEFINE b == Blank
             u0 == CHOOSE u \in Users : TRUE
             k0 == CHOOSE k \in Keys : TRUE
  <2>1. b = [user |-> u0, service |-> "ssh-connection",
             method |-> "keyboard-interactive", empty |-> FALSE, good |-> FALSE,
             change |-> FALSE, key |-> k0, have_sig |-> TRUE,
             decoded |-> TRUE, listed |-> TRUE]
    BY DEF Blank
  <2> HIDE DEF b, u0, k0
  <2>2. /\ b \in [user: {b.user}, service: {b.service}, method: Methods,
                  empty: BOOLEAN, good: BOOLEAN, change: BOOLEAN,
                  key: Keys \cup {b.key}, have_sig: BOOLEAN,
                  decoded: BOOLEAN, listed: BOOLEAN]
        /\ b.method \notin KeyTypes
    BY <2>1 DEF Methods, KeyTypes
  <2> QED BY <2>2 DEF b
<1>2. q \in {Blank} \cup {N(g) : g \in BOOLEAN}
                    \cup {W(e, g, c) : e, g, c \in BOOLEAN}
                    \cup {P(k, h, g, d) : k \in Keys, h, g, d \in BOOLEAN}
                    \cup {H(k, g, l) : k \in Keys, g, l \in BOOLEAN}
  BY PTL DEF Credentials
<1>3. \A g \in BOOLEAN : Typed(N(g))
  BY Zenon, <1>1 DEF Methods, KeyTypes
<1>4. ASSUME NEW e \in BOOLEAN, NEW g \in BOOLEAN, NEW c \in BOOLEAN
      PROVE  Typed(W(e, g, c))
  BY Zenon, <1>1 DEF Methods, KeyTypes
<1>5. ASSUME NEW k \in Keys, NEW h \in BOOLEAN, NEW g \in BOOLEAN, NEW d \in BOOLEAN
      PROVE  Typed(P(k, h, g, d))
  BY Zenon, <1>1 DEF Methods, KeyTypes
<1>6. ASSUME NEW k \in Keys, NEW g \in BOOLEAN, NEW l \in BOOLEAN
      PROVE  Typed(H(k, g, l))
  BY Zenon, <1>1 DEF Methods, KeyTypes
<1>7. Typed(Blank)
  BY <1>1
<1>8. Typed(q)
  <2> HIDE DEF Typed, N, W, P, H
  <2> QED BY <1>2, <1>3, <1>4, <1>5, <1>6, <1>7
<1> QED BY <1>8 DEF IsRequest

\* The invariant speaks of the options, which never change.
LEMMA OptionsKept ==
  ASSUME options' = options, Inv(s')
  PROVE  Inv(s)'
<1>1. Lists' = Lists /\ Configured' = Configured
  BY Zenon DEF Lists, Configured
<1>2. State' = State
  BY Zenon, <1>1 DEF State, Net, Mon
<1>3. PhasesInv(s)' <=> PhasesInv(s')
  BY Zenon DEF PhasesInv
<1>4. PermitInv(s)' <=> PermitInv(s')
  BY Zenon DEF PermitInv, Alive
<1>5. AgreeInv(s)' <=> AgreeInv(s')
  BY Zenon, <1>1 DEF AgreeInv
<1>6. RootInv(s)' <=> RootInv(s')
  BY Zenon DEF RootInv, Commanded
<1>7. auth2_setup_methods_lists' = auth2_setup_methods_lists
  BY Zenon DEF auth2_setup_methods_lists, auth2_methods_valid
<1>8. Completed(s)' <=> Completed(s')
  BY <1>1 DEF Completed, auth2_methods_valid, InOrder
<1>9. ListsInv(s)' <=> ListsInv(s')
  <2> DEFINE Left(lists, set, proved) ==
               \A i \in DOMAIN options.auth_methods :
                  Progress(set[i], lists[i], proved)
             left == Left(s.mon.lists, auth2_setup_methods_lists, s.mon.proved)
  <2>1. left' <=> Left(s'.mon.lists, auth2_setup_methods_lists, s'.mon.proved)
    BY <1>7 DEF Progress
  <2> HIDE DEF left
  <2>2. ListsInv(s)' <=>
          /\ s'.mon.attempt = 1 => s'.mon.lists \in Lists' /\ left'
          /\ \/ s'.net.state \in {"success", "exit"}
             \/ s'.mon.phase \in {"keystate", "wait", "authenticated"}
             => Completed(s)'
    BY Zenon DEF ListsInv, left
  <2>3. ListsInv(s') <=>
          /\ s'.mon.attempt = 1 =>
               /\ s'.mon.lists \in Lists
               /\ Left(s'.mon.lists, auth2_setup_methods_lists, s'.mon.proved)
          /\ \/ s'.net.state \in {"success", "exit"}
             \/ s'.mon.phase \in {"keystate", "wait", "authenticated"}
             => Completed(s')
    BY Zenon DEF ListsInv
  <2> HIDE DEF Left
  <2> QED BY Zenon, <1>1, <1>8, <2>1, <2>2, <2>3
<1>10. BoundInv(s)' <=> BoundInv(s')
  BY Zenon DEF BoundInv, Free, Alive
<1> QED BY Zenon, <1>2, <1>3, <1>4, <1>5, <1>6, <1>9, <1>10 DEF Inv

\* The end of the connection, in any state.
LEMMA DisconnectInv ==
  ASSUME NEW t, Inv(t), NEW u, u = packet_disconnect(t)
  PROVE  Inv(u)
<1>1. t \in State /\ t.net.attempt \in 0..2
  BY Zenon DEF Inv, State, Net
<1>2. /\ Moved(t, u) /\ u.net.state = "dead" /\ u.net.lists = t.net.lists
      /\ u.net.failures = t.net.failures
  BY <1>1, DisconnectEffect
<1>3. PhasesInv(u)
  BY Zenon, <1>2 DEF PhasesInv, Inv, Moved
<1>4. PermitInv(u)
  BY Zenon, <1>2 DEF PermitInv, Inv, Moved, Alive
<1>5. AgreeInv(u)
  BY Zenon, <1>2 DEF AgreeInv
<1>6. RootInv(u)
  BY <1>2 DEF RootInv, Inv, Moved
<1>7. ListsInv(u)
  BY Zenon, <1>2 DEF ListsInv, Inv, Moved, Completed
<1>8. BoundInv(u)
  BY Zenon, <1>2 DEF BoundInv, Inv, Moved, Alive
<1> QED BY Zenon, <1>2, <1>3, <1>4, <1>5, <1>6, <1>7, <1>8 DEF Inv, Moved

\* The monitor goes on to another phase.
SetPhase(t, p) == [t EXCEPT !.mon.phase = p]
\* What it keeps then.
SamePhase(t, u) ==
    /\ u \in State /\ u.net = t.net
    /\ u.mon.user = t.mon.user /\ u.mon.valid = t.mon.valid
    /\ u.mon.attempt = t.mon.attempt /\ u.mon.fatal = t.mon.fatal
    /\ u.mon.lists = t.mon.lists /\ u.mon.proved = t.mon.proved
    /\ u.mon.refused = t.mon.refused /\ u.mon.forced = t.mon.forced

\* It changes nothing else.
LEMMA SetPhaseEffect ==
  ASSUME NEW t \in State, NEW p \in {"loop", "keystate", "wait", "authenticated", "dead"},
         NEW u, u = SetPhase(t, p)
  PROVE  SamePhase(t, u) /\ u.mon.phase = p
<1> DEFINE mon == [t.mon EXCEPT !.phase = p]
<1>1. t.mon \in Mon /\ mon \in Mon
  BY DEF State, Mon
<1>2. u = [t EXCEPT !.mon = mon]
  BY DEF State, SetPhase
<1>3. /\ mon.user = t.mon.user /\ mon.valid = t.mon.valid
      /\ mon.attempt = t.mon.attempt /\ mon.fatal = t.mon.fatal
      /\ mon.lists = t.mon.lists /\ mon.proved = t.mon.proved
      /\ mon.refused = t.mon.refused /\ mon.forced = t.mon.forced
      /\ mon.phase = p
  BY <1>1 DEF Mon
<1> HIDE DEF mon
<1>4. u \in State /\ u.mon = mon /\ u.net = t.net
  BY Zenon, <1>1, <1>2 DEF State
<1> QED BY <1>3, <1>4 DEF SamePhase

\* The end of the monitor, and its way past the exchange of the keys.
LEMMA PhaseInv ==
  ASSUME NEW t, Inv(t), NEW u, NEW p \in {"dead", "authenticated"},
         u = SetPhase(t, p),
         p = "authenticated" => t.mon.phase = "wait" /\ t.net.state = "exit"
  PROVE  Inv(u)
<1>1. t \in State /\ t.net.attempt \in 0..2 /\ t.net.state \in {"run", "success", "exit", "dead"}
  BY Zenon DEF Inv, State, Net
<1>2. SamePhase(t, u) /\ u.mon.phase = p
  BY <1>1, SetPhaseEffect
<1>3. PhasesInv(u)
  BY Zenon, <1>1, <1>2 DEF PhasesInv, Inv, SamePhase
<1>4. PermitInv(u)
  BY Zenon, <1>2 DEF PermitInv, Inv, SamePhase, Alive
<1>5. AgreeInv(u)
  BY Zenon, <1>2 DEF AgreeInv, Inv, SamePhase
<1>6. RootInv(u)
  BY Zenon, <1>2 DEF RootInv, Inv, SamePhase
<1>7. ListsInv(u)
  BY Zenon, <1>2 DEF ListsInv, Inv, SamePhase, Completed
<1>8. BoundInv(u)
  BY Zenon, <1>2 DEF BoundInv, Inv, SamePhase, Alive, Free
<1> QED BY Zenon, <1>2, <1>3, <1>4, <1>5, <1>6, <1>7, <1>8 DEF Inv, SamePhase

\* The child has sent its keys and is gone.
Exited(t) == [t EXCEPT !.net.state = "exit", !.mon.phase = "wait"]

\* It changes nothing else.
LEMMA ExitedInv ==
  ASSUME NEW t, Inv(t), t.net.state = "success", t.mon.phase = "keystate",
         NEW u, u = Exited(t)
  PROVE  Inv(u)
<1> DEFINE net == [t.net EXCEPT !.state = "exit"]
           v == [t EXCEPT !.net = net]
<1>1. t \in State /\ t.net \in Net
  BY DEF Inv, State
<1>2. /\ net \in Net /\ net.state = "exit" /\ net.keyed = t.net.keyed
      /\ net.dispatch = t.net.dispatch /\ net.attempt = t.net.attempt
      /\ net.user = t.net.user /\ net.valid = t.net.valid
      /\ net.lists = t.net.lists /\ net.failures = t.net.failures
      /\ net.attempt \in 0..2
  BY <1>1 DEF Net
<1>3. u = SetPhase(v, "wait")
  BY <1>1 DEF Exited, SetPhase, State
<1> HIDE DEF net
<1>4. v \in State /\ v.net = net /\ v.mon = t.mon
  BY Zenon, <1>1, <1>2 DEF State
<1> HIDE DEF v
<1>5. SamePhase(v, u) /\ u.mon.phase = "wait"
  BY <1>3, <1>4, SetPhaseEffect
<1>6. /\ u.net.state = "exit" /\ u.net.keyed = t.net.keyed
      /\ u.net.dispatch = t.net.dispatch /\ u.net.attempt = t.net.attempt
      /\ u.net.user = t.net.user /\ u.net.valid = t.net.valid
      /\ u.net.lists = t.net.lists /\ u.mon.fatal = t.mon.fatal
      /\ u.mon.user = t.mon.user /\ u.mon.valid = t.mon.valid
      /\ u.mon.attempt = t.mon.attempt /\ u.mon.lists = t.mon.lists
      /\ u.mon.proved = t.mon.proved /\ u.mon.refused = t.mon.refused
      /\ u.mon.forced = t.mon.forced /\ u \in State
  BY Zenon, <1>2, <1>4, <1>5 DEF SamePhase
<1>7. PhasesInv(u)
  BY Zenon, <1>5, <1>6 DEF PhasesInv, Inv
<1>8. PermitInv(u)
  <2>1. t.net.attempt # 0
    BY Zenon DEF PermitInv, Inv
  <2>2. ~Alive(u)
    BY Zenon, <1>6 DEF Alive
  <2>3. /\ t.net.dispatch => t.net.keyed
        /\ t.net.attempt > 0 => t.net.dispatch
    BY Zenon DEF PermitInv, Inv
  <2> QED BY Zenon, <1>6, <2>1, <2>2, <2>3 DEF PermitInv
<1>9. AgreeInv(u)
  <2>1. t.net.attempt > 0 =>
          /\ t.mon.attempt = 1 /\ t.mon.user = t.net.user
          /\ t.net.valid => t.mon.valid
          /\ t.net.lists \in Lists /\ t.mon.lists \in Lists
    BY Zenon DEF AgreeInv, Inv
  <2> QED BY Zenon, <1>5, <1>6, <2>1 DEF AgreeInv
<1>10. RootInv(u)
  <2>1. /\ t.mon.forced => Commanded(t.mon.user)
        /\ t.mon.user = options.root /\ options.permit_root # "yes" =>
             \A i \in DOMAIN t.mon.proved : t.mon.proved[i] # "password"
        /\ t.net.attempt > 0 /\ t.net.valid
        /\ t.net.user = options.root =>
             /\ options.permit_root # "no"
             /\ options.permit_root = "forced-commands-only" => t.mon.forced
    BY Zenon DEF RootInv, Inv
  <2> QED BY ZenonT(40), <1>6, <2>1 DEF RootInv
<1>11. ListsInv(u)
  BY Zenon, <1>5, <1>6 DEF ListsInv, Inv, Completed
<1>12. BoundInv(u)
  <2>1. ~Alive(u)
    BY Zenon, <1>6 DEF Alive
  <2> QED BY Zenon, <1>6, <2>1 DEF BoundInv, Inv
<1> QED BY Zenon, <1>6, <1>7, <1>8, <1>9, <1>10, <1>11, <1>12 DEF Inv

\* The child has its keys.
Keyed(t) == [t EXCEPT !.net.keyed = TRUE]
\* It serves requests for authentication.
Dispatches(t) == [t EXCEPT !.net.dispatch = TRUE]
\* What both keep.
SameNet(t, u) ==
    /\ u \in State /\ u.mon = t.mon /\ u.net.state = t.net.state
    /\ u.net.attempt = t.net.attempt /\ u.net.user = t.net.user
    /\ u.net.valid = t.net.valid /\ u.net.lists = t.net.lists
    /\ u.net.failures = t.net.failures

\* They change nothing else.
LEMMA KeyedEffect ==
  ASSUME NEW t \in State, NEW u, u = Keyed(t)
  PROVE  SameNet(t, u) /\ u.net.keyed /\ u.net.dispatch = t.net.dispatch
<1> DEFINE net == [t.net EXCEPT !.keyed = TRUE]
<1>1. t.net \in Net /\ net \in Net
  BY Zenon DEF State, Net
<1>2. u = [t EXCEPT !.net = net]
  BY DEF State, Keyed
<1>3. /\ net.keyed /\ net.dispatch = t.net.dispatch /\ net.state = t.net.state
      /\ net.attempt = t.net.attempt /\ net.user = t.net.user
      /\ net.valid = t.net.valid /\ net.lists = t.net.lists
      /\ net.failures = t.net.failures
  BY Zenon, <1>1 DEF Net
<1> HIDE DEF net
<1>4. u \in State /\ u.mon = t.mon /\ u.net = net
  BY <1>1, <1>2 DEF State
<1> QED BY <1>3, <1>4 DEF SameNet

\* Likewise.
LEMMA DispatchesEffect ==
  ASSUME NEW t \in State, NEW u, u = Dispatches(t)
  PROVE  SameNet(t, u) /\ u.net.dispatch /\ u.net.keyed = t.net.keyed
<1> DEFINE net == [t.net EXCEPT !.dispatch = TRUE]
<1>1. t.net \in Net /\ net \in Net
  BY Zenon DEF State, Net
<1>2. u = [t EXCEPT !.net = net]
  BY DEF State, Dispatches
<1>3. /\ net.dispatch /\ net.keyed = t.net.keyed /\ net.state = t.net.state
      /\ net.attempt = t.net.attempt /\ net.user = t.net.user
      /\ net.valid = t.net.valid /\ net.lists = t.net.lists
      /\ net.failures = t.net.failures
  BY Zenon, <1>1 DEF Net
<1> HIDE DEF net
<1>4. u \in State /\ u.mon = t.mon /\ u.net = net
  BY <1>1, <1>2 DEF State
<1> QED BY <1>3, <1>4 DEF SameNet

\* The service request.
LEMMA DispatchesInv ==
  ASSUME NEW t, Inv(t), t.net.keyed, NEW u, u = Dispatches(t)
  PROVE  Inv(u)
<1>1. t \in State
  BY DEF Inv
<1>2. SameNet(t, u) /\ u.net.dispatch /\ u.net.keyed = t.net.keyed
  BY Zenon, <1>1, DispatchesEffect
<1>3. PhasesInv(u)
  BY Zenon, <1>2 DEF PhasesInv, Inv, SameNet
<1>4. PermitInv(u)
  BY Zenon, <1>2 DEF PermitInv, Inv, SameNet, Alive
<1>5. AgreeInv(u)
  BY Zenon, <1>2 DEF AgreeInv, Inv, SameNet
<1>6. RootInv(u)
  BY Zenon, <1>2 DEF RootInv, Inv, SameNet
<1>7. ListsInv(u)
  BY Zenon, <1>2 DEF ListsInv, Inv, SameNet, Completed
<1>8. BoundInv(u)
  BY Zenon, <1>2 DEF BoundInv, Inv, SameNet, Alive, Free
<1> QED BY <1>2, <1>3, <1>4, <1>5, <1>6, <1>7, <1>8 DEF Inv, SameNet

\* Before the first request.
Early(t) ==
    /\ t.net.attempt = 0 /\ ~t.net.dispatch /\ t.net.state \in {"run", "dead"}
    /\ t.mon.attempt = 0 /\ t.mon.refused = 0
    /\ t.mon.phase \in {"loop", "dead"} /\ t.mon.fatal = "" /\ ~t.mon.forced
NoProof(t) == t.mon.proved = <<>>
NextPermitted(t) ==
    Alive(t) /\ t.mon.phase = "loop" =>
      /\ ~t.net.keyed => "SIGN" \in t.mon.permit
      /\ t.net.keyed => "PWNAM" \in t.mon.permit

\* The invariant is about what the monitor permits then.
LEMMA EarlyInv ==
  ASSUME NEW t \in State, Early(t), NoProof(t), options \in Configs,
         NextPermitted(t)
  PROVE  Inv(t)
<1>1. t.net.failures \in Nat /\ MaxTries \in Nat
  BY Zenon, AuthConstants DEF State, Net
<1>2. ~(t.net.attempt > 0) /\ t.mon.attempt # 1
  <2>1. t.net.attempt = 0 /\ t.mon.attempt = 0
    BY Zenon DEF Early
  <2> QED BY <2>1
<1>3. PhasesInv(t)
  BY Zenon DEF PhasesInv, Early
<1>4. PermitInv(t)
  BY <1>2, Zenon DEF PermitInv, Early, NoProof, NextPermitted
<1>5. AgreeInv(t)
  BY <1>2, Zenon DEF AgreeInv
<1>6. RootInv(t)
  <2>1. \A i \in DOMAIN t.mon.proved : t.mon.proved[i] # "password"
    BY DEF NoProof
  <2>2. t.net.state \notin {"success", "exit"} /\ ~t.mon.forced
    BY Zenon DEF Early
  <2> QED BY <2>1, <2>2, Zenon DEF RootInv
<1>7. ListsInv(t)
  <2>1. /\ t.net.state \notin {"success", "exit"}
        /\ t.mon.phase \notin {"keystate", "wait", "authenticated"}
    BY Zenon DEF Early
  <2> QED BY <1>2, <2>1, Zenon DEF ListsInv
<1>8. BoundInv(t)
  <2>1. t.mon.refused = 0
    BY Zenon DEF Early
  <2> QED BY <1>1, <1>2, <2>1 DEF BoundInv, Free
<1> QED BY Zenon, <1>3, <1>4, <1>5, <1>6, <1>7, <1>8 DEF Inv

\* The key exchange, for which the monitor signs, comes before any request.
LEMMA KexInv ==
  ASSUME NEW t, Inv(t), Alive(t), ~t.net.keyed, options \in Configs,
         NEW y, y = Settled(Keyed(Call(t, "SIGN", <<>>)))
  PROVE  Inv(y)
<1> DEFINE u == Call(t, "SIGN", <<>>)
           v == Keyed(u)
<1>1. /\ t \in State /\ t.net \in Net /\ t.mon \in Mon /\ t.net.attempt \in 0..2
      /\ t.net.keyed \in BOOLEAN /\ t.net.dispatch \in BOOLEAN
  BY DEF Inv, State, Net
<1>2. /\ ~t.net.dispatch /\ t.net.attempt = 0 /\ t.mon.attempt = 0
      /\ t.mon.proved = <<>> /\ t.mon.refused = 0 /\ ~t.mon.forced
      /\ t.mon.phase = "loop" => "SIGN" \in t.mon.permit
  <2>1. ~t.net.dispatch /\ ~(t.net.attempt > 0)
    BY Zenon DEF Inv, PermitInv
  <2>2. t.net.attempt = 0
    BY <1>1, <2>1
  <2> QED BY Zenon, <2>1, <2>2 DEF Inv, PermitInv
<1>3. t.mon.phase \in {"loop", "dead"} /\ t.mon.fatal = ""
  BY Zenon DEF Inv, PhasesInv, Alive
<1>4. /\ u \in State /\ MonKeeps(t, u)
      /\ u.net.attempt = 0 /\ ~u.net.dispatch /\ u.net.state \in {"run", "dead"}
      /\ u.net.state = "run" /\ u.mon.phase = "loop" => "PWNAM" \in u.mon.permit
  <2>1. CASE t.mon.phase = "loop"
    <3>1. u \in State /\ u.net = t.net /\ MonKeeps(t, u) /\ "PWNAM" \in u.mon.permit
      BY <1>1, <1>2, <2>1, CallSign
    <3> HIDE DEF u
    <3> QED BY Zenon, <1>2, <3>1 DEF Alive
  <2>2. CASE t.mon.phase = "dead"
    <3>1. u \in State /\ u.mon = t.mon /\ u.net = [t.net EXCEPT !.state = "dead"]
      BY <1>1, <2>2, CallDead
    <3> HIDE DEF u
    <3> QED BY <1>1, <1>2, <3>1 DEF MonKeeps, Net
  <2> QED BY Zenon, <1>3, <2>1, <2>2
<1> HIDE DEF u
<1>5. SameNet(u, v) /\ v.net.keyed /\ v.net.dispatch = u.net.dispatch
  BY Zenon, <1>4, KeyedEffect
<1> HIDE DEF v
<1>6. v \in State /\ y = Settled(v)
  BY Zenon, <1>5 DEF SameNet, v, u
<1>7. /\ y \in State /\ y.net = v.net /\ SameUser(v, y) /\ NotProved(v, y)
      /\ y.mon.refused = v.mon.refused /\ y.mon.forced = v.mon.forced
      /\ y.mon.permit = v.mon.permit
  BY Zenon, <1>6, SettledEffect
<1>8. Early(y) /\ NoProof(y)
  <2>1. /\ u.mon.attempt = 0 /\ u.mon.refused = 0 /\ u.mon.phase = t.mon.phase
        /\ ~u.mon.forced
    BY Zenon, <1>2, <1>4 DEF MonKeeps
  <2>2. Early(u)
    BY Zenon, <1>3, <1>4, <2>1 DEF Early, MonKeeps
  <2>3. Early(v)
    BY Zenon, <1>5, <2>2 DEF Early, SameNet
  <2>4. Early(y)
    BY Zenon, <1>7, <2>3 DEF Early, SameUser, NotProved
  <2>5. y.mon.proved = t.mon.proved
    BY Zenon, <1>4, <1>5, <1>7 DEF MonKeeps, SameNet, NotProved
  <2> QED BY <1>2, <2>4, <2>5, Zenon DEF NoProof
<1>9. y.net.keyed
  BY Zenon, <1>5, <1>7
<1>10. Alive(y) /\ y.mon.phase = "loop" => "PWNAM" \in y.mon.permit
  BY Zenon, <1>4, <1>5, <1>7 DEF SameNet, NotProved, Alive
<1>11. NextPermitted(y)
  BY <1>9, <1>10, Zenon DEF NextPermitted
<1> QED BY Zenon, <1>7, <1>8, <1>11, EarlyInv

\* The two processes before the first message.
LEMMA InitInv ==
  ASSUME Init
  PROVE  Inv(s)
<1> DEFINE net == Net0
           mon == Mon0
           u0 == CHOOSE u \in Users : TRUE
           e == <<>>
           lists == Lists \cup {<<>>}
           keys == {<<>>} \cup (KeyTypes \X Keys)
<1>1. options \in Configs /\ u0 \in Users
  BY OptionTypes DEF Init
<1>2. e \in lists /\ e \in keys /\ e \in Seq(Methods)
  OBVIOUS
<1>3. net = [state |-> "run", keyed |-> FALSE, dispatch |-> FALSE, attempt |-> 0,
             user |-> u0, service |-> "ssh-connection",
             valid |-> FALSE, lists |-> e, failures |-> 0, none_enabled |-> TRUE,
             forced |-> FALSE, postponed |-> FALSE]
  BY Zenon DEF Net0
<1>4. mon = [phase |-> "loop", permit |-> {"SIGN"}, attempt |-> 0,
             user |-> u0, valid |-> FALSE, lists |-> e,
             calls |-> 0, key |-> e, forced |-> FALSE, method |-> "unknown",
             fatal |-> "", proved |-> e, refused |-> 0]
  BY Zenon DEF Mon0
<1>5. s = [net |-> net, mon |-> mon, ans |-> NoAnswer, auth |-> FALSE]
  BY Zenon DEF Init
<1> HIDE DEF net, mon, u0, e, lists, keys
<1>6. /\ net.state = "run" /\ ~net.keyed /\ ~net.dispatch /\ net.attempt = 0
      /\ mon.phase = "loop" /\ mon.permit = {"SIGN"} /\ mon.attempt = 0
      /\ mon.fatal = "" /\ mon.proved = e /\ mon.refused = 0 /\ ~mon.forced
  BY Zenon, <1>3, <1>4
<1>7. net \in Net
  <2>1. net \in
          [state: {"run", "success", "exit", "dead"}, keyed: BOOLEAN, dispatch: BOOLEAN,
           attempt: 0..2, user: Users, service: Services, valid: BOOLEAN,
           lists: lists, failures: Nat, none_enabled: BOOLEAN,
           forced: BOOLEAN, postponed: BOOLEAN]
    BY <1>1, <1>2, <1>3 DEF Services
  <2> QED BY <2>1, Zenon DEF Net, lists
<1>8. mon \in Mon
  <2> DEFINE sign == {"SIGN"}
             permits == SUBSET Requests
             methods == Methods \cup {"unknown"}
             proofs == Seq(Methods)
  <2>1. sign \in permits /\ "unknown" \in methods /\ e \in proofs
    BY <1>2 DEF Requests
  <2>2. mon = [phase |-> "loop", permit |-> sign, attempt |-> 0,
               user |-> u0, valid |-> FALSE, lists |-> e,
               calls |-> 0, key |-> e, forced |-> FALSE, method |-> "unknown",
               fatal |-> "", proved |-> e, refused |-> 0]
    BY <1>4, Zenon
  <2> DEFINE phases == {"loop", "keystate", "wait", "authenticated", "dead"}
             bits == 0..1
  <2>3. "loop" \in phases /\ 0 \in bits /\ 0 \in Nat
    OBVIOUS
  <2>4. "" \in Faults
    BY DEF Faults
  <2> HIDE DEF sign, permits, methods, proofs, phases, bits
  <2>5. mon \in
          [phase: phases, permit: permits, attempt: bits, user: Users, valid: BOOLEAN,
           lists: lists, calls: bits, key: keys, forced: BOOLEAN, method: methods,
           fatal: Faults, proved: proofs, refused: Nat]
    BY <1>1, <1>2, <2>1, <2>2, <2>3, <2>4, Zenon
  <2> QED BY <2>5, Zenon DEF Mon, lists, keys, permits, methods, proofs, phases, bits
<1>9. NoAnswer \in [sent: BOOLEAN, ok: BOOLEAN, forced: BOOLEAN]
  BY Zenon DEF NoAnswer
<1>10. s \in State /\ s.net = net /\ s.mon = mon
  BY <1>5, <1>7, <1>8, <1>9 DEF State
<1>11. Early(s)
  BY Zenon, <1>6, <1>10 DEF Early
<1>12. NoProof(s)
  BY <1>6, <1>10, Zenon DEF NoProof, e
<1>13. ~s.net.keyed /\ "SIGN" \in s.mon.permit
  BY Zenon, <1>6, <1>10
<1>14. NextPermitted(s)
  BY <1>13, Zenon DEF NextPermitted
<1> QED BY ZenonT(40), <1>1, <1>10, <1>11, <1>12, <1>14, EarlyInv

-----------------------------------------------------------------------------
(* The theorems.                                                           *)

\* Every step of the child, of the monitor or of the clock keeps the invariant.
LEMMA StepInv ==
  ASSUME Inv(s), options \in Configs, SameRules, [Next]_vars
  PROVE  options' = options /\ Inv(s')
<1>1. CASE do_ssh2_kex
  <2>1. Alive(s) /\ ~s.net.keyed /\ options' = options
    BY <1>1 DEF do_ssh2_kex
  <2>2. s' = Settled(Keyed(Call(s, "SIGN", <<>>)))
    BY <1>1, Zenon DEF do_ssh2_kex, Keyed
  <2> QED BY <2>1, <2>2, KexInv
<1>2. CASE input_service_request
  <2>1. s.net.keyed /\ options' = options
    BY <1>2 DEF input_service_request
  <2>2. s' = Dispatches(s) \/ s' = packet_disconnect(s)
    BY <1>2, Zenon DEF input_service_request, Dispatches
  <2> QED BY <2>1, <2>2, DispatchesInv, DisconnectInv
<1>3. CASE UserauthRequest
  <2>1. Alive(s) /\ s.net.dispatch /\ options' = options
    BY <1>3 DEF UserauthRequest
  <2>2. PICK c \in Credentials, u \in Users, v \in Services :
          s' = Settled(input_userauth_request(s, [c EXCEPT !.user = u, !.service = v]))
    BY <1>3, Zenon DEF UserauthRequest
  <2> DEFINE r == [c EXCEPT !.user = u, !.service = v]
  <2>3. r = [c EXCEPT !.user = u, !.service = v]
        /\ s' = Settled(input_userauth_request(s, r))
    BY <2>2, Zenon
  <2> HIDE DEF r
  <2>4. IsRequest(r)
    BY Zenon, <2>3, CredentialTypes
  <2> QED BY <2>1, <2>3, <2>4, RequestInv
<1>4. CASE ClientGone
  BY Zenon, <1>4, DisconnectInv DEF ClientGone
<1>5. CASE mm_send_keystate
  <2>1. s.net.state = "success" /\ options' = options
    BY <1>5 DEF mm_send_keystate
  <2>2. \/ s.mon.phase = "keystate" /\ s' = Exited(s)
        \/ s' = packet_disconnect(s)
    BY <1>5, Zenon DEF mm_send_keystate, Exited
  <2> QED BY <2>1, <2>2, ExitedInv, DisconnectInv
<1>6. CASE privsep_preauth
  <2>1. s.mon.phase = "wait" /\ s.net.state = "exit" /\ options' = options
    BY <1>6 DEF privsep_preauth
  <2>2. s' = SetPhase(s, "authenticated")
    BY <1>6, Zenon DEF privsep_preauth, SetPhase
  <2> QED BY <2>1, <2>2, PhaseInv
<1>7. CASE mm_request_receive \/ grace_alarm_handler
  <2>1. s' = SetPhase(s, "dead") /\ options' = options
    BY <1>7, Zenon DEF mm_request_receive, grace_alarm_handler, SetPhase
  <2> QED BY <2>1, PhaseInv
<1>8. CASE Killed
  BY <1>8, DisconnectInv DEF Killed
<1>9. CASE UNCHANGED vars
  BY <1>9 DEF vars
<1> QED BY Zenon, <1>1, <1>2, <1>3, <1>4, <1>5, <1>6, <1>7, <1>8, <1>9 DEF Next

\* Child and monitor agree, as the inductive invariant says, whenever the
\* configuration gives both the same rules.
THEOREM AuthInvariant == Spec => []AuthInv
<1>1. Init => AuthInv
  BY InitInv DEF Init, AuthInv
<1>2. AuthInv /\ [Next]_vars => AuthInv'
  <2> SUFFICES ASSUME AuthInv, [Next]_vars
               PROVE  AuthInv'
    OBVIOUS
  <2>1. options \in Configs
    BY DEF AuthInv
  <2>2. options' = options
    BY Zenon DEF Next, vars, do_ssh2_kex, input_service_request, UserauthRequest, ClientGone,
           mm_send_keystate, privsep_preauth, mm_request_receive, grace_alarm_handler,
           Killed
  <2>3. SameRules' <=> SameRules
    BY <2>2 DEF SameRules, Configured
  <2>4. SameRules => Inv(s)'
    <3> SUFFICES ASSUME SameRules
                 PROVE  Inv(s)'
      OBVIOUS
    <3>1. Inv(s')
      BY <2>1, StepInv DEF AuthInv
    <3> QED BY <2>2, <3>1, OptionsKept
  <2> QED BY <2>1, <2>2, <2>3, <2>4 DEF AuthInv
<1> QED BY <1>1, <1>2, PTL DEF Spec

\* A success of the child is one of the monitor for the same valid user, and
\* root gets in only as auth_root_allowed and auth_password let it: under
\* forced-commands-only with a command in force that a key listed for root
\* brought along, and with a password only under yes (SuccessAgreed).
THEOREM SuccessAgrees == Spec => [](SameRules => SuccessAgreed)
<1>1. AuthInv => (SameRules => SuccessAgreed)
  <2> SUFFICES ASSUME Inv(s), Granted
               PROVE  /\ \/ s.mon.phase \in {"keystate", "wait", "authenticated"}
                         \/ s.mon.phase = "dead" /\ s.mon.fatal = ""
                      /\ s.mon.user = s.net.user
                      /\ s.mon.valid /\ s.net.valid
                      /\ s.net.user = options.root =>
                           /\ options.permit_root # "no"
                           /\ options.permit_root = "forced-commands-only" =>
                                 s.mon.forced /\ Commanded(options.root)
                           /\ options.permit_root # "yes" =>
                                 "password" \notin Range(s.mon.proved)
    BY Zenon DEF AuthInv, SuccessAgreed, Commanded
  <2>1. s.net.state \in {"success", "exit"}
    BY DEF Granted
  <2>2. /\ s.mon.phase \in {"keystate", "wait", "authenticated", "dead"}
        /\ s.mon.fatal = ""
    BY Zenon, <2>1 DEF Inv, PhasesInv
  <2>3. /\ s.net.attempt > 0 /\ s.net.valid
        /\ s.net.user = options.root =>
             /\ options.permit_root # "no"
             /\ options.permit_root = "forced-commands-only" => s.mon.forced
    BY Zenon, <2>1 DEF Inv, RootInv
  <2>4. s.mon.user = s.net.user /\ s.mon.valid
    BY Zenon, <2>1, <2>3 DEF Inv, AgreeInv
  <2>5. s.net.user = options.root /\ options.permit_root # "yes" =>
          "password" \notin Range(s.mon.proved)
    BY <2>4 DEF Inv, RootInv, Range
  <2>6. s.mon.forced => Commanded(s.mon.user)
    BY Zenon DEF Inv, RootInv
  <2> QED BY Zenon, <2>2, <2>3, <2>4, <2>5, <2>6
<1> QED BY <1>1, AuthInvariant, PTL

\* No access without a configured list of methods that the monitor has
\* verified in its order (ListCompleted, auth2_update_methods_lists).
THEOREM ListIsCompleted == Spec => [](SameRules => ListCompleted)
<1>1. AuthInv => (SameRules => ListCompleted)
  BY Zenon DEF AuthInv, Inv, ListsInv, ListCompleted, Completed, Granted
<1> QED BY <1>1, AuthInvariant, PTL

\* The lists of both processes are the same while both work (ListsAgree).
THEOREM ListsStayEqual == Spec => [](SameRules => ListsAgree)
<1>1. AuthInv => (SameRules => ListsAgree)
  BY DEF AuthInv, Inv, AgreeInv, ListsAgree, Alive
<1> QED BY <1>1, AuthInvariant, PTL

\* No request of the child makes the monitor give up (NoMonitorFatal,
\* monitor_read and monitor_child_preauth).
THEOREM MonitorNeverFatal == Spec => [](SameRules => NoMonitorFatal)
<1>1. AuthInv => (SameRules => NoMonitorFatal)
  BY Zenon DEF AuthInv, Inv, PhasesInv, NoMonitorFatal
<1> QED BY <1>1, AuthInvariant, PTL

\* The number of wrong passwords and signatures that the monitor checks for a
\* client is bounded by MaxAuthTries (ChecksBounded).
THEOREM ChecksAreBounded == Spec => [](SameRules => ChecksBounded)
<1>1. AuthInv => (SameRules => ChecksBounded)
  BY Zenon DEF AuthInv, Inv, BoundInv, ChecksBounded
<1> QED BY <1>1, AuthInvariant, PTL
=============================================================================
