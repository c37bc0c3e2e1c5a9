----------------------------- MODULE MCSshAuth -----------------------------
(* Instances of SshAuth for TLC.                                           *)
EXTENDS SshAuth, TLC

CONSTANTS admin, alice, nobody, key1, key2

MCUsers == {admin, alice, nobody}
MCKeys == {key1, key2}

Listed == [x \in MCUsers |-> [k \in MCKeys |-> IF x = nobody THEN "no"
                               ELSE IF k = key1 THEN "plain" ELSE "forced"]]
OnlyOne == [x \in MCUsers |-> [k \in MCKeys |-> IF k = key1 /\ x # nobody THEN "plain" ELSE "no"]]

All == {"none", "publickey", "password", "keyboard-interactive", "hostbased"}

Base == [enabled |-> All, permit_empty |-> FALSE, permit_root |-> "yes",
         auth_methods |-> <<>>, accounts |-> {admin, alice}, root |-> admin,
         authorized |-> Listed]

\* Without lists: every form of PermitRootLogin, with and without empty
\* passwords; and forced-commands-only where no key has a command.
Plain == {[Base EXCEPT !.permit_empty = e, !.permit_root = p] :
             e \in BOOLEAN, p \in RootLogin}
         \cup {[Base EXCEPT !.permit_root = "forced-commands-only",
                            !.authorized = OnlyOne]}

\* With lists: one of one method, one of two, two with a common start, one
\* that is a part of another, one with a disabled method, and none usable.
Lists == {<< <<"publickey">> >>,
          << <<"publickey", "password">> >>,
          << <<"publickey", "password">>, <<"publickey", "hostbased">> >>,
          << <<"password", "publickey", "publickey">>, <<"password", "publickey">> >>,
          << <<"hostbased", "password">>, <<"publickey", "keyboard-interactive">> >>}
WithLists == {[Base EXCEPT !.auth_methods = l, !.authorized = OnlyOne] : l \in Lists}
             \cup {[Base EXCEPT !.auth_methods = << <<"publickey", "password">>,
                                                    <<"hostbased", "password">> >>,
                                !.permit_root = "without-password",
                                !.enabled = All \ {"hostbased"}],
                   [Base EXCEPT !.auth_methods = << <<"hostbased">> >>,
                                !.enabled = All \ {"hostbased"}]}

\* Not here: lists with PermitRootLogin forced-commands-only or no, or with
\* empty passwords, for which the two processes differ (see the README).
MCConfigs == Plain \cup WithLists
=============================================================================
