--------------------------- MODULE MCSshChannel ---------------------------
(* Instances of SshChannel for TLC.                                        *)
EXTENDS SshChannel

\* One direction of each channel type carries more than its window: a
\* program's output together with its stderr, a forwarding's upstream.
AppBytes ==
    [ctype \in Ctypes |-> [p \in Peers |->
        IF ctype = "session" THEN IF p = "client" THEN 1 ELSE 2
                             ELSE IF p = "client" THEN 3 ELSE 2]]
=============================================================================
