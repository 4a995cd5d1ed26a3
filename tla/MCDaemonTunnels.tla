-------------------------- MODULE MCDaemonTunnels --------------------------
(* Instances of DaemonTunnels for TLC. *)
EXTENDS DaemonTunnels

CONSTANTS o1, c1, demo, a80, a90

Entry(local, sub) == [local |-> local, sub |-> sub]
\* A fresh installation; one with a persistent tunnel, named or random.
FreshFile == {{}}
PersistentFiles == {{Entry(a80, demo)}, {Entry(a80, Random)}}

Wish(local, sub, persist) == [local |-> local, sub |-> sub, persist |-> persist]
\* A random tunnel: of another address until the daemon ends, or persistent.
Ephemeral == [p \in Openers |-> Wish(a90, Random, FALSE)]
RandomOnly == [p \in Openers |-> Wish(a80, Random, TRUE)]
=============================================================================
