------------------------- MODULE MCContainerRunner -------------------------
(* Two requests of the main role, over two containers and their successor. *)
EXTENDS ContainerRunner, TLC

CONSTANTS r1, r2, o1, o2, o3, a, b, c

MCCalls == {r1, r2}
MCRoleCalls == {r1, r2}
MCName == r1 :> a @@ r2 :> b @@ o1 :> c @@ o2 :> c @@ o3 :> a

\* A request that the owner makes twice and another, in a host that dies.
CrashCalls == {o1, o2, o3}
CrashRoleCalls == {}
=============================================================================
