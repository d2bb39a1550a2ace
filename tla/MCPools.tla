------------------------------- MODULE MCPools -------------------------------
(***************************************************************************)
(* An instance of Pools for TLC: the token file authorizes alice for her   *)
(* own store and both tenants for the pool, or nothing at all.  A pool is  *)
(* declared with both of them as writers, or with bob as a reader; grants  *)
(* then change one access at a time.                                       *)
(***************************************************************************)
EXTENDS Pools

CONSTANTS alice, bob

MCTokenFiles == {Addresses \ {<<bob, Self>>}, {}}

AllWriters == [t \in Tenants |-> "readwrite"]
MCDrafts == {AllWriters, [AllWriters EXCEPT ![bob] = "read"]}
=============================================================================
