---------------------------- MODULE MCSyncServer ----------------------------
(***************************************************************************)
(* An instance of SyncServer for TLC: one client that sends a request      *)
(* behind the one that ends its connection, one whose last request is      *)
(* malformed.                                                              *)
(***************************************************************************)
EXTENDS SyncServer

CONSTANTS c1, c2

MCClients == {c1, c2}
MCTargets == {"/a", "/b"}

Req(method, target, keep_alive) ==
  [method |-> method, target |-> target, keep_alive |-> keep_alive]

MCScript ==
  [c \in MCClients |->
    IF c = c1 THEN <<Req("get", "/a", TRUE), Req("head", "/b", FALSE), Req("get", "/b", TRUE)>>
              ELSE <<Req("other", "/a", TRUE), Req("malformed", "/b", TRUE)>>]
=============================================================================
