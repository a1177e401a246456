-------------------------------- MODULE Http --------------------------------
(***************************************************************************)
(* What the two HTTP servers do with one request: HandleRequest and the    *)
(* MakeStringResponse functions, the same text in                          *)
(* async_server/solution/src/main.cpp and sync_server/solution/src/main.cpp.*)
(*                                                                         *)
(* A request is its verb, its target and whether it asks to keep the       *)
(* connection.  A text stands for itself, and Content-Length for the text  *)
(* whose size it is: "Hello," and the target without its first character   *)
(* determine the target, which therefore stands for that text.             *)
(***************************************************************************)
EXTENDS Naturals, Sequences

CONSTANTS
  Clients,   \* clients that may connect
  Targets,   \* targets of their requests
  Script     \* the requests each client means to send, in order

\* "malformed" is whatever Beast's parser rejects.
Methods == {"get", "head", "other", "malformed"}
Requests == [method : Methods, target : Targets, keep_alive : BOOLEAN]

ASSUME HttpAssumption ==
  /\ Script \in [Clients -> Seq(Requests)]
  /\ "" \notin Targets

InvalidMethod == "Invalid method"
Texts == Targets \cup {InvalidMethod}
Responses == [status : {"ok", "method_not_allowed"}, body : Texts \cup {""},
              content_length : Texts, allow : BOOLEAN, keep_alive : BOOLEAN]

Served(req) == req.method \in {"get", "head"}
Text(req) == IF Served(req) THEN req.target ELSE InvalidMethod
Body(req) == IF req.method = "head" THEN "" ELSE Text(req)

\* MakeStringResponse
MakeResponse(req, body, length) ==
  [status |-> IF Served(req) THEN "ok" ELSE "method_not_allowed",
   body |-> body,
   content_length |-> length,
   allow |-> ~Served(req),
   keep_alive |-> req.keep_alive]

\* Mutant: the answer to HEAD has the length of its own, empty body.
HandleRequest_LengthOfBody(req) == MakeResponse(req, Body(req), Body(req))

\* Mutant: HEAD is answered like GET.
HandleRequest_HeadBody(req) == MakeResponse(req, Text(req), Text(req))

HandleRequest(req) == MakeResponse(req, Body(req), Text(req))

(***************************************************************************)
(* http::message::need_eof of a response that has a Content-Length.        *)
(***************************************************************************)
NeedEof(response) == ~response.keep_alive
=============================================================================
