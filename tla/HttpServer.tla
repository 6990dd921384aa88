------------------------------ MODULE HttpServer ------------------------------
(* HttpServer (src/http/http_server.cpp): one connection after the other is       *)
(* accepted, its request read in whatever pieces arrive, answered and closed. The *)
(* cheat service is what CheatService shows between two requests: a list of       *)
(* flags that belongs to one application and one cheat file, brought up to date   *)
(* by every refresh. Games and files change at any time.                          *)
EXTENDS Naturals, Sequences, FiniteSets

CONSTANTS
  Slots,       \* connections a client may have open at the same time
  Backlog,     \* kBacklog: connections that wait to be accepted
  Limit,       \* kRequestLimit, in pieces
  Room,        \* cheats that fit in kResponseLimit
  Files,       \* cheat files, as the sets of ids they list
  MaxChanges,  \* bound on starts of games and edits of files
  Faults,      \* which steps may fail: "refresh", "apply", "receive", "send", "accept"
  MaxFaults    \* bound on the failures

ASSUME FileAssumption == \A f \in Files : f \subseteq Nat \ {0}
ASSUME LimitAssumption ==
  /\ {Backlog, Limit} \subseteq Nat \ {0}
  /\ {Room, MaxChanges, MaxFaults} \subseteq Nat

VARIABLES
  world,    \* the running application (0: none), its cheat file and the ids in it
  changes,  \* number of changes so far: applications and files are not used twice
  svc,      \* what the service lists: application, file, flags
  running,  \* HttpServer::run has not returned
  tcp,      \* connections as their clients see them: state, request, pieces of it
            \* sent, and what was received
  queue,    \* connections to accept
  conn,     \* the accepted connection, or Nobody
  got,      \* pieces read_request has received
  faults    \* failures so far

env == <<world, changes>>
server == <<running, queue, conn, got>>
httpVars == <<world, changes, svc, running, tcp, queue, conn, got, faults>>

Nobody == <<>>
Fault(f) == f \in Faults /\ faults < MaxFaults /\ faults' = faults + 1
Works == UNCHANGED faults

-----------------------------------------------------------------------------
(* The console and the cheat directory. *)

NoWorld == [app |-> 0, file |-> 0, ids |-> {}]
StartGame(f) == world' = [app |-> changes + 1, file |-> changes + 1, ids |-> f]
EditFile(f) == world.app # 0 /\ world' = [world EXCEPT !.file = changes + 1, !.ids = f]
QuitGame == world.app # 0 /\ world' = NoWorld
Change ==
  /\ changes < MaxChanges /\ changes' = changes + 1
  /\ QuitGame \/ \E f \in Files : StartGame(f) \/ EditFile(f)
  /\ UNCHANGED <<svc, server, tcp, faults>>

-----------------------------------------------------------------------------
(* The service, as the server calls it: refresh, snapshot and set_enabled. *)

NoList == [app |-> 0, file |-> 0, on |-> <<>>]
Listing(w) == [app |-> w.app, file |-> w.file, on |-> [i \in w.ids |-> FALSE]]
Current(s) == s.app = world.app /\ s.file = world.file
\* refresh returns true
Refreshed(s) ==
  IF world.app = 0 THEN NoList ELSE IF Current(s) THEN s ELSE Listing(world)
\* refresh returns false: nothing could be inspected; the new process has no list yet;
\* some of the cheats of the old file were switched off, the file was not replaced
Unrefreshed(s) ==
  IF world.app = 0 THEN {}
  ELSE IF s.app # world.app THEN {[app |-> world.app, file |-> 0, on |-> <<>>]}
  ELSE IF Current(s) THEN {s}
  ELSE {[s EXCEPT !.on = [i \in DOMAIN s.on |-> s.on[i] /\ i \in left]]
          : left \in SUBSET DOMAIN s.on}

-----------------------------------------------------------------------------
(* Requests and answers. *)

\* a method or path that is not served is as good as another
RequestForms == [method: {"GET", "PUT", "POST", "garbled"},
                 path: {"cheat", "cheats", "page", "health", "version", "nowhere"},
                 id: Nat, on: BOOLEAN, trusted: BOOLEAN, valid: BOOLEAN, head: Nat, body: Nat]
Get(path) == [method |-> "GET", path |-> path, id |-> 0, on |-> FALSE,
              trusted |-> FALSE, valid |-> TRUE, head |-> 1, body |-> 0]
Put(id, on) == [method |-> "PUT", path |-> "cheat", id |-> id, on |-> on,
                trusted |-> TRUE, valid |-> TRUE, head |-> 1, body |-> 1]
Poll == Get("cheats")
Whole(q) == q.head + q.body

Route(q) ==
  CASE q.method = "garbled" -> "bad_request"
    [] q.method = "PUT" /\ q.path = "cheat" -> "cheat_toggle"
    [] q.method \notin {"garbled", "GET"} /\ ~(q.method = "PUT" /\ q.path = "cheat")
         -> "method_not_allowed"
    [] q.method = "GET" /\ q.path = "cheats" -> "cheats"
    [] q.method = "GET" /\ q.path \in {"page", "health", "version"} -> q.path
    [] OTHER -> "not_found"
\* the routes that do not reach the service
Fixed == [bad_request |-> 400, method_not_allowed |-> 405, not_found |-> 404,
          page |-> 200, health |-> 200, version |-> 200]

Answer(status, s, ids) == [status |-> status, app |-> s.app, file |-> s.file,
                           on |-> [i \in ids |-> s.on[i]]]
Status(code) == Answer(code, NoList, {})
NoAnswer == Status(0)

\* GET of the list: the refresh may fail, the snapshot is served all the same
ListAnswer(s) ==
  IF Cardinality(DOMAIN s.on) > Room THEN Status(500) ELSE Answer(200, s, DOMAIN s.on)
\* a toggle that set_enabled refused, told apart by a second look at the service
Refusal(s, q) ==
  Status(IF s.app = 0 THEN 409 ELSE IF q.id \notin DOMAIN s.on THEN 404 ELSE 422)
Acceptable(q) == q.trusted /\ q.valid
Switched(s, q) == [s EXCEPT !.on[q.id] = q.on]

-----------------------------------------------------------------------------
(* Clients: a connection is opened, waits for room in the backlog, and its request *)
(* is sent piece by piece. A client may go away before it has been answered.       *)

Closed == [at |-> "idle", ask |-> Poll, sent |-> 0, answer |-> NoAnswer]
Opened(q) == [Closed EXCEPT !.at = "knocking", !.ask = q]
Knock(s) ==
  /\ tcp[s].at = "knocking" /\ running /\ Len(queue) < Backlog
  /\ tcp' = [tcp EXCEPT ![s].at = "open"] /\ queue' = Append(queue, s)
  /\ Works /\ UNCHANGED <<env, svc, running, conn, got>>
Refused(s) ==
  /\ tcp[s].at = "knocking" /\ ~running /\ tcp' = [tcp EXCEPT ![s].at = "closed"]
  /\ Works /\ UNCHANGED <<env, svc, server>>
Send(s) ==
  /\ tcp[s].at = "open" /\ tcp[s].sent < Whole(tcp[s].ask)
  /\ tcp' = [tcp EXCEPT ![s].sent = @ + 1]
  /\ Works /\ UNCHANGED <<env, svc, server>>
HangUp(s) ==
  /\ tcp[s].at = "open" /\ tcp' = [tcp EXCEPT ![s].at = "gone"]
  /\ Works /\ UNCHANGED <<env, svc, server>>

-----------------------------------------------------------------------------
(* The server. *)

Accept ==
  /\ running /\ conn = Nobody /\ queue # <<>>
  /\ conn' = <<Head(queue)>> /\ queue' = Tail(queue) /\ got' = 0
  /\ Works /\ UNCHANGED <<env, svc, tcp, running>>
\* run returns, and the process ends with every connection it had
AcceptError ==
  /\ running /\ conn = Nobody /\ queue # <<>> /\ Fault("accept")
  /\ running' = FALSE /\ queue' = <<>>
  /\ tcp' = [s \in Slots |-> CASE tcp[s].at = "open" -> [tcp[s] EXCEPT !.at = "closed"]
                                [] tcp[s].at = "gone" -> Closed
                                [] OTHER -> tcp[s]]
  /\ UNCHANGED <<env, svc, conn, got>>

HeadRead(s) == got >= tcp[s].ask.head
TooLong(s) == HeadRead(s) /\ tcp[s].ask.body > Limit - tcp[s].ask.head
Filled(s) == got = Limit /\ got < Whole(tcp[s].ask)
\* mutant: the body is not waited for
HeadOnly(s) == HeadRead(s) /\ ~TooLong(s)
Complete(s) == HeadRead(s) /\ ~TooLong(s) /\ got >= Whole(tcp[s].ask)

\* mutant: recv may fill one piece more than the buffer has
ReceiveTooMuch(s) ==
  /\ conn = <<s>> /\ ~TooLong(s) /\ ~Filled(s) /\ ~Complete(s)
  /\ \E n \in got + 1 .. tcp[s].sent : n <= Limit + 1 /\ got' = n
  /\ Works /\ UNCHANGED <<env, svc, tcp, running, queue, conn>>
\* recv: any number of the pieces that have arrived
Receive(s) ==
  /\ conn = <<s>> /\ ~TooLong(s) /\ ~Filled(s) /\ ~Complete(s)
  /\ \E n \in got + 1 .. tcp[s].sent : n <= Limit /\ got' = n
  /\ Works /\ UNCHANGED <<env, svc, tcp, running, queue, conn>>

\* the connection of s is closed by the server, with answer a if s is still there
Close(s, a) ==
  /\ conn' = Nobody
  /\ tcp' = [tcp EXCEPT ![s] = IF @.at = "gone" THEN Closed
                               ELSE [@ EXCEPT !.at = "closed", !.answer = a]]
  /\ got' = 0 /\ UNCHANGED <<env, running, queue>>
\* read_request returns false and nothing is answered
Unreadable(s) ==
  /\ conn = <<s>> /\ (TooLong(s) \/ Filled(s)) /\ Close(s, NoAnswer)
  /\ Works /\ UNCHANGED svc
Ended(s) ==
  /\ conn = <<s>> /\ ~Complete(s) /\ tcp[s].at = "gone" /\ got = tcp[s].sent /\ Close(s, NoAnswer)
  /\ Works /\ UNCHANGED svc
ReceiveError(s) ==
  /\ conn = <<s>> /\ ~Complete(s) /\ Fault("receive") /\ Close(s, NoAnswer)
  /\ UNCHANGED svc

\* handle_client, with answer a: sending it may fail half way
Reply(s, a) == Close(s, a) /\ Works
ReplyLost(s) == Fault("send") /\ Close(s, NoAnswer)
Respond(s, a) == Reply(s, a) \/ ReplyLost(s)

ServeFixed(s) ==
  /\ conn = <<s>> /\ Complete(s) /\ Route(tcp[s].ask) \in DOMAIN Fixed
  /\ Respond(s, Status(Fixed[Route(tcp[s].ask)])) /\ UNCHANGED svc
ServeList(s) ==
  /\ conn = <<s>> /\ Complete(s) /\ Route(tcp[s].ask) = "cheats"
  /\ svc' = Refreshed(svc) /\ Respond(s, ListAnswer(svc'))
ServeStaleList(s) ==
  /\ conn = <<s>> /\ Complete(s) /\ Route(tcp[s].ask) = "cheats" /\ Fault("refresh")
  /\ svc' \in Unrefreshed(svc) /\ Close(s, ListAnswer(svc'))
RejectToggle(s) ==
  /\ conn = <<s>> /\ Complete(s) /\ Route(tcp[s].ask) = "cheat_toggle" /\ ~Acceptable(tcp[s].ask)
  /\ Respond(s, Status(IF tcp[s].ask.trusted THEN 400 ELSE 403)) /\ UNCHANGED svc
\* set_enabled refreshes, looks the id up in the list that results, and applies
Toggle(s) ==
  /\ conn = <<s>> /\ Complete(s) /\ Route(tcp[s].ask) = "cheat_toggle" /\ Acceptable(tcp[s].ask)
  /\ LET now == Refreshed(svc)  q == tcp[s].ask
     IN IF q.id \in DOMAIN now.on
        THEN svc' = Switched(now, q) /\ Respond(s, Answer(200, svc', {q.id}))
        ELSE svc' = now /\ Respond(s, Refusal(now, q))
ToggleFails(s) ==
  /\ conn = <<s>> /\ Complete(s) /\ Route(tcp[s].ask) = "cheat_toggle" /\ Acceptable(tcp[s].ask)
  /\ \/ Fault("refresh") /\ svc' \in Unrefreshed(svc)
     \/ Fault("apply") /\ svc' = Refreshed(svc) /\ tcp[s].ask.id \in DOMAIN svc'.on
  /\ Close(s, Refusal(svc', tcp[s].ask))

Serve(s) ==
  \/ Receive(s) \/ Unreadable(s) \/ Ended(s) \/ ReceiveError(s)
  \/ ServeFixed(s) \/ ServeList(s) \/ ServeStaleList(s)
  \/ RejectToggle(s) \/ Toggle(s) \/ ToggleFails(s)
HttpInit ==
  /\ world = NoWorld /\ changes = 0 /\ svc = NoList /\ running = TRUE /\ faults = 0
  /\ tcp = [s \in Slots |-> Closed]
  /\ queue = <<>> /\ conn = Nobody /\ got = 0
=============================================================================
