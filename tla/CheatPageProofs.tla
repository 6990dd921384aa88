---------------------------- MODULE CheatPageProofs ----------------------------
(* For any pages, clients, files and requests: the server's bookkeeping of its      *)
(* connections, the page's of its requests, and why a switch says what the service *)
(* has. PageInv says which connections are in the queue, which requests a page has *)
(* under way, and which lists with flags are about the file the service lists.     *)
EXTENDS CheatPage, SequenceTheorems, TLAPS

Lists(S) == UNION {[D -> S] : D \in SUBSET Nat}
Services == [app: Nat, file: Nat, on: Lists(BOOLEAN)]
Answers == [status: Nat, app: Nat, file: Nat, on: Lists(BOOLEAN)]
Connections == [at: {"idle", "knocking", "open", "gone", "closed"}, ask: RequestForms,
                sent: Nat, answer: Answers]
Views == [up: BOOLEAN, on: Lists([file: Nat, flag: BOOLEAN])]

Typed ==
  /\ world \in [app: Nat, file: Nat, ids: SUBSET Nat] /\ changes \in Nat
  /\ svc \in Services /\ running \in BOOLEAN /\ faults \in Nat /\ got \in Nat
  /\ tcp \in [Slots -> Connections] /\ queue \in Seq(Slots)
  /\ conn = Nobody \/ \E s \in Slots : conn = <<s>>
  /\ shown \in [Pages -> Views] /\ active \in [Pages -> BOOLEAN]
  /\ pending \in [Pages -> SUBSET Ids] /\ waiting \in [Pages -> SUBSET Ids]
  /\ want \in [Pages -> [Ids -> BOOLEAN]] /\ clicks \in Nat

\* applications and files are numbered in the order they appear
Proper(s) ==
  /\ s \in Services /\ s.app <= changes /\ s.file <= changes
  /\ s.file = world.file /\ s.file # 0 => s.app = world.app
  /\ DOMAIN s.on # {} => s.file # 0
Dated ==
  /\ changes <= MaxChanges /\ world.app <= changes /\ world.file <= changes
  /\ IF world.app = 0 THEN world.file = 0 ELSE world.file # 0
  /\ Proper(svc)

\* the connections the server has, and the pieces it has read
Linked(s) == tcp[s].at \in {"open", "gone"}
Wired ==
  /\ Len(queue) <= Backlog /\ got <= Limit
  /\ \A k \in 1..Len(queue) : Linked(queue[k]) /\ conn # <<queue[k]>>
  /\ \A j, k \in 1..Len(queue) : queue[j] = queue[k] => j = k
  /\ \A s \in Slots : conn = <<s>> => Linked(s) /\ got <= tcp[s].sent
  /\ \A s \in Slots : tcp[s].sent <= Whole(tcp[s].ask)

\* what the pages have asked, and what they wait for
Waits(p) ==
  /\ tcp[PollOf(p)].ask = Poll /\ (active[p] <=> InFlight(PollOf(p)))
  /\ waiting[p] # {} => active[p]
  /\ \A i \in Ids :
       /\ InFlight(PutOf(p, i)) =>
            ~active[p] /\ tcp[PutOf(p, i)].ask \in {Put(i, on) : on \in BOOLEAN}
       /\ i \in pending[p] <=> i \in waiting[p] \/ InFlight(PutOf(p, i))
Asked ==
  /\ \A s \in PageSlots : tcp[s].at # "gone"
  /\ \A s \in OtherSlots : tcp[s].ask \in Requests \cup {Poll}
  /\ \A p \in Pages : Waits(p)
PageInv == Typed /\ Dated /\ Wired /\ Asked

\* a list, of file f and with the flag b for cheat i, has not been overtaken
Latest(f) == f \in 1..changes /\ (f = world.file => f = svc.file)
Listed(f, i) == Latest(f) /\ (f = svc.file => i \in DOMAIN svc.on)
Agrees(f, i, b) == Listed(f, i) /\ (f = svc.file => b = svc.on[i])
Confirmed(s) == tcp[s].at = "closed" /\ tcp[s].answer.status = 200
Follow(p, i) ==
  /\ i \in DOMAIN shown[p].on =>
       /\ Listed(shown[p].on[i].file, i)
       /\ ~Confirmed(PutOf(p, i)) => Agrees(shown[p].on[i].file, i, shown[p].on[i].flag)
  /\ \A s \in {PollOf(p), PutOf(p, i)} :
       Confirmed(s) /\ i \in DOMAIN tcp[s].answer.on =>
         Agrees(tcp[s].answer.file, i, tcp[s].answer.on[i])
Follows ==
  faults = 0 => /\ running
                /\ \A p \in Pages : \A i \in Own(p) : Follow(p, i)
                /\ \A p \in Pages : \A j \in Ids :
                     Confirmed(PutOf(p, j)) => DOMAIN tcp[PutOf(p, j)].answer.on = {j}
FollowInv == PageInv /\ Follows

-----------------------------------------------------------------------------
(* Lists, services and answers. *)

LEMMA ListIs ==
  ASSUME NEW S, NEW f
  PROVE  f \in Lists(S) <=> f \in [DOMAIN f -> S] /\ DOMAIN f \subseteq Nat
BY DEF Lists

LEMMA EmptyList == ASSUME NEW S PROVE <<>> \in Lists(S) /\ DOMAIN <<>> = {}
<1>1. DOMAIN <<>> = {} /\ <<>> = [i \in {} |-> i]  OBVIOUS
<1>2. <<>> \in [DOMAIN <<>> -> S]  BY <1>1
<1> QED  BY <1>1, <1>2, ListIs

LEMMA AnswerIs ==
  ASSUME NEW status \in Nat, NEW s \in Services, NEW ids \in SUBSET DOMAIN s.on
  PROVE  /\ Answer(status, s, ids) \in Answers /\ Status(status) \in Answers
         /\ DOMAIN Status(status).on = {}
<1>1. s.on \in [DOMAIN s.on -> BOOLEAN] /\ DOMAIN s.on \subseteq Nat
  BY ListIs DEF Services
<1>2. [i \in ids |-> s.on[i]] \in [ids -> BOOLEAN] /\ ids \subseteq Nat  BY <1>1
<1>3. [i \in ids |-> s.on[i]] \in Lists(BOOLEAN)  BY <1>2, ListIs
<1>4. Answer(status, s, ids) \in Answers  BY <1>3 DEF Answer, Answers, Services
<1>5. [i \in {} |-> NoList.on[i]] \in [{} -> BOOLEAN]  OBVIOUS
<1>6. [i \in {} |-> NoList.on[i]] \in Lists(BOOLEAN)  BY <1>5, ListIs
<1>7. Status(status) \in Answers /\ DOMAIN Status(status).on = {}
  BY <1>6 DEF Status, Answer, Answers, NoList
<1> QED  BY <1>4, <1>7

LEMMA NoListIs == NoList \in Services /\ DOMAIN NoList.on = {}
BY EmptyList DEF NoList, Services

LEMMA RefreshedIs ==
  ASSUME Typed, Dated
  PROVE  /\ Proper(Refreshed(svc))
         /\ \/ Refreshed(svc) = svc
            \/ Refreshed(svc) = NoList /\ world.app = 0
            \/ Refreshed(svc) = Listing(world) /\ ~Current(svc) /\ world.app # 0
<1>1. Proper(NoList)  BY NoListIs DEF Proper, NoList, Typed
<1>2. world.app # 0 => Proper(Listing(world))
  <2>1. [i \in world.ids |-> FALSE] \in Lists(BOOLEAN)  BY ListIs DEF Typed
  <2> QED  BY <2>1 DEF Proper, Listing, Services, Typed, Dated
<1> QED  BY <1>1, <1>2 DEF Refreshed, Dated

LEMMA UnrefreshedIs ==
  ASSUME Typed, Dated, NEW s \in Unrefreshed(svc)
  PROVE  Proper(s) /\ \A i \in DOMAIN s.on : i \in DOMAIN svc.on /\ s.file = svc.file
                                             /\ (s.on[i] => svc.on[i])
<1>1. CASE s = [app |-> world.app, file |-> 0, on |-> <<>>]
  BY <1>1, EmptyList DEF Proper, Services, Typed, Dated
<1>2. CASE s = svc
  BY <1>2 DEF Dated
<1>3. CASE \E left \in SUBSET DOMAIN svc.on :
             s = [svc EXCEPT !.on = [i \in DOMAIN svc.on |-> svc.on[i] /\ i \in left]]
  <2>1. PICK left \in SUBSET DOMAIN svc.on :
               s = [svc EXCEPT !.on = [i \in DOMAIN svc.on |-> svc.on[i] /\ i \in left]]
    BY <1>3
  <2> DEFINE on == [i \in DOMAIN svc.on |-> svc.on[i] /\ i \in left]
  <2>2. svc.on \in [DOMAIN svc.on -> BOOLEAN] /\ DOMAIN svc.on \subseteq Nat
    BY ListIs DEF Typed, Services
  <2>3. on \in [DOMAIN svc.on -> BOOLEAN] /\ DOMAIN on = DOMAIN svc.on
    BY <2>2, Zenon
  <2>4. \A i \in DOMAIN svc.on : on[i] => svc.on[i]  BY Zenon
  <2>5. s = [svc EXCEPT !.on = on]  BY <2>1
  <2> HIDE DEF on
  <2>6. on \in Lists(BOOLEAN)  BY <2>2, <2>3, ListIs
  <2> QED  BY <2>3, <2>4, <2>5, <2>6 DEF Proper, Services, Typed, Dated
<1> QED  BY <1>1, <1>2, <1>3 DEF Unrefreshed

LEMMA SwitchedIs ==
  ASSUME Typed, NEW s, Proper(s), NEW q \in RequestForms, q.id \in DOMAIN s.on
  PROVE  /\ Proper(Switched(s, q)) /\ DOMAIN Switched(s, q).on = DOMAIN s.on
         /\ Switched(s, q).file = s.file /\ Switched(s, q).app = s.app
         /\ \A i \in DOMAIN s.on : Switched(s, q).on[i] = IF i = q.id THEN q.on ELSE s.on[i]
<1>1. s \in Services /\ q.on \in BOOLEAN  BY DEF Proper, RequestForms
<1>2. s.on \in [DOMAIN s.on -> BOOLEAN] /\ DOMAIN s.on \subseteq Nat
  BY <1>1, ListIs DEF Services
<1> DEFINE on == [s.on EXCEPT ![q.id] = q.on]
<1>3. /\ on \in [DOMAIN s.on -> BOOLEAN] /\ DOMAIN on = DOMAIN s.on
      /\ \A i \in DOMAIN s.on : on[i] = IF i = q.id THEN q.on ELSE s.on[i]
  BY <1>1, <1>2
<1>4. Switched(s, q) = [s EXCEPT !.on = on]  BY <1>1 DEF Switched, Services
<1> HIDE DEF on
<1>5. on \in Lists(BOOLEAN)  BY <1>2, <1>3, ListIs
<1> QED  BY <1>1, <1>3, <1>4, <1>5 DEF Proper, Services

-----------------------------------------------------------------------------
(* The server. Serving a connection reads from it, or answers and closes it.  *)

Closing(s, a) ==
  /\ conn = <<s>> /\ Close(s, a) /\ a \in Answers /\ Proper(svc')
  /\ faults' \in Nat /\ faults' >= faults /\ UNCHANGED page

LEMMA FaultCounts ==
  ASSUME Typed, NEW f, Fault(f) \/ Works
  PROVE  faults' \in Nat /\ faults' >= faults /\ (Fault(f) => faults' > 0)
BY DEF Fault, Works, Typed

LEMMA ServeEnds ==
  ASSUME PageInv, NEW s \in Slots, Serve(s), UNCHANGED page
  PROVE  Receive(s) \/ \E a \in Answers : Closing(s, a)
<1> USE DEF PageInv
<1>1. Proper(svc) /\ svc \in Services  BY DEF Dated, Proper
<1>2. NoAnswer \in Answers /\ \A n \in Nat : Status(n) \in Answers
  BY NoListIs, AnswerIs DEF NoAnswer
<1>3. tcp[s].ask \in RequestForms  BY DEF Typed, Connections
<1>4. ASSUME NEW t \in Services, NEW q \in RequestForms PROVE Refusal(t, q) \in Answers
  BY <1>2 DEF Refusal
<1>5. CASE Receive(s)  BY <1>5
<1>6. CASE Unreadable(s) \/ Ended(s) \/ ReceiveError(s)
  <2>1. conn = <<s>> /\ Close(s, NoAnswer) /\ svc' = svc /\ (Works \/ Fault("receive"))
    BY <1>6 DEF Unreadable, Ended, ReceiveError
  <2>2. Closing(s, NoAnswer)  BY <1>1, <1>2, <2>1, FaultCounts DEF Closing
  <2> QED  BY <1>2, <2>2
<1>7. ASSUME NEW a \in Answers, Respond(s, a), conn = <<s>>, Proper(svc')
      PROVE  \E b \in Answers : Closing(s, b)
  <2>1. (Close(s, a) \/ Close(s, NoAnswer)) /\ (Works \/ Fault("send"))
    BY <1>7 DEF Respond, Reply, ReplyLost
  <2> QED  BY <1>2, <1>7, <2>1, FaultCounts DEF Closing
<1>8. CASE ServeFixed(s) \/ RejectToggle(s)
  <2>1. PICK n \in Nat : Respond(s, Status(n)) /\ conn = <<s>> /\ svc' = svc
    BY <1>8 DEF ServeFixed, RejectToggle, Fixed
  <2> QED  BY <1>1, <1>2, <1>7, <2>1
<1>9. ASSUME NEW t \in Services PROVE ListAnswer(t) \in Answers
  BY <1>2, AnswerIs DEF ListAnswer
<1>10. Proper(Refreshed(svc)) /\ Refreshed(svc) \in Services
  BY RefreshedIs DEF Proper
<1>11. CASE ServeList(s)
  <2>1. conn = <<s>> /\ svc' = Refreshed(svc) /\ Respond(s, ListAnswer(svc'))
    BY <1>11 DEF ServeList
  <2> QED  BY <1>7, <1>9, <1>10, <2>1
<1>12. ASSUME NEW t \in Unrefreshed(svc) PROVE Proper(t) /\ t \in Services
  BY UnrefreshedIs DEF Proper
<1>13. CASE ServeStaleList(s)
  <2>1. conn = <<s>> /\ svc' \in Unrefreshed(svc) /\ Close(s, ListAnswer(svc')) /\ Fault("refresh")
    BY <1>13 DEF ServeStaleList
  <2>2. Closing(s, ListAnswer(svc'))  BY <1>9, <1>12, <2>1, FaultCounts DEF Closing
  <2> QED  BY <1>9, <1>12, <2>1, <2>2
<1>14. CASE Toggle(s)
  <2> DEFINE now == Refreshed(svc)  q == tcp[s].ask
  <2>1. conn = <<s>>  BY <1>14 DEF Toggle
  <2>2. CASE q.id \in DOMAIN now.on
    <3>1. svc' = Switched(now, q) /\ Respond(s, Answer(200, svc', {q.id}))
      BY <1>14, <2>2 DEF Toggle
    <3>2. Proper(svc') /\ svc' \in Services /\ q.id \in DOMAIN svc'.on
      BY <1>3, <1>10, <2>2, <3>1, SwitchedIs DEF Proper
    <3>3. Answer(200, svc', {q.id}) \in Answers  BY <3>2, AnswerIs
    <3> QED  BY <1>7, <2>1, <3>1, <3>2, <3>3
  <2>3. CASE q.id \notin DOMAIN now.on
    <3>1. svc' = now /\ Respond(s, Refusal(now, q))  BY <1>14, <2>3 DEF Toggle
    <3> QED  BY <1>3, <1>4, <1>7, <1>10, <2>1, <3>1
  <2> QED  BY <2>2, <2>3
<1>15. CASE ToggleFails(s)
  <2>1. /\ conn = <<s>> /\ Close(s, Refusal(svc', tcp[s].ask))
        /\ Fault("refresh") \/ Fault("apply")
        /\ svc' \in Unrefreshed(svc) \/ svc' = Refreshed(svc)
    BY <1>15 DEF ToggleFails
  <2>2. Proper(svc') /\ svc' \in Services  BY <1>10, <1>12, <2>1
  <2>3. Refusal(svc', tcp[s].ask) \in Answers  BY <1>3, <1>4, <2>2
  <2> QED  BY <2>1, <2>2, <2>3, FaultCounts DEF Closing
<1> QED
  BY <1>5, <1>6, <1>8, <1>11, <1>13, <1>14, <1>15 DEF Serve

-----------------------------------------------------------------------------
(* Connections. *)

LEMMA SlotsAre ==
  ASSUME SlotAssumption
  PROVE  /\ PageSlots \subseteq Slots /\ OtherSlots \subseteq Slots
         /\ PageSlots \cap OtherSlots = {}
         /\ \A p \in Pages : PollOf(p) \in PageSlots /\ \A i \in Ids : PutOf(p, i) \in PageSlots
         /\ \A p, q \in Pages :
              /\ PollOf(p) = PollOf(q) => p = q
              /\ \A i \in Ids : PutOf(p, i) # PollOf(q)
              /\ \A i, j \in Ids : PutOf(p, i) = PutOf(q, j) => p = q /\ i = j
         /\ \A s \in PageSlots :
              \E p \in Pages : s = PollOf(p) \/ \E i \in Ids : s = PutOf(p, i)
<1>1. Ids \subseteq Nat \ {0} /\ 0 \notin Ids /\ Pages \cap Others = {}
  BY DEF SlotAssumption
<1>2. Slots = PageSlots \cup OtherSlots /\ PageSlots = Pages \X (Ids \cup {0})
      /\ OtherSlots = Others \X {0}
  BY DEF SlotAssumption, PageSlots, OtherSlots
<1>3. \A p \in Pages : PollOf(p) \in PageSlots /\ \A i \in Ids : PutOf(p, i) \in PageSlots
  BY <1>2 DEF PollOf, PutOf
<1>4. \A p, q \in Pages :
        /\ PollOf(p) = PollOf(q) => p = q
        /\ \A i \in Ids : PutOf(p, i) # PollOf(q)
        /\ \A i, j \in Ids : PutOf(p, i) = PutOf(q, j) => p = q /\ i = j
  BY <1>1 DEF PollOf, PutOf
<1>5. PageSlots \cap OtherSlots = {}  BY <1>1, <1>2
<1>6. ASSUME NEW s \in PageSlots
      PROVE  \E p \in Pages : s = PollOf(p) \/ \E i \in Ids : s = PutOf(p, i)
  <2>1. s = <<s[1], s[2]>> /\ s[1] \in Pages /\ s[2] \in Ids \cup {0}  BY <1>2
  <2> QED  BY <2>1 DEF PollOf, PutOf
<1> QED  BY <1>2, <1>3, <1>4, <1>5, <1>6

LEMMA OpenedIs ==
  ASSUME NEW q \in RequestForms
  PROVE  /\ Opened(q) \in Connections /\ Opened(q).at = "knocking" /\ Opened(q).ask = q
         /\ Opened(q).sent = 0
         /\ Closed \in Connections /\ Closed.at = "idle" /\ Closed.ask = Poll /\ Closed.sent = 0
         /\ Poll \in RequestForms /\ Whole(q) \in Nat
<1>1. Poll \in RequestForms  BY DEF Poll, Get, RequestForms
<1>2. NoAnswer \in Answers  BY NoListIs, AnswerIs DEF NoAnswer
<1>3. Closed \in Connections /\ Closed.at = "idle" /\ Closed.ask = Poll /\ Closed.sent = 0
  BY <1>1, <1>2 DEF Closed, Connections
<1>4. /\ Opened(q) \in Connections /\ Opened(q).at = "knocking" /\ Opened(q).ask = q
      /\ Opened(q).sent = 0
  <2> HIDE DEF Closed
  <2> QED  BY <1>3 DEF Opened, Connections
<1>5. Whole(q) \in Nat  BY DEF Whole, RequestForms
<1> QED  BY <1>1, <1>3, <1>4, <1>5

LEMMA CloseIs ==
  ASSUME Typed, NEW s \in Slots, NEW a \in Answers, Close(s, a)
  PROVE  /\ tcp' \in [Slots -> Connections] /\ conn' = Nobody /\ got' = 0
         /\ \A t \in Slots \ {s} : tcp'[t] = tcp[t]
         /\ tcp[s].at = "gone" => tcp'[s] = Closed
         /\ tcp[s].at # "gone" => /\ tcp'[s].at = "closed" /\ tcp'[s].answer = a
                                  /\ tcp'[s].ask = tcp[s].ask /\ tcp'[s].sent = tcp[s].sent
         /\ UNCHANGED <<env, running, queue>>
<1>1. tcp[s] \in Connections /\ tcp[s].ask \in RequestForms  BY DEF Typed, Connections
<1>2. Closed \in Connections  BY <1>1, OpenedIs
<1> DEFINE c == IF tcp[s].at = "gone" THEN Closed ELSE [tcp[s] EXCEPT !.at = "closed", !.answer = a]
<1>3. tcp' = [tcp EXCEPT ![s] = c]  BY DEF Close
<1>4. c \in Connections /\ (tcp[s].at # "gone" =>
          c.at = "closed" /\ c.answer = a /\ c.ask = tcp[s].ask /\ c.sent = tcp[s].sent)
  BY <1>1, <1>2 DEF Connections
<1>5. tcp[s].at = "gone" => c = Closed  OBVIOUS
<1> HIDE DEF c
<1>6. tcp' \in [Slots -> Connections] /\ tcp'[s] = c /\ \A t \in Slots \ {s} : tcp'[t] = tcp[t]
  BY <1>3, <1>4 DEF Typed
<1> QED  BY <1>4, <1>5, <1>6 DEF Close

\* the connections of the pages stay under way, or stay idle
LEMMA AskedKeeps ==
  ASSUME SlotAssumption, Asked, UNCHANGED page,
         \A s \in PageSlots : /\ tcp'[s].ask = tcp[s].ask /\ tcp'[s].at # "gone"
                              /\ tcp'[s].at = "idle" <=> tcp[s].at = "idle",
         \A s \in OtherSlots : tcp'[s].ask \in Requests \cup {Poll}
  PROVE  Asked'
<1>1. UNCHANGED <<active, pending, waiting>>  BY DEF page
<1>2. \A s \in PageSlots : InFlight(s)' <=> InFlight(s)  BY DEF InFlight
<1>3. \A s \in PageSlots : tcp'[s].at # "gone"  OBVIOUS
<1>4. ASSUME NEW p \in Pages PROVE Waits(p)'
  <2>1. PollOf(p) \in PageSlots /\ \A i \in Ids : PutOf(p, i) \in PageSlots  BY SlotsAre
  <2> QED  BY <1>1, <1>2, <2>1 DEF Asked, Waits
<1> QED  BY <1>3, <1>4 DEF Asked

\* the queue stays, and whoever is in it or being served stays connected
LEMMA WiredKeeps ==
  ASSUME Typed, Wired, queue' = queue, conn' \in {conn, Nobody}, got' <= Limit,
         \A s \in Slots : tcp'[s].sent <= Whole(tcp'[s].ask),
         \A s \in Slots : conn # <<s>> /\ Linked(s) => Linked(s)',
         \A s \in Slots : conn' = <<s>> => Linked(s)' /\ got' <= tcp'[s].sent
  PROVE  Wired'
<1>1. \A k \in 1..Len(queue) : queue[k] \in Slots  BY ElementOfSeq DEF Typed
<1>2. \A k \in 1..Len(queue) : Linked(queue[k])' /\ conn' # <<queue[k]>>
  BY <1>1 DEF Wired, Nobody, Linked
<1>3. Len(queue') <= Backlog /\ \A j, k \in 1..Len(queue') : queue'[j] = queue'[k] => j = k
  BY DEF Wired
<1> QED  BY <1>2, <1>3 DEF Wired, Linked

\* one connection changes, that is not in the queue and not served
LEMMA OneConnection ==
  ASSUME Typed, Wired, UNCHANGED <<queue, conn, got>>, NEW s \in Slots, NEW c \in Connections,
         tcp' = [tcp EXCEPT ![s] = c], c.sent <= Whole(c.ask),
         Linked(s) => c.at \in {"open", "gone"} /\ c.sent >= tcp[s].sent
  PROVE  /\ Wired' /\ tcp' \in [Slots -> Connections] /\ tcp'[s] = c
         /\ \A t \in Slots \ {s} : tcp'[t] = tcp[t]
<1>1. /\ tcp' \in [Slots -> Connections] /\ tcp'[s] = c
      /\ \A t \in Slots \ {s} : tcp'[t] = tcp[t]
  BY DEF Typed
<1>2. \A t \in Slots : tcp'[t].sent <= Whole(tcp'[t].ask)  BY <1>1 DEF Wired
<1>3. \A t \in Slots : Linked(t) => Linked(t)'  BY <1>1 DEF Linked
<1>4. ASSUME NEW t \in Slots, conn' = <<t>> PROVE Linked(t)' /\ got' <= tcp'[t].sent
  <2>1. Linked(t) /\ got <= tcp[t].sent  BY <1>4 DEF Wired
  <2>2. CASE t # s  BY <1>1, <2>1, <2>2 DEF Linked
  <2>3. CASE t = s
    <3>1. tcp'[t].sent >= tcp[t].sent /\ tcp[t].sent \in Nat /\ c.sent \in Nat /\ got \in Nat
      BY <1>1, <2>1, <2>3 DEF Typed, Connections
    <3> QED  BY <1>1, <2>1, <2>3, <3>1 DEF Linked
  <2> QED  BY <2>2, <2>3
<1>5. got' <= Limit  BY DEF Wired
<1>6. Wired'  BY <1>2, <1>3, <1>4, <1>5, WiredKeeps
<1> QED  BY <1>1, <1>6

LEMMA KnockKeeps ==
  ASSUME Typed, Wired, NEW s \in Slots, Knock(s), LimitAssumption
  PROVE  Wired' /\ queue' \in Seq(Slots)
<1>1. /\ tcp[s].at = "knocking" /\ Len(queue) < Backlog /\ queue' = Append(queue, s)
      /\ conn' = conn /\ got' = got
  BY DEF Knock
<1>2. tcp[s] \in Connections /\ queue \in Seq(Slots) /\ Len(queue) \in Nat /\ Backlog \in Nat
  BY LenProperties DEF Typed, LimitAssumption
<1>3. /\ queue' \in Seq(Slots) /\ Len(queue') = Len(queue) + 1 /\ queue'[Len(queue) + 1] = s
      /\ \A k \in 1..Len(queue) : queue'[k] = queue[k]
  BY <1>1, <1>2, AppendProperties
<1>4. tcp'[s].at = "open" /\ tcp'[s].sent = tcp[s].sent /\ tcp'[s].ask = tcp[s].ask
      /\ \A t \in Slots \ {s} : tcp'[t] = tcp[t]
  BY <1>2 DEF Knock, Typed, Connections
<1>5. Len(queue') <= Backlog  BY <1>1, <1>2, <1>3
<1>6. ~Linked(s) /\ \A k \in 1..Len(queue) : queue[k] \in Slots /\ queue[k] # s
  BY <1>1, <1>2, ElementOfSeq DEF Wired, Linked
<1>7. ASSUME NEW k \in 1..Len(queue') PROVE tcp'[queue'[k]].at \in {"open", "gone"} /\ conn' # <<queue'[k]>>
  <2>1. CASE k \in 1..Len(queue)
    BY <1>1, <1>3, <1>4, <1>6, <2>1 DEF Wired, Linked
  <2>2. CASE k = Len(queue) + 1
    BY <1>1, <1>3, <1>4, <1>6, <2>2 DEF Wired, Linked
  <2> QED  BY <1>2, <1>3, <2>1, <2>2
<1>8. ASSUME NEW j \in 1..Len(queue'), NEW k \in 1..Len(queue'), queue'[j] = queue'[k]
      PROVE  j = k
  <2>1. \A i \in 1..Len(queue') : i \in 1..Len(queue) \/ i = Len(queue) + 1  BY <1>2, <1>3
  <2> QED  BY <1>3, <1>6, <1>8, <2>1 DEF Wired
<1>9. \A t \in Slots : conn' = <<t>> => Linked(t)' /\ got' <= tcp'[t].sent
  BY <1>1, <1>4, <1>6 DEF Wired, Linked
<1>10. \A t \in Slots : tcp'[t].sent <= Whole(tcp'[t].ask)
  BY <1>4 DEF Wired
<1>11. got' <= Limit  BY <1>1 DEF Wired
<1> QED  BY <1>3, <1>5, <1>7, <1>8, <1>9, <1>10, <1>11 DEF Wired, Linked

LEMMA AcceptKeeps ==
  ASSUME Typed, Wired, Accept, LimitAssumption
  PROVE  Wired' /\ queue' \in Seq(Slots) /\ got' \in Nat /\ \E s \in Slots : conn' = <<s>>
<1>1. /\ queue # <<>> /\ conn = Nobody /\ conn' = <<Head(queue)>> /\ queue' = Tail(queue)
      /\ got' = 0 /\ tcp' = tcp
  BY DEF Accept
<1>2. queue \in Seq(Slots) /\ Len(queue) \in Nat /\ Backlog \in Nat
  BY LenProperties DEF Typed, LimitAssumption
<1>3. Len(queue) # 0  BY <1>1, <1>2, EmptySeq
<1>4. /\ Head(queue) = queue[1] /\ Head(queue) \in Slots /\ queue' \in Seq(Slots)
      /\ Len(queue') = Len(queue) - 1
      /\ \A k \in 1..Len(queue') : queue'[k] = queue[k + 1]
  BY <1>1, <1>2, <1>3, HeadTailProperties
<1>5. \A k \in 1..Len(queue') : k + 1 \in 1..Len(queue) /\ k + 1 # 1 /\ 1 \in 1..Len(queue)
  BY <1>2, <1>3, <1>4
<1>6. ASSUME NEW k \in 1..Len(queue') PROVE tcp'[queue'[k]].at \in {"open", "gone"} /\ conn' # <<queue'[k]>>
  <2>1. Linked(queue[k + 1]) /\ queue[k + 1] # queue[1]  BY <1>5 DEF Wired
  <2> QED  BY <1>1, <1>4, <2>1 DEF Linked
<1>7. ASSUME NEW j \in 1..Len(queue'), NEW k \in 1..Len(queue'), queue'[j] = queue'[k]
      PROVE  j = k
  <2>1. j + 1 = k + 1  BY <1>4, <1>5, <1>7 DEF Wired
  <2> QED  BY <1>2, <1>4, <2>1
<1>8. ASSUME NEW t \in Slots, conn' = <<t>> PROVE Linked(t)' /\ got' <= tcp'[t].sent
  <2>1. t = queue[1] /\ 1 \in 1..Len(queue)  BY <1>1, <1>2, <1>3, <1>4, <1>8
  <2>2. tcp[t].sent \in Nat  BY DEF Typed, Connections
  <2> QED  BY <1>1, <2>1, <2>2 DEF Wired, Linked
<1>9. got' <= Limit  BY <1>1 DEF LimitAssumption
<1>10. Len(queue') <= Backlog  BY <1>2, <1>4 DEF Wired
<1>11. \A t \in Slots : tcp'[t].sent <= Whole(tcp'[t].ask)  BY <1>1 DEF Wired
<1> QED  BY <1>1, <1>4, <1>6, <1>7, <1>8, <1>9, <1>10, <1>11 DEF Wired, Linked

-----------------------------------------------------------------------------
(* Steps of the console, the server and the network, and of other clients. *)

LEMMA ChangeKeeps ==
  ASSUME FileAssumption, LimitAssumption, PageInv, Change, UNCHANGED page
  PROVE  PageInv'
<1> USE DEF PageInv
<1>1. /\ changes < MaxChanges /\ changes' = changes + 1 /\ MaxChanges \in Nat
      /\ UNCHANGED <<svc, running, queue, conn, got, tcp, faults>>
      /\ changes \in Nat /\ svc \in Services
  BY DEF Change, server, LimitAssumption, Typed
<1>2. /\ world' \in [app: Nat, file: Nat, ids: SUBSET Nat]
      /\ world'.app <= changes' /\ world'.file \in {0, changes'}
      /\ world'.app = 0 <=> world'.file = 0
  <2>1. CASE QuitGame  BY <1>1, <2>1 DEF QuitGame, NoWorld
  <2>2. CASE \E f \in Files : StartGame(f)
    BY <1>1, <2>2 DEF StartGame, FileAssumption
  <2>3. CASE \E f \in Files : EditFile(f)
    <3>1. PICK f \in SUBSET Nat : world.app # 0 /\ world' = [world EXCEPT !.file = changes + 1, !.ids = f]
      BY <2>3 DEF EditFile, FileAssumption
    <3>2. world.app \in Nat /\ world.app <= changes  BY DEF Typed, Dated
    <3>3. world'.app = world.app /\ world'.file = changes + 1 /\ world'.ids = f
      BY <3>1 DEF Typed
    <3>4. changes + 1 \in Nat /\ world \in [app: Nat, file: Nat, ids: SUBSET Nat]
      BY <1>1 DEF Typed
    <3>5. world' = [app |-> world.app, file |-> changes + 1, ids |-> f]
      BY <3>1, <3>4
    <3>6. world' \in [app: Nat, file: Nat, ids: SUBSET Nat]  BY <3>2, <3>4, <3>5
    <3> QED  BY <1>1, <3>1, <3>2, <3>3, <3>6
  <2> QED  BY <2>1, <2>2, <2>3 DEF Change
<1>3. Typed'  BY <1>1, <1>2 DEF Typed, page
<1>4. Proper(svc)'  BY <1>1, <1>2 DEF Dated, Proper, Services
<1>5. Dated'  BY <1>1, <1>2, <1>4 DEF Dated
<1>6. Wired' /\ Asked'
  BY <1>1 DEF Wired, Linked, Asked, Waits, InFlight, page
<1> QED  BY <1>3, <1>5, <1>6

LEMMA AcceptErrorKeeps ==
  ASSUME SlotAssumption, LimitAssumption, PageInv, AcceptError, UNCHANGED page
  PROVE  PageInv'
<1> USE DEF PageInv
<1>1. /\ conn = Nobody /\ running' = FALSE /\ queue' = <<>> /\ UNCHANGED <<env, svc, conn, got>>
      /\ Fault("accept")
      /\ tcp' = [s \in Slots |-> CASE tcp[s].at = "open" -> [tcp[s] EXCEPT !.at = "closed"]
                                    [] tcp[s].at = "gone" -> Closed
                                    [] OTHER -> tcp[s]]
  BY DEF AcceptError
<1>2. Closed \in Connections /\ Closed.at = "idle" /\ Closed.ask = Poll /\ Closed.sent = 0
      /\ Whole(Poll) \in Nat
  <2>1. Poll \in RequestForms  BY DEF Poll, Get, RequestForms
  <2> QED  BY <2>1, OpenedIs
<1>3. ASSUME NEW s \in Slots
      PROVE  /\ tcp'[s] \in Connections
             /\ tcp'[s].sent <= Whole(tcp'[s].ask)
             /\ tcp[s].at # "gone" => tcp'[s].ask = tcp[s].ask
                                      /\ (tcp'[s].at = "idle" <=> tcp[s].at = "idle")
             /\ tcp[s].at = "gone" => tcp'[s].ask = Poll
             /\ tcp'[s].at # "gone"
  <2>1. tcp[s] \in Connections /\ tcp[s].sent <= Whole(tcp[s].ask)  BY DEF Typed, Wired
  <2>2. tcp'[s] = CASE tcp[s].at = "open" -> [tcp[s] EXCEPT !.at = "closed"]
                    [] tcp[s].at = "gone" -> Closed
                    [] OTHER -> tcp[s]
    BY <1>1
  <2>3. CASE tcp[s].at = "open"  BY <2>1, <2>2, <2>3 DEF Connections
  <2>4. CASE tcp[s].at = "gone"
    <3>1. tcp'[s] = Closed  BY <2>2, <2>4
    <3> QED  BY <1>2, <2>4, <3>1
  <2>5. CASE tcp[s].at \notin {"open", "gone"}
    <3>1. tcp'[s] = tcp[s]  BY <2>2, <2>5
    <3> QED  BY <2>1, <2>5, <3>1
  <2> QED  BY <2>3, <2>4, <2>5
<1>4. tcp' \in [Slots -> Connections]  BY <1>1, <1>3
<1>5. queue' \in Seq(Slots) /\ Len(queue') = 0  BY <1>1
<1>6. Typed'  BY <1>1, <1>4, <1>5, FaultCounts DEF Typed, page, env
<1>7. Dated'  BY <1>1 DEF Dated, Proper, env
<1>8. Wired'
  <2>1. Backlog \in Nat /\ 1..0 = {} /\ \A s \in Slots : conn # <<s>>
    BY <1>1 DEF LimitAssumption, Nobody
  <2>2. 1..Len(queue') = {}  BY <1>5, <2>1
  <2>3. Len(queue') <= Backlog /\ got' <= Limit  BY <1>1, <1>5, <2>1 DEF Wired
  <2> QED  BY <1>1, <1>3, <2>1, <2>2, <2>3 DEF Wired
<1>9. Asked'  BY <1>3, SlotsAre, AskedKeeps DEF Asked
<1> QED  BY <1>6, <1>7, <1>8, <1>9

LEMMA ServeKeeps ==
  ASSUME SlotAssumption, LimitAssumption, PageInv, UNCHANGED page,
         Accept \/ \E s \in Slots : Serve(s)
  PROVE  PageInv'
<1> USE DEF PageInv
<1>1. CASE Accept
  <2>1. UNCHANGED <<env, svc, tcp, running, faults>>  BY <1>1 DEF Accept, Works
  <2>2. Wired' /\ queue' \in Seq(Slots) /\ got' \in Nat /\ \E s \in Slots : conn' = <<s>>
    BY <1>1, AcceptKeeps
  <2>3. Typed'  BY <2>1, <2>2 DEF Typed, page, env
  <2>4. Dated' /\ Asked'  BY <2>1 DEF Dated, Proper, Asked, Waits, InFlight, page, env
  <2> QED  BY <2>2, <2>3, <2>4
<1>2. ASSUME NEW s \in Slots, Receive(s) PROVE PageInv'
  <2>1. /\ conn = <<s>> /\ UNCHANGED <<env, svc, tcp, running, queue, conn, faults>>
    BY <1>2 DEF Receive, Works
  <2>2. PICK n \in got + 1 .. tcp[s].sent : n <= Limit /\ got' = n  BY <1>2 DEF Receive
  <2>3. got' \in Nat /\ got' <= Limit /\ got' <= tcp[s].sent
    BY <2>2 DEF Typed, Connections
  <2>4. Typed'  BY <2>1, <2>3 DEF Typed, page, env
  <2>5. Dated' /\ Asked'  BY <2>1 DEF Dated, Proper, Asked, Waits, InFlight, page, env
  <2>6. Wired'  BY <2>1, <2>3, WiredKeeps DEF Wired, Linked
  <2> QED  BY <2>4, <2>5, <2>6
<1>3. ASSUME NEW s \in Slots, NEW a \in Answers, Closing(s, a) PROVE PageInv'
  <2>1. /\ conn = <<s>> /\ Close(s, a) /\ Proper(svc') /\ faults' \in Nat
    BY <1>3 DEF Closing
  <2>2. /\ tcp' \in [Slots -> Connections] /\ conn' = Nobody /\ got' = 0
        /\ \A t \in Slots \ {s} : tcp'[t] = tcp[t]
        /\ tcp[s].at = "gone" => tcp'[s] = Closed
        /\ tcp[s].at # "gone" => /\ tcp'[s].at = "closed" /\ tcp'[s].ask = tcp[s].ask
                                 /\ tcp'[s].sent = tcp[s].sent
        /\ UNCHANGED <<env, running, queue>>
    BY <2>1, CloseIs
  <2>3. Closed.at = "idle" /\ Closed.ask = Poll /\ Closed.sent = 0 /\ Whole(Poll) \in Nat
    <3>1. Poll \in RequestForms  BY DEF Poll, Get, RequestForms
    <3> QED  BY <3>1, OpenedIs
  <2>4. Typed'  BY <2>1, <2>2 DEF Typed, page, env, Proper
  <2>5. Dated'  BY <2>1, <2>2 DEF Dated, Proper, env
  <2>6. Linked(s)  BY <2>1 DEF Wired
  <2>7. \A t \in Slots : tcp'[t].sent <= Whole(tcp'[t].ask)
    BY <2>2, <2>3 DEF Wired
  <2>8. Wired'
    <3>1. got' <= Limit  BY <2>2 DEF LimitAssumption
    <3>2. \A t \in Slots : conn # <<t>> /\ Linked(t) => Linked(t)'
      BY <2>1, <2>2 DEF Linked
    <3>3. \A t \in Slots : conn' # <<t>>  BY <2>2 DEF Nobody
    <3> QED  BY <2>2, <2>7, <3>1, <3>2, <3>3, WiredKeeps
  <2>9. Asked'
    <3>1. \A t \in PageSlots : /\ tcp'[t].ask = tcp[t].ask /\ tcp'[t].at # "gone"
                               /\ tcp'[t].at = "idle" <=> tcp[t].at = "idle"
      BY <2>2, <2>6, SlotsAre DEF Asked, Linked
    <3>2. \A t \in OtherSlots : tcp'[t].ask \in Requests \cup {Poll}
      BY <2>2, <2>3, SlotsAre DEF Asked
    <3> QED  BY <1>3, <3>1, <3>2, AskedKeeps DEF Closing
  <2> QED  BY <2>4, <2>5, <2>8, <2>9
<1> QED  BY <1>1, <1>2, <1>3, ServeEnds

LEMMA ClientKeeps ==
  ASSUME SlotAssumption, RequestAssumption, LimitAssumption, PageInv, UNCHANGED page,
         NEW s \in Slots,
         \/ Network(s)
         \/ s \in OtherSlots /\ (HangUp(s) \/ OtherOpens(s) \/ OtherLeaves(s))
  PROVE  PageInv'
<1> USE DEF PageInv
<1>1. tcp[s] \in Connections /\ tcp[s].sent <= Whole(tcp[s].ask) /\ Whole(tcp[s].ask) \in Nat
  BY OpenedIs DEF Typed, Wired, Connections
<1>2. /\ UNCHANGED <<env, svc, running, faults>> /\ Dated'
      /\ tcp' \in [Slots -> Connections] /\ queue' \in Seq(Slots) /\ UNCHANGED <<conn, got>>
      => Typed'
  BY DEF Typed, page, env
<1>3. CASE Knock(s)
  <2>1. /\ UNCHANGED <<env, svc, running, faults, conn, got>> /\ tcp[s].at = "knocking"
        /\ tcp' = [tcp EXCEPT ![s].at = "open"]
    BY <1>3 DEF Knock, Works
  <2>2. /\ tcp' \in [Slots -> Connections] /\ \A t \in Slots \ {s} : tcp'[t] = tcp[t]
        /\ tcp'[s].at = "open" /\ tcp'[s].ask = tcp[s].ask
    BY <1>1, <2>1 DEF Typed, Connections
  <2>3. Wired' /\ queue' \in Seq(Slots)  BY <1>3, KnockKeeps
  <2>4. Dated'  BY <2>1 DEF Dated, Proper, env
  <2>5. Asked'  BY <2>1, <2>2, SlotsAre, AskedKeeps DEF Asked
  <2> QED  BY <1>2, <2>1, <2>2, <2>3, <2>4, <2>5
<1>4. ASSUME NEW c \in Connections, tcp' = [tcp EXCEPT ![s] = c], c.sent <= Whole(c.ask),
             UNCHANGED <<env, svc, server, faults>>,
             Linked(s) => c.at \in {"open", "gone"} /\ c.sent >= tcp[s].sent,
             s \in PageSlots => c.ask = tcp[s].ask /\ c.at # "gone"
                                /\ (c.at = "idle" <=> tcp[s].at = "idle"),
             s \in OtherSlots => c.ask \in Requests \cup {Poll}
      PROVE  PageInv'
  <2>1. UNCHANGED <<running, queue, conn, got>>  BY <1>4 DEF server
  <2>2. /\ Wired' /\ tcp' \in [Slots -> Connections] /\ tcp'[s] = c
        /\ \A t \in Slots \ {s} : tcp'[t] = tcp[t]
    BY <1>4, <2>1, OneConnection
  <2>3. queue' \in Seq(Slots)  BY <2>1 DEF Typed
  <2>4. Dated'  BY <1>4 DEF Dated, Proper, env
  <2>5. Asked'  BY <1>4, <2>2, SlotsAre, AskedKeeps DEF Asked
  <2> QED  BY <1>2, <1>4, <2>1, <2>2, <2>3, <2>4, <2>5
<1>5. CASE Refused(s)
  <2> DEFINE c == [tcp[s] EXCEPT !.at = "closed"]
  <2>1. /\ tcp' = [tcp EXCEPT ![s] = c] /\ UNCHANGED <<env, svc, server, faults>>
        /\ tcp[s].at = "knocking"
    BY <1>5 DEF Refused, Works
  <2>2. c \in Connections /\ c.at = "closed" /\ c.ask = tcp[s].ask /\ c.sent = tcp[s].sent
    BY <1>1 DEF Connections
  <2> HIDE DEF c
  <2> QED  BY <1>1, <1>4, <2>1, <2>2, SlotsAre DEF Linked, Asked
<1>6. CASE Send(s)
  <2> DEFINE c == [tcp[s] EXCEPT !.sent = @ + 1]
  <2>1. /\ tcp' = [tcp EXCEPT ![s] = c] /\ UNCHANGED <<env, svc, server, faults>>
        /\ tcp[s].at = "open" /\ tcp[s].sent < Whole(tcp[s].ask)
    BY <1>6 DEF Send, Works
  <2>2. /\ c \in Connections /\ c.at = tcp[s].at /\ c.ask = tcp[s].ask
        /\ c.sent = tcp[s].sent + 1 /\ tcp[s].sent \in Nat
    BY <1>1 DEF Connections
  <2> HIDE DEF c
  <2>3. c.sent <= Whole(c.ask) /\ c.sent >= tcp[s].sent  BY <1>1, <2>1, <2>2
  <2> QED  BY <1>1, <1>4, <2>1, <2>2, <2>3, SlotsAre DEF Linked, Asked
<1>7. CASE s \in OtherSlots /\ HangUp(s)
  <2> DEFINE c == [tcp[s] EXCEPT !.at = "gone"]
  <2>1. /\ tcp' = [tcp EXCEPT ![s] = c] /\ UNCHANGED <<env, svc, server, faults>>
    BY <1>7 DEF HangUp, Works
  <2>2. c \in Connections /\ c.at = "gone" /\ c.ask = tcp[s].ask /\ c.sent = tcp[s].sent
        /\ tcp[s].sent \in Nat
    BY <1>1 DEF Connections
  <2> HIDE DEF c
  <2>3. s \notin PageSlots /\ tcp[s].ask \in Requests \cup {Poll}  BY <1>7, SlotsAre DEF Asked
  <2>4. c.sent <= Whole(c.ask) /\ c.sent >= tcp[s].sent  BY <1>1, <2>2
  <2> QED  BY <1>4, <2>1, <2>2, <2>3, <2>4
<1>8. CASE s \in OtherSlots /\ OtherOpens(s)
  <2>1. PICK q \in Requests : tcp' = [tcp EXCEPT ![s] = Opened(q)]
    BY <1>8 DEF OtherOpens
  <2>2. q \in RequestForms  BY DEF RequestAssumption
  <2>3. /\ Opened(q) \in Connections /\ Opened(q).at = "knocking" /\ Opened(q).ask = q
        /\ Opened(q).sent = 0 /\ Whole(q) \in Nat
    BY <2>2, OpenedIs
  <2>4. tcp[s].at = "idle" /\ UNCHANGED <<env, svc, server, faults>>  BY <1>8 DEF OtherOpens
  <2>5. s \notin PageSlots /\ ~Linked(s)  BY <1>8, <2>4, SlotsAre DEF Linked
  <2>6. Opened(q).sent <= Whole(Opened(q).ask)  BY <2>3
  <2> QED  BY <1>4, <2>1, <2>3, <2>4, <2>5, <2>6
<1>9. CASE s \in OtherSlots /\ OtherLeaves(s)
  <2>1. tcp' = [tcp EXCEPT ![s] = Closed] /\ tcp[s].at = "closed"
        /\ UNCHANGED <<env, svc, server, faults>>
    BY <1>9 DEF OtherLeaves
  <2>2. /\ Closed \in Connections /\ Closed.at = "idle" /\ Closed.ask = Poll /\ Closed.sent = 0
        /\ Whole(Poll) \in Nat
    <3>1. Poll \in RequestForms  BY DEF Poll, Get, RequestForms
    <3> QED  BY <3>1, OpenedIs
  <2>3. s \notin PageSlots /\ ~Linked(s)  BY <1>9, <2>1, SlotsAre DEF Linked
  <2>4. Closed.sent <= Whole(Closed.ask)  BY <2>2
  <2> QED  BY <1>4, <2>1, <2>2, <2>3, <2>4
<1> QED  BY <1>3, <1>5, <1>6, <1>7, <1>8, <1>9 DEF Network

-----------------------------------------------------------------------------
(* Steps of the pages. *)

\* only connections of the page p change, none of which the server has
LEMMA PageWires ==
  ASSUME SlotAssumption, LimitAssumption, PageInv, UNCHANGED <<env, svc, server, faults>>,
         tcp' \in [Slots -> Connections], NEW p \in Pages,
         \A s \in Slots : tcp'[s] = tcp[s] \/
           /\ \E i \in Ids \cup {0} : s = <<p, i>>
           /\ ~Linked(s) /\ tcp'[s].at \in {"idle", "knocking"} /\ tcp'[s].sent = 0
  PROVE  Dated' /\ Wired'
<1>1. UNCHANGED <<running, queue, conn, got>>  BY DEF server
<1>2. Dated'  BY DEF PageInv, Dated, Proper, env
<1>3. \A s \in Slots : tcp'[s].sent <= Whole(tcp'[s].ask)
  <2>1. \A s \in Slots : Whole(tcp'[s].ask) \in Nat  BY DEF Connections, Whole, RequestForms
  <2> QED  BY <2>1 DEF PageInv, Wired
<1>4. \A s \in Slots : Linked(s) => Linked(s)' /\ tcp'[s] = tcp[s]
  BY DEF Linked
<1>5. got' <= Limit  BY <1>1 DEF PageInv, Wired
<1>6. Wired'  BY <1>1, <1>3, <1>4, <1>5, WiredKeeps DEF PageInv, Wired
<1> QED  BY <1>2, <1>6

LEMMA OtherPages ==
  ASSUME SlotAssumption, Asked, NEW p \in Pages,
         \A s \in Slots : (\A i \in Ids \cup {0} : s # <<p, i>>) => tcp'[s] = tcp[s],
         \A s \in PageSlots : tcp'[s].at # "gone",
         \A q \in Pages \ {p} : /\ active'[q] = active[q] /\ pending'[q] = pending[q]
                                /\ waiting'[q] = waiting[q],
         Waits(p)'
  PROVE  Asked'
<1>1. ASSUME NEW q \in Pages \ {p} PROVE Waits(q)'
  <2>1. tcp'[PollOf(q)] = tcp[PollOf(q)] /\ \A i \in Ids : tcp'[PutOf(q, i)] = tcp[PutOf(q, i)]
    BY SlotsAre DEF PollOf, PutOf
  <2> QED  BY <2>1 DEF Asked, Waits, InFlight
<1>2. \A s \in OtherSlots : tcp'[s] = tcp[s]
  <2>1. \A i \in Ids \cup {0} : <<p, i>> \in PageSlots  BY DEF PageSlots
  <2> QED  BY <2>1, SlotsAre
<1> QED  BY <1>1, <1>2 DEF Asked

LEMMA ShownIs ==
  ASSUME NEW a \in Answers
  PROVE  /\ Shown(a) \in Views /\ Offline \in Views /\ DOMAIN Offline.on = {}
         /\ DOMAIN Shown(a).on = DOMAIN a.on
         /\ \A i \in DOMAIN a.on : Shown(a).on[i] = [file |-> a.file, flag |-> a.on[i]]
<1>1. a.on \in [DOMAIN a.on -> BOOLEAN] /\ DOMAIN a.on \subseteq Nat /\ a.file \in Nat
  BY ListIs DEF Answers
<1> DEFINE on == [i \in DOMAIN a.on |-> [file |-> a.file, flag |-> a.on[i]]]
<1>2. on \in [DOMAIN a.on -> [file: Nat, flag: BOOLEAN]] /\ DOMAIN on = DOMAIN a.on
  BY <1>1
<1>3. on \in Lists([file: Nat, flag: BOOLEAN])  BY <1>1, <1>2, ListIs
<1>4. Shown(a).on = on /\ \A i \in DOMAIN a.on : on[i] = [file |-> a.file, flag |-> a.on[i]]
  BY DEF Shown
<1>5. Shown(a) = [up |-> TRUE, on |-> on]  BY DEF Shown
<1> HIDE DEF on
<1>6. Shown(a) \in Views  BY <1>3, <1>5 DEF Views
<1>7. Offline \in Views /\ DOMAIN Offline.on = {}  BY EmptyList DEF Offline, Views
<1> QED  BY <1>2, <1>4, <1>6, <1>7

LEMMA MergedIs ==
  ASSUME NEW l \in Views, NEW a \in Answers
  PROVE  /\ Merged(l, a) \in Views /\ DOMAIN Merged(l, a).on = DOMAIN l.on
         /\ \A i \in DOMAIN l.on :
              /\ i \in DOMAIN a.on =>
                   Merged(l, a).on[i].file = a.file /\ Merged(l, a).on[i].flag = a.on[i]
              /\ i \notin DOMAIN a.on => Merged(l, a).on[i] = l.on[i]
<1>1. /\ a.on \in [DOMAIN a.on -> BOOLEAN] /\ a.file \in Nat
      /\ l.on \in [DOMAIN l.on -> [file: Nat, flag: BOOLEAN]] /\ DOMAIN l.on \subseteq Nat
  BY ListIs DEF Answers, Views
<1> DEFINE on == [i \in DOMAIN l.on |->
                    IF i \in DOMAIN a.on THEN [file |-> a.file, flag |-> a.on[i]] ELSE l.on[i]]
<1>2. on \in [DOMAIN l.on -> [file: Nat, flag: BOOLEAN]] /\ DOMAIN on = DOMAIN l.on
  BY <1>1
<1>3. on \in Lists([file: Nat, flag: BOOLEAN])  BY <1>1, <1>2, ListIs
<1>4. \A i \in DOMAIN l.on :
        /\ i \in DOMAIN a.on => on[i].file = a.file /\ on[i].flag = a.on[i]
        /\ i \notin DOMAIN a.on => on[i] = l.on[i]
  OBVIOUS
<1>5. Merged(l, a) = [l EXCEPT !.on = on]  BY DEF Merged
<1> HIDE DEF on
<1>6. Merged(l, a) \in Views /\ Merged(l, a).on = on  BY <1>3, <1>5 DEF Views
<1> QED  BY <1>2, <1>4, <1>6

LEMMA PutIs ==
  ASSUME NEW i \in Nat, NEW on \in BOOLEAN
  PROVE  /\ Put(i, on) \in RequestForms /\ Put(i, on).id = i /\ Put(i, on).on = on
         /\ Route(Put(i, on)) = "cheat_toggle" /\ Route(Poll) = "cheats"
         /\ Poll \in RequestForms
<1>1. Put(i, on) \in RequestForms /\ Put(i, on).id = i /\ Put(i, on).on = on
      /\ Put(i, on).method = "PUT" /\ Put(i, on).path = "cheat"
  BY DEF Put, RequestForms
<1>2. Route(Put(i, on)) = "cheat_toggle"  BY <1>1 DEF Route
<1>3. Poll.method = "GET" /\ Poll.path = "cheats" /\ Poll \in RequestForms
  BY DEF Poll, Get, RequestForms
<1>4. Route(Poll) = "cheats"  BY <1>3 DEF Route
<1> QED  BY <1>1, <1>2, <1>3, <1>4

\* requests for toggles go out
LEMMA IssueIs ==
  ASSUME SlotAssumption, NEW t \in [Slots -> Connections], NEW p \in Pages,
         NEW ids \in SUBSET Ids, want \in [Pages -> [Ids -> BOOLEAN]]
  PROVE  /\ Issue(t, p, ids) \in [Slots -> Connections]
         /\ \A i \in ids : Issue(t, p, ids)[PutOf(p, i)] = Opened(Put(i, want[p][i]))
         /\ \A s \in Slots : (\A i \in ids : s # PutOf(p, i)) => Issue(t, p, ids)[s] = t[s]
         /\ \A i \in ids : Opened(Put(i, want[p][i])) \in Connections
<1>1. Ids \subseteq Nat  BY DEF SlotAssumption
<1>2. \A i \in ids : Put(i, want[p][i]) \in RequestForms  BY <1>1, PutIs
<1>3. \A i \in ids : Opened(Put(i, want[p][i])) \in Connections  BY <1>2, OpenedIs
<1>4. \A i \in ids : PutOf(p, i)[2] = i /\ PutOf(p, i) \in Slots
  <2>1. \A i \in ids : PutOf(p, i) \in Slots  BY SlotsAre
  <2> QED  BY <2>1 DEF PutOf
<1> DEFINE f(s) == IF \E i \in ids : s = PutOf(p, i) THEN Opened(Put(s[2], want[p][s[2]]))
                   ELSE t[s]
<1>5. Issue(t, p, ids) = [s \in Slots |-> f(s)]  BY DEF Issue
<1>6. \A s \in Slots : f(s) \in Connections  BY <1>3, <1>4
<1>7. \A i \in ids : f(PutOf(p, i)) = Opened(Put(i, want[p][i]))  BY <1>4
<1>8. \A s \in Slots : (\A i \in ids : s # PutOf(p, i)) => f(s) = t[s]  OBVIOUS
<1> HIDE DEF f
<1> QED  BY <1>3, <1>4, <1>5, <1>6, <1>7, <1>8

LEMMA RefreshKeeps ==
  ASSUME SlotAssumption, LimitAssumption, PageInv, NEW p \in Pages, Refresh(p)
  PROVE  PageInv'
<1> USE DEF PageInv
<1>1. /\ ~active[p] /\ pending[p] = {} /\ active' = [active EXCEPT ![p] = TRUE]
      /\ tcp' = [tcp EXCEPT ![PollOf(p)] = Opened(Poll)]
      /\ UNCHANGED <<env, svc, server, faults, shown, pending, waiting, want, clicks>>
  BY DEF Refresh
<1>2. Poll \in RequestForms  BY DEF Poll, Get, RequestForms
<1>3. /\ Opened(Poll) \in Connections /\ Opened(Poll).at = "knocking" /\ Opened(Poll).ask = Poll
      /\ Opened(Poll).sent = 0
  BY <1>2, OpenedIs
<1>4. PollOf(p) \in PageSlots /\ PollOf(p) \in Slots /\ PollOf(p) = <<p, 0>>
  BY SlotsAre DEF PollOf
<1>5. /\ tcp' \in [Slots -> Connections] /\ tcp'[PollOf(p)] = Opened(Poll)
      /\ \A s \in Slots \ {PollOf(p)} : tcp'[s] = tcp[s]
  BY <1>1, <1>3, <1>4 DEF Typed
<1>6. tcp[PollOf(p)].at = "idle"  BY <1>1 DEF Asked, Waits, InFlight
<1>7. Typed'  BY <1>1, <1>5 DEF Typed, env, server
<1>8. Dated' /\ Wired'
  <2>1. \A s \in Slots : tcp'[s] = tcp[s] \/
           /\ \E i \in Ids \cup {0} : s = <<p, i>>
           /\ ~Linked(s) /\ tcp'[s].at \in {"idle", "knocking"} /\ tcp'[s].sent = 0
    BY <1>3, <1>4, <1>5, <1>6 DEF Linked
  <2> QED  BY <1>1, <1>5, <2>1, PageWires
<1>9. Asked'
  <2>1. \A i \in Ids : tcp'[PutOf(p, i)] = tcp[PutOf(p, i)] /\ ~InFlight(PutOf(p, i))
    <3>1. \A i \in Ids : PutOf(p, i) \in Slots /\ PutOf(p, i) # PollOf(p)  BY SlotsAre
    <3> QED  BY <1>1, <1>5, <3>1 DEF Asked, Waits
  <2>2. active'[p] = TRUE /\ \A q \in Pages \ {p} : active'[q] = active[q]
    BY <1>1 DEF Typed
  <2>3. Waits(p)'
    BY <1>1, <1>3, <1>5, <2>1, <2>2 DEF Asked, Waits, InFlight
  <2>4. \A s \in PageSlots : tcp'[s].at # "gone"  BY <1>3, <1>5, SlotsAre DEF Asked
  <2>5. \A s \in Slots : (\A i \in Ids \cup {0} : s # <<p, i>>) => tcp'[s] = tcp[s]
    BY <1>4, <1>5
  <2> QED  BY <1>1, <2>2, <2>3, <2>4, <2>5, OtherPages
<1> QED  BY <1>7, <1>8, <1>9

LEMMA PolledIs ==
  ASSUME SlotAssumption, PageInv, NEW p \in Pages, Polled(p)
  PROVE  /\ tcp' \in [Slots -> Connections] /\ tcp'[PollOf(p)] = Closed
         /\ \A i \in waiting[p] : /\ tcp[PutOf(p, i)].at = "idle"
                                  /\ tcp'[PutOf(p, i)] = Opened(Put(i, want[p][i]))
         /\ \A s \in Slots : s # PollOf(p) /\ (\A i \in waiting[p] : s # PutOf(p, i)) =>
              tcp'[s] = tcp[s]
<1> USE DEF PageInv
<1>1. tcp' = Issue([tcp EXCEPT ![PollOf(p)] = Closed], p, waiting[p])  BY DEF Polled
<1>2. Poll \in RequestForms  BY DEF Poll, Get, RequestForms
<1>3. Closed \in Connections  BY <1>2, OpenedIs
<1>4. PollOf(p) \in Slots /\ \A i \in Ids : PutOf(p, i) # PollOf(p) /\ PutOf(p, i) \in Slots
  BY SlotsAre
<1> DEFINE t == [tcp EXCEPT ![PollOf(p)] = Closed]
<1>5. /\ t \in [Slots -> Connections] /\ t[PollOf(p)] = Closed
      /\ \A s \in Slots \ {PollOf(p)} : t[s] = tcp[s]
  BY <1>3, <1>4 DEF Typed
<1>6. waiting[p] \in SUBSET Ids  BY DEF Typed
<1>7. \A i \in waiting[p] : tcp[PutOf(p, i)].at = "idle"
  BY <1>6 DEF Asked, Waits, InFlight
<1>8. tcp' = Issue(t, p, waiting[p])  BY <1>1
<1> HIDE DEF t
<1>9. want \in [Pages -> [Ids -> BOOLEAN]]  BY DEF Typed
<1>10. /\ tcp' \in [Slots -> Connections]
       /\ \A i \in waiting[p] : tcp'[PutOf(p, i)] = Opened(Put(i, want[p][i]))
       /\ \A s \in Slots : (\A i \in waiting[p] : s # PutOf(p, i)) => tcp'[s] = t[s]
  <2> DEFINE ids == waiting[p]
  <2>1. ids \in SUBSET Ids  BY <1>6
  <2> HIDE DEF ids
  <2>2. /\ Issue(t, p, ids) \in [Slots -> Connections]
        /\ \A i \in ids : Issue(t, p, ids)[PutOf(p, i)] = Opened(Put(i, want[p][i]))
        /\ \A s \in Slots : (\A i \in ids : s # PutOf(p, i)) => Issue(t, p, ids)[s] = t[s]
    BY <1>5, <1>9, <2>1, IssueIs
  <2> QED  BY <1>8, <2>2, Zenon DEF ids
<1> QED  BY <1>4, <1>5, <1>6, <1>7, <1>10

LEMMA PolledKeepsInv ==
  ASSUME SlotAssumption, LimitAssumption, PageInv, NEW p \in Pages, Polled(p)
  PROVE  PageInv'
<1> USE DEF PageInv
<1>1. /\ tcp[PollOf(p)].at = "closed" /\ active' = [active EXCEPT ![p] = FALSE]
      /\ waiting' = [waiting EXCEPT ![p] = {}]
      /\ UNCHANGED <<env, svc, server, faults, pending, want, clicks>>
      /\ shown' = [shown EXCEPT ![p] = IF tcp[PollOf(p)].answer.status = 200
                                       THEN Shown(tcp[PollOf(p)].answer) ELSE Offline]
  BY DEF Polled
<1>2. /\ tcp' \in [Slots -> Connections] /\ tcp'[PollOf(p)] = Closed
      /\ \A i \in waiting[p] : /\ tcp[PutOf(p, i)].at = "idle"
                               /\ tcp'[PutOf(p, i)] = Opened(Put(i, want[p][i]))
      /\ \A s \in Slots : s # PollOf(p) /\ (\A i \in waiting[p] : s # PutOf(p, i)) =>
           tcp'[s] = tcp[s]
  BY PolledIs
<1>3. /\ PollOf(p) \in Slots /\ PollOf(p) = <<p, 0>>
      /\ \A i \in Ids : /\ PutOf(p, i) # PollOf(p) /\ PutOf(p, i) \in Slots
                        /\ PutOf(p, i) = <<p, i>>
                        /\ \A j \in Ids : PutOf(p, i) = PutOf(p, j) => i = j
  BY SlotsAre DEF PollOf, PutOf
<1>4. waiting[p] \in SUBSET Ids /\ Ids \subseteq Nat /\ want[p] \in [Ids -> BOOLEAN]
  BY DEF Typed, SlotAssumption
<1>5. Closed.at = "idle" /\ Closed.ask = Poll /\ Closed.sent = 0
  <2>1. Poll \in RequestForms  BY DEF Poll, Get, RequestForms
  <2> QED  BY <2>1, OpenedIs
<1>6. ASSUME NEW i \in waiting[p]
      PROVE  /\ tcp'[PutOf(p, i)].at = "knocking" /\ tcp'[PutOf(p, i)].sent = 0
             /\ tcp'[PutOf(p, i)].ask = Put(i, want[p][i]) /\ want[p][i] \in BOOLEAN
  <2>1. want[p][i] \in BOOLEAN /\ Put(i, want[p][i]) \in RequestForms  BY <1>4, PutIs
  <2> QED  BY <1>2, <2>1, OpenedIs
<1>7. shown' \in [Pages -> Views]
  <2>1. tcp[PollOf(p)].answer \in Answers  BY <1>3 DEF Typed, Connections
  <2>2. Shown(tcp[PollOf(p)].answer) \in Views /\ Offline \in Views  BY <2>1, ShownIs
  <2> QED  BY <1>1, <2>2 DEF Typed
<1>8. Typed'  BY <1>1, <1>2, <1>7 DEF Typed, env, server
<1>9. Dated' /\ Wired'
  <2>1. ASSUME NEW s \in Slots
        PROVE  tcp'[s] = tcp[s] \/
           /\ \E i \in Ids \cup {0} : s = <<p, i>>
           /\ ~Linked(s) /\ tcp'[s].at \in {"idle", "knocking"} /\ tcp'[s].sent = 0
    <3>1. CASE s = PollOf(p)  BY <1>1, <1>2, <1>3, <1>5, <3>1 DEF Linked
    <3>2. CASE \E i \in waiting[p] : s = PutOf(p, i)
      BY <1>2, <1>3, <1>4, <1>6, <3>2 DEF Linked
    <3>3. CASE s # PollOf(p) /\ \A i \in waiting[p] : s # PutOf(p, i)
      BY <1>2, <3>3
    <3> QED  BY <3>1, <3>2, <3>3
  <2> QED  BY <1>1, <1>2, <2>1, PageWires
<1>10. Asked'
  <2>1. active'[p] = FALSE /\ waiting'[p] = {}
        /\ \A q \in Pages \ {p} : active'[q] = active[q] /\ waiting'[q] = waiting[q]
    BY <1>1 DEF Typed
  <2>2. active[p]  BY <1>1 DEF Asked, Waits, InFlight
  <2>3. ASSUME NEW i \in Ids
        PROVE  /\ InFlight(PutOf(p, i))' =>
                    tcp'[PutOf(p, i)].ask \in {Put(i, on) : on \in BOOLEAN}
               /\ i \in pending'[p] <=> InFlight(PutOf(p, i))'
    <3>1. CASE i \in waiting[p]
      BY <1>1, <1>6, <3>1 DEF Asked, Waits, InFlight
    <3>2. CASE i \notin waiting[p]
      <4>1. tcp'[PutOf(p, i)] = tcp[PutOf(p, i)]  BY <1>2, <1>3, <1>4, <3>2
      <4> QED  BY <1>1, <2>2, <3>2, <4>1 DEF Asked, Waits, InFlight
    <3> QED  BY <3>1, <3>2
  <2>4. Waits(p)'  BY <1>2, <1>5, <2>1, <2>3 DEF Waits, InFlight
  <2>5. \A s \in PageSlots : tcp'[s].at # "gone"
    <3>1. \A s \in PageSlots : s \in Slots /\ tcp[s].at # "gone"  BY SlotsAre DEF Asked
    <3> QED  BY <1>2, <1>5, <1>6, <3>1
  <2>6. \A s \in Slots : (\A i \in Ids \cup {0} : s # <<p, i>>) => tcp'[s] = tcp[s]
    BY <1>2, <1>3, <1>4
  <2> QED  BY <1>1, <2>1, <2>4, <2>5, <2>6, OtherPages
<1> QED  BY <1>8, <1>9, <1>10

LEMMA ToggledKeeps ==
  ASSUME SlotAssumption, LimitAssumption, PageInv, NEW p \in Pages, NEW i \in Ids, Toggled(p, i)
  PROVE  PageInv'
<1> USE DEF PageInv
<1>1. /\ tcp[PutOf(p, i)].at = "closed" /\ tcp' = [tcp EXCEPT ![PutOf(p, i)] = Closed]
      /\ pending' = [pending EXCEPT ![p] = pending[p] \ {i}]
      /\ UNCHANGED <<env, svc, server, faults, active, waiting, want, clicks>>
      /\ shown' = IF tcp[PutOf(p, i)].answer.status = 200
                  THEN [shown EXCEPT ![p] = Merged(shown[p], tcp[PutOf(p, i)].answer)]
                  ELSE shown
  BY DEF Toggled
<1>2. Closed \in Connections /\ Closed.at = "idle" /\ Closed.ask = Poll /\ Closed.sent = 0
  <2>1. Poll \in RequestForms  BY DEF Poll, Get, RequestForms
  <2> QED  BY <2>1, OpenedIs
<1>3. PutOf(p, i) \in Slots /\ PutOf(p, i) \in PageSlots /\ PutOf(p, i) = <<p, i>>
  BY SlotsAre DEF PutOf
<1>4. /\ tcp' \in [Slots -> Connections] /\ tcp'[PutOf(p, i)] = Closed
      /\ \A s \in Slots \ {PutOf(p, i)} : tcp'[s] = tcp[s]
  BY <1>1, <1>2, <1>3 DEF Typed
<1>5. shown' \in [Pages -> Views]
  <2>1. tcp[PutOf(p, i)].answer \in Answers /\ shown[p] \in Views
    BY <1>3 DEF Typed, Connections
  <2>2. Merged(shown[p], tcp[PutOf(p, i)].answer) \in Views  BY <2>1, MergedIs
  <2> QED  BY <1>1, <2>2 DEF Typed
<1>6. pending' \in [Pages -> SUBSET Ids] /\ pending'[p] = pending[p] \ {i}
      /\ \A q \in Pages \ {p} : pending'[q] = pending[q]
  BY <1>1 DEF Typed
<1>7. Typed'  BY <1>1, <1>4, <1>5, <1>6 DEF Typed, env, server
<1>8. Dated' /\ Wired'
  <2>1. \A s \in Slots : tcp'[s] = tcp[s] \/
           /\ \E j \in Ids \cup {0} : s = <<p, j>>
           /\ ~Linked(s) /\ tcp'[s].at \in {"idle", "knocking"} /\ tcp'[s].sent = 0
    BY <1>1, <1>2, <1>3, <1>4 DEF Linked
  <2> QED  BY <1>1, <1>4, <2>1, PageWires
<1>9. Asked'
  <2>1. tcp'[PollOf(p)] = tcp[PollOf(p)] /\
        \A j \in Ids \ {i} : tcp'[PutOf(p, j)] = tcp[PutOf(p, j)]
    <3>1. PollOf(p) \in Slots /\ \A j \in Ids : PutOf(p, j) \in Slots /\ PutOf(p, j) # PollOf(p)
          /\ (PutOf(p, j) = PutOf(p, i) => j = i)
      BY SlotsAre
    <3> QED  BY <1>4, <3>1
  <2>2. InFlight(PutOf(p, i)) /\ ~InFlight(PutOf(p, i))'
    BY <1>1, <1>2, <1>4 DEF InFlight
  <2>3. ~active[p] /\ waiting[p] = {}  BY <2>2 DEF Asked, Waits
  <2>4. Waits(p)'
    BY <1>1, <1>6, <2>1, <2>2, <2>3 DEF Asked, Waits, InFlight
  <2>5. \A s \in PageSlots : tcp'[s].at # "gone"  BY <1>2, <1>4, SlotsAre DEF Asked
  <2>6. \A s \in Slots : (\A j \in Ids \cup {0} : s # <<p, j>>) => tcp'[s] = tcp[s]
    BY <1>3, <1>4
  <2> QED  BY <1>1, <1>6, <2>4, <2>5, <2>6, OtherPages
<1> QED  BY <1>7, <1>8, <1>9

LEMMA ClickKeeps ==
  ASSUME SlotAssumption, LimitAssumption, PageInv, NEW p \in Pages, NEW i \in Ids, Click(p, i)
  PROVE  PageInv'
<1> USE DEF PageInv
<1>1. /\ clicks' = clicks + 1 /\ i \in DOMAIN shown[p].on /\ i \notin pending[p]
      /\ pending' = [pending EXCEPT ![p] = pending[p] \cup {i}]
      /\ want' = [want EXCEPT ![p][i] = ~shown[p].on[i].flag]
      /\ UNCHANGED <<env, svc, server, faults, shown, active>>
      /\ IF active[p]
         THEN waiting' = [waiting EXCEPT ![p] = waiting[p] \cup {i}] /\ UNCHANGED tcp
         ELSE tcp' = [tcp EXCEPT ![PutOf(p, i)] = Opened(Put(i, want'[p][i]))] /\ UNCHANGED waiting
  BY DEF Click
<1>2. /\ pending' \in [Pages -> SUBSET Ids] /\ pending'[p] = pending[p] \cup {i}
      /\ \A q \in Pages \ {p} : pending'[q] = pending[q]
  BY <1>1 DEF Typed
<1>3. want' \in [Pages -> [Ids -> BOOLEAN]] /\ want'[p][i] \in BOOLEAN
  <2> DEFINE w == [want[p] EXCEPT ![i] = ~shown[p].on[i].flag]
  <2>1. want[p] \in [Ids -> BOOLEAN] /\ w \in [Ids -> BOOLEAN] /\ want \in [Pages -> [Ids -> BOOLEAN]]
    BY DEF Typed
  <2>2. want' = [want EXCEPT ![p] = w]  BY <1>1, <2>1
  <2> HIDE DEF w
  <2>3. want' \in [Pages -> [Ids -> BOOLEAN]]  BY <2>1, <2>2
  <2> QED  BY <2>3
<1>4. ~InFlight(PutOf(p, i)) /\ i \notin waiting[p]  BY <1>1 DEF Asked, Waits
<1>5. PutOf(p, i) \in Slots /\ PutOf(p, i) \in PageSlots /\ PutOf(p, i) = <<p, i>>
  BY SlotsAre DEF PutOf
<1>6. CASE active[p]
  <2>1. /\ waiting' \in [Pages -> SUBSET Ids] /\ waiting'[p] = waiting[p] \cup {i}
        /\ \A q \in Pages \ {p} : waiting'[q] = waiting[q]
    BY <1>1, <1>6 DEF Typed
  <2>2. tcp' = tcp  BY <1>1, <1>6
  <2>3. Typed'  BY <1>1, <1>2, <1>3, <2>1, <2>2 DEF Typed, env, server
  <2>4. Dated' /\ Wired'  BY <1>1, <2>2 DEF Dated, Proper, Wired, Linked, env, server
  <2>5. Waits(p)'  BY <1>1, <1>2, <1>6, <2>1, <2>2 DEF Asked, Waits, InFlight
  <2>6. \A s \in PageSlots : tcp'[s].at # "gone"  BY <2>2 DEF Asked
  <2>7. Asked'  BY <1>1, <1>2, <2>1, <2>2, <2>5, <2>6, OtherPages
  <2> QED  BY <2>3, <2>4, <2>7
<1>7. CASE ~active[p]
  <2> DEFINE c == Opened(Put(i, want'[p][i]))
  <2>1. c \in Connections /\ c.at = "knocking" /\ c.ask = Put(i, want'[p][i]) /\ c.sent = 0
    <3>1. i \in Nat  BY DEF SlotAssumption
    <3>2. Put(i, want'[p][i]) \in RequestForms  BY <1>3, <3>1, PutIs
    <3> QED  BY <3>2, OpenedIs
  <2>2. tcp' = [tcp EXCEPT ![PutOf(p, i)] = c] /\ waiting' = waiting  BY <1>1, <1>7
  <2> HIDE DEF c
  <2>3. /\ tcp' \in [Slots -> Connections] /\ tcp'[PutOf(p, i)] = c
        /\ \A s \in Slots \ {PutOf(p, i)} : tcp'[s] = tcp[s]
    BY <1>5, <2>1, <2>2 DEF Typed
  <2>4. Typed'  BY <1>1, <1>2, <1>3, <2>2, <2>3 DEF Typed, env, server
  <2>5. Dated' /\ Wired'
    <3>1. \A s \in Slots : tcp'[s] = tcp[s] \/
             /\ \E j \in Ids \cup {0} : s = <<p, j>>
             /\ ~Linked(s) /\ tcp'[s].at \in {"idle", "knocking"} /\ tcp'[s].sent = 0
      BY <1>4, <1>5, <2>1, <2>3 DEF Linked, InFlight
    <3> QED  BY <1>1, <2>3, <3>1, PageWires
  <2>6. tcp'[PollOf(p)] = tcp[PollOf(p)] /\
        \A j \in Ids \ {i} : tcp'[PutOf(p, j)] = tcp[PutOf(p, j)]
    <3>1. PollOf(p) \in Slots /\ \A j \in Ids : PutOf(p, j) \in Slots /\ PutOf(p, j) # PollOf(p)
          /\ (PutOf(p, j) = PutOf(p, i) => j = i)
      BY SlotsAre
    <3> QED  BY <2>3, <3>1
  <2>7. Waits(p)'
    <3>1. InFlight(PutOf(p, i))' /\ tcp'[PutOf(p, i)].ask \in {Put(i, on) : on \in BOOLEAN}
      BY <1>3, <2>1, <2>3 DEF InFlight
    <3> QED  BY <1>1, <1>2, <1>4, <1>7, <2>2, <2>6, <3>1 DEF Asked, Waits, InFlight
  <2>8. \A s \in PageSlots : tcp'[s].at # "gone"  BY <2>1, <2>3, SlotsAre DEF Asked
  <2>9. \A s \in Slots : (\A j \in Ids \cup {0} : s # <<p, j>>) => tcp'[s] = tcp[s]
    BY <1>5, <2>3
  <2>10. Asked'  BY <1>1, <1>2, <2>2, <2>7, <2>8, <2>9, OtherPages
  <2> QED  BY <2>4, <2>5, <2>10
<1> QED  BY <1>6, <1>7

-----------------------------------------------------------------------------
(* The invariant, and what follows from it. *)

LEMMA InitPage ==
  ASSUME SlotAssumption, LimitAssumption, Init
  PROVE  PageInv
<1>1. /\ world = NoWorld /\ changes = 0 /\ svc = NoList /\ running = TRUE /\ faults = 0
      /\ tcp = [s \in Slots |-> Closed] /\ queue = <<>> /\ conn = Nobody /\ got = 0
      /\ shown = [p \in Pages |-> Offline] /\ active = [p \in Pages |-> FALSE]
      /\ pending = [p \in Pages |-> {}] /\ waiting = [p \in Pages |-> {}]
      /\ want = [p \in Pages |-> [i \in Ids |-> FALSE]] /\ clicks = 0
  BY DEF Init, HttpInit
<1>2. /\ Closed \in Connections /\ Closed.at = "idle" /\ Closed.ask = Poll /\ Closed.sent = 0
      /\ Whole(Poll) \in Nat
  <2>1. Poll \in RequestForms  BY DEF Poll, Get, RequestForms
  <2> QED  BY <2>1, OpenedIs
<1>3. Offline \in Views  BY EmptyList DEF Offline, Views
<1>4. tcp \in [Slots -> Connections] /\ \A s \in Slots : tcp[s] = Closed  BY <1>1, <1>2
<1>5. Typed
  <2>1. world \in [app: Nat, file: Nat, ids: SUBSET Nat]  BY <1>1 DEF NoWorld
  <2>2. want \in [Pages -> [Ids -> BOOLEAN]]  BY <1>1
  <2>3. queue \in Seq(Slots)  BY <1>1
  <2> QED  BY <1>1, <1>3, <1>4, <2>1, <2>2, <2>3, NoListIs DEF Typed
<1>6. Dated  BY <1>1, NoListIs DEF Dated, Proper, NoList, NoWorld, LimitAssumption
<1>7. Wired
  <2>1. Len(queue) = 0 /\ 1..0 = {} /\ \A s \in Slots : conn # <<s>>
    BY <1>1 DEF Nobody
  <2> QED  BY <1>1, <1>2, <1>4, <2>1 DEF Wired, LimitAssumption
<1>8. Asked
  BY <1>1, <1>2, <1>4, SlotsAre DEF Asked, Waits, InFlight
<1> QED  BY <1>5, <1>6, <1>7, <1>8 DEF PageInv

LEMMA PageNext ==
  ASSUME SlotAssumption, RequestAssumption, LimitAssumption, FileAssumption, PageInv, [Next]_vars
  PROVE  PageInv'
<1>1. CASE (Change \/ AcceptError) /\ UNCHANGED page
  BY <1>1, ChangeKeeps, AcceptErrorKeeps
<1>2. CASE ServerWorks  BY <1>2, ServeKeeps DEF ServerWorks
<1>3. CASE \E s \in Slots : Network(s)  BY <1>3, ClientKeeps DEF Network
<1>4. CASE \E s \in OtherSlots : HangUp(s) /\ UNCHANGED page
  BY <1>4, ClientKeeps, SlotsAre
<1>5. CASE \E s \in OtherSlots : OtherOpens(s) \/ OtherLeaves(s)
  BY <1>5, ClientKeeps, SlotsAre DEF OtherOpens, OtherLeaves
<1>6. CASE \E p \in Pages : Refresh(p) \/ Handlers(p) \/ \E i \in Ids : Click(p, i)
  BY <1>6, RefreshKeeps, PolledKeepsInv, ToggledKeeps, ClickKeeps DEF Handlers
<1>7. CASE UNCHANGED vars
  <2>1. UNCHANGED <<env, svc, running, faults, tcp, queue, conn, got, page>>
    BY <1>7 DEF vars, httpVars, env
  <2> QED
    BY <2>1 DEF PageInv, Typed, Dated, Proper, Wired, Linked, Asked, Waits, InFlight, page, env
<1> QED  BY <1>1, <1>2, <1>3, <1>4, <1>5, <1>6, <1>7 DEF Next

\* Whatever clients send and however the console, the network and the server's calls go,
\* PageInv holds.
THEOREM PageInvHolds == Spec => []PageInv
<1>1. Init => PageInv  BY InitPage, SlotAssumption, LimitAssumption
<1>2. PageInv /\ [Next]_vars => PageInv'
  BY PageNext, SlotAssumption, RequestAssumption, LimitAssumption, FileAssumption
<1> QED  BY <1>1, <1>2, PTL DEF Spec

\* The server never reads past its buffer nor keeps more connections than its backlog, the
\* connection it serves is one that a client opened, and a toggle that awaits the poll is
\* marked as pending (http_server.cpp:151-183 and 427-446, CheatsApp.vue:36-41).
THEOREM TypesHold == Spec => []TypeOK
<1>1. PageInv => TypeOK
  <2> SUFFICES ASSUME PageInv PROVE TypeOK
    OBVIOUS
  <2>1. svc.app \in 0..MaxChanges /\ svc.file \in 0..MaxChanges
    <3>1. svc.app \in Nat /\ svc.file \in Nat /\ changes \in Nat /\ MaxChanges \in Nat
      BY LimitAssumption DEF PageInv, Typed, Services, LimitAssumption
    <3> QED  BY <3>1 DEF PageInv, Dated, Proper
  <2>2. \A s \in Slots : tcp[s].at \in {"idle", "knocking", "open", "gone", "closed"}
    BY DEF PageInv, Typed, Connections
  <2>3. conn = Nobody \/ \E s \in Slots : conn = <<s>> /\ tcp[s].at \in {"open", "gone"}
    BY DEF PageInv, Typed, Wired, Linked
  <2>4. got <= Limit /\ Len(queue) <= Backlog  BY DEF PageInv, Wired
  <2>5. \A p \in Pages : waiting[p] \subseteq pending[p] /\ pending[p] \subseteq Ids
    BY DEF PageInv, Typed, Asked, Waits
  <2> QED  BY <2>1, <2>2, <2>3, <2>4, <2>5 DEF TypeOK
<1> QED  BY <1>1, PageInvHolds, PTL

\* A page never has its poll and a toggle under way at the same time, however the answers
\* come in (CheatsApp.vue:15 and 36-41).
THEOREM PollsAwaitToggles == Spec => []NoPollDuringToggle
<1>1. PageInv => NoPollDuringToggle  BY DEF PageInv, Asked, Waits, NoPollDuringToggle
<1> QED  BY <1>1, PageInvHolds, PTL

-----------------------------------------------------------------------------
(* What a step may do to the service's flags. *)

\* only requests for the list and toggles reach the service
LEMMA ServiceSteps ==
  ASSUME [Next]_vars
  PROVE  \/ svc' = svc
         \/ \E s \in Slots : ServeList(s) \/ ServeStaleList(s) \/ Toggle(s) \/ ToggleFails(s)
<1>1. CASE Change \/ AcceptError
  BY <1>1 DEF Change, AcceptError
<1>2. CASE ServerWorks
  BY <1>2 DEF ServerWorks, Accept, Serve, Receive, Unreadable, Ended, ReceiveError, ServeFixed, RejectToggle
<1>3. CASE \/ \E s \in Slots : Network(s)
           \/ \E s \in OtherSlots : HangUp(s) \/ OtherOpens(s) \/ OtherLeaves(s)
  BY <1>3 DEF Network, Knock, Refused, Send, HangUp, OtherOpens, OtherLeaves
<1>4. CASE \E p \in Pages : Refresh(p) \/ Handlers(p) \/ \E i \in Ids : Click(p, i)
  BY <1>4 DEF Refresh, Handlers, Polled, Toggled, Click
<1>5. CASE UNCHANGED vars
  BY <1>5 DEF vars, httpVars
<1> QED  BY <1>1, <1>2, <1>3, <1>4, <1>5 DEF Next

\* a refresh switches nothing on
LEMMA RefreshOnlySwitchesOff ==
  ASSUME Typed, Dated, NEW s, s = Refreshed(svc) \/ s \in Unrefreshed(svc),
         NEW i \in DOMAIN s.on, s.on[i]
  PROVE  s.file = svc.file /\ svc.on[i]
<1>1. CASE s \in Unrefreshed(svc)  BY <1>1, UnrefreshedIs
<1>2. CASE s = Refreshed(svc)
  <2>1. CASE s = NoList  BY <2>1, NoListIs
  <2>2. CASE s = Listing(world)
    <3>1. s.on = [j \in world.ids |-> FALSE]  BY <2>2 DEF Listing
    <3>2. i \in world.ids /\ s.on[i] = FALSE  BY <3>1
    <3> QED  BY <3>2
  <2> QED  BY <1>2, <2>1, <2>2, RefreshedIs
<1> QED  BY <1>1, <1>2

LEMMA CompleteIsWhole ==
  ASSUME PageInv, NEW s \in Slots, conn = <<s>>, Complete(s)
  PROVE  tcp[s].sent = Whole(tcp[s].ask)
<1>1. /\ got >= Whole(tcp[s].ask) /\ got <= tcp[s].sent /\ tcp[s].sent <= Whole(tcp[s].ask)
      /\ got \in Nat /\ tcp[s].sent \in Nat /\ Whole(tcp[s].ask) \in Nat
  BY OpenedIs DEF PageInv, Typed, Wired, Complete, Connections
<1> QED  BY <1>1

LEMMA SwitchStep ==
  ASSUME PageInv, [Next]_vars, NEW i \in DOMAIN svc'.on, svc'.on[i],
         ~(svc.file = svc'.file /\ svc.on[i])
  PROVE  Authorised(i)
<1> USE DEF PageInv
<1>1. PICK s \in Slots : ServeList(s) \/ ServeStaleList(s) \/ Toggle(s) \/ ToggleFails(s)
  BY ServiceSteps
<1>2. svc' # Refreshed(svc) /\ svc' \notin Unrefreshed(svc)
  BY RefreshOnlySwitchesOff
<1>3. /\ Toggle(s) /\ tcp[s].ask.id \in DOMAIN Refreshed(svc).on
      /\ svc' = Switched(Refreshed(svc), tcp[s].ask)
  BY <1>1, <1>2 DEF ServeList, ServeStaleList, Toggle, ToggleFails
<1>4. Proper(Refreshed(svc)) /\ tcp[s].ask \in RequestForms
  BY RefreshedIs DEF Typed, Connections
<1>5. /\ DOMAIN svc'.on = DOMAIN Refreshed(svc).on /\ svc'.file = Refreshed(svc).file
      /\ svc'.on[i] = IF i = tcp[s].ask.id THEN tcp[s].ask.on ELSE Refreshed(svc).on[i]
  <2> DEFINE now == Refreshed(svc)  q == tcp[s].ask
  <2>1. /\ Typed /\ Proper(now) /\ q \in RequestForms /\ q.id \in DOMAIN now.on
        /\ svc' = Switched(now, q) /\ i \in DOMAIN svc'.on
    BY <1>3, <1>4
  <2> HIDE DEF now, q
  <2>2. /\ DOMAIN Switched(now, q).on = DOMAIN now.on /\ Switched(now, q).file = now.file
        /\ \A j \in DOMAIN now.on : Switched(now, q).on[j] = IF j = q.id THEN q.on ELSE now.on[j]
    BY <2>1, SwitchedIs
  <2>3. /\ DOMAIN svc'.on = DOMAIN now.on /\ svc'.file = now.file
        /\ svc'.on[i] = IF i = q.id THEN q.on ELSE now.on[i]
    BY <2>1, <2>2
  <2> QED  BY <2>3 DEF now, q
<1>6. i = tcp[s].ask.id /\ tcp[s].ask.on
  <2>1. CASE i # tcp[s].ask.id
    <3>1. i \in DOMAIN Refreshed(svc).on /\ Refreshed(svc).on[i]  BY <1>5, <2>1
    <3> QED  BY <1>5, <3>1, RefreshOnlySwitchesOff
  <2> QED  BY <1>5, <2>1
<1>7. /\ conn = <<s>> /\ Complete(s) /\ Route(tcp[s].ask) = "cheat_toggle"
      /\ tcp[s].ask.trusted /\ tcp[s].ask.valid
  BY <1>3 DEF Toggle, Acceptable
<1>8. tcp[s].sent = Whole(tcp[s].ask)  BY <1>7, CompleteIsWhole
<1> QED  BY <1>6, <1>7, <1>8 DEF Authorised

\* Whatever is sent to the server, by whom and in whatever pieces, a cheat goes on only by a
\* well-formed toggle for its id, from the page's own origin, read to its last byte
\* (http_server.cpp:151-208 and 328-341).
THEOREM TogglesAreAuthorised == Spec => OnlyWholeTogglesSwitch
<1>1. PageInv /\ [Next]_vars =>
        [\A i \in DOMAIN svc'.on :
           svc'.on[i] /\ ~(svc.file = svc'.file /\ svc.on[i]) => Authorised(i)]_vars
  BY SwitchStep
<1> QED  BY <1>1, PageInvHolds, PTL DEF Spec, OnlyWholeTogglesSwitch

-----------------------------------------------------------------------------
(* Lists and answers that have not been overtaken stay so, whatever the console *)
(* and the service do, as long as no call fails.                                *)

LEMMA StayOnChange ==
  ASSUME LimitAssumption, FileAssumption, PageInv, Change, NEW f, NEW i, NEW b
  PROVE  (Listed(f, i) => Listed(f, i)') /\ (Agrees(f, i, b) => Agrees(f, i, b)')
<1>1. /\ changes' = changes + 1 /\ svc' = svc /\ changes \in Nat
      /\ world'.file \in {0, changes + 1}
  <2>1. CASE QuitGame  BY <2>1 DEF PageInv, Typed, Change, QuitGame, NoWorld
  <2>2. CASE \E g \in Files : StartGame(g)
    BY <2>2 DEF PageInv, Typed, Change, StartGame
  <2>3. CASE \E g \in Files : EditFile(g)
    BY <2>3 DEF PageInv, Typed, Change, EditFile
  <2> QED  BY <2>1, <2>2, <2>3 DEF Change
<1>2. Latest(f) => Latest(f)'  BY <1>1 DEF Latest
<1> QED  BY <1>1, <1>2 DEF Listed, Agrees

LEMMA StayOnRefresh ==
  ASSUME PageInv, svc' = Refreshed(svc), UNCHANGED env, NEW f, NEW i, NEW b
  PROVE  (Listed(f, i) => Listed(f, i)') /\ (Agrees(f, i, b) => Agrees(f, i, b)')
<1>1. UNCHANGED <<world, changes>>  BY DEF env
<1>2. CASE svc' = svc  BY <1>1, <1>2 DEF Agrees, Listed, Latest
<1>3. CASE svc' = NoList /\ world.app = 0
  <2>1. svc'.file = 0 /\ world.file = 0  BY <1>3 DEF NoList, PageInv, Dated
  <2>2. Latest(f) => f # 0 /\ Latest(f)'
    BY <1>1, <2>1 DEF Latest, PageInv, Typed
  <2> QED  BY <2>1, <2>2 DEF Agrees, Listed
<1>4. CASE svc' = Listing(world) /\ ~Current(svc) /\ world.app # 0
  <2>1. svc'.file = world.file /\ world.file # 0  BY <1>4 DEF Listing, PageInv, Dated
  <2>2. svc.file # world.file  BY <1>4, <2>1 DEF Current, PageInv, Dated, Proper
  <2>3. Latest(f) => f # svc'.file /\ Latest(f)'
    BY <1>1, <2>1, <2>2 DEF Latest
  <2> QED  BY <2>3 DEF Agrees, Listed
<1> QED  BY <1>2, <1>3, <1>4, RefreshedIs DEF PageInv

LEMMA StayOnSwitch ==
  ASSUME PageInv, NEW q \in RequestForms, q.id \in DOMAIN Refreshed(svc).on,
         svc' = Switched(Refreshed(svc), q), UNCHANGED env, NEW f, NEW i, NEW b
  PROVE  /\ Listed(f, i) => Listed(f, i)'
         /\ i # q.id /\ Agrees(f, i, b) => Agrees(f, i, b)'
<1> DEFINE now == Refreshed(svc)
<1>1. /\ Proper(now)
      /\ \/ now = svc
         \/ now = NoList /\ world.app = 0
         \/ now = Listing(world) /\ ~Current(svc) /\ world.app # 0
  BY RefreshedIs DEF PageInv
<1>2. q.id \in DOMAIN now.on /\ svc' = Switched(now, q) /\ Typed  BY DEF PageInv
<1> HIDE DEF now
<1>3. /\ DOMAIN svc'.on = DOMAIN now.on /\ svc'.file = now.file
      /\ \A j \in DOMAIN now.on : svc'.on[j] = IF j = q.id THEN q.on ELSE now.on[j]
  BY <1>1, <1>2, SwitchedIs
<1>4. UNCHANGED <<world, changes>>  BY DEF env
<1>5. CASE now = svc
  <2>1. Latest(f) => Latest(f)'  BY <1>3, <1>4, <1>5 DEF Latest
  <2> QED  BY <1>3, <1>5, <2>1 DEF Agrees, Listed
<1>6. CASE now = NoList
  BY <1>2, <1>6, NoListIs
<1>7. CASE now = Listing(world) /\ ~Current(svc) /\ world.app # 0
  <2>1. now.file = world.file /\ world.file # 0  BY <1>7 DEF Listing, PageInv, Dated
  <2>2. svc.file # world.file  BY <1>7, <2>1 DEF Current, PageInv, Dated, Proper
  <2>3. Latest(f) => f # svc'.file /\ Latest(f)'
    BY <1>3, <1>4, <2>1, <2>2 DEF Latest
  <2> QED  BY <2>3 DEF Agrees, Listed
<1> QED  BY <1>1, <1>5, <1>6, <1>7

\* an answer that has just been made
LEMMA AnswerAgrees ==
  ASSUME PageInv', NEW ids \in SUBSET DOMAIN svc'.on, NEW i \in ids
  PROVE  LET a == Answer(200, svc', ids)
         IN /\ DOMAIN a.on = ids /\ a.on[i] = svc'.on[i] /\ a.file = svc'.file /\ a.status = 200
            /\ svc'.file \in 1..changes' /\ i \in DOMAIN svc'.on
<1> DEFINE on == [j \in ids |-> svc'.on[j]]
<1>1. Answer(200, svc', ids) = [status |-> 200, app |-> svc'.app, file |-> svc'.file, on |-> on]
  BY DEF Answer
<1>2. DOMAIN on = ids /\ on[i] = svc'.on[i]  OBVIOUS
<1>3. svc'.file \in Nat /\ changes' \in Nat /\ svc'.file <= changes' /\ svc'.file # 0
  BY DEF PageInv, Typed, Dated, Proper, Services
<1>4. svc'.file \in 1..changes'  BY <1>3
<1> HIDE DEF on
<1>5. /\ Answer(200, svc', ids).file = svc'.file /\ Answer(200, svc', ids).on = on
      /\ Answer(200, svc', ids).status = 200
  BY <1>1
<1> QED  BY <1>2, <1>4, <1>5

\* nothing that a page shows or is told about the cheat i changes
LEMMA FollowStays ==
  ASSUME NEW p, NEW i, Follow(p, i), shown' = shown,
         \A f, b : (Listed(f, i) => Listed(f, i)') /\ (Agrees(f, i, b) => Agrees(f, i, b)'),
         \A s \in {PollOf(p), PutOf(p, i)} :
           (Confirmed(s)' <=> Confirmed(s)) /\ (Confirmed(s) => tcp'[s].answer = tcp[s].answer)
  PROVE  Follow(p, i)'
BY DEF Follow

LEMMA QuietFollows ==
  ASSUME SlotAssumption, Follows, faults' = 0 => faults = 0 /\ running', shown' = shown,
         \A i, f, b : (Listed(f, i) => Listed(f, i)') /\ (Agrees(f, i, b) => Agrees(f, i, b)'),
         \A s \in PageSlots :
           (Confirmed(s)' <=> Confirmed(s)) /\ (Confirmed(s) => tcp'[s].answer = tcp[s].answer)
  PROVE  Follows'
<1> SUFFICES ASSUME faults' = 0 PROVE Follows'
  BY DEF Follows
<1>1. faults = 0 /\ running'  OBVIOUS
<1>2. ASSUME NEW p \in Pages, NEW i \in Own(p) PROVE Follow(p, i)'
  <2>1. Follow(p, i) /\ i \in Ids  BY <1>1 DEF Follows, Own
  <2>2. PollOf(p) \in PageSlots /\ PutOf(p, i) \in PageSlots  BY <2>1, SlotsAre
  <2> QED  BY <2>1, <2>2, FollowStays
<1>3. ASSUME NEW p \in Pages, NEW j \in Ids, Confirmed(PutOf(p, j))'
      PROVE  DOMAIN tcp'[PutOf(p, j)].answer.on = {j}
  <2>1. PutOf(p, j) \in PageSlots  BY SlotsAre
  <2> QED  BY <1>1, <1>3, <2>1 DEF Follows
<1> QED  BY <1>1, <1>2, <1>3 DEF Follows

\* a connection of a page that is served asks for the list, or toggles its cheat
LEMMA ServedAsks ==
  ASSUME SlotAssumption, PageInv, NEW s \in PageSlots, Linked(s)
  PROVE  \/ /\ Route(tcp[s].ask) = "cheats" /\ \E p \in Pages : s = PollOf(p)
         \/ /\ Route(tcp[s].ask) = "cheat_toggle"
            /\ \E p \in Pages, i \in Ids : s = PutOf(p, i) /\ tcp[s].ask.id = i
<1>1. PICK p \in Pages : s = PollOf(p) \/ \E i \in Ids : s = PutOf(p, i)  BY SlotsAre
<1>2. Route(Poll) = "cheats"
  <2>1. 1 \in Nat /\ TRUE \in BOOLEAN  OBVIOUS
  <2> QED  BY <2>1, PutIs
<1>3. CASE s = PollOf(p)  BY <1>2, <1>3 DEF PageInv, Asked, Waits
<1>4. ASSUME NEW i \in Ids, s = PutOf(p, i)
      PROVE  Route(tcp[s].ask) = "cheat_toggle" /\ tcp[s].ask.id = i
  <2>1. InFlight(PutOf(p, i))  BY <1>4 DEF Linked, InFlight
  <2>2. PICK on \in BOOLEAN : tcp[s].ask = Put(i, on)
    BY <1>4, <2>1 DEF PageInv, Asked, Waits
  <2>3. i \in Nat  BY DEF SlotAssumption
  <2> QED  BY <2>2, <2>3, PutIs
<1> QED  BY <1>1, <1>3, <1>4

\* a connection ends with an answer that confirms nothing to a page
LEMMA CloseFollows ==
  ASSUME SlotAssumption, PageInv, Follows, faults' = 0 => faults = 0, NEW s \in Slots,
         NEW a \in Answers, conn = <<s>>, Close(s, a), s \in PageSlots => a.status # 200,
         svc' = svc \/ svc' = Refreshed(svc), UNCHANGED page
  PROVE  Follows'
<1>1. UNCHANGED <<env, running, shown>>  BY DEF Close, page
<1>2. \A i, f, b : (Listed(f, i) => Listed(f, i)') /\ (Agrees(f, i, b) => Agrees(f, i, b)')
  <2>1. CASE svc' = svc  BY <1>1, <2>1 DEF Agrees, Listed, Latest, env
  <2>2. CASE svc' = Refreshed(svc)  BY <1>1, <2>2, StayOnRefresh
  <2> QED  BY <2>1, <2>2
<1>3. Linked(s)  BY DEF PageInv, Wired
<1>4. /\ \A t \in Slots \ {s} : tcp'[t] = tcp[t]
      /\ tcp[s].at # "gone" => tcp'[s].answer = a
  BY CloseIs DEF PageInv
<1>5. ASSUME NEW t \in PageSlots
      PROVE  (Confirmed(t)' <=> Confirmed(t)) /\ (Confirmed(t) => tcp'[t].answer = tcp[t].answer)
  <2>1. CASE t = s
    <3>1. tcp[s].at # "gone"  BY <2>1 DEF PageInv, Asked
    <3> QED  BY <1>3, <1>4, <2>1, <3>1 DEF Confirmed, Linked
  <2>2. CASE t # s
    <3>1. t \in Slots  BY SlotsAre
    <3> QED  BY <1>4, <2>2, <3>1 DEF Confirmed
  <2> QED  BY <2>1, <2>2
<1>6. faults' = 0 => faults = 0 /\ running'  BY <1>1 DEF Follows
<1> QED  BY <1>1, <1>2, <1>5, <1>6, QuietFollows

LEMMA NoFault ==
  ASSUME Typed, NEW f, Fault(f), faults' = 0
  PROVE  FALSE
BY FaultCounts

LEMMA StatusIs ==
  ASSUME NEW n \in Nat
  PROVE  Status(n) \in Answers /\ Status(n).status = n
<1>1. {} \in SUBSET DOMAIN NoList.on  OBVIOUS
<1>2. Status(n) \in Answers  BY <1>1, NoListIs, AnswerIs
<1> QED  BY <1>2 DEF Status, Answer

LEMMA ListFollows ==
  ASSUME SlotAssumption, LimitAssumption, PageInv, PageInv', Follows, faults' = 0,
         NEW s \in Slots, ServeList(s), UNCHANGED page
  PROVE  Follows'
<1>1. /\ conn = <<s>> /\ Route(tcp[s].ask) = "cheats" /\ svc' = Refreshed(svc)
      /\ Respond(s, ListAnswer(svc'))
  BY DEF ServeList
<1> DEFINE a == ListAnswer(svc')
<1>2. Close(s, a) /\ faults = 0
  BY <1>1, NoFault DEF Respond, Reply, ReplyLost, Works, PageInv
<1>3. a \in Answers /\ svc' \in Services
  <2>1. svc' \in Services  BY DEF PageInv, Typed
  <2>2. Status(500) \in Answers  BY StatusIs
  <2>3. Answer(200, svc', DOMAIN svc'.on) \in Answers  BY <2>1, AnswerIs
  <2> QED  BY <2>1, <2>2, <2>3 DEF ListAnswer
<1>4. CASE s \in PageSlots => a.status # 200
  BY <1>1, <1>2, <1>3, <1>4, CloseFollows
<1>5. CASE s \in PageSlots /\ a.status = 200
  <2>1. Linked(s) /\ tcp[s].at # "gone"  BY <1>1, <1>5 DEF PageInv, Wired, Asked
  <2>2. PICK q \in Pages : s = PollOf(q)  BY <1>1, <1>5, <2>1, ServedAsks
  <2>3. a = Answer(200, svc', DOMAIN svc'.on)
    <3>1. Status(500).status = 500  BY StatusIs
    <3> QED  BY <1>5, <3>1 DEF ListAnswer
  <2> HIDE DEF a
  <2>4. /\ \A t \in Slots \ {s} : tcp'[t] = tcp[t]
        /\ tcp'[s].at = "closed" /\ tcp'[s].answer = a /\ UNCHANGED <<env, running>>
    BY <1>2, <1>3, <2>1, CloseIs DEF PageInv
  <2>5. ASSUME NEW p \in Pages, NEW i \in Own(p) PROVE Follow(p, i)'
    <3>1. Pages = {p} /\ i \in Ids /\ s = PollOf(p)  BY <2>2 DEF Own
    <3>2. Follow(p, i)  BY <1>2 DEF Follows
    <3>3. \A f, b : (Listed(f, i) => Listed(f, i)') /\ (Agrees(f, i, b) => Agrees(f, i, b)')
      BY <1>1, <2>4, StayOnRefresh
    <3>4. tcp'[PutOf(p, i)] = tcp[PutOf(p, i)]
      <4>1. PutOf(p, i) # PollOf(p) /\ PutOf(p, i) \in Slots  BY <3>1, SlotsAre
      <4> QED  BY <2>4, <3>1, <4>1
    <3>5. shown' = shown  BY DEF page
    <3>6. ASSUME i \in DOMAIN tcp'[s].answer.on
          PROVE  Agrees(tcp[s].answer.file, i, tcp[s].answer.on[i])'
      <4>1. DOMAIN a.on = DOMAIN svc'.on
        BY <2>3 DEF Answer
      <4>2. /\ a.on[i] = svc'.on[i] /\ a.file = svc'.file
            /\ svc'.file \in 1..changes' /\ i \in DOMAIN svc'.on
        BY <2>3, <2>4, <3>6, <4>1, AnswerAgrees
      <4>3. /\ tcp'[s].answer.file = svc'.file
            /\ tcp'[s].answer.on[i] = svc'.on[i]
        BY <2>4, <4>2
      <4> QED  BY <4>2, <4>3 DEF Agrees, Listed, Latest
    <3> QED  BY <2>4, <3>1, <3>2, <3>3, <3>4, <3>5, <3>6 DEF Follow, Confirmed
  <2>6. ASSUME NEW p \in Pages, NEW j \in Ids, Confirmed(PutOf(p, j))'
        PROVE  DOMAIN tcp'[PutOf(p, j)].answer.on = {j}
    <3>1. PutOf(p, j) # s /\ PutOf(p, j) \in Slots  BY <2>2, SlotsAre
    <3>2. tcp'[PutOf(p, j)] = tcp[PutOf(p, j)]  BY <2>4, <3>1
    <3> QED  BY <1>2, <2>6, <3>2 DEF Follows, Confirmed
  <2> QED  BY <1>2, <2>4, <2>5, <2>6 DEF Follows
<1> QED  BY <1>4, <1>5

LEMMA ToggleFollows ==
  ASSUME SlotAssumption, LimitAssumption, PageInv, PageInv', Follows, faults' = 0,
         NEW s \in Slots, Toggle(s), UNCHANGED page
  PROVE  Follows'
<1> DEFINE now == Refreshed(svc)  q == tcp[s].ask
<1>1. /\ conn = <<s>> /\ Route(q) = "cheat_toggle" /\ Acceptable(q) /\ q \in RequestForms
      /\ Linked(s)
  BY DEF Toggle, PageInv, Typed, Connections, Wired
<1>2. Proper(now) /\ now \in Services  BY RefreshedIs DEF PageInv, Proper
<1>3. CASE q.id \notin DOMAIN now.on
  <2> DEFINE a == Refusal(now, q)
  <2>1. svc' = now /\ Respond(s, a)  BY <1>3 DEF Toggle
  <2>2. Close(s, a) /\ faults = 0  BY <2>1, NoFault DEF Respond, Reply, ReplyLost, Works, PageInv
  <2>3. a \in Answers /\ a.status # 200
    <3>1. \A n \in Nat : Status(n) \in Answers /\ Status(n).status = n  BY StatusIs
    <3> QED  BY <3>1 DEF Refusal
  <2> QED  BY <1>1, <2>1, <2>2, <2>3, CloseFollows
<1>4. CASE q.id \in DOMAIN now.on
  <2> DEFINE a == Answer(200, svc', {q.id})
  <2>1. svc' = Switched(now, q) /\ Respond(s, a)  BY <1>4 DEF Toggle
  <2>2. Close(s, a) /\ faults = 0  BY <2>1, NoFault DEF Respond, Reply, ReplyLost, Works, PageInv
  <2>3. DOMAIN svc'.on = DOMAIN now.on  BY <1>1, <1>2, <1>4, <2>1, SwitchedIs DEF PageInv
  <2>4. a \in Answers /\ DOMAIN a.on = {q.id}
    <3>1. svc' \in Services /\ {q.id} \in SUBSET DOMAIN svc'.on
      BY <1>4, <2>3 DEF PageInv, Typed
    <3> QED  BY <3>1, AnswerIs DEF Answer
  <2>5. /\ a.status = 200 /\ a.on[q.id] = svc'.on[q.id] /\ a.file = svc'.file
        /\ svc'.file \in 1..changes' /\ q.id \in DOMAIN svc'.on
    <3>1. PICK ids : ids = {q.id}  OBVIOUS
    <3>2. PICK k \in ids : k = q.id  BY <3>1
    <3>3. ids \in SUBSET DOMAIN svc'.on  BY <1>4, <2>3, <3>1
    <3>4. /\ Answer(200, svc', ids).on[k] = svc'.on[k] /\ Answer(200, svc', ids).file = svc'.file
          /\ Answer(200, svc', ids).status = 200
          /\ svc'.file \in 1..changes' /\ k \in DOMAIN svc'.on
      BY <3>2, <3>3, AnswerAgrees
    <3> QED  BY <3>1, <3>2, <3>4
  <2>6. \A f, i, b : /\ Listed(f, i) => Listed(f, i)'
                     /\ i # q.id /\ Agrees(f, i, b) => Agrees(f, i, b)'
    BY <1>1, <1>4, <2>1, <2>2, StayOnSwitch DEF Close
  <2> HIDE DEF a
  <2>7. /\ \A t \in Slots \ {s} : tcp'[t] = tcp[t]
        /\ tcp[s].at # "gone" => tcp'[s].at = "closed" /\ tcp'[s].answer = a
        /\ UNCHANGED <<env, running>>
    BY <2>2, <2>4, CloseIs DEF PageInv
  <2>8. \A p \in Pages : s # PollOf(p)
    <3>1. ASSUME NEW p \in Pages, s = PollOf(p) PROVE FALSE
      <4>1. s \in PageSlots  BY <3>1, SlotsAre
      <4>2. \A r \in Pages, i \in Ids : s # PutOf(r, i)  BY <3>1, SlotsAre
      <4>3. Route(tcp[s].ask) = "cheats"  BY <1>1, <4>1, <4>2, ServedAsks
      <4> QED  BY <1>1, <4>3
    <3> QED  BY <3>1
  <2>9. ASSUME NEW p \in Pages, NEW i \in Ids, s = PutOf(p, i)
        PROVE  /\ q.id = i /\ Confirmed(s)' /\ tcp'[s].answer = a
               /\ tcp[PollOf(p)].at = "idle"
    <3>1. s \in PageSlots  BY <2>9, SlotsAre
    <3>2. tcp[s].at # "gone"  BY <3>1 DEF PageInv, Asked
    <3>3. PICK r \in Pages, j \in Ids : s = PutOf(r, j) /\ q.id = j
      BY <1>1, <2>8, <3>1, ServedAsks
    <3>4. j = i
      <4>1. PutOf(p, i) = PutOf(r, j)  BY <2>9, <3>3
      <4> QED  BY <4>1, SlotsAre
    <3>5. tcp[PollOf(p)].at = "idle"
      BY <1>1, <2>9 DEF PageInv, Asked, Waits, InFlight, Linked
    <3> QED  BY <2>5, <2>7, <3>2, <3>3, <3>4, <3>5 DEF Confirmed
  <2>10. ASSUME NEW p \in Pages, NEW i \in Own(p) PROVE Follow(p, i)'
    <3>1. /\ Pages = {p} /\ i \in Ids
          /\ \A r \in Requests : r.id # i \/ ~r.trusted \/ ~r.valid
      BY DEF Own
    <3>2. Follow(p, i) /\ shown' = shown  BY <2>2 DEF Follows, page
    <3>3. PollOf(p) \in Slots /\ PutOf(p, i) \in Slots /\ PollOf(p) # PutOf(p, i)
      BY <3>1, SlotsAre
    <3>4. tcp'[PollOf(p)] = tcp[PollOf(p)]  BY <2>7, <2>8, <3>3
    <3>5. CASE s = PutOf(p, i)
      <4>1. q.id = i /\ Confirmed(s)' /\ tcp'[s].answer = a /\ ~Confirmed(PollOf(p))'
        BY <2>9, <3>1, <3>4, <3>5 DEF Confirmed
      <4>2. Agrees(tcp[s].answer.file, i, tcp[s].answer.on[i])'
        <5>1. /\ tcp'[s].answer.file = svc'.file /\ tcp'[s].answer.on[i] = svc'.on[i]
              /\ svc'.file \in 1..changes' /\ i \in DOMAIN svc'.on
          BY <2>5, <4>1
        <5> QED  BY <5>1 DEF Agrees, Listed, Latest
      <4>3. i \in DOMAIN shown[p].on => Listed(shown[p].on[i].file, i)'
        BY <2>6, <3>2 DEF Follow
      <4> QED  BY <3>2, <3>5, <4>1, <4>2, <4>3 DEF Follow
    <3>6. CASE s # PutOf(p, i)
      <4>1. q.id # i
        <5>1. CASE s \in PageSlots
          <6>1. PICK r \in Pages, j \in Ids : s = PutOf(r, j) /\ q.id = j
            BY <1>1, <2>8, <5>1, ServedAsks
          <6> QED  BY <3>1, <3>6, <6>1
        <5>2. CASE s \in OtherSlots
          <6>1. q \in Requests \cup {Poll}  BY <5>2 DEF PageInv, Asked
          <6>2. q # Poll
            <7>1. 1 \in Nat /\ TRUE \in BOOLEAN  OBVIOUS
            <7>2. Route(Poll) = "cheats"  BY <7>1, PutIs
            <7> QED  BY <1>1, <7>2
          <6> QED  BY <1>1, <3>1, <6>1, <6>2 DEF Acceptable
        <5> QED  BY <5>1, <5>2 DEF SlotAssumption
      <4>2. tcp'[PutOf(p, i)] = tcp[PutOf(p, i)]  BY <2>7, <3>3, <3>6
      <4>3. \A t \in {PollOf(p), PutOf(p, i)} :
              (Confirmed(t)' <=> Confirmed(t)) /\ (Confirmed(t) => tcp'[t].answer = tcp[t].answer)
        BY <3>4, <4>2 DEF Confirmed
      <4> QED  BY <2>6, <3>2, <4>1, <4>3, FollowStays
    <3> QED  BY <3>5, <3>6
  <2>11. ASSUME NEW p \in Pages, NEW j \in Ids, Confirmed(PutOf(p, j))'
         PROVE  DOMAIN tcp'[PutOf(p, j)].answer.on = {j}
    <3>1. CASE s = PutOf(p, j)  BY <2>4, <2>9, <3>1
    <3>2. CASE s # PutOf(p, j)
      <4>1. tcp'[PutOf(p, j)] = tcp[PutOf(p, j)]
        <5>1. PutOf(p, j) \in Slots  BY SlotsAre
        <5> QED  BY <2>7, <3>2, <5>1
      <4> QED  BY <2>2, <2>11, <4>1 DEF Follows, Confirmed
    <3> QED  BY <3>1, <3>2
  <2> QED  BY <2>2, <2>7, <2>10, <2>11 DEF Follows
<1> QED  BY <1>3, <1>4

LEMMA ServeFollows ==
  ASSUME SlotAssumption, LimitAssumption, PageInv, PageInv', Follows,
         NEW s \in Slots, Serve(s), UNCHANGED page
  PROVE  Follows'
<1> SUFFICES ASSUME faults' = 0 PROVE Follows'
  BY DEF Follows
<1>1. Typed /\ NoAnswer \in Answers /\ NoAnswer.status # 200
  BY StatusIs DEF PageInv, NoAnswer
<1>2. CASE Receive(s)
  <2>1. UNCHANGED <<env, svc, tcp, running, faults, shown>>  BY <1>2 DEF Receive, Works, page
  <2>2. \A i, f, b : (Listed(f, i) => Listed(f, i)') /\ (Agrees(f, i, b) => Agrees(f, i, b)')
    BY <2>1 DEF Agrees, Listed, Latest, env
  <2>3. \A t \in PageSlots :
          (Confirmed(t)' <=> Confirmed(t)) /\ (Confirmed(t) => tcp'[t].answer = tcp[t].answer)
    BY <2>1 DEF Confirmed
  <2>4. faults' = 0 => faults = 0 /\ running'  BY <2>1 DEF Follows
  <2> QED  BY <2>1, <2>2, <2>3, <2>4, QuietFollows
<1>3. CASE Unreadable(s) \/ Ended(s)
  <2>1. conn = <<s>> /\ Close(s, NoAnswer) /\ faults' = faults /\ svc' = svc
    BY <1>3 DEF Unreadable, Ended, Works
  <2> QED  BY <1>1, <2>1, CloseFollows
<1>4. CASE ServeFixed(s)
  <2> DEFINE n == Fixed[Route(tcp[s].ask)]
  <2>1. /\ conn = <<s>> /\ Route(tcp[s].ask) \in DOMAIN Fixed /\ svc' = svc
        /\ Respond(s, Status(n))
    BY <1>4 DEF ServeFixed
  <2>2. Close(s, Status(n)) /\ faults' = faults
    BY <1>1, <2>1, NoFault DEF Respond, Reply, ReplyLost, Works
  <2>3. n \in Nat  BY <2>1 DEF Fixed
  <2>4. Status(n) \in Answers  BY <2>3, StatusIs
  <2>5. s \notin PageSlots
    <3>1. Linked(s)  BY <2>1 DEF PageInv, Wired
    <3> QED  BY <2>1, <3>1, ServedAsks DEF Fixed
  <2> QED  BY <2>1, <2>2, <2>4, <2>5, CloseFollows
<1>5. CASE RejectToggle(s)
  <2> DEFINE n == IF tcp[s].ask.trusted THEN 400 ELSE 403
  <2>1. conn = <<s>> /\ svc' = svc /\ Respond(s, Status(n))  BY <1>5 DEF RejectToggle
  <2>2. Close(s, Status(n)) /\ faults' = faults
    BY <1>1, <2>1, NoFault DEF Respond, Reply, ReplyLost, Works
  <2>3. n \in Nat /\ n # 200  OBVIOUS
  <2>4. Status(n) \in Answers /\ Status(n).status # 200  BY <2>3, StatusIs
  <2> QED  BY <2>1, <2>2, <2>4, CloseFollows
<1>6. CASE ReceiveError(s) \/ ServeStaleList(s) \/ ToggleFails(s)
  BY <1>1, <1>6, NoFault DEF ReceiveError, ServeStaleList, ToggleFails
<1>7. CASE ServeList(s)  BY <1>7, ListFollows
<1>8. CASE Toggle(s)  BY <1>8, ToggleFollows
<1> QED  BY <1>2, <1>3, <1>4, <1>5, <1>6, <1>7, <1>8 DEF Serve

LEMMA PolledFollows ==
  ASSUME SlotAssumption, PageInv, Follows, NEW p \in Pages, Polled(p)
  PROVE  Follows'
<1> DEFINE a == tcp[PollOf(p)].answer
<1>1. /\ tcp[PollOf(p)].at = "closed" /\ UNCHANGED <<env, svc, server, faults>>
      /\ shown' = [shown EXCEPT ![p] = IF a.status = 200 THEN Shown(a) ELSE Offline]
  BY DEF Polled
<1> SUFFICES ASSUME faults = 0 PROVE Follows'
  BY <1>1 DEF Follows
<1>2. \A i, f, b : Agrees(f, i, b) => Agrees(f, i, b)' /\ Listed(f, i)'
  BY <1>1 DEF Agrees, Listed, Latest, env
<1>3. PollOf(p) \in Slots /\ a \in Answers
  <2>1. PollOf(p) \in Slots  BY SlotsAre
  <2> QED  BY <2>1 DEF PageInv, Typed, Connections
<1>4. ~Confirmed(PollOf(p))'  BY PolledIs DEF Confirmed, Closed
<1>5. ASSUME NEW j \in Ids PROVE ~Confirmed(PutOf(p, j))'
  <2>1. CASE j \in waiting[p]
    <3>1. want[p][j] \in BOOLEAN /\ j \in Nat  BY DEF PageInv, Typed, SlotAssumption
    <3>2. Put(j, want[p][j]) \in RequestForms  BY <3>1, PutIs
    <3>3. tcp'[PutOf(p, j)].at = "knocking"  BY <2>1, <3>2, PolledIs, OpenedIs
    <3> QED  BY <3>3 DEF Confirmed
  <2>2. CASE j \notin waiting[p]
    <3>1. ~InFlight(PutOf(p, j))  BY <1>1 DEF PageInv, Asked, Waits, InFlight
    <3>2. /\ PutOf(p, j) \in Slots /\ PutOf(p, j) # PollOf(p)
          /\ \A i \in waiting[p] : PutOf(p, j) # PutOf(p, i)
      BY <2>2, SlotsAre DEF PageInv, Typed
    <3>3. tcp'[PutOf(p, j)] = tcp[PutOf(p, j)]  BY <3>2, PolledIs
    <3> QED  BY <3>1, <3>3 DEF Confirmed, InFlight
  <2> QED  BY <2>1, <2>2
<1>6. ASSUME NEW q \in Pages, NEW i \in Own(q) PROVE Follow(q, i)'
  <2>1. q = p /\ i \in Ids /\ Follow(p, i)  BY DEF Own, Follows
  <2>2. CASE a.status = 200
    <3>1. shown'[p] = Shown(a)  BY <1>1, <2>2 DEF PageInv, Typed
    <3>2. ASSUME i \in DOMAIN shown'[p].on
          PROVE  Listed(shown[p].on[i].file, i)' /\ Agrees(shown[p].on[i].file, i, shown[p].on[i].flag)'
      <4>1. i \in DOMAIN a.on /\ shown'[p].on[i].file = a.file /\ shown'[p].on[i].flag = a.on[i]
        <5>1. PICK r \in Answers : r = a  BY <1>3
        <5>2. /\ DOMAIN Shown(r).on = DOMAIN r.on
              /\ \A k \in DOMAIN r.on : Shown(r).on[k] = [file |-> r.file, flag |-> r.on[k]]
          BY <5>1, ShownIs
        <5>3. shown'[p] = Shown(r)  BY <3>1, <5>1
        <5>4. i \in DOMAIN r.on  BY <3>2, <5>2, <5>3
        <5>5. shown'[p].on[i] = [file |-> r.file, flag |-> r.on[i]]  BY <5>2, <5>3, <5>4
        <5> QED  BY <5>1, <5>4, <5>5
      <4>2. Agrees(a.file, i, a.on[i])
        BY <1>1, <2>1, <2>2, <4>1 DEF Follow, Confirmed
      <4>3. PICK f, b : f = a.file /\ b = a.on[i]  OBVIOUS
      <4>4. Agrees(f, i, b)' /\ Listed(f, i)'  BY <1>2, <4>2, <4>3
      <4>5. shown'[p].on[i].file = f /\ shown'[p].on[i].flag = b  BY <4>1, <4>3
      <4> QED  BY <4>4, <4>5 DEF Agrees, Listed, Latest
    <3> QED  BY <1>4, <1>5, <2>1, <3>2 DEF Follow
  <2>3. CASE a.status # 200
    <3>1. shown'[p] = Offline  BY <1>1, <2>3 DEF PageInv, Typed
    <3>2. i \notin DOMAIN shown'[p].on  BY <1>3, <3>1, ShownIs
    <3> QED  BY <1>4, <1>5, <2>1, <3>2 DEF Follow
  <2> QED  BY <2>2, <2>3
<1>7. ASSUME NEW q \in Pages, NEW j \in Ids, Confirmed(PutOf(q, j))'
      PROVE  DOMAIN tcp'[PutOf(q, j)].answer.on = {j}
  <2>1. q # p  BY <1>5, <1>7
  <2>2. /\ PutOf(q, j) \in Slots /\ PutOf(q, j) # PollOf(p)
        /\ \A i \in waiting[p] : PutOf(q, j) # PutOf(p, i)
    BY <2>1, SlotsAre DEF PageInv, Typed
  <2>3. tcp'[PutOf(q, j)] = tcp[PutOf(q, j)]  BY <2>2, PolledIs
  <2>4. Confirmed(PutOf(q, j))  BY <1>7, <2>3 DEF Confirmed
  <2> QED  BY <2>3, <2>4 DEF Follows
<1> QED  BY <1>1, <1>6, <1>7 DEF Follows, server

LEMMA ToggledFollows ==
  ASSUME SlotAssumption, PageInv, Follows, NEW p \in Pages, NEW j \in Ids, Toggled(p, j)
  PROVE  Follows'
<1> DEFINE a == tcp[PutOf(p, j)].answer
<1>1. /\ tcp[PutOf(p, j)].at = "closed" /\ UNCHANGED <<env, svc, server, faults>>
      /\ shown' = IF a.status = 200 THEN [shown EXCEPT ![p] = Merged(shown[p], a)] ELSE shown
      /\ tcp' = [tcp EXCEPT ![PutOf(p, j)] = Closed]
  BY DEF Toggled
<1> SUFFICES ASSUME faults = 0 PROVE Follows'
  BY <1>1 DEF Follows
<1>2. \A i, f, b : (Listed(f, i) => Listed(f, i)') /\ (Agrees(f, i, b) => Agrees(f, i, b)')
  BY <1>1 DEF Agrees, Listed, Latest, env
<1>3. PutOf(p, j) \in Slots /\ a \in Answers /\ shown[p] \in Views
  <2>1. PutOf(p, j) \in Slots  BY SlotsAre
  <2> QED  BY <2>1 DEF PageInv, Typed, Connections
<1>4. ~Confirmed(PutOf(p, j))' /\ \A t \in Slots \ {PutOf(p, j)} : tcp'[t] = tcp[t]
  BY <1>1, <1>3 DEF Confirmed, Closed, PageInv, Typed
<1>5. ASSUME NEW q \in Pages, NEW i \in Own(q) PROVE Follow(q, i)'
  <2>1. q = p /\ i \in Ids /\ Follow(p, i)  BY DEF Own, Follows
  <2>2. PollOf(p) \in Slots /\ PutOf(p, i) \in Slots /\ PollOf(p) # PutOf(p, j)
        /\ (i # j => PutOf(p, i) # PutOf(p, j))
    BY <2>1, SlotsAre
  <2>3. /\ tcp'[PollOf(p)] = tcp[PollOf(p)]
        /\ i # j => tcp'[PutOf(p, i)] = tcp[PutOf(p, i)]
    BY <1>4, <2>2
  <2>4. ASSUME i \in DOMAIN shown'[p].on
        PROVE  /\ Listed(shown[p].on[i].file, i)'
               /\ ~Confirmed(PutOf(p, i))' =>
                    Agrees(shown[p].on[i].file, i, shown[p].on[i].flag)'
    <3>1. CASE a.status = 200 /\ i = j
      <4>1. i \in DOMAIN a.on  BY <1>1, <3>1 DEF Follows, Confirmed
      <4>2. shown'[p] = Merged(shown[p], a)  BY <1>1, <3>1 DEF PageInv, Typed
      <4>3. shown'[p].on[i].file = a.file /\ shown'[p].on[i].flag = a.on[i]
        <5>1. PICK r \in Answers, l \in Views : r = a /\ l = shown[p]  BY <1>3
        <5>2. DOMAIN Merged(l, r).on = DOMAIN l.on  BY <5>1, MergedIs
        <5>3. shown'[p] = Merged(l, r) /\ i \in DOMAIN l.on /\ i \in DOMAIN r.on
          BY <2>4, <4>1, <4>2, <5>1, <5>2
        <5>4. Merged(l, r).on[i].file = r.file /\ Merged(l, r).on[i].flag = r.on[i]
          BY <5>1, <5>3, MergedIs
        <5> QED  BY <5>1, <5>3, <5>4
      <4>4. Agrees(a.file, i, a.on[i])
        BY <1>1, <2>1, <3>1, <4>1 DEF Follow, Confirmed
      <4>5. PICK f, b : f = a.file /\ b = a.on[i]  OBVIOUS
      <4>6. Agrees(f, i, b)'  BY <1>2, <4>4, <4>5
      <4>7. shown'[p].on[i].file = f /\ shown'[p].on[i].flag = b  BY <4>3, <4>5
      <4> QED  BY <4>6, <4>7 DEF Agrees, Listed, Latest
    <3>2. CASE a.status # 200 \/ i # j
      <4>1. i \in DOMAIN shown[p].on /\ shown'[p].on[i] = shown[p].on[i]
        <5>1. CASE a.status # 200  BY <1>1, <2>4, <5>1
        <5>2. CASE a.status = 200
          <6>1. DOMAIN a.on = {j} /\ i # j
            BY <1>1, <3>2, <5>2 DEF Follows, Confirmed
          <6>2. shown'[p] = Merged(shown[p], a)  BY <1>1, <5>2 DEF PageInv, Typed
          <6>3. PICK r \in Answers, l \in Views : r = a /\ l = shown[p]  BY <1>3
          <6>4. DOMAIN Merged(l, r).on = DOMAIN l.on  BY <6>3, MergedIs
          <6>5. shown'[p] = Merged(l, r) /\ i \in DOMAIN l.on /\ i \notin DOMAIN r.on
            BY <2>4, <6>1, <6>2, <6>3, <6>4
          <6>6. Merged(l, r).on[i] = l.on[i]  BY <6>3, <6>5, MergedIs
          <6> QED  BY <6>3, <6>5, <6>6
        <5> QED  BY <5>1, <5>2
      <4>2. ~Confirmed(PutOf(p, i))' => ~Confirmed(PutOf(p, i))
        BY <1>1, <2>3, <3>2 DEF Confirmed
      <4>3. PICK f, b : f = shown[p].on[i].file /\ b = shown[p].on[i].flag  OBVIOUS
      <4>4. Listed(f, i)' /\ (~Confirmed(PutOf(p, i))' => Agrees(f, i, b)')
        BY <1>2, <2>1, <4>1, <4>2, <4>3 DEF Follow
      <4>5. shown'[p].on[i].file = f /\ shown'[p].on[i].flag = b  BY <4>1, <4>3
      <4> QED  BY <4>4, <4>5 DEF Agrees, Listed, Latest
    <3> QED  BY <3>1, <3>2
  <2>5. ASSUME NEW s \in {PollOf(p), PutOf(p, i)}, Confirmed(s)', i \in DOMAIN tcp'[s].answer.on
        PROVE  Agrees(tcp[s].answer.file, i, tcp[s].answer.on[i])'
    <3>1. tcp'[s] = tcp[s]  BY <1>4, <2>3, <2>5
    <3>2. Agrees(tcp[s].answer.file, i, tcp[s].answer.on[i])
      BY <2>1, <2>5, <3>1 DEF Follow, Confirmed
    <3> QED  BY <1>1, <3>1, <3>2 DEF Agrees, Listed, Latest, env
  <2> QED  BY <2>1, <2>4, <2>5 DEF Follow
<1>6. ASSUME NEW q \in Pages, NEW i \in Ids, Confirmed(PutOf(q, i))'
      PROVE  DOMAIN tcp'[PutOf(q, i)].answer.on = {i}
  <2>1. PutOf(q, i) \in Slots \ {PutOf(p, j)}  BY <1>4, <1>6, SlotsAre
  <2>2. tcp'[PutOf(q, i)] = tcp[PutOf(q, i)]  BY <1>4, <2>1
  <2> QED  BY <1>6, <2>2 DEF Follows, Confirmed
<1> QED  BY <1>1, <1>5, <1>6 DEF Follows, server

LEMMA FollowsNext ==
  ASSUME SlotAssumption, RequestAssumption, LimitAssumption, FileAssumption, FollowInv, PageInv',
         [Next]_vars
  PROVE  Follows'
<1>1. PageInv /\ Follows /\ Typed  BY DEF FollowInv, PageInv
<1> SUFFICES ASSUME faults' = 0 PROVE Follows'
  BY DEF Follows
<1>2. (\E f : Fault(f)) => FALSE  BY <1>1, NoFault
\* the service, the console and the lists stay, and no answer comes in
<1>3. ASSUME UNCHANGED <<env, svc, running, faults, shown>>,
             \A s \in PageSlots : (Confirmed(s)' <=> Confirmed(s)) /\
                                  (Confirmed(s) => tcp'[s].answer = tcp[s].answer)
      PROVE  Follows'
  <2>1. \A i, f, b : (Listed(f, i) => Listed(f, i)') /\ (Agrees(f, i, b) => Agrees(f, i, b)')
    BY <1>3 DEF Agrees, Listed, Latest, env
  <2>2. faults' = 0 => faults = 0 /\ running'  BY <1>1, <1>3 DEF Follows
  <2> QED  BY <1>1, <1>3, <2>1, <2>2, QuietFollows
\* one connection is changed, and is not confirmed, neither before nor after
<1>4. ASSUME UNCHANGED <<env, svc, running, faults, shown>>, NEW s \in Slots, NEW c,
             tcp' = [tcp EXCEPT ![s] = c],
             s \in PageSlots => ~Confirmed(s) /\ c.at # "closed"
      PROVE  Follows'
  <2>1. tcp'[s] = c /\ \A t \in Slots \ {s} : tcp'[t] = tcp[t]
    BY <1>1, <1>4 DEF Typed
  <2>2. PageSlots \subseteq Slots  BY SlotsAre
  <2>3. ASSUME NEW t \in PageSlots
        PROVE  (Confirmed(t)' <=> Confirmed(t)) /\ (Confirmed(t) => tcp'[t].answer = tcp[t].answer)
    BY <1>4, <2>1, <2>2 DEF Confirmed
  <2> QED  BY <1>3, <1>4, <2>3
<1>5. CASE (Change \/ AcceptError) /\ UNCHANGED page
  <2>1. Change /\ UNCHANGED <<svc, tcp, running, faults, shown>>
    BY <1>2, <1>5 DEF AcceptError, Change, server, page
  <2>2. \A i, f, b : (Listed(f, i) => Listed(f, i)') /\ (Agrees(f, i, b) => Agrees(f, i, b)')
    BY <1>1, <2>1, StayOnChange
  <2>3. \A t \in PageSlots :
          (Confirmed(t)' <=> Confirmed(t)) /\ (Confirmed(t) => tcp'[t].answer = tcp[t].answer)
    BY <2>1 DEF Confirmed
  <2>4. faults' = 0 => faults = 0 /\ running'  BY <1>1, <2>1 DEF Follows
  <2> QED  BY <1>1, <2>1, <2>2, <2>3, <2>4, QuietFollows
<1>6. CASE ServerWorks
  <2>1. CASE Accept
    <3>1. UNCHANGED <<env, svc, running, faults, shown, tcp>>
      BY <1>6, <2>1 DEF ServerWorks, Accept, Works, page
    <3> QED  BY <1>3, <3>1 DEF Confirmed
  <2>2. CASE \E s \in Slots : Serve(s)
    BY <1>1, <1>6, <2>2, ServeFollows DEF ServerWorks
  <2> QED  BY <1>6, <2>1, <2>2 DEF ServerWorks
<1>7. ASSUME NEW s \in Slots, Network(s) PROVE Follows'
  <2>1. UNCHANGED <<env, svc, shown, faults>>
    BY <1>7 DEF Network, Knock, Refused, Send, Works, page
  <2>2. faults = 0 /\ running  BY <1>1, <2>1 DEF Follows
  <2>3. tcp[s] \in Connections  BY <1>1 DEF Typed
  <2>4. CASE Knock(s)
    <3>1. /\ tcp[s].at = "knocking" /\ running' = running
          /\ tcp' = [tcp EXCEPT ![s] = [tcp[s] EXCEPT !.at = "open"]]
      BY <2>4 DEF Knock
    <3>2. [tcp[s] EXCEPT !.at = "open"].at = "open"  BY <2>3 DEF Connections
    <3> QED  BY <1>4, <2>1, <3>1, <3>2 DEF Confirmed
  <2>5. CASE Send(s)
    <3>1. /\ tcp[s].at = "open" /\ running' = running
          /\ tcp' = [tcp EXCEPT ![s] = [tcp[s] EXCEPT !.sent = tcp[s].sent + 1]]
      BY <2>5 DEF Send, server
    <3>2. [tcp[s] EXCEPT !.sent = tcp[s].sent + 1].at = "open"  BY <2>3, <3>1 DEF Connections
    <3> QED  BY <1>4, <2>1, <3>1, <3>2 DEF Confirmed
  <2> QED  BY <1>7, <2>2, <2>4, <2>5 DEF Network, Refused
<1>8. ASSUME NEW s \in OtherSlots, \/ HangUp(s) /\ UNCHANGED page
                                   \/ OtherOpens(s) \/ OtherLeaves(s)
      PROVE  Follows'
  <2>1. s \in Slots /\ s \notin PageSlots  BY SlotsAre
  <2>2. UNCHANGED <<env, svc, running, faults, shown>>
    BY <1>8 DEF HangUp, OtherOpens, OtherLeaves, Works, page, server
  <2>3. \E c : tcp' = [tcp EXCEPT ![s] = c]
    BY <1>8 DEF HangUp, OtherOpens, OtherLeaves
  <2> QED  BY <1>4, <2>1, <2>2, <2>3
<1>9. ASSUME NEW p \in Pages, Refresh(p) PROVE Follows'
  <2>1. /\ ~active[p] /\ tcp' = [tcp EXCEPT ![PollOf(p)] = Opened(Poll)]
        /\ UNCHANGED <<env, svc, running, faults, shown>>
    BY <1>9 DEF Refresh, server
  <2>2. PollOf(p) \in Slots /\ ~Confirmed(PollOf(p))
    BY <1>1, <2>1, SlotsAre DEF PageInv, Asked, Waits, InFlight, Confirmed
  <2>3. Opened(Poll).at # "closed"
    <3>1. Poll \in RequestForms  BY DEF Poll, Get, RequestForms
    <3> QED  BY <3>1, OpenedIs
  <2> QED  BY <1>4, <2>1, <2>2, <2>3
<1>10. ASSUME NEW p \in Pages, Handlers(p) PROVE Follows'
  BY <1>1, <1>10, PolledFollows, ToggledFollows DEF Handlers
<1>11. ASSUME NEW p \in Pages, NEW i \in Ids, Click(p, i) PROVE Follows'
  <2>1. /\ i \in DOMAIN shown[p].on /\ i \notin pending[p]
        /\ want' = [want EXCEPT ![p][i] = ~shown[p].on[i].flag]
        /\ UNCHANGED <<env, svc, running, faults, shown>>
        /\ tcp' = tcp \/ tcp' = [tcp EXCEPT ![PutOf(p, i)] = Opened(Put(i, want'[p][i]))]
    BY <1>11 DEF Click, server
  <2>2. PutOf(p, i) \in Slots /\ ~Confirmed(PutOf(p, i))
    BY <1>1, <2>1, SlotsAre DEF PageInv, Asked, Waits, InFlight, Confirmed
  <2>3. Opened(Put(i, want'[p][i])).at # "closed"
    <3>1. want'[p][i] \in BOOLEAN /\ i \in Nat  BY DEF PageInv, Typed, SlotAssumption
    <3>2. Put(i, want'[p][i]) \in RequestForms  BY <3>1, PutIs
    <3> QED  BY <3>2, OpenedIs
  <2>4. CASE tcp' = tcp  BY <1>3, <2>1, <2>4 DEF Confirmed
  <2>5. CASE tcp' = [tcp EXCEPT ![PutOf(p, i)] = Opened(Put(i, want'[p][i]))]
    BY <1>4, <2>1, <2>2, <2>3, <2>5
  <2> QED  BY <2>1, <2>4, <2>5
<1>12. CASE UNCHANGED vars
  BY <1>3, <1>12 DEF vars, httpVars, page, env, Confirmed
<1> QED  BY <1>5, <1>6, <1>7, <1>8, <1>9, <1>10, <1>11, <1>12 DEF Next

LEMMA InitFollows ==
  ASSUME SlotAssumption, Init
  PROVE  Follows
<1>1. /\ running = TRUE /\ tcp = [s \in Slots |-> Closed] /\ shown = [p \in Pages |-> Offline]
  BY DEF Init, HttpInit
<1>2. \A s \in PageSlots : ~Confirmed(s)
  BY <1>1, SlotsAre DEF Confirmed, Closed
<1>3. \A p \in Pages : DOMAIN shown[p].on = {}
  BY <1>1, EmptyList DEF Offline
<1>4. \A p \in Pages : PollOf(p) \in PageSlots /\ \A i \in Ids : PutOf(p, i) \in PageSlots
  BY SlotsAre
<1>5. ASSUME NEW p \in Pages, NEW i \in Own(p) PROVE Follow(p, i)
  <2>1. i \in Ids  BY DEF Own
  <2> QED  BY <1>2, <1>3, <1>4, <2>1 DEF Follow
<1> QED  BY <1>1, <1>2, <1>4, <1>5 DEF Follows

THEOREM FollowInvHolds == Spec => []FollowInv
<1>1. PageInv /\ Init => FollowInv  BY InitFollows, SlotAssumption DEF FollowInv
<1>2. FollowInv /\ PageInv' /\ [Next]_vars => FollowInv'
  BY FollowsNext, SlotAssumption, RequestAssumption, LimitAssumption, FileAssumption DEF FollowInv
<1> QED  BY <1>1, <1>2, PageInvHolds, PTL DEF Spec

\* A switch whose toggle is not under way says what the service has, for a cheat of the file
\* the service lists that no other client can toggle, as long as no call has failed
\* (CheatsApp.vue:19 and 42-44).
THEOREM SwitchesAreTrue == Spec => []SwitchesAgree
<1>1. FollowInv => SwitchesAgree
  <2> SUFFICES ASSUME FollowInv, faults = 0, NEW p \in Pages,
                      NEW i \in Own(p) \cap DOMAIN shown[p].on,
                      shown[p].on[i].file = svc.file, ~InFlight(PutOf(p, i))
               PROVE  i \in DOMAIN svc.on /\ shown[p].on[i].flag = svc.on[i]
    BY DEF SwitchesAgree
  <2>1. Follow(p, i)  BY DEF FollowInv, Follows
  <2>2. ~Confirmed(PutOf(p, i))  BY DEF Confirmed, InFlight
  <2> QED  BY <2>1, <2>2 DEF Follow, Agrees, Listed
<1> QED  BY <1>1, FollowInvHolds, PTL
=============================================================================
