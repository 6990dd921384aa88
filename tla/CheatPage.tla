------------------------------- MODULE CheatPage -------------------------------
(* The page (frontend/src/CheatsApp.vue) in one or more browsers, with the server *)
(* and with other clients: the three-second poll, toggles that wait for it, and   *)
(* the merging of answers into the list that is shown.                            *)
EXTENDS HttpServer

CONSTANTS
  Pages,      \* open pages
  Others,     \* clients that are not the page
  Requests,   \* what they ask
  Ids,        \* ids of the cheats the pages may toggle
  MaxClicks   \* bound on clicks, over all pages

PollOf(p) == <<p, 0>>
PutOf(p, i) == <<p, i>>
PageSlots == Pages \X (Ids \cup {0})
OtherSlots == Others \X {0}
ASSUME SlotAssumption ==
  /\ Slots = PageSlots \cup OtherSlots /\ Ids \subseteq Nat \ {0} /\ MaxClicks \in Nat
  /\ Pages \cap Others = {}
ASSUME RequestAssumption == Requests \subseteq RequestForms

VARIABLES
  shown,     \* state: connected, and for each cheat its flag and the file it is of
  active,    \* activeRefresh is not null
  pending,   \* pendingIds
  waiting,   \* toggles that await activeRefresh
  want,      \* what each pending toggle will ask for
  clicks     \* clicks so far

page == <<shown, active, pending, waiting, want, clicks>>
vars == <<httpVars, page>>

Offline == [up |-> FALSE, on |-> <<>>]
\* the list of an answer, each cheat with the file it comes from
Shown(a) == [up |-> TRUE, on |-> [i \in DOMAIN a.on |-> [file |-> a.file, flag |-> a.on[i]]]]
Merged(l, a) ==
  [l EXCEPT !.on = [i \in DOMAIN l.on |->
     IF i \in DOMAIN a.on THEN [file |-> a.file, flag |-> a.on[i]] ELSE l.on[i]]]

-----------------------------------------------------------------------------
(* Handlers of the page. Each runs to its next await without interruption.  *)

\* the requests for the toggles in `ids` of the page p go out
Issue(t, p, ids) ==
  [s \in Slots |-> IF \E i \in ids : s = PutOf(p, i) THEN Opened(Put(s[2], want[p][s[2]]))
                   ELSE t[s]]

\* mutant: the poll does not look at pendingIds
RefreshAnyway(p) ==
  /\ ~active[p] /\ active' = [active EXCEPT ![p] = TRUE]
  /\ tcp' = [tcp EXCEPT ![PollOf(p)] = Opened(Poll)]
  /\ UNCHANGED <<env, svc, server, faults, shown, pending, waiting, want, clicks>>
\* refresh(), from the timer, the button or when the page opens
Refresh(p) ==
  /\ ~active[p] /\ pending[p] = {}
  /\ active' = [active EXCEPT ![p] = TRUE]
  /\ tcp' = [tcp EXCEPT ![PollOf(p)] = Opened(Poll)]
  /\ UNCHANGED <<env, svc, server, faults, shown, pending, waiting, want, clicks>>
\* mutant: the list stays when the request failed
PolledKeeps(p) ==
  /\ tcp[PollOf(p)].at = "closed"
  /\ LET a == tcp[PollOf(p)].answer
     IN shown' = [shown EXCEPT ![p] = IF a.status = 200 THEN Shown(a) ELSE @]
  /\ active' = [active EXCEPT ![p] = FALSE] /\ waiting' = [waiting EXCEPT ![p] = {}]
  /\ tcp' = Issue([tcp EXCEPT ![PollOf(p)] = Closed], p, waiting[p])
  /\ UNCHANGED <<env, svc, server, faults, pending, want, clicks>>
\* the answer of the poll; then the toggles that awaited it send their requests
Polled(p) ==
  /\ tcp[PollOf(p)].at = "closed"
  /\ LET a == tcp[PollOf(p)].answer
     IN shown' = [shown EXCEPT ![p] = IF a.status = 200 THEN Shown(a) ELSE Offline]
  /\ active' = [active EXCEPT ![p] = FALSE] /\ waiting' = [waiting EXCEPT ![p] = {}]
  /\ tcp' = Issue([tcp EXCEPT ![PollOf(p)] = Closed], p, waiting[p])
  /\ UNCHANGED <<env, svc, server, faults, pending, want, clicks>>

\* mutant: the toggle does not await activeRefresh
ClickAtOnce(p, i) ==
  /\ clicks < MaxClicks /\ clicks' = clicks + 1
  /\ i \in DOMAIN shown[p].on /\ i \notin pending[p]
  /\ pending' = [pending EXCEPT ![p] = @ \cup {i}]
  /\ want' = [want EXCEPT ![p][i] = ~shown[p].on[i].flag]
  /\ tcp' = [tcp EXCEPT ![PutOf(p, i)] = Opened(Put(i, want'[p][i]))]
  /\ UNCHANGED <<env, svc, server, faults, shown, active, waiting>>
\* toggleCheat(cheat) up to its first await: what to ask for is fixed by the cheat clicked
Click(p, i) ==
  /\ clicks < MaxClicks /\ clicks' = clicks + 1
  /\ i \in DOMAIN shown[p].on /\ i \notin pending[p]
  /\ pending' = [pending EXCEPT ![p] = @ \cup {i}]
  /\ want' = [want EXCEPT ![p][i] = ~shown[p].on[i].flag]
  /\ IF active[p] THEN waiting' = [waiting EXCEPT ![p] = @ \cup {i}] /\ UNCHANGED tcp
     ELSE tcp' = [tcp EXCEPT ![PutOf(p, i)] = Opened(Put(i, want'[p][i]))] /\ UNCHANGED waiting
  /\ UNCHANGED <<env, svc, server, faults, shown, active>>
\* mutant: pendingIds is cleared only by a confirmation
ToggledNoFinally(p, i) ==
  /\ tcp[PutOf(p, i)].at = "closed" /\ tcp' = [tcp EXCEPT ![PutOf(p, i)] = Closed]
  /\ IF tcp[PutOf(p, i)].answer.status = 200
     THEN /\ shown' = [shown EXCEPT ![p] = Merged(@, tcp[PutOf(p, i)].answer)]
          /\ pending' = [pending EXCEPT ![p] = @ \ {i}]
     ELSE UNCHANGED <<shown, pending>>
  /\ UNCHANGED <<env, svc, server, faults, active, waiting, want, clicks>>
\* the answer of a toggle: confirmed, or an error that leaves the list alone
Toggled(p, i) ==
  /\ tcp[PutOf(p, i)].at = "closed"
  /\ LET a == tcp[PutOf(p, i)].answer
     IN shown' = IF a.status = 200 THEN [shown EXCEPT ![p] = Merged(@, a)] ELSE shown
  /\ pending' = [pending EXCEPT ![p] = @ \ {i}]
  /\ tcp' = [tcp EXCEPT ![PutOf(p, i)] = Closed]
  /\ UNCHANGED <<env, svc, server, faults, active, waiting, want, clicks>>

-----------------------------------------------------------------------------
(* Other clients send what they like, as slowly as they like, and may hang up. *)

OtherOpens(s) ==
  /\ s \in OtherSlots /\ tcp[s].at = "idle"
  /\ \E q \in Requests : tcp' = [tcp EXCEPT ![s] = Opened(q)]
  /\ UNCHANGED <<env, svc, server, faults, page>>
OtherLeaves(s) ==
  /\ s \in OtherSlots /\ tcp[s].at = "closed" /\ tcp' = [tcp EXCEPT ![s] = Closed]
  /\ UNCHANGED <<env, svc, server, faults, page>>

-----------------------------------------------------------------------------
Init ==
  /\ HttpInit
  /\ shown = [p \in Pages |-> Offline] /\ active = [p \in Pages |-> FALSE]
  /\ pending = [p \in Pages |-> {}] /\ waiting = [p \in Pages |-> {}]
  /\ want = [p \in Pages |-> [i \in Ids |-> FALSE]] /\ clicks = 0

Handlers(p) == Polled(p) \/ \E i \in Ids : Toggled(p, i)
Network(s) == (Knock(s) \/ Refused(s) \/ Send(s)) /\ UNCHANGED page
ServerWorks == (Accept \/ \E s \in Slots : Serve(s)) /\ UNCHANGED page
Next ==
  \/ (Change \/ AcceptError) /\ UNCHANGED page
  \/ ServerWorks
  \/ \E s \in Slots : Network(s)
  \/ \E s \in OtherSlots : HangUp(s) /\ UNCHANGED page
  \/ \E s \in OtherSlots : OtherOpens(s) \/ OtherLeaves(s)
  \/ \E p \in Pages : Refresh(p) \/ Handlers(p) \/ \E i \in Ids : Click(p, i)
Spec == Init /\ [][Next]_vars

-----------------------------------------------------------------------------
(* Properties. *)

TypeOK ==
  /\ svc.app \in 0..MaxChanges /\ svc.file \in 0..MaxChanges
  /\ \A s \in Slots : tcp[s].at \in {"idle", "knocking", "open", "gone", "closed"}
  /\ conn = Nobody \/ \E s \in Slots : conn = <<s>> /\ tcp[s].at \in {"open", "gone"}
  /\ got <= Limit /\ Len(queue) <= Backlog
  /\ \A p \in Pages : waiting[p] \subseteq pending[p] /\ pending[p] \subseteq Ids

\* While a toggle of a page is under way, its poll is not: a poll ends before the
\* toggle is sent, and none begins until the toggle has ended (CheatsApp.vue:15 and
\* 36-41, docs/CODE_ARCHITECTURE.md:242).
InFlight(s) == tcp[s].at # "idle"
NoPollDuringToggle ==
  \A p \in Pages : InFlight(PollOf(p)) => \A i \in Ids : ~InFlight(PutOf(p, i))

\* What a switch says is what the service has. Unless its toggle is under way, a cheat
\* that only one page can toggle, shown from the file that the service now lists, carries
\* the service's flag as long as nothing has failed; whatever other clients do meanwhile
\* (CheatsApp.vue:19 and 42-44).
Own(p) == {i \in Ids : Pages = {p} /\ \A q \in Requests : q.id # i \/ ~q.trusted \/ ~q.valid}
SwitchesAgree ==
  faults = 0 =>
    \A p \in Pages : \A i \in Own(p) \cap DOMAIN shown[p].on :
      shown[p].on[i].file = svc.file /\ ~InFlight(PutOf(p, i)) =>
        i \in DOMAIN svc.on /\ shown[p].on[i].flag = svc.on[i]

\* A cheat of a file goes on only by a toggle request for its id that came from the
\* page's own origin, is well formed, and was sent to its last byte; whatever else is
\* sent, however slowly, and wherever it breaks off, switches nothing on
\* (http_server.cpp:151-208 and 328-341).
Authorised(i) ==
  \E s \in Slots : /\ conn = <<s>> /\ tcp[s].sent = Whole(tcp[s].ask)
                   /\ Route(tcp[s].ask) = "cheat_toggle" /\ tcp[s].ask.trusted /\ tcp[s].ask.valid
                   /\ tcp[s].ask.id = i /\ tcp[s].ask.on
OnlyWholeTogglesSwitch ==
  [][\A i \in DOMAIN svc'.on :
       svc'.on[i] /\ ~(svc.file = svc'.file /\ svc.on[i]) => Authorised(i)]_vars

\* Scheduling: the server's loop and the browsers' networking and handlers go on, the
\* timer keeps firing, and other clients do not stall for ever.
FairSpec ==
  /\ Spec /\ WF_vars(ServerWorks)
  /\ \A s \in Slots : WF_vars(Network(s))
  /\ \A s \in OtherSlots : WF_vars(OtherLeaves(s))
  /\ \A p \in Pages : WF_vars(Handlers(p)) /\ SF_vars(Refresh(p))

\* A toggle that was clicked ends, in success or in an error: the page does not keep a
\* switch in "Aplicando..." (CheatsApp.vue:47-51).
TogglesEnd == \A p \in Pages, i \in Ids : i \in pending[p] ~> i \notin pending[p]

\* When games, files, clicks and failures have come to rest, every page ends up showing
\* the list of the game that runs, or that the service is gone, or that the list is too
\* long to be sent (CheatsApp.vue:14-33).
Faithful(p) ==
  IF running /\ Cardinality(world.ids) <= Room
  THEN /\ shown[p].up /\ svc.app = world.app /\ svc.file = world.file
       /\ shown[p].on = [i \in world.ids |-> [file |-> world.file, flag |-> svc.on[i]]]
  ELSE ~shown[p].up
PagesConverge == <>[](\A p \in Pages : Faithful(p))
=============================================================================
