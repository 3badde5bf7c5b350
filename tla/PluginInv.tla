------------------------------ MODULE PluginInv ------------------------------
(* The inductive invariants of the plugin on top of the broker. *)
EXTENDS PluginProps, BrokerInv

AtBroker == {"asking", "beating", "releasing"}

\* A call that waits for the broker has a handler there and no other call has;
\* what a call does next has the session, the sandbox or the ticket it needs.
SeatOK(w) ==
  /\ pc[w] # "idle" => step[w] \in AtBroker
  /\ step[w] # "free" => seat[w].s \in Sessions
  /\ step[w] \in ToolSteps => seat[w].sb \in SandboxIds
  /\ step[w] = "polling" => seat[w].t \in TicketIds /\ tickets[seat[w].t] # None
  /\ pc[w] \in {"enq_push", "enq_publish"} => tickets[job[w].t] # None

SeatsOK == \A w \in Workers : SeatOK(w)

\* A ticket that is ready names a sandbox.
ReadyOK == \A t \in TicketIds : tickets[t] # None /\ tickets[t].status = "ready" => tickets[t].sb \in SandboxIds

PInv == PluginTypeOK /\ SeatsOK /\ ReadyOK

\* A session has one call at a time, and the request that serves it is its own.
OneCall ==
  /\ \A v, w \in Workers : step[v] # "free" /\ step[w] # "free" /\ seat[v].s = seat[w].s => v = w
  /\ \A w \in Workers : job[w].client # None => step[w] # "free" /\ job[w].client = seat[w].s
-----------------------------------------------------------------------------
(* What a request of the plugin is doing at the broker *)

AskLabels ==
  (CreateLabels \cup {"acq_attach", "acq_slot", "acq_undo", "enq_set", "enq_push", "enq_publish"})

RoleOK(w) ==
  /\ step[w] = "asking" =>
       /\ pc[w] \in AskLabels /\ job[w].s = seat[w].s
       /\ job[w].t # None => pc[w] \in {"enq_push", "enq_publish"}
  /\ step[w] = "beating" => pc[w] = "hb_save" /\ job[w].s = seat[w].s
  /\ step[w] = "polling" => tickets[seat[w].t].session = seat[w].s

RolesOK == KInv /\ \A w \in Workers : RoleOK(w)

\* The sandboxes of handles and tool calls were created for their sessions.
OwnedFor(s, sb) == \E m \in ModesOf[s] : Owned(sb, m, s)

HandlesOwned ==
  /\ \A s \in Sessions : handle[s] # None => OwnedFor(s, handle[s])
  /\ \A w \in Workers : step[w] \in ToolSteps => OwnedFor(seat[w].s, seat[w].sb)

-----------------------------------------------------------------------------
(* Every live sandbox is charged to a slot *)

\* The broker stops or deletes the sandbox of every lease it releases.
Stops == IdlePolicy # "pool"

\* A release serves the session of the client that asked for it.
ReleasesOwn ==
  \A p \in Proc : pc[p] \in LeaseLabels \cup ReleaseLabels => p \in Workers /\ job[p].client = job[p].s

\* Waits for the answer of ticket t; the answer, given or about to be.
Awaits(w, t) ==
  \/ step[w] = "polling" /\ seat[w].t = t
  \/ step[w] = "asking" /\ pc[w] \in {"enq_push", "enq_publish"} /\ job[w].t = t
Answers(t, id) ==
  \/ tickets[t] # None /\ tickets[t].status = "ready" /\ tickets[t].sb = id
  \/ \E p \in Proc : pc[p] = "ft_ready" /\ job[p].t = t /\ job[p].sb = id

\* Tool calls will work in this sandbox.
InUse(id) ==
  \/ \E w \in Workers : step[w] \in ToolSteps /\ seat[w].sb = id
  \/ \E s \in Sessions : handle[s] = id /\ \A w \in Busy(s) : step[w] # "releasing"
  \/ \E w \in Workers, t \in TicketIds : Awaits(w, t) /\ Answers(t, id)

Live(id) == sandbox[id] = "started" \/ (sandbox[id] # "deleted" /\ InUse(id))

\* Requests whose lease was replaced after they read it.
Stale == {p \in Proc : pc[p] \in LeaseLabels /\ leases[job[p].s].sb # job[p].sb}

NamerLabels == {"cl_start", "cl_bind", "cl_workdir", "cl_userdir", "cl_save",
                "rel_keys", "rel_mget", "rel_stop", "rel_kill"}
Named(id) ==
  \/ \E s \in Leased : leases[s].sb = id
  \/ \E p \in Proc : (pc[p] \in NamerLabels \/ p \in Stale) /\ job[p].sb = id

\* The live sandboxes that no lease and no request leads to.
Loose == {id \in SandboxIds : Live(id) /\ ~Named(id)}

\* The slots no lease and no handler accounts for.
Slack == activeCount - Cardinality(Leased) - Cardinality(Holders)

Charged ==
  /\ IsFiniteSet(Loose) /\ IsFiniteSet(Stale)
  /\ Cardinality(Loose) + Cardinality(Stale) <= Slack

RInv == ReleasesOwn /\ (faults = 0 => Charged)

-----------------------------------------------------------------------------
(* What the plugin has of a lease *)

\* A lease stays what it was when a request, a call that waits, a tool call or
\* the map took its sandbox from it, or it was replaced.
LeaseKnown ==
  /\ \A p \in Proc : pc[p] \in LeaseLabels => LeasedOn(job[p].s, job[p].sb)
  /\ \A w \in Workers, t \in TicketIds, id \in SandboxIds :
       Awaits(w, t) /\ Answers(t, id) => LeasedOn(seat[w].s, id)
  /\ \A w \in Workers :
       step[w] \in ToolSteps /\ seat[w].s \notin failed => LeasedOn(seat[w].s, seat[w].sb)
  /\ \A s \in Sessions :
       handle[s] # None /\ s \notin failed /\ (\A w \in Busy(s) : step[w] # "releasing")
         => LeasedOn(s, handle[s])
=============================================================================
