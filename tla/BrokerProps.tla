----------------------------- MODULE BrokerProps -----------------------------
(***************************************************************************)
(* What the broker promises, stated over the states of module Broker.      *)
(***************************************************************************)
EXTENDS Broker

-----------------------------------------------------------------------------
(* Vocabulary *)

LeasedSandboxes == {leases[s].sb : s \in Leased}
Running == {id \in SandboxIds : sandbox[id] = "started"}

InQueue(t) == \E i \in DOMAIN queue : queue[i] = t
InTopic(t) == \E i \in (offset + 1)..Len(topic) : topic[i] = t
Works(t, labels) == \E p \in Proc : pc[p] \in labels /\ job[p].t = t

CreateLabels == {"cl_lookup", "cl_start", "cl_forget", "cl_forgetOwner", "cl_create",
                 "cl_bind", "cl_workdir", "cl_userdir", "cl_save"}
FulfilLabels == {"ft_slot", "ft_ready"} \cup CreateLabels
ReleaseLabels == {"rel_keys", "rel_mget", "rel_stop", "rel_keep", "rel_kill", "rel_unbind",
                  "rel_owner", "rel_unbindOwner", "rel_clear", "rel_slot"}

-----------------------------------------------------------------------------
(* Types *)

\* Every Redis key, log entry, sandbox and local variable holds a value of
\* the kind its readers expect, the published prefix is what was consumed.
TypeOK ==
  /\ activeCount \in Int
  /\ leases \in [Sessions -> Lease \cup {None}]
  /\ bound \in [Keys -> SandboxIds \cup {None}]
  /\ tickets \in [TicketIds -> Ticket \cup {None}]
  /\ queue \in Seq(TicketIds) /\ topic \in Seq(TicketIds)
  /\ offset \in 0..Len(topic)
  /\ sandbox \in [SandboxIds -> {"absent", "started", "stopped", "deleted"}]
  /\ owner \in [SandboxIds -> Keys \cup {None}]
  /\ pc \in [Proc -> Labels]
  /\ job \in [Proc -> Job]
  /\ issued \in Nat /\ faults \in Nat

-----------------------------------------------------------------------------
(* Safety *)

\* The slot counter never leaves 0..MaxConcurrency, whatever handlers, faults
\* and crashes interleave with the two Lua scripts.
SlotBound == activeCount \in 0..MaxConcurrency

\* Two leases name the same sandbox only when their modes share it: exclusive
\* sessions never, user_shared ones within a user, multi_user_shared ones
\* within a pool (createLease, stop_keep and cleanupMappings all write the
\* mappings this depends on).
OwnerIsolation ==
  \A a, b \in Leased :
    leases[a].sb = leases[b].sb => OwnerKey(leases[a].mode, a) = OwnerKey(leases[b].mode, b)

\* A ticket that poll reports ready names a sandbox created for the owner the
\* queued request asked for, also after requeues, retries and restarts.
TicketIsolation ==
  \A t \in TicketIds :
    tickets[t] # None /\ tickets[t].status = "ready" =>
      owner[tickets[t].sb] = OwnerKey(tickets[t].mode, tickets[t].session)

\* Every lease, every handler on its way to one and every release that has
\* not given its slot back is covered by a slot of its own.
Holders ==
  {p \in Proc : \/ pc[p] \in CreateLabels \cup {"acq_undo", "ft_undo"} /\ job[p].slot
                \/ pc[p] \in ReleaseLabels}
SlotsCover == Cardinality(Leased) + Cardinality(Holders) <= activeCount

\* Without faults a ticket that waits is known to somebody who will look at it:
\* the list, the unconsumed part of the topic, or a handler about to push it; a
\* ticket being claimed has a handler at work on it.
NoLostTicket ==
  faults = 0 => \A t \in TicketIds : tickets[t] # None =>
    /\ tickets[t].status = "queued" =>
         \/ InQueue(t) \/ InTopic(t)
         \/ Works(t, {"enq_push", "enq_publish", "ft_claim", "ft_requeue", "ft_push"})
    /\ tickets[t].status = "claiming" => Works(t, FulfilLabels \cup {"ft_reset"})

\* A mapping to a deleted sandbox is about to be cleared by the release that
\* deleted it: cleanupMappings leaves none behind for the next acquire.
NoDeadBinding ==
  \A k \in Keys : bound[k] # None /\ sandbox[bound[k]] = "deleted" =>
    \E p \in Proc : /\ pc[p] \in {"rel_unbind", "rel_owner", "rel_unbindOwner"}
                   /\ job[p].sb = bound[k]

\* With no handler at work, a slot is taken for each sandbox under lease and
\* for nothing else.
SlotsExact == Quiet => activeCount = Cardinality(LeasedSandboxes)

\* With no handler at work, the sandboxes that run are the leased ones.
RunningExact == Quiet => Running = LeasedSandboxes

\* A ticket still waits in the list or the topic when nobody works on it.
QueuedIsReachable ==
  \A t \in TicketIds :
    Quiet /\ tickets[t] # None /\ tickets[t].status = "queued" => InQueue(t)

\* The sessions of one user in user_shared mode hold the same sandbox.
OneSandboxPerUser ==
  \A a, b \in Leased :
    /\ leases[a].mode = "user_shared" /\ leases[b].mode = "user_shared"
    /\ UserOf[a] = UserOf[b]
    => leases[a].sb = leases[b].sb

-----------------------------------------------------------------------------
(* Refinement *)

Pool == INSTANCE LeasePool WITH Cap <- MaxConcurrency, held <- Leased

\* When sessions are exclusive, send one request at a time and the sweep is
\* off, the lease keys in Redis behave as the abstract pool: a lease appears
\* only when fewer than MaxConcurrency are out, whatever tickets, retries,
\* failures and restarts led to it.
IsLeasePool == Pool!Spec

-----------------------------------------------------------------------------
(* Action properties *)

\* A sandbox is stopped or deleted only when no lease names it.
NoStopUnderLease ==
  [][\A id \in SandboxIds :
       sandbox[id] = "started" /\ sandbox'[id] \in {"stopped", "deleted"}
         => id \notin LeasedSandboxes]_vars

-----------------------------------------------------------------------------
(* Liveness *)

\* Every request and every sweep ends: the drain of the queue in processQueue,
\* which puts back what it cannot serve, does not go round for ever.
HandlersEnd == \A p \in Workers \cup Sweepers : pc[p] # "idle" ~> pc[p] = "idle"

\* A lease whose heartbeat stays old is reclaimed by a sweep.
StaleReclaimed ==
  \A s \in Sessions :
    (leases[s] # None /\ ~leases[s].fresh) ~> (leases[s] = None \/ leases[s].fresh)
=============================================================================
