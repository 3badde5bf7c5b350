------------------------------ MODULE BrokerInv ------------------------------
(***************************************************************************)
(* The inductive invariants of the broker: what the proofs carry from one  *)
(* step to the next, checked by TLC like any other invariant.              *)
(***************************************************************************)
EXTENDS BrokerProps

-----------------------------------------------------------------------------
(* Handlers have the local variables their next step reads *)

SessionLabels == Labels \ {"idle", "pq_pop", "pq_more", "ft_claim", "sw_mget", "sw_next"}
SandboxLabels ==
  {"cl_start", "cl_bind", "cl_workdir", "cl_userdir", "cl_save", "ft_ready", "hb_save",
   "rel_delete"} \cup ReleaseLabels
TicketLabels ==
  {"enq_push", "enq_publish", "ft_claim", "ft_slot", "ft_reset", "ft_requeue", "ft_push",
   "ft_ready", "ft_undo", "ft_fail"}

JobInv(l, j) ==
  /\ j \in Job
  /\ l \in SessionLabels => j.s \in Sessions /\ j.mode \in Modes
  /\ l \in SandboxLabels => j.sb \in SandboxIds
  /\ l \in TicketLabels => j.t \in TicketIds

HandlersOK == \A p \in Proc : JobInv(pc[p], job[p])
ConsumerOK == pc[Consumer] # "idle" => offset < Len(topic)

IInv == TypeOK /\ HandlersOK /\ ConsumerOK /\ SlotBound

-----------------------------------------------------------------------------
(* Whatever names a sandbox names one created for its owner *)

\* A session asks for the same mode in all its requests.
StickyModes == \A s \in Sessions : \A m, n \in ModesOf[s] : m = n

Owned(sb, mode, s) == sb \in SandboxIds /\ owner[sb] = OwnerKey(mode, s)

KnownOK == \A id \in SandboxIds : owner[id] # None => sandbox[id] # "absent"

LeasesOK ==
  \A s \in Sessions : leases[s] # None =>
    leases[s].mode \in ModesOf[s] /\ Owned(leases[s].sb, leases[s].mode, s)

BoundOK ==
  \A s \in Sessions : \A m \in ModesOf[s] :
    bound[OwnerKey(m, s)] # None => Owned(bound[OwnerKey(m, s)], m, s)

TicketsOK ==
  \A t \in TicketIds : tickets[t] # None =>
    /\ tickets[t].mode \in ModesOf[tickets[t].session]
    /\ tickets[t].status = "ready" => Owned(tickets[t].sb, tickets[t].mode, tickets[t].session)

WorkOK ==
  \A p \in Proc :
    /\ pc[p] \in SessionLabels => job[p].mode \in ModesOf[job[p].s]
    /\ pc[p] \in SandboxLabels => Owned(job[p].sb, job[p].mode, job[p].s)

OInv == KnownOK /\ LeasesOK /\ BoundOK /\ TicketsOK /\ WorkOK

-----------------------------------------------------------------------------
(* Every slot is accounted for *)

\* Sessions have sandboxes of their own and no timer sweeps: a lease ends only
\* by a request of its session.
OwnLeases == Sweepers = {} /\ \A s \in Sessions : ModesOf[s] \subseteq {"exclusive"}

SlotLabels == CreateLabels \cup {"acq_undo", "ft_undo"}
LeaseLabels == {"rel_delete", "hb_save"}

\* A session has at most one request in flight.
SerialOK ==
  /\ \A v, w \in Workers : job[v].client = job[w].client /\ job[v].client # None => v = w
  /\ \A p \in Proc : pc[p] = "idle" => job[p].client = None

\* Whoever creates a lease holds a slot, and the lease a request is about to
\* delete or renew is still there.
SlotWorkOK ==
  \A p \in Proc :
    /\ pc[p] \notin {"acq_attach", "sw_mget", "sw_next"} /\ job[p].todo = {}
    /\ pc[p] \in SlotLabels => job[p].slot
    /\ pc[p] \in LeaseLabels =>
         p \in Workers /\ job[p].client = job[p].s /\ leases[job[p].s] # None

SInv == SerialOK /\ SlotWorkOK /\ IsFiniteSet(Leased) /\ IsFiniteSet(Holders) /\ SlotsCover

-----------------------------------------------------------------------------
(* Every waiting ticket is known to somebody *)

\* The broker stops sandboxes or leaves them running, and never deletes one.
NothingDeleted == IdlePolicy # "delete" /\ "deleted" \notin Reasons

WaitLabels == {"enq_push", "enq_publish", "ft_claim", "ft_requeue", "ft_push"}
ClaimLabels == FulfilLabels \cup {"ft_reset"}

AliveOK ==
  /\ \A id \in SandboxIds : sandbox[id] # "deleted"
  /\ \A p \in Proc :
       /\ pc[p] # "rel_kill"
       /\ pc[p] \in {"rel_delete", "rel_keys", "rel_mget"} => job[p].reason # "deleted"

\* The consumer works on the message it has not committed, and nobody has
\* failed to fulfil a ticket.
WorkAtOffset ==
  /\ pc[Consumer] # "idle" =>
       pc[Consumer] \in WaitLabels \cup ClaimLabels /\ job[Consumer].t = topic[offset + 1]
  /\ \A p \in Proc : pc[p] \notin {"ft_undo", "ft_fail"}

TInv == AliveOK /\ (faults = 0 => WorkAtOffset) /\ NoLostTicket

-----------------------------------------------------------------------------
(* A ticket belongs to its session *)

\* The labels of a handler that serves the session of its ticket.
TicketWork ==
  CreateLabels \cup {"acq_attach", "acq_slot", "enq_push", "enq_publish", "ft_slot", "ft_reset",
                     "ft_requeue", "ft_push", "ft_ready", "ft_undo", "ft_fail"}

\* Only tickets in Redis are passed on, and whoever serves one serves the
\* session that asked for it.
KInv ==
  /\ \A i \in DOMAIN queue : tickets[queue[i]] # None
  /\ \A i \in DOMAIN topic : tickets[topic[i]] # None
  /\ \A p \in Proc : job[p].t # None =>
       /\ tickets[job[p].t] # None
       /\ pc[p] \in TicketWork => tickets[job[p].t].session = job[p].s

-----------------------------------------------------------------------------
(* No mapping to a deleted sandbox stays behind *)

\* Sandboxes are not kept for their session, and no handler breaks off between
\* the delete of a sandbox and the end of cleanupMappings.
DeletesEnd == IdlePolicy # "stop_keep" /\ FaultKinds \subseteq {"publish"}

\* Whatever names a sandbox does so for the key it was created for, also when
\* sessions change their mode: only RelKeep binds a session to another's.
NamesOK ==
  /\ \A s \in Sessions : leases[s] # None => Owned(leases[s].sb, leases[s].mode, s)
  /\ \A k \in Keys : bound[k] # None => owner[bound[k]] = k
  /\ \A p \in Proc : pc[p] \in SandboxLabels => Owned(job[p].sb, job[p].mode, job[p].s)

\* The sandboxes that p, a mapping or a lease names.
NamedBy(p) ==
  {id \in SandboxIds : \/ pc[p] \in SandboxLabels /\ job[p].sb = id
                       \/ \E k \in Keys : bound[k] = id
                       \/ \E s \in Leased : leases[s].sb = id}

\* A sandbox just created is its creator's alone until it is bound.
FreshOK ==
  \A q \in Proc : pc[q] = "cl_bind" =>
    sandbox[job[q].sb] # "deleted" /\ \A p \in Proc \ {q} : job[q].sb \notin NamedBy(p)

\* The steps of cleanupMappings.
UnbindLabels == {"rel_unbind", "rel_owner", "rel_unbindOwner"}

KeptByNone == \A p \in Proc : pc[p] \notin {"rel_stop", "rel_keep"}

DInv == KnownOK /\ NamesOK /\ FreshOK /\ KeptByNone /\ NoDeadBinding
=============================================================================
