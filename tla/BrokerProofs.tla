---------------------------- MODULE BrokerProofs ----------------------------
(***************************************************************************)
(* Proof that IInv is inductive: one lemma per action of the broker.  A    *)
(* step moves one handler to its next label with variables that label      *)
(* needs (Moves), and writes values of the right kind to what it shares.   *)
(***************************************************************************)
EXTENDS BrokerInv, TLAPS

-----------------------------------------------------------------------------
(* The idioms of the handlers *)

\* Only p moves, to a label whose variables it has.
Moves(p) ==
  /\ pc' \in [Proc -> Labels] /\ job' \in [Proc -> Job]
  /\ HandlersOK'
  /\ p # Consumer => pc'[Consumer] = pc[Consumer]

LEMMA OwnerKeyIsKey ==
  ASSUME NEW s \in Sessions, NEW mode
  PROVE  OwnerKey(mode, s) \in Keys
BY NamesAssumption DEF OwnerKey, Keys

LEMMA GotoMoves ==
  ASSUME IInv, NEW p \in Proc, NEW l \in Labels, JobInv(l, job[p]), Goto(p, l), UNCHANGED job
  PROVE  Moves(p) /\ pc'[p] = l
BY DEF IInv, TypeOK, HandlersOK, Moves, Goto, Proc

LEMMA SetMoves ==
  ASSUME IInv, NEW p \in Proc, NEW l \in Labels, NEW j, JobInv(l, j), Goto(p, l), Set(p, j)
  PROVE  Moves(p) /\ pc'[p] = l
<1>1. j \in Job
  BY DEF JobInv
<1> QED
  BY <1>1 DEF IInv, TypeOK, HandlersOK, Moves, Goto, Set, Proc

LEMMA NoJobInv == NoJob \in Job /\ JobInv("idle", NoJob)
BY DEF NoJob, Job, JobInv, SessionLabels, SandboxLabels, TicketLabels, ReleaseLabels

LEMMA ReplyMoves ==
  ASSUME IInv, NEW p \in Proc, Reply(p)
  PROVE  Moves(p) /\ pc'[p] = "idle"
BY NoJobInv, SetMoves DEF Reply, Labels

LEMMA AnyOfIn ==
  ASSUME NEW S
  PROVE  AnyOf(S) \subseteq S
BY DEF AnyOf

LEMMA ReleasedMoves ==
  ASSUME IInv, NEW p \in Proc, Released(p)
  PROVE  Moves(p)
<1>1. JobInv("sw_next", [NoJob EXCEPT !.todo = job[p].todo])
  BY NoJobInv DEF IInv, HandlersOK, JobInv, SessionLabels, SandboxLabels, TicketLabels, ReleaseLabels, Labels, Job
<1> QED
  BY <1>1, SetMoves, ReplyMoves DEF Released, Labels

LEMMA LeaseFailedMoves ==
  ASSUME IInv, NEW p \in Proc, pc[p] \in SessionLabels, LeaseFailed(p)
  PROVE  Moves(p)
<1>1. JobInv("acq_undo", job[p]) /\ (job[p].t # None => JobInv("ft_undo", job[p]))
  BY DEF IInv, HandlersOK, JobInv, SessionLabels, SandboxLabels, TicketLabels, ReleaseLabels, Labels, Job
<1> QED
  BY <1>1, GotoMoves, ReplyMoves DEF LeaseFailed, Labels

LEMMA BeginReleaseMoves ==
  ASSUME IInv, NEW p \in Proc, NEW s \in Sessions, NEW reason \in {"idle", "deleted"},
         NEW j \in Job, BeginRelease(p, s, reason, j)
  PROVE  Moves(p)
<1>1. leases[s] \in Lease
  BY DEF BeginRelease, IInv, TypeOK
<1>2. JobInv("rel_delete", [j EXCEPT !.s = s, !.mode = leases[s].mode,
                                     !.sb = leases[s].sb, !.reason = reason])
  BY <1>1 DEF Lease, JobInv, SessionLabels, SandboxLabels, TicketLabels, ReleaseLabels, Labels, Job
<1> QED
  BY <1>2, SetMoves DEF BeginRelease, Labels

-----------------------------------------------------------------------------
(* acquire *)

LEMMA AcqAttachKeeps ==
  ASSUME IInv, NEW p \in Proc, AcqAttach(p)
  PROVE  IInv'
<1>1. pc[p] = "acq_attach" /\ JobInv("acq_attach", job[p])
  BY DEF AcqAttach, At, IInv, HandlersOK
<1>2. Moves(p)
  BY <1>1, GotoMoves DEF AcqAttach, At, JobInv, SessionLabels, SandboxLabels, TicketLabels, ReleaseLabels, Labels
<1> QED
  BY <1>1, <1>2 DEF AcqAttach, At, IInv, TypeOK, ConsumerOK, SlotBound, Moves, store, log, world, bounds

LEMMA AcqSlotKeeps ==
  ASSUME IInv, NEW p \in Proc, AcqSlot(p)
  PROVE  IInv'
<1>1. pc[p] = "acq_slot" /\ JobInv("acq_slot", job[p])
  BY DEF AcqSlot, At, IInv, HandlersOK
<1>a. JobInv("cl_lookup", [job[p] EXCEPT !.slot = TRUE]) /\ JobInv("enq_set", job[p])
  BY <1>1 DEF JobInv, SessionLabels, SandboxLabels, TicketLabels, ReleaseLabels, Labels, Job
<1>2. Moves(p)
  BY <1>a, GotoMoves, SetMoves DEF AcqSlot, At, Labels
<1>3. activeCount' \in 0..MaxConcurrency
  BY ConfigAssumption DEF AcqSlot, TakeSlot, SlotFree, IInv, SlotBound
<1> QED
  BY <1>1, <1>2, <1>3 DEF AcqSlot, At, IInv, TypeOK, ConsumerOK, SlotBound, Moves, store, log, world, bounds

LEMMA AcqUndoKeeps ==
  ASSUME IInv, NEW p \in Proc, AcqUndo(p)
  PROVE  IInv'
<1>1. pc[p] = "acq_undo" /\ JobInv("acq_undo", job[p])
  BY DEF AcqUndo, At, IInv, HandlersOK
<1>2. Moves(p)
  BY <1>1, GotoMoves, SetMoves, ReplyMoves DEF AcqUndo, JobInv, SessionLabels, SandboxLabels, TicketLabels, ReleaseLabels, Labels, Job
<1>3. activeCount' \in 0..MaxConcurrency
  BY ConfigAssumption DEF AcqUndo, GiveSlot, SlotFree, IInv, SlotBound
<1> QED
  BY <1>1, <1>2, <1>3 DEF AcqUndo, At, IInv, TypeOK, ConsumerOK, SlotBound, Moves, store, log, world, bounds

LEMMA EnqSetKeeps ==
  ASSUME IInv, NEW p \in Proc, EnqSet(p)
  PROVE  IInv'
<1>1. pc[p] = "enq_set" /\ JobInv("enq_set", job[p])
  BY DEF EnqSet, At, IInv, HandlersOK
<1>2. Moves(p)
  BY <1>1, GotoMoves, SetMoves DEF EnqSet, At, JobInv, SessionLabels, SandboxLabels, TicketLabels, ReleaseLabels, Labels, Job, AnyOf
<1>3. tickets' \in [TicketIds -> Ticket \cup {None}]
  BY <1>1 DEF EnqSet, AnyOf, NewTicket, Ticket, IInv, TypeOK, JobInv, SessionLabels, Labels
<1> QED
  BY <1>1, <1>2, <1>3 DEF EnqSet, At, IInv, TypeOK, ConsumerOK, SlotBound, Moves, store, log, world, bounds

LEMMA EnqPushKeeps ==
  ASSUME IInv, NEW p \in Proc, EnqPush(p)
  PROVE  IInv'
<1>1. pc[p] = "enq_push" /\ JobInv("enq_push", job[p])
  BY DEF EnqPush, At, IInv, HandlersOK
<1>2. Moves(p)
  BY <1>1, GotoMoves DEF EnqPush, At, JobInv, SessionLabels, SandboxLabels, TicketLabels, ReleaseLabels, Labels
<1>3. queue' \in Seq(TicketIds)
  BY <1>1 DEF EnqPush, IInv, TypeOK, JobInv, TicketLabels
<1> QED
  BY <1>1, <1>2, <1>3 DEF EnqPush, At, IInv, TypeOK, ConsumerOK, SlotBound, Moves, store, log, world, bounds

LEMMA EnqPublishKeeps ==
  ASSUME IInv, NEW p \in Proc, EnqPublish(p)
  PROVE  IInv'
<1>1. pc[p] = "enq_publish" /\ JobInv("enq_publish", job[p])
  BY DEF EnqPublish, At, IInv, HandlersOK
<1>a. /\ Append(topic, job[p].t) \in Seq(TicketIds)
      /\ Len(Append(topic, job[p].t)) = Len(topic) + 1 /\ Len(topic) \in Nat
  BY <1>1 DEF IInv, TypeOK, JobInv, TicketLabels
<1>2. Moves(p)
  BY <1>1, GotoMoves, SetMoves, ReplyMoves DEF EnqPublish, JobInv, SessionLabels, SandboxLabels, TicketLabels, ReleaseLabels, Labels, Job
<1>c. topic' = topic \/ topic' = Append(topic, job[p].t)
  BY DEF EnqPublish
<1>3. topic' \in Seq(TicketIds) /\ Len(topic') >= Len(topic)
  <2>1. topic \in Seq(TicketIds)
    BY DEF IInv, TypeOK
  <2> QED
    BY <1>a, <1>c, <2>1
<1>b. faults' \in Nat
  BY DEF EnqPublish, Fault, IInv, TypeOK
<1>4. offset' \in 0..Len(topic')
  BY <1>3 DEF EnqPublish, IInv, TypeOK
<1> QED
  BY <1>1, <1>2, <1>3, <1>4, <1>b DEF EnqPublish, At, IInv, TypeOK, ConsumerOK, SlotBound, Moves, store, log, world, bounds

-----------------------------------------------------------------------------
(* createLease *)

LEMMA ClLookupKeeps ==
  ASSUME IInv, NEW p \in Proc, ClLookup(p)
  PROVE  IInv'
<1>1. pc[p] = "cl_lookup" /\ JobInv("cl_lookup", job[p])
  BY DEF ClLookup, At, IInv, HandlersOK
<1>a. BoundSandbox(job[p]) \in SandboxIds \cup {None}
  BY <1>1, OwnerKeyIsKey DEF BoundSandbox, IInv, TypeOK, JobInv, SessionLabels, Labels
<1>2. Moves(p)
  BY <1>1, <1>a, GotoMoves, SetMoves DEF ClLookup, At, JobInv, SessionLabels, SandboxLabels, TicketLabels, ReleaseLabels, Labels, Job
<1> QED
  BY <1>1, <1>2 DEF ClLookup, At, IInv, TypeOK, ConsumerOK, SlotBound, Moves, store, log, world, bounds

LEMMA ClStartKeeps ==
  ASSUME IInv, NEW p \in Proc, ClStart(p)
  PROVE  IInv'
<1>1. pc[p] = "cl_start" /\ JobInv("cl_start", job[p])
  BY DEF ClStart, At, IInv, HandlersOK
<1>2. Moves(p)
  BY <1>1, GotoMoves, SetMoves DEF ClStart, At, JobInv, SessionLabels, SandboxLabels, TicketLabels, ReleaseLabels, Labels, Job
<1>3. sandbox' \in [SandboxIds -> {"absent", "started", "stopped", "deleted"}] /\ faults' \in Nat
  BY <1>1 DEF ClStart, Provider, ProviderFails, Fault, IInv, TypeOK
<1> QED
  BY <1>1, <1>2, <1>3 DEF ClStart, At, IInv, TypeOK, ConsumerOK, SlotBound, Moves, store, log, world, bounds

LEMMA ClForgetKeeps ==
  ASSUME IInv, NEW p \in Proc, ClForget(p)
  PROVE  IInv'
<1>1. pc[p] = "cl_forget" /\ JobInv("cl_forget", job[p])
  BY DEF ClForget, At, IInv, HandlersOK
<1>2. Moves(p)
  BY <1>1, GotoMoves DEF ClForget, At, JobInv, SessionLabels, SandboxLabels, TicketLabels, ReleaseLabels, Labels
<1>3. bound' \in [Keys -> SandboxIds \cup {None}]
  BY <1>1, OwnerKeyIsKey DEF ClForget, IInv, TypeOK, JobInv, SessionLabels, SandboxLabels, ReleaseLabels, Labels, Keys
<1> QED
  BY <1>1, <1>2, <1>3 DEF ClForget, At, IInv, TypeOK, ConsumerOK, SlotBound, Moves, store, log, world, bounds

LEMMA ClForgetOwnerKeeps ==
  ASSUME IInv, NEW p \in Proc, ClForgetOwner(p)
  PROVE  IInv'
<1>1. pc[p] = "cl_forgetOwner" /\ JobInv("cl_forgetOwner", job[p])
  BY DEF ClForgetOwner, At, IInv, HandlersOK
<1>2. Moves(p)
  BY <1>1, GotoMoves DEF ClForgetOwner, At, JobInv, SessionLabels, SandboxLabels, TicketLabels, ReleaseLabels, Labels
<1>3. bound' \in [Keys -> SandboxIds \cup {None}]
  BY <1>1, OwnerKeyIsKey DEF ClForgetOwner, IInv, TypeOK, JobInv, SessionLabels, SandboxLabels, ReleaseLabels, Labels, Keys
<1> QED
  BY <1>1, <1>2, <1>3 DEF ClForgetOwner, At, IInv, TypeOK, ConsumerOK, SlotBound, Moves, store, log, world, bounds

LEMMA ClCreateKeeps ==
  ASSUME IInv, NEW p \in Proc, ClCreate(p)
  PROVE  IInv'
<1>1. pc[p] = "cl_create" /\ JobInv("cl_create", job[p])
  BY DEF ClCreate, At, IInv, HandlersOK
<1>a. \A id \in SandboxIds : JobInv("cl_bind", [job[p] EXCEPT !.sb = id])
  BY <1>1 DEF JobInv, SessionLabels, SandboxLabels, TicketLabels, ReleaseLabels, Labels, Job
<1>b. LeaseFailed(p) => Moves(p)
  BY <1>1, LeaseFailedMoves DEF JobInv, SessionLabels, SandboxLabels, TicketLabels, ReleaseLabels, Labels
<1>c. AnyOf({i \in SandboxIds : sandbox[i] = "absent"}) \subseteq SandboxIds
  BY AnyOfIn
<1>2. Moves(p)
  BY <1>a, <1>b, <1>c, SetMoves DEF ClCreate, Labels
<1>d. \/ sandbox' = sandbox /\ owner' = owner
      \/ \E id \in SandboxIds :
           /\ sandbox' = [sandbox EXCEPT ![id] = "started"]
           /\ owner' = [owner EXCEPT ![id] = OwnerKey(job[p].mode, job[p].s)]
  BY <1>c DEF ClCreate, world
<1>e. faults' \in Nat
  <2>1. faults' = faults \/ faults' = faults + 1
    BY DEF ClCreate, Fault
  <2> QED
    BY <2>1 DEF IInv, TypeOK
<1>3. sandbox' \in [SandboxIds -> {"absent", "started", "stopped", "deleted"}]
  BY <1>d DEF IInv, TypeOK
<1>4. owner' \in [SandboxIds -> Keys \cup {None}]
  <2>1. OwnerKey(job[p].mode, job[p].s) \in Keys
    BY <1>1, OwnerKeyIsKey DEF JobInv, SessionLabels, Labels
  <2>2. owner \in [SandboxIds -> Keys \cup {None}]
    BY DEF IInv, TypeOK
  <2> QED
    BY <1>d, <2>1, <2>2
<1> QED
  BY <1>1, <1>2, <1>3, <1>4, <1>e DEF ClCreate, At, IInv, TypeOK, ConsumerOK, SlotBound, Moves, store, log, world, bounds

LEMMA ClBindKeeps ==
  ASSUME IInv, NEW p \in Proc, ClBind(p)
  PROVE  IInv'
<1>1. pc[p] = "cl_bind" /\ JobInv("cl_bind", job[p])
  BY DEF ClBind, At, IInv, HandlersOK
<1>2. Moves(p)
  BY <1>1, GotoMoves DEF ClBind, At, JobInv, SessionLabels, SandboxLabels, TicketLabels, ReleaseLabels, Labels
<1>3. bound' \in [Keys -> SandboxIds \cup {None}]
  BY <1>1, OwnerKeyIsKey DEF ClBind, IInv, TypeOK, JobInv, SessionLabels, SandboxLabels, ReleaseLabels, Labels, Keys
<1> QED
  BY <1>1, <1>2, <1>3 DEF ClBind, At, IInv, TypeOK, ConsumerOK, SlotBound, Moves, store, log, world, bounds

LEMMA ClWorkDirKeeps ==
  ASSUME IInv, NEW p \in Proc, ClWorkDir(p)
  PROVE  IInv'
<1>1. pc[p] = "cl_workdir" /\ JobInv("cl_workdir", job[p])
  BY DEF ClWorkDir, MakeDir, IInv, HandlersOK
<1>2. Moves(p)
  BY <1>1, GotoMoves, LeaseFailedMoves DEF ClWorkDir, JobInv, SessionLabels, SandboxLabels, TicketLabels, ReleaseLabels, Labels, Job, MakeDir
<1>a. /\ sandbox' = sandbox \/ sandbox' = [sandbox EXCEPT ![job[p].sb] = "started"]
      /\ faults' \in {faults, faults + 1}
  BY DEF ClWorkDir, MakeDir, Provider, ProviderFails, Fault
<1>3. sandbox' \in [SandboxIds -> {"absent", "started", "stopped", "deleted"}] /\ faults' \in Nat
  BY <1>a DEF IInv, TypeOK
<1> QED
  BY <1>1, <1>2, <1>3 DEF ClWorkDir, MakeDir, IInv, TypeOK, ConsumerOK, SlotBound, Moves, store, log, world, bounds

LEMMA ClUserDirKeeps ==
  ASSUME IInv, NEW p \in Proc, ClUserDir(p)
  PROVE  IInv'
<1>1. pc[p] = "cl_userdir" /\ JobInv("cl_userdir", job[p])
  BY DEF ClUserDir, MakeDir, IInv, HandlersOK
<1>2. Moves(p)
  BY <1>1, GotoMoves, LeaseFailedMoves DEF ClUserDir, JobInv, SessionLabels, SandboxLabels, TicketLabels, ReleaseLabels, Labels, Job, MakeDir
<1>a. /\ sandbox' = sandbox \/ sandbox' = [sandbox EXCEPT ![job[p].sb] = "started"]
      /\ faults' \in {faults, faults + 1}
  BY DEF ClUserDir, MakeDir, Provider, ProviderFails, Fault
<1>3. sandbox' \in [SandboxIds -> {"absent", "started", "stopped", "deleted"}] /\ faults' \in Nat
  BY <1>a DEF IInv, TypeOK
<1> QED
  BY <1>1, <1>2, <1>3 DEF ClUserDir, MakeDir, IInv, TypeOK, ConsumerOK, SlotBound, Moves, store, log, world, bounds

LEMMA ClSaveKeeps ==
  ASSUME IInv, NEW p \in Proc, ClSave(p)
  PROVE  IInv'
<1>1. pc[p] = "cl_save" /\ JobInv("cl_save", job[p])
  BY DEF ClSave, At, IInv, HandlersOK
<1>2. Moves(p)
  BY <1>1, GotoMoves, SetMoves, ReplyMoves DEF ClSave, JobInv, SessionLabels, SandboxLabels, TicketLabels, ReleaseLabels, Labels, Job, LeaseMade
<1>3. leases' \in [Sessions -> Lease \cup {None}]
  BY <1>1 DEF ClSave, LeaseOf, Lease, IInv, TypeOK, JobInv, SessionLabels, SandboxLabels, Labels
<1> QED
  BY <1>1, <1>2, <1>3 DEF ClSave, At, IInv, TypeOK, ConsumerOK, SlotBound, Moves, store, log, world, bounds

-----------------------------------------------------------------------------
(* release *)

LEMMA RelDeleteKeeps ==
  ASSUME IInv, NEW p \in Proc, RelDelete(p)
  PROVE  IInv'
<1>1. pc[p] = "rel_delete" /\ JobInv("rel_delete", job[p])
  BY DEF RelDelete, At, IInv, HandlersOK
<1>2. Moves(p)
  BY <1>1, GotoMoves DEF RelDelete, At, JobInv, SessionLabels, SandboxLabels, TicketLabels, ReleaseLabels, Labels
<1>3. leases' \in [Sessions -> Lease \cup {None}]
  BY <1>1 DEF RelDelete, IInv, TypeOK, JobInv, SessionLabels, Labels
<1> QED
  BY <1>1, <1>2, <1>3 DEF RelDelete, At, IInv, TypeOK, ConsumerOK, SlotBound, Moves, store, log, world, bounds

LEMMA RelKeysKeeps ==
  ASSUME IInv, NEW p \in Proc, RelKeys(p)
  PROVE  IInv'
<1>1. pc[p] = "rel_keys" /\ JobInv("rel_keys", job[p])
  BY DEF RelKeys, At, IInv, HandlersOK
<1>2. Moves(p)
  BY <1>1, GotoMoves, SetMoves DEF RelKeys, At, JobInv, SessionLabels, SandboxLabels, TicketLabels, ReleaseLabels, Labels, Job, Disposal, Leased
<1> QED
  BY <1>1, <1>2 DEF RelKeys, At, IInv, TypeOK, ConsumerOK, SlotBound, Moves, store, log, world, bounds

LEMMA RelMgetKeeps ==
  ASSUME IInv, NEW p \in Proc, RelMget(p)
  PROVE  IInv'
<1>1. pc[p] = "rel_mget" /\ JobInv("rel_mget", job[p])
  BY DEF RelMget, At, IInv, HandlersOK
<1>2. Moves(p)
  BY <1>1, GotoMoves, SetMoves DEF RelMget, At, JobInv, SessionLabels, SandboxLabels, TicketLabels, ReleaseLabels, Labels, Job, Disposal
<1> QED
  BY <1>1, <1>2 DEF RelMget, At, IInv, TypeOK, ConsumerOK, SlotBound, Moves, store, log, world, bounds

LEMMA RelStopKeeps ==
  ASSUME IInv, NEW p \in Proc, RelStop(p)
  PROVE  IInv'
<1>1. pc[p] = "rel_stop" /\ JobInv("rel_stop", job[p])
  BY DEF RelStop, Dispose, IInv, HandlersOK
<1>2. Moves(p)
  BY <1>1, GotoMoves, SetMoves, ReplyMoves DEF RelStop, JobInv, SessionLabels, SandboxLabels, TicketLabels, ReleaseLabels, Labels, Job, Dispose
<1>3. sandbox' \in [SandboxIds -> {"absent", "started", "stopped", "deleted"}] /\ faults' \in Nat
  BY <1>1 DEF RelStop, Dispose, Provider, ProviderFails, Fault, IInv, TypeOK
<1> QED
  BY <1>1, <1>2, <1>3 DEF RelStop, Dispose, IInv, TypeOK, ConsumerOK, SlotBound, Moves, store, log, world, bounds

LEMMA RelKillKeeps ==
  ASSUME IInv, NEW p \in Proc, RelKill(p)
  PROVE  IInv'
<1>1. pc[p] = "rel_kill" /\ JobInv("rel_kill", job[p])
  BY DEF RelKill, At, Dispose, IInv, HandlersOK
<1>2. Moves(p)
  BY <1>1, GotoMoves, SetMoves, ReplyMoves DEF RelKill, At, JobInv, SessionLabels, SandboxLabels, TicketLabels, ReleaseLabels, Labels, Job, Dispose
<1>3. sandbox' \in [SandboxIds -> {"absent", "started", "stopped", "deleted"}] /\ faults' \in Nat
  BY <1>1 DEF RelKill, At, Dispose, Provider, ProviderFails, Fault, IInv, TypeOK, world, bounds
<1> QED
  BY <1>1, <1>2, <1>3 DEF RelKill, At, Dispose, IInv, TypeOK, ConsumerOK, SlotBound, Moves, store, log, world, bounds

LEMMA RelKeepKeeps ==
  ASSUME IInv, NEW p \in Proc, RelKeep(p)
  PROVE  IInv'
<1>1. pc[p] = "rel_keep" /\ JobInv("rel_keep", job[p])
  BY DEF RelKeep, At, IInv, HandlersOK
<1>2. Moves(p)
  BY <1>1, GotoMoves DEF RelKeep, At, JobInv, SessionLabels, SandboxLabels, TicketLabels, ReleaseLabels, Labels
<1>3. bound' \in [Keys -> SandboxIds \cup {None}]
  BY <1>1, OwnerKeyIsKey DEF RelKeep, IInv, TypeOK, JobInv, SessionLabels, SandboxLabels, ReleaseLabels, Labels, Keys
<1> QED
  BY <1>1, <1>2, <1>3 DEF RelKeep, At, IInv, TypeOK, ConsumerOK, SlotBound, Moves, store, log, world, bounds

LEMMA RelUnbindKeeps ==
  ASSUME IInv, NEW p \in Proc, RelUnbind(p)
  PROVE  IInv'
<1>1. pc[p] = "rel_unbind" /\ JobInv("rel_unbind", job[p])
  BY DEF RelUnbind, At, IInv, HandlersOK
<1>2. Moves(p)
  BY <1>1, GotoMoves DEF RelUnbind, At, JobInv, SessionLabels, SandboxLabels, TicketLabels, ReleaseLabels, Labels, AfterUnbind
<1>3. bound' \in [Keys -> SandboxIds \cup {None}]
  BY <1>1, OwnerKeyIsKey DEF RelUnbind, IInv, TypeOK, JobInv, SessionLabels, SandboxLabels, ReleaseLabels, Labels, Keys
<1> QED
  BY <1>1, <1>2, <1>3 DEF RelUnbind, At, IInv, TypeOK, ConsumerOK, SlotBound, Moves, store, log, world, bounds

LEMMA RelOwnerKeeps ==
  ASSUME IInv, NEW p \in Proc, RelOwner(p)
  PROVE  IInv'
<1>1. pc[p] = "rel_owner" /\ JobInv("rel_owner", job[p])
  BY DEF RelOwner, At, IInv, HandlersOK
<1>2. Moves(p)
  BY <1>1, GotoMoves DEF RelOwner, At, JobInv, SessionLabels, SandboxLabels, TicketLabels, ReleaseLabels, Labels, AfterUnbind
<1> QED
  BY <1>1, <1>2 DEF RelOwner, At, IInv, TypeOK, ConsumerOK, SlotBound, Moves, store, log, world, bounds

LEMMA RelUnbindOwnerKeeps ==
  ASSUME IInv, NEW p \in Proc, RelUnbindOwner(p)
  PROVE  IInv'
<1>1. pc[p] = "rel_unbindOwner" /\ JobInv("rel_unbindOwner", job[p])
  BY DEF RelUnbindOwner, At, IInv, HandlersOK
<1>2. Moves(p)
  BY <1>1, GotoMoves DEF RelUnbindOwner, At, JobInv, SessionLabels, SandboxLabels, TicketLabels, ReleaseLabels, Labels, AfterUnbind
<1>3. bound' \in [Keys -> SandboxIds \cup {None}]
  BY <1>1, OwnerKeyIsKey DEF RelUnbindOwner, IInv, TypeOK, JobInv, SessionLabels, SandboxLabels, ReleaseLabels, Labels, Keys
<1> QED
  BY <1>1, <1>2, <1>3 DEF RelUnbindOwner, At, IInv, TypeOK, ConsumerOK, SlotBound, Moves, store, log, world, bounds

LEMMA RelClearKeeps ==
  ASSUME IInv, NEW p \in Proc, RelClear(p)
  PROVE  IInv'
<1>1. pc[p] = "rel_clear" /\ JobInv("rel_clear", job[p])
  BY DEF RelClear, At, IInv, HandlersOK
<1>2. Moves(p)
  BY <1>1, GotoMoves DEF RelClear, At, JobInv, SessionLabels, SandboxLabels, TicketLabels, ReleaseLabels, Labels
<1>3. bound' \in [Keys -> SandboxIds \cup {None}]
  BY <1>1, OwnerKeyIsKey DEF RelClear, IInv, TypeOK, JobInv, SessionLabels, SandboxLabels, ReleaseLabels, Labels, Keys
<1> QED
  BY <1>1, <1>2, <1>3 DEF RelClear, At, IInv, TypeOK, ConsumerOK, SlotBound, Moves, store, log, world, bounds

LEMMA RelSlotKeeps ==
  ASSUME IInv, NEW p \in Proc, RelSlot(p)
  PROVE  IInv'
<1>1. pc[p] = "rel_slot" /\ JobInv("rel_slot", job[p])
  BY DEF RelSlot, At, IInv, HandlersOK
<1>2. Moves(p)
  BY <1>1, GotoMoves DEF RelSlot, At, JobInv, SessionLabels, SandboxLabels, TicketLabels, ReleaseLabels, Labels
<1>3. activeCount' \in 0..MaxConcurrency
  BY ConfigAssumption DEF RelSlot, GiveSlot, SlotFree, IInv, SlotBound
<1> QED
  BY <1>1, <1>2, <1>3 DEF RelSlot, At, IInv, TypeOK, ConsumerOK, SlotBound, Moves, store, log, world, bounds

-----------------------------------------------------------------------------
(* processQueue and fulfillTicket *)

LEMMA PqPopKeeps ==
  ASSUME IInv, NEW p \in Proc, PqPop(p)
  PROVE  IInv'
<1>1. pc[p] = "pq_pop" /\ JobInv("pq_pop", job[p])
  BY DEF PqPop, At, IInv, HandlersOK
<1>a. queue # <<>> => Head(queue) \in TicketIds /\ Tail(queue) \in Seq(TicketIds)
  BY DEF IInv, TypeOK
<1>b. queue # <<>> => JobInv("ft_claim", [job[p] EXCEPT !.t = Head(queue)])
  BY <1>1, <1>a DEF JobInv, SessionLabels, SandboxLabels, TicketLabels, ReleaseLabels, Labels, Job
<1>2. Moves(p)
  BY <1>b, SetMoves, ReleasedMoves DEF PqPop, Labels
<1>3. queue' \in Seq(TicketIds)
  BY <1>a DEF PqPop, IInv, TypeOK
<1> QED
  BY <1>1, <1>2, <1>3 DEF PqPop, At, IInv, TypeOK, ConsumerOK, SlotBound, Moves, store, log, world, bounds

LEMMA PqMoreKeeps ==
  ASSUME IInv, NEW p \in Proc, PqMore(p)
  PROVE  IInv'
<1>1. pc[p] = "pq_more" /\ JobInv("pq_more", job[p])
  BY DEF PqMore, At, IInv, HandlersOK
<1>a. JobInv("pq_pop", job[p])
  BY <1>1 DEF JobInv, SessionLabels, SandboxLabels, TicketLabels, ReleaseLabels, Labels
<1>2. Moves(p)
  BY <1>a, GotoMoves, ReleasedMoves DEF PqMore, Labels
<1> QED
  BY <1>1, <1>2 DEF PqMore, At, IInv, TypeOK, ConsumerOK, SlotBound, Moves, store, log, world, bounds

LEMMA FtClaimKeeps ==
  ASSUME IInv, NEW p \in Proc, FtClaim(p)
  PROVE  IInv'
<1>1. pc[p] = "ft_claim" /\ JobInv("ft_claim", job[p])
  BY DEF FtClaim, At, IInv, HandlersOK
<1>a. job[p].t \in TicketIds /\ (Claimable(job[p].t) => tickets[job[p].t] \in Ticket)
  BY <1>1 DEF Claimable, IInv, TypeOK, JobInv, TicketLabels
<1>b. Claimable(job[p].t) =>
        JobInv("ft_slot", [job[p] EXCEPT !.s = tickets[job[p].t].session,
                                         !.mode = tickets[job[p].t].mode, !.sb = None])
  BY <1>1, <1>a DEF JobInv, SessionLabels, SandboxLabels, TicketLabels, ReleaseLabels, Labels, Job, Ticket
<1>c. JobInv("pq_more", job[p])
  BY <1>1 DEF JobInv, SessionLabels, SandboxLabels, TicketLabels, ReleaseLabels, Labels
<1>d. Claimable(job[p].t) => [tickets[job[p].t] EXCEPT !.status = "claiming"] \in Ticket
  BY <1>a DEF Ticket
<1>2. Moves(p)
  BY <1>b, <1>c, GotoMoves, SetMoves, ReplyMoves DEF FtClaim, Fulfilled, Labels
<1>3. tickets' \in [TicketIds -> Ticket \cup {None}]
  BY <1>a, <1>d DEF FtClaim, IInv, TypeOK
<1>4. offset' \in 0..Len(topic) /\ (pc'[Consumer] # "idle" => offset' < Len(topic))
  BY <1>1, <1>2, ReplyMoves DEF FtClaim, Fulfilled, Goto, Reply, Moves, IInv, TypeOK, ConsumerOK, Proc
<1> QED
  BY <1>1, <1>2, <1>3, <1>4 DEF FtClaim, At, IInv, TypeOK, ConsumerOK, SlotBound, Moves, store, log, world, bounds

LEMMA FtSlotKeeps ==
  ASSUME IInv, NEW p \in Proc, FtSlot(p)
  PROVE  IInv'
<1>1. pc[p] = "ft_slot" /\ JobInv("ft_slot", job[p])
  BY DEF FtSlot, At, IInv, HandlersOK
<1>a. JobInv("cl_lookup", [job[p] EXCEPT !.slot = TRUE]) /\ JobInv("ft_reset", job[p])
  BY <1>1 DEF JobInv, SessionLabels, SandboxLabels, TicketLabels, ReleaseLabels, Labels, Job
<1>2. Moves(p)
  BY <1>a, GotoMoves, SetMoves DEF FtSlot, At, Labels
<1>3. activeCount' \in 0..MaxConcurrency
  BY ConfigAssumption DEF FtSlot, TakeSlot, SlotFree, IInv, SlotBound
<1> QED
  BY <1>1, <1>2, <1>3 DEF FtSlot, At, IInv, TypeOK, ConsumerOK, SlotBound, Moves, store, log, world, bounds

LEMMA FtResetKeeps ==
  ASSUME IInv, NEW p \in Proc, FtReset(p)
  PROVE  IInv'
<1>1. pc[p] = "ft_reset" /\ JobInv("ft_reset", job[p])
  BY DEF FtReset, At, IInv, HandlersOK
<1>2. Moves(p)
  BY <1>1, GotoMoves DEF FtReset, At, JobInv, SessionLabels, SandboxLabels, TicketLabels, ReleaseLabels, Labels
<1>3. tickets' \in [TicketIds -> Ticket \cup {None}]
  BY <1>1 DEF FtReset, WriteTicket, Ticket, IInv, TypeOK, JobInv, SessionLabels, TicketLabels, SandboxLabels, Labels
<1> QED
  BY <1>1, <1>2, <1>3 DEF FtReset, At, IInv, TypeOK, ConsumerOK, SlotBound, Moves, store, log, world, bounds

LEMMA FtRequeueKeeps ==
  ASSUME IInv, NEW p \in Proc, FtRequeue(p)
  PROVE  IInv'
<1>1. pc[p] = "ft_requeue" /\ JobInv("ft_requeue", job[p])
  BY DEF FtRequeue, At, IInv, HandlersOK
<1>2. Moves(p)
  BY <1>1, GotoMoves DEF FtRequeue, At, JobInv, SessionLabels, SandboxLabels, TicketLabels, ReleaseLabels, Labels
<1>3. tickets' \in [TicketIds -> Ticket \cup {None}]
  BY <1>1 DEF FtRequeue, WriteTicket, Ticket, IInv, TypeOK, JobInv, SessionLabels, TicketLabels, SandboxLabels, Labels
<1> QED
  BY <1>1, <1>2, <1>3 DEF FtRequeue, At, IInv, TypeOK, ConsumerOK, SlotBound, Moves, store, log, world, bounds

LEMMA FtPushKeeps ==
  ASSUME IInv, NEW p \in Proc, FtPush(p)
  PROVE  IInv'
<1>1. pc[p] = "ft_push" /\ JobInv("ft_push", job[p])
  BY DEF FtPush, At, IInv, HandlersOK
<1>2. Moves(p)
  BY <1>1, GotoMoves, SetMoves, ReplyMoves DEF FtPush, JobInv, SessionLabels, SandboxLabels, TicketLabels, ReleaseLabels, Labels, Job, Fulfilled
<1>3. queue' \in Seq(TicketIds)
  BY <1>1 DEF FtPush, IInv, TypeOK, JobInv, TicketLabels
<1>4. offset' \in 0..Len(topic) /\ (pc'[Consumer] # "idle" => offset' < Len(topic))
  BY <1>1, <1>2, ReplyMoves DEF FtPush, Fulfilled, Goto, Reply, Moves, IInv, TypeOK, ConsumerOK, Proc
<1> QED
  BY <1>1, <1>2, <1>3, <1>4 DEF FtPush, At, IInv, TypeOK, ConsumerOK, SlotBound, Moves, store, log, world, bounds

LEMMA FtReadyKeeps ==
  ASSUME IInv, NEW p \in Proc, FtReady(p)
  PROVE  IInv'
<1>1. pc[p] = "ft_ready" /\ JobInv("ft_ready", job[p])
  BY DEF FtReady, At, IInv, HandlersOK
<1>2. Moves(p)
  BY <1>1, GotoMoves, SetMoves, ReplyMoves DEF FtReady, JobInv, SessionLabels, SandboxLabels, TicketLabels, ReleaseLabels, Labels, Job, Fulfilled
<1>3. tickets' \in [TicketIds -> Ticket \cup {None}]
  BY <1>1 DEF FtReady, WriteTicket, Ticket, IInv, TypeOK, JobInv, SessionLabels, TicketLabels, SandboxLabels, Labels
<1>4. offset' \in 0..Len(topic) /\ (pc'[Consumer] # "idle" => offset' < Len(topic))
  BY <1>1, <1>2, ReplyMoves DEF FtReady, Fulfilled, Goto, Reply, Moves, IInv, TypeOK, ConsumerOK, Proc
<1> QED
  BY <1>1, <1>2, <1>3, <1>4 DEF FtReady, At, IInv, TypeOK, ConsumerOK, SlotBound, Moves, store, log, world, bounds

LEMMA FtUndoKeeps ==
  ASSUME IInv, NEW p \in Proc, FtUndo(p)
  PROVE  IInv'
<1>1. pc[p] = "ft_undo" /\ JobInv("ft_undo", job[p])
  BY DEF FtUndo, At, IInv, HandlersOK
<1>2. Moves(p)
  BY <1>1, GotoMoves DEF FtUndo, At, JobInv, SessionLabels, SandboxLabels, TicketLabels, ReleaseLabels, Labels
<1>3. activeCount' \in 0..MaxConcurrency
  BY ConfigAssumption DEF FtUndo, GiveSlot, SlotFree, IInv, SlotBound
<1> QED
  BY <1>1, <1>2, <1>3 DEF FtUndo, At, IInv, TypeOK, ConsumerOK, SlotBound, Moves, store, log, world, bounds

LEMMA FtFailKeeps ==
  ASSUME IInv, NEW p \in Proc, FtFail(p)
  PROVE  IInv'
<1>1. pc[p] = "ft_fail" /\ JobInv("ft_fail", job[p])
  BY DEF FtFail, At, IInv, HandlersOK
<1>2. Moves(p)
  BY <1>1, GotoMoves, SetMoves, ReplyMoves DEF FtFail, JobInv, SessionLabels, SandboxLabels, TicketLabels, ReleaseLabels, Labels, Job, FulfilThrows
<1>3. tickets' \in [TicketIds -> Ticket \cup {None}]
  BY <1>1 DEF FtFail, WriteTicket, Ticket, IInv, TypeOK, JobInv, SessionLabels, TicketLabels, SandboxLabels, Labels
<1> QED
  BY <1>1, <1>2, <1>3 DEF FtFail, At, IInv, TypeOK, ConsumerOK, SlotBound, Moves, store, log, world, bounds

-----------------------------------------------------------------------------
(* heartbeat, the sweep, calls of clients and the environment *)

LEMMA HbSaveKeeps ==
  ASSUME IInv, NEW p \in Proc, HbSave(p)
  PROVE  IInv'
<1>1. pc[p] = "hb_save" /\ JobInv("hb_save", job[p])
  BY DEF HbSave, At, IInv, HandlersOK
<1>2. Moves(p)
  BY <1>1, GotoMoves, SetMoves, ReplyMoves DEF HbSave, JobInv, SessionLabels, SandboxLabels, TicketLabels, ReleaseLabels, Labels, Job
<1>3. leases' \in [Sessions -> Lease \cup {None}]
  BY <1>1 DEF HbSave, LeaseOf, Lease, IInv, TypeOK, JobInv, SessionLabels, SandboxLabels, Labels
<1> QED
  BY <1>1, <1>2, <1>3 DEF HbSave, At, IInv, TypeOK, ConsumerOK, SlotBound, Moves, store, log, world, bounds

LEMMA SwMgetKeeps ==
  ASSUME IInv, NEW p \in Proc, SwMget(p)
  PROVE  IInv'
<1>1. pc[p] = "sw_mget" /\ JobInv("sw_mget", job[p])
  BY DEF SwMget, At, IInv, HandlersOK
<1>a. JobInv("sw_next", [NoJob EXCEPT !.todo = TooOld(p)])
  BY NoJobInv DEF JobInv, SessionLabels, SandboxLabels, TicketLabels, ReleaseLabels, Labels, Job, TooOld, Leased
<1>2. Moves(p)
  BY <1>a, SetMoves, ReplyMoves DEF SwMget, Labels
<1> QED
  BY <1>1, <1>2 DEF SwMget, At, IInv, TypeOK, ConsumerOK, SlotBound, Moves, store, log, world, bounds

LEMMA SwNextKeeps ==
  ASSUME IInv, NEW p \in Proc, SwNext(p)
  PROVE  IInv'
<1>1. pc[p] = "sw_next" /\ JobInv("sw_next", job[p])
  BY DEF SwNext, IInv, HandlersOK
<1>2. PICK s \in job[p].todo :
        LET rest == [NoJob EXCEPT !.todo = job[p].todo \ {s}] IN
        \/ BeginRelease(p, s, "idle", rest)
        \/ /\ leases[s] = None
           /\ IF rest.todo = {} THEN Reply(p) ELSE Set(p, rest) /\ UNCHANGED pc
  BY DEF SwNext
<1> DEFINE rest == [NoJob EXCEPT !.todo = job[p].todo \ {s}]
<1>3. s \in Sessions /\ rest \in Job
  BY <1>1, NoJobInv DEF JobInv, Job
<1>4. Moves(p)
  <2>1. CASE BeginRelease(p, s, "idle", rest)
    BY <1>3, <2>1, BeginReleaseMoves
  <2>2. CASE Reply(p)
    BY <2>2, ReplyMoves
  <2>3. CASE Set(p, rest) /\ UNCHANGED pc
    <3>1. JobInv("sw_next", rest)
      BY <1>3 DEF JobInv, SessionLabels, SandboxLabels, TicketLabels, ReleaseLabels, Labels
    <3>2. Goto(p, "sw_next")
      BY <1>1, <2>3 DEF Goto, IInv, TypeOK
    <3> QED
      BY <2>3, <3>1, <3>2, SetMoves DEF Labels
  <2> QED
    BY <1>2, <2>1, <2>2, <2>3
<1> QED
  BY <1>1, <1>4 DEF SwNext, IInv, TypeOK, ConsumerOK, SlotBound, Moves, store, log, world, bounds

LEMMA SwKeysKeeps ==
  ASSUME IInv, NEW p \in Sweepers, SwKeys(p)
  PROVE  IInv'
<1>1. p \in Proc /\ p # Consumer
  BY NamesAssumption DEF Proc
<1>2. JobInv("sw_mget", [NoJob EXCEPT !.seen = Leased])
  BY NoJobInv DEF JobInv, SessionLabels, SandboxLabels, TicketLabels, ReleaseLabels, Labels, Job, Leased
<1>3. Moves(p)
  BY <1>1, <1>2, SetMoves DEF SwKeys, At, Labels
<1> QED
  BY <1>1, <1>3 DEF SwKeys, At, IInv, TypeOK, ConsumerOK, SlotBound, Moves, store, log, world, bounds

LEMMA ConsumeKeeps ==
  ASSUME IInv, Consume
  PROVE  IInv'
<1>1. Consumer \in Proc /\ topic[offset + 1] \in TicketIds
  BY DEF Proc, Consume, IInv, TypeOK
<1>2. JobInv("ft_claim", [NoJob EXCEPT !.t = topic[offset + 1]])
  BY <1>1, NoJobInv DEF JobInv, SessionLabels, SandboxLabels, TicketLabels, ReleaseLabels, Labels, Job
<1>3. Moves(Consumer)
  BY <1>1, <1>2, SetMoves DEF Consume, At, Labels
<1> QED
  BY <1>1, <1>3 DEF Consume, At, IInv, TypeOK, ConsumerOK, SlotBound, Moves, store, log, world, bounds

\* A request either replies at once or starts a handler of its own.
LEMMA ClientCallKeeps ==
  ASSUME IInv, NEW p \in Workers, NEW s \in Sessions, ClientCall(p, s)
  PROVE  IInv'
<1>1. p \in Proc /\ p # Consumer
  BY NamesAssumption DEF Proc
<1>2. issued' \in Nat /\ UNCHANGED <<store, log, world, faults>>
  <2>1. issued' = issued + 1 /\ UNCHANGED <<store, log, world, faults>>
    BY DEF ClientCall, Acquire, Release, Heartbeat, Request
  <2> QED
    BY <2>1 DEF IInv, TypeOK
<1>3. (UNCHANGED <<pc, job>>) \/ Moves(p)
  <2>1. ASSUME NEW mode \in ModesOf[s], Acquire(p, s, mode)
        PROVE  (UNCHANGED <<pc, job>>) \/ Moves(p)
    <3>1. mode \in Modes
      BY NamesAssumption
    <3>2. ASSUME NEW l \in {"acq_slot", "acq_attach"}
          PROVE  JobInv(l, [NoJob EXCEPT !.client = s, !.s = s, !.mode = mode])
      BY <3>1, NoJobInv DEF JobInv, SessionLabels, SandboxLabels, TicketLabels, ReleaseLabels, Labels, Job
    <3> QED
      BY <1>1, <2>1, <3>2, SetMoves DEF Acquire, Labels
  <2>2. ASSUME NEW reason \in Reasons, Release(p, s, reason)
        PROVE  (UNCHANGED <<pc, job>>) \/ Moves(p)
    <3>1. [NoJob EXCEPT !.client = s] \in Job
      BY NoJobInv DEF Job
    <3>2. reason \in {"idle", "deleted"}
      BY ConfigAssumption
    <3> QED
      BY <1>1, <2>2, <3>1, <3>2, BeginReleaseMoves DEF Release
  <2>3. ASSUME Heartbeat(p, s)
        PROVE  (UNCHANGED <<pc, job>>) \/ Moves(p)
    <3>1. leases[s] # None =>
            JobInv("hb_save", [NoJob EXCEPT !.client = s, !.s = s,
                                            !.mode = leases[s].mode, !.sb = leases[s].sb])
      BY NoJobInv DEF IInv, TypeOK, Lease, JobInv, SessionLabels, SandboxLabels, TicketLabels, ReleaseLabels, Labels, Job
    <3> QED
      BY <1>1, <2>3, <3>1, SetMoves DEF Heartbeat, Labels
  <2> QED
    BY <2>1, <2>2, <2>3 DEF ClientCall
<1> QED
  BY <1>1, <1>2, <1>3 DEF IInv, TypeOK, HandlersOK, ConsumerOK, SlotBound, Moves, store, log, world

LEMMA ExecKeeps ==
  ASSUME IInv, NEW p \in Proc, SandboxCall(p)
  PROVE  IInv'
<1>1. sandbox' \in [SandboxIds -> {"absent", "started", "stopped", "deleted"}]
      /\ faults' \in Nat /\ issued' \in Nat
  BY DEF SandboxCall, Exec, Provider, ProviderFails, Fault, IInv, TypeOK
<1> QED
  BY <1>1 DEF SandboxCall, Exec, IInv, TypeOK, HandlersOK, ConsumerOK, SlotBound, store, log

LEMMA ExpireKeeps ==
  ASSUME IInv, NEW s \in Sessions, Expire(s)
  PROVE  IInv'
<1>1. [leases[s] EXCEPT !.fresh = FALSE] \in Lease
  BY DEF Expire, IInv, TypeOK, Lease
<1>2. leases' \in [Sessions -> Lease \cup {None}]
  BY <1>1 DEF Expire, IInv, TypeOK
<1> QED
  BY <1>2 DEF Expire, IInv, TypeOK, HandlersOK, ConsumerOK, SlotBound, log, world, bounds

LEMMA CrashKeeps ==
  ASSUME IInv, Crash
  PROVE  IInv'
<1>1. /\ pc' = [p \in Proc |-> "idle"] /\ job' = [p \in Proc |-> NoJob]
      /\ faults' = faults + 1
      /\ UNCHANGED <<store, topic, world, issued>>
  BY DEF Crash, Fault
<1>2. offset' \in 0..Len(topic)
  <2>1. PICK committed \in 0..offset :
          offset' = IF committed = 0 THEN Len(topic) ELSE committed
    BY DEF Crash
  <2>2. offset \in 0..Len(topic) /\ Len(topic) \in Nat
    BY DEF IInv, TypeOK
  <2> QED
    BY <2>1, <2>2
<1>3. pc' \in [Proc -> Labels] /\ job' \in [Proc -> Job] /\ HandlersOK' /\ pc'[Consumer] = "idle"
  BY <1>1, NoJobInv DEF HandlersOK, Labels, Proc
<1> QED
  BY <1>1, <1>2, <1>3 DEF IInv, TypeOK, ConsumerOK, SlotBound, store, world

-----------------------------------------------------------------------------
(* The inductive invariant *)

LEMMA InitIInv == Init => IInv
<1> SUFFICES ASSUME Init PROVE IInv
  OBVIOUS
<1>1. HandlersOK
  BY NoJobInv DEF Init, HandlersOK
<1>2. TypeOK
  BY NoJobInv, NamesAssumption, ConfigAssumption DEF Init, TypeOK, Labels
<1>3. ConsumerOK /\ SlotBound
  BY ConfigAssumption DEF Init, ConsumerOK, SlotBound, Proc
<1> QED
  BY <1>1, <1>2, <1>3 DEF IInv

LEMMA StepKeeps ==
  ASSUME IInv, NEW p \in Proc, Step(p)
  PROVE  IInv'
<1>1. CASE \/ AcqAttach(p) \/ AcqSlot(p) \/ AcqUndo(p)
           \/ EnqSet(p) \/ EnqPush(p) \/ EnqPublish(p)
  BY <1>1, AcqAttachKeeps, AcqSlotKeeps, AcqUndoKeeps, EnqSetKeeps, EnqPushKeeps, EnqPublishKeeps
<1>2. CASE \/ ClLookup(p) \/ ClStart(p) \/ ClForget(p) \/ ClForgetOwner(p) \/ ClCreate(p)
           \/ ClBind(p) \/ ClWorkDir(p) \/ ClUserDir(p) \/ ClSave(p)
  BY <1>2, ClLookupKeeps, ClStartKeeps, ClForgetKeeps, ClForgetOwnerKeeps, ClCreateKeeps,
     ClBindKeeps, ClWorkDirKeeps, ClUserDirKeeps, ClSaveKeeps
<1>3. CASE \/ RelDelete(p) \/ RelKeys(p) \/ RelMget(p) \/ RelStop(p) \/ RelKeep(p) \/ RelKill(p)
           \/ RelUnbind(p) \/ RelOwner(p) \/ RelUnbindOwner(p) \/ RelClear(p) \/ RelSlot(p)
  BY <1>3, RelDeleteKeeps, RelKeysKeeps, RelMgetKeeps, RelStopKeeps, RelKeepKeeps, RelKillKeeps,
     RelUnbindKeeps, RelOwnerKeeps, RelUnbindOwnerKeeps, RelClearKeeps, RelSlotKeeps
<1>4. CASE \/ PqPop(p) \/ PqMore(p)
           \/ FtClaim(p) \/ FtSlot(p) \/ FtReset(p) \/ FtRequeue(p) \/ FtPush(p)
           \/ FtReady(p) \/ FtUndo(p) \/ FtFail(p)
  BY <1>4, PqPopKeeps, PqMoreKeeps, FtClaimKeeps, FtSlotKeeps, FtResetKeeps, FtRequeueKeeps,
     FtPushKeeps, FtReadyKeeps, FtUndoKeeps, FtFailKeeps
<1>5. CASE HbSave(p) \/ SwMget(p) \/ SwNext(p)
  BY <1>5, HbSaveKeeps, SwMgetKeeps, SwNextKeeps
<1> QED
  BY <1>1, <1>2, <1>3, <1>4, <1>5 DEF Step

LEMMA NextIInv == IInv /\ [Next]_vars => IInv'
<1> SUFFICES ASSUME IInv, [Next]_vars PROVE IInv'
  OBVIOUS
<1>1. CASE UNCHANGED vars
  BY <1>1 DEF IInv, TypeOK, HandlersOK, ConsumerOK, SlotBound, vars, store, log, world, bounds
<1>2. ASSUME NEW p \in Workers, NEW s \in Sessions, ClientCall(p, s) PROVE IInv'
  BY <1>2, ClientCallKeeps
<1>3. ASSUME NEW p \in Sweepers, SwKeys(p) PROVE IInv'
  BY <1>3, SwKeysKeeps
<1>4. CASE Consume
  BY <1>4, ConsumeKeeps
<1>5. ASSUME NEW p \in Proc, Step(p) PROVE IInv'
  BY <1>5, StepKeeps
<1>6. ASSUME NEW s \in Sessions, Expire(s) PROVE IInv'
  BY <1>6, ExpireKeeps
<1>7. CASE Crash
  BY <1>7, CrashKeeps
<1>8. ASSUME NEW p \in Workers, SandboxCall(p) PROVE IInv'
  BY <1>8, ExecKeeps DEF Proc
<1> QED
  BY <1>1, <1>2, <1>3, <1>4, <1>5, <1>6, <1>7, <1>8 DEF Next, AwaitCalls

LEMMA Invariance == Spec => []IInv
BY InitIInv, NextIInv, PTL DEF Spec

\* Every step of every handler, fault and restart keeps Redis, Kafka, the
\* provider and the handlers' variables within their types.
THEOREM TypeCorrect == Spec => []TypeOK
<1>1. IInv => TypeOK
  BY DEF IInv
<1> QED
  BY <1>1, Invariance, PTL

\* The two Lua scripts keep the slot counter within 0..MaxConcurrency for any
\* number of sessions, handlers, faults and restarts.
THEOREM SlotsBounded == Spec => []SlotBound
<1>1. IInv => SlotBound
  BY DEF IInv
<1> QED
  BY <1>1, Invariance, PTL

-----------------------------------------------------------------------------
(* What a step of a handler leaves to the others *)

\* A handler keeps its client until it is done, and releases for its client's
\* reason or because a lease is idle.
Follows(j, i) == j.client \in {i.client, None} /\ j.reason \in {i.reason, "idle", None}

\* Only p's variables change.
Own(p) ==
  /\ \A q \in Proc \ {p} : pc'[q] = pc[q] /\ job'[q] = job[q]
  /\ pc[p] # "idle" /\ Follows(job'[p], job[p])

LEMMA GotoOwn ==
  ASSUME IInv, NEW p \in Proc, pc[p] # "idle", NEW l, Goto(p, l), UNCHANGED job
  PROVE  Own(p)
BY DEF IInv, TypeOK, Own, Goto, Follows

LEMMA SetOwn ==
  ASSUME IInv, NEW p \in Proc, pc[p] # "idle", NEW l, NEW j, Goto(p, l), Set(p, j), Follows(j, job[p])
  PROVE  Own(p)
BY DEF IInv, TypeOK, Own, Goto, Set

LEMMA ReplyOwn ==
  ASSUME IInv, NEW p \in Proc, pc[p] # "idle", Reply(p)
  PROVE  Own(p)
BY SetOwn DEF Reply, NoJob, Follows

LEMMA EndsOwn ==
  ASSUME IInv, NEW p \in Proc, pc[p] # "idle",
         Released(p) \/ LeaseFailed(p) \/ LeaseMade(p) \/ Fulfilled(p) \/ FulfilThrows(p)
  PROVE  Own(p)
<1>1. Released(p) => Own(p)
  BY ReplyOwn, SetOwn DEF Released, NoJob, Follows
<1> QED
  BY <1>1, ReplyOwn, GotoOwn DEF LeaseFailed, LeaseMade, Fulfilled, FulfilThrows

LEMMA StepOwn ==
  ASSUME IInv, NEW p \in Proc, Step(p)
  PROVE  Own(p)
<1>1. job[p] \in Job
  BY DEF IInv, TypeOK
<1>2. CASE AcqAttach(p) \/ AcqSlot(p) \/ AcqUndo(p) \/ EnqSet(p) \/ EnqPush(p) \/ EnqPublish(p)
  BY <1>1, <1>2, GotoOwn, SetOwn, ReplyOwn DEF AcqAttach, AcqSlot, AcqUndo, EnqSet, EnqPush, EnqPublish, At, Job, Follows
<1>3. CASE ClLookup(p) \/ ClStart(p) \/ ClForget(p) \/ ClForgetOwner(p) \/ ClCreate(p)
  BY <1>1, <1>3, GotoOwn, SetOwn, EndsOwn DEF ClLookup, ClStart, ClForget, ClForgetOwner, ClCreate, At, Job, Follows
<1>4. CASE ClBind(p) \/ ClWorkDir(p) \/ ClUserDir(p) \/ ClSave(p)
  BY <1>4, GotoOwn, EndsOwn DEF ClBind, ClWorkDir, ClUserDir, ClSave, MakeDir, At
<1>5. CASE RelDelete(p) \/ RelKeys(p) \/ RelMget(p) \/ RelStop(p) \/ RelKeep(p) \/ RelKill(p)
  BY <1>1, <1>5, GotoOwn, SetOwn, ReplyOwn DEF RelDelete, RelKeys, RelMget, RelStop, RelKeep, RelKill, Dispose, At, Job, Follows
<1>6. CASE RelUnbind(p) \/ RelOwner(p) \/ RelUnbindOwner(p) \/ RelClear(p) \/ RelSlot(p)
  BY <1>6, GotoOwn DEF RelUnbind, RelOwner, RelUnbindOwner, RelClear, RelSlot, At
<1>7. CASE PqPop(p) \/ PqMore(p)
  BY <1>1, <1>7, GotoOwn, SetOwn, EndsOwn DEF PqPop, PqMore, Job, Follows
<1>8. CASE FtClaim(p)
  <2> DEFINE j == [job[p] EXCEPT !.s = tickets[job[p].t].session, !.mode = tickets[job[p].t].mode, !.sb = None]
  <2>1. Follows(j, job[p])
    BY <1>1 DEF Job, Follows
  <2>2. pc[p] # "idle" /\ ((Goto(p, "ft_slot") /\ Set(p, j)) \/ Fulfilled(p))
    BY <1>8 DEF FtClaim
  <2> HIDE DEF j
  <2> QED
    BY <2>1, <2>2, SetOwn, EndsOwn
<1>9. CASE FtSlot(p) \/ FtReset(p) \/ FtRequeue(p) \/ FtPush(p) \/ FtReady(p) \/ FtUndo(p) \/ FtFail(p)
  BY <1>1, <1>9, GotoOwn, SetOwn, EndsOwn DEF FtSlot, FtReset, FtRequeue, FtPush, FtReady, FtUndo, FtFail, At, Job, Follows
<1>10. CASE HbSave(p) \/ SwMget(p)
  BY <1>10, SetOwn, ReplyOwn DEF HbSave, SwMget, NoJob, Follows
<1>11. CASE SwNext(p)
  <2>1. PICK s \in job[p].todo :
          \/ BeginRelease(p, s, "idle", [NoJob EXCEPT !.todo = job[p].todo \ {s}])
          \/ Reply(p)
          \/ Set(p, [NoJob EXCEPT !.todo = job[p].todo \ {s}]) /\ UNCHANGED pc
    BY <1>11 DEF SwNext
  <2> DEFINE r == [NoJob EXCEPT !.todo = job[p].todo \ {s}]
             j == [r EXCEPT !.s = s, !.mode = leases[s].mode, !.sb = leases[s].sb, !.reason = "idle"]
  <2>2. Follows(j, job[p]) /\ Follows(r, job[p])
    BY DEF NoJob, Follows
  <2>3. BeginRelease(p, s, "idle", r) => Goto(p, "rel_delete") /\ Set(p, j)
    BY DEF BeginRelease
  <2> HIDE DEF j, r
  <2>4. CASE Set(p, r) /\ UNCHANGED pc
    BY <1>11, <2>2, <2>4 DEF SwNext, Set, Own, IInv, TypeOK
  <2> QED
    BY <1>11, <2>1, <2>2, <2>3, <2>4, SetOwn, ReplyOwn DEF SwNext, r
<1> QED
  BY <1>2, <1>3, <1>4, <1>5, <1>6, <1>7, <1>8, <1>9, <1>10, <1>11 DEF Step
=============================================================================
