-------------------------- MODULE BrokerIsolation --------------------------
(***************************************************************************)
(* Proofs about what names a sandbox: sandboxes are not shared across      *)
(* owners, for every number of sessions, handlers, faults and restarts,    *)
(* when each session keeps to one mode; and no mapping to a deleted        *)
(* sandbox stays behind, in any mode and for any requests, as long as no   *)
(* release breaks off in its middle.                                       *)
(***************************************************************************)
EXTENDS BrokerProofs

-----------------------------------------------------------------------------
(* A step that goes on with the same work *)

\* The session, mode and sandbox of p's work are those it had before.
SameWork(p) ==
  /\ \A q \in Proc \ {p} : pc'[q] = pc[q] /\ job'[q] = job[q]
  /\ pc'[p] \in SessionLabels =>
       pc[p] \in SessionLabels /\ job'[p].s = job[p].s /\ job'[p].mode = job[p].mode
  /\ pc'[p] \in SandboxLabels => pc[p] \in SandboxLabels /\ job'[p].sb = job[p].sb

LEMMA SandboxIsSession == SandboxLabels \subseteq SessionLabels
BY DEF SandboxLabels, SessionLabels, ReleaseLabels, Labels

LEMMA SameGoto ==
  ASSUME IInv, NEW p \in Proc, NEW l, Goto(p, l), UNCHANGED job,
         l \in SessionLabels => pc[p] \in SessionLabels,
         l \in SandboxLabels => pc[p] \in SandboxLabels
  PROVE  SameWork(p)
BY DEF IInv, TypeOK, SameWork, Goto

LEMMA SameSet ==
  ASSUME IInv, NEW p \in Proc, NEW l, NEW j, Goto(p, l), Set(p, j),
         l \in SessionLabels => pc[p] \in SessionLabels /\ j.s = job[p].s /\ j.mode = job[p].mode,
         l \in SandboxLabels => pc[p] \in SandboxLabels /\ j.sb = job[p].sb
  PROVE  SameWork(p)
BY DEF IInv, TypeOK, SameWork, Goto, Set

LEMMA SameReply ==
  ASSUME IInv, NEW p \in Proc, Reply(p)
  PROVE  SameWork(p)
BY SameSet, SandboxIsSession DEF Reply, SessionLabels

LEMMA SameReleased ==
  ASSUME IInv, NEW p \in Proc, Released(p)
  PROVE  SameWork(p)
BY SameReply, SameSet, SandboxIsSession DEF Released, SessionLabels

LEMMA SameLeaseFailed ==
  ASSUME IInv, NEW p \in Proc, pc[p] \in SessionLabels, LeaseFailed(p)
  PROVE  SameWork(p)
BY SameReply, SameGoto DEF LeaseFailed, SandboxLabels, ReleaseLabels

LEMMA SameWorkKeeps ==
  ASSUME IInv, OInv, NEW p \in Proc, SameWork(p), UNCHANGED owner
  PROVE  WorkOK'
BY SandboxIsSession DEF OInv, WorkOK, SameWork, Owned

-----------------------------------------------------------------------------
(* The parts of the invariant that a step leaves alone *)

LEMMA LeasesSame ==
  ASSUME OInv, UNCHANGED <<leases, owner>>
  PROVE  LeasesOK'
BY DEF OInv, LeasesOK, Owned

LEMMA TicketsSame ==
  ASSUME OInv, UNCHANGED <<tickets, owner>>
  PROVE  TicketsOK'
BY DEF OInv, TicketsOK, Owned

LEMMA KnownSame ==
  ASSUME OInv, UNCHANGED owner,
         \A id \in SandboxIds : sandbox[id] # "absent" => sandbox'[id] # "absent"
  PROVE  KnownOK'
BY DEF OInv, KnownOK

LEMMA BoundLess ==
  ASSUME OInv, UNCHANGED owner, \A k \in Keys : bound'[k] \in {None, bound[k]}
  PROVE  BoundOK'
BY OwnerKeyIsKey DEF OInv, BoundOK, Owned

LEMMA SmallStep ==
  ASSUME IInv, OInv, NEW p \in Proc, SameWork(p), UNCHANGED <<leases, tickets, owner>>,
         \A k \in Keys : bound'[k] \in {None, bound[k]},
         \A id \in SandboxIds : sandbox[id] # "absent" => sandbox'[id] # "absent"
  PROVE  OInv'
BY LeasesSame, TicketsSame, KnownSame, BoundLess, SameWorkKeeps DEF OInv

-----------------------------------------------------------------------------
(* Steps that pass sandboxes on as they are, or forget them *)

LEMMA JobTyped ==
  ASSUME IInv, NEW p \in Proc
  PROVE  job[p] \in Job
BY DEF IInv, TypeOK

LEMMA AcqAttachOwned ==
  ASSUME IInv, OInv, NEW p \in Proc, AcqAttach(p)
  PROVE  OInv'
<1>1. SameWork(p)
  BY SameGoto DEF AcqAttach, At, SessionLabels, SandboxLabels, ReleaseLabels, Labels
<1> QED
  BY <1>1, SmallStep DEF AcqAttach, store, log, world, bounds

LEMMA AcqSlotOwned ==
  ASSUME IInv, OInv, NEW p \in Proc, AcqSlot(p)
  PROVE  OInv'
<1>1. SameWork(p)
  BY SameGoto, SameSet, JobTyped DEF AcqSlot, At, Job, SessionLabels, SandboxLabels, ReleaseLabels, Labels
<1> QED
  BY <1>1, SmallStep DEF AcqSlot, store, log, world, bounds

LEMMA AcqUndoOwned ==
  ASSUME IInv, OInv, NEW p \in Proc, AcqUndo(p)
  PROVE  OInv'
<1>1. SameWork(p)
  BY SameReply DEF AcqUndo, At, SessionLabels, SandboxLabels, ReleaseLabels, Labels
<1> QED
  BY <1>1, SmallStep DEF AcqUndo, store, log, world, bounds

LEMMA EnqPushOwned ==
  ASSUME IInv, OInv, NEW p \in Proc, EnqPush(p)
  PROVE  OInv'
<1>1. SameWork(p)
  BY SameGoto DEF EnqPush, At, SessionLabels, SandboxLabels, ReleaseLabels, Labels
<1> QED
  BY <1>1, SmallStep DEF EnqPush, store, log, world, bounds

LEMMA EnqPublishOwned ==
  ASSUME IInv, OInv, NEW p \in Proc, EnqPublish(p)
  PROVE  OInv'
<1>1. SameWork(p)
  BY SameReply DEF EnqPublish, At, SessionLabels, SandboxLabels, ReleaseLabels, Labels
<1> QED
  BY <1>1, SmallStep DEF EnqPublish, store, log, world, bounds

LEMMA ClStartOwned ==
  ASSUME IInv, OInv, NEW p \in Proc, ClStart(p)
  PROVE  OInv'
<1>1. SameWork(p)
  BY SameGoto, SameSet, JobTyped DEF ClStart, At, Job, SessionLabels, SandboxLabels, ReleaseLabels, Labels
<1> QED
  BY <1>1, SmallStep DEF ClStart, At, Provider, ProviderFails, Fault, IInv, TypeOK, store, log, world, bounds

LEMMA ClForgetOwned ==
  ASSUME IInv, OInv, NEW p \in Proc, ClForget(p)
  PROVE  OInv'
<1>1. SameWork(p)
  BY SameGoto DEF ClForget, At, SessionLabels, SandboxLabels, ReleaseLabels, Labels
<1> QED
  BY <1>1, SmallStep DEF ClForget, At, IInv, TypeOK, store, log, world, bounds

LEMMA ClForgetOwnerOwned ==
  ASSUME IInv, OInv, NEW p \in Proc, ClForgetOwner(p)
  PROVE  OInv'
<1>1. SameWork(p)
  BY SameGoto DEF ClForgetOwner, At, SessionLabels, SandboxLabels, ReleaseLabels, Labels
<1> QED
  BY <1>1, SmallStep DEF ClForgetOwner, At, IInv, TypeOK, store, log, world, bounds

LEMMA ClWorkDirOwned ==
  ASSUME IInv, OInv, NEW p \in Proc, ClWorkDir(p)
  PROVE  OInv'
<1>1. SameWork(p)
  BY SameGoto, SameLeaseFailed DEF ClWorkDir, MakeDir, SessionLabels, SandboxLabels, ReleaseLabels, Labels
<1> QED
  BY <1>1, SmallStep DEF ClWorkDir, MakeDir, Provider, ProviderFails, Fault, IInv, TypeOK, store, log, world, bounds

LEMMA ClUserDirOwned ==
  ASSUME IInv, OInv, NEW p \in Proc, ClUserDir(p)
  PROVE  OInv'
<1>1. SameWork(p)
  BY SameGoto, SameLeaseFailed DEF ClUserDir, MakeDir, SessionLabels, SandboxLabels, ReleaseLabels, Labels
<1> QED
  BY <1>1, SmallStep DEF ClUserDir, MakeDir, Provider, ProviderFails, Fault, IInv, TypeOK, store, log, world, bounds

LEMMA RelKeysOwned ==
  ASSUME IInv, OInv, NEW p \in Proc, RelKeys(p)
  PROVE  OInv'
<1>1. SameWork(p)
  BY SameSet, JobTyped DEF RelKeys, At, Disposal, Job, SessionLabels, SandboxLabels, ReleaseLabels, Labels
<1> QED
  BY <1>1, SmallStep DEF RelKeys, store, log, world, bounds

LEMMA RelMgetOwned ==
  ASSUME IInv, OInv, NEW p \in Proc, RelMget(p)
  PROVE  OInv'
<1>1. SameWork(p)
  BY SameSet, JobTyped DEF RelMget, At, Disposal, Job, SessionLabels, SandboxLabels, ReleaseLabels, Labels
<1> QED
  BY <1>1, SmallStep DEF RelMget, store, log, world, bounds

LEMMA RelStopOwned ==
  ASSUME IInv, OInv, NEW p \in Proc, RelStop(p)
  PROVE  OInv'
<1>1. SameWork(p)
  BY SameGoto, SameReply DEF RelStop, Dispose, SessionLabels, SandboxLabels, ReleaseLabels, Labels
<1> QED
  BY <1>1, SmallStep DEF RelStop, Dispose, Provider, ProviderFails, Fault, IInv, TypeOK, store, log, world, bounds

LEMMA RelKillOwned ==
  ASSUME IInv, OInv, NEW p \in Proc, RelKill(p)
  PROVE  OInv'
<1>1. SameWork(p)
  BY SameGoto, SameReply DEF RelKill, At, Dispose, SessionLabels, SandboxLabels, ReleaseLabels, Labels
<1> QED
  BY <1>1, SmallStep DEF RelKill, At, Dispose, Provider, ProviderFails, Fault, IInv, TypeOK, store, log, world, bounds

LEMMA RelUnbindOwned ==
  ASSUME IInv, OInv, NEW p \in Proc, RelUnbind(p)
  PROVE  OInv'
<1>1. SameWork(p)
  BY SameGoto DEF RelUnbind, At, AfterUnbind, SessionLabels, SandboxLabels, ReleaseLabels, Labels
<1> QED
  BY <1>1, SmallStep DEF RelUnbind, At, IInv, TypeOK, store, log, world, bounds

LEMMA RelOwnerOwned ==
  ASSUME IInv, OInv, NEW p \in Proc, RelOwner(p)
  PROVE  OInv'
<1>1. SameWork(p)
  BY SameGoto DEF RelOwner, At, AfterUnbind, SessionLabels, SandboxLabels, ReleaseLabels, Labels
<1> QED
  BY <1>1, SmallStep DEF RelOwner, store, log, world, bounds

LEMMA RelUnbindOwnerOwned ==
  ASSUME IInv, OInv, NEW p \in Proc, RelUnbindOwner(p)
  PROVE  OInv'
<1>1. SameWork(p)
  BY SameGoto DEF RelUnbindOwner, At, AfterUnbind, SessionLabels, SandboxLabels, ReleaseLabels, Labels
<1> QED
  BY <1>1, SmallStep DEF RelUnbindOwner, At, IInv, TypeOK, store, log, world, bounds

LEMMA RelClearOwned ==
  ASSUME IInv, OInv, NEW p \in Proc, RelClear(p)
  PROVE  OInv'
<1>1. SameWork(p)
  BY SameGoto DEF RelClear, At, SessionLabels, SandboxLabels, ReleaseLabels, Labels
<1> QED
  BY <1>1, SmallStep DEF RelClear, At, IInv, TypeOK, store, log, world, bounds

LEMMA RelSlotOwned ==
  ASSUME IInv, OInv, NEW p \in Proc, RelSlot(p)
  PROVE  OInv'
<1>1. SameWork(p)
  BY SameGoto DEF RelSlot, At, SessionLabels, SandboxLabels, ReleaseLabels, Labels
<1> QED
  BY <1>1, SmallStep DEF RelSlot, store, log, world, bounds

LEMMA PqPopOwned ==
  ASSUME IInv, OInv, NEW p \in Proc, PqPop(p)
  PROVE  OInv'
<1>1. SameWork(p)
  BY SameReleased, SameSet DEF PqPop, At, SessionLabels, SandboxLabels, ReleaseLabels, Labels
<1> QED
  BY <1>1, SmallStep DEF PqPop, store, log, world, bounds

LEMMA PqMoreOwned ==
  ASSUME IInv, OInv, NEW p \in Proc, PqMore(p)
  PROVE  OInv'
<1>1. SameWork(p)
  BY SameReleased, SameGoto DEF PqMore, At, SessionLabels, SandboxLabels, ReleaseLabels, Labels
<1> QED
  BY <1>1, SmallStep DEF PqMore, store, log, world, bounds

LEMMA FtSlotOwned ==
  ASSUME IInv, OInv, NEW p \in Proc, FtSlot(p)
  PROVE  OInv'
<1>1. SameWork(p)
  BY SameGoto, SameSet, JobTyped DEF FtSlot, At, Job, SessionLabels, SandboxLabels, ReleaseLabels, Labels
<1> QED
  BY <1>1, SmallStep DEF FtSlot, store, log, world, bounds

LEMMA FtPushOwned ==
  ASSUME IInv, OInv, NEW p \in Proc, FtPush(p)
  PROVE  OInv'
<1>1. SameWork(p)
  BY SameGoto, SameReply DEF FtPush, Fulfilled, SessionLabels, SandboxLabels, ReleaseLabels, Labels
<1> QED
  BY <1>1, SmallStep DEF FtPush, store, log, world, bounds

LEMMA FtUndoOwned ==
  ASSUME IInv, OInv, NEW p \in Proc, FtUndo(p)
  PROVE  OInv'
<1>1. SameWork(p)
  BY SameGoto DEF FtUndo, At, SessionLabels, SandboxLabels, ReleaseLabels, Labels
<1> QED
  BY <1>1, SmallStep DEF FtUndo, store, log, world, bounds

LEMMA SwMgetOwned ==
  ASSUME IInv, OInv, NEW p \in Proc, SwMget(p)
  PROVE  OInv'
<1>1. SameWork(p)
  BY SameReply, SameSet DEF SwMget, At, SessionLabels, SandboxLabels, ReleaseLabels, Labels
<1> QED
  BY <1>1, SmallStep DEF SwMget, store, log, world, bounds

LEMMA SwKeysOwned ==
  ASSUME IInv, OInv, NEW p \in Proc, SwKeys(p)
  PROVE  OInv'
<1>1. SameWork(p)
  BY SameSet DEF SwKeys, At, SessionLabels, SandboxLabels, ReleaseLabels, Labels
<1> QED
  BY <1>1, SmallStep DEF SwKeys, store, log, world, bounds

LEMMA ConsumeOwned ==
  ASSUME IInv, OInv, Consume
  PROVE  OInv'
<1>1. Consumer \in Proc
  BY DEF Proc
<1>2. SameWork(Consumer)
  BY <1>1, SameSet DEF Consume, At, SessionLabels, SandboxLabels, ReleaseLabels, Labels
<1> QED
  BY <1>1, <1>2, SmallStep DEF Consume, store, world

-----------------------------------------------------------------------------
(* Steps that take up a sandbox, a session or a ticket *)

\* The handler p goes on with new work: its session keeps to its modes, and
\* the sandbox it names was created for the session's key.
NewWork(p) ==
  /\ \A q \in Proc \ {p} : pc'[q] = pc[q] /\ job'[q] = job[q]
  /\ pc'[p] \in SessionLabels => job'[p].mode \in ModesOf[job'[p].s]
  /\ pc'[p] \in SandboxLabels =>
       job'[p].sb \in SandboxIds /\ owner'[job'[p].sb] = OwnerKey(job'[p].mode, job'[p].s)

LEMMA NewSet ==
  ASSUME IInv, NEW p \in Proc, NEW l, NEW j, Goto(p, l), Set(p, j), UNCHANGED owner,
         l \in SessionLabels => j.mode \in ModesOf[j.s],
         l \in SandboxLabels => Owned(j.sb, j.mode, j.s)
  PROVE  NewWork(p)
BY DEF IInv, TypeOK, NewWork, Goto, Set, Owned

LEMMA NewWorkKeeps ==
  ASSUME IInv, OInv, NEW p \in Proc, NewWork(p), UNCHANGED owner
  PROVE  WorkOK'
BY DEF OInv, WorkOK, NewWork, Owned

LEMMA NewStep ==
  ASSUME IInv, OInv, NEW p \in Proc, NewWork(p), UNCHANGED <<leases, tickets, bound, sandbox, owner>>
  PROVE  OInv'
BY LeasesSame, TicketsSame, KnownSame, BoundLess, NewWorkKeeps DEF OInv

\* What a handler knows of the work at hand.
LEMMA AtWork ==
  ASSUME IInv, OInv, NEW p \in Proc, pc[p] \in SessionLabels
  PROVE  /\ job[p] \in Job /\ job[p].s \in Sessions /\ job[p].mode \in Modes
         /\ job[p].mode \in ModesOf[job[p].s]
         /\ pc[p] \in SandboxLabels =>
              job[p].sb \in SandboxIds /\ owner[job[p].sb] = OwnerKey(job[p].mode, job[p].s)
BY DEF IInv, HandlersOK, JobInv, OInv, WorkOK, Owned

LEMMA EnqSetOwned ==
  ASSUME IInv, OInv, NEW p \in Proc, EnqSet(p)
  PROVE  OInv'
<1>1. pc[p] = "enq_set" /\ pc[p] \in SessionLabels
  BY DEF EnqSet, At, SessionLabels, SandboxLabels, ReleaseLabels, Labels
<1>2. PICK t \in TicketIds : /\ tickets' = [tickets EXCEPT ![t] = NewTicket(job[p])]
                             /\ Set(p, [job[p] EXCEPT !.t = t])
  BY DEF EnqSet, AnyOf
<1>3. SameWork(p)
  BY <1>1, <1>2, SameSet, JobTyped DEF EnqSet, At, Job, SessionLabels, SandboxLabels, ReleaseLabels, Labels
<1>4. TicketsOK'
  BY <1>1, <1>2, AtWork DEF EnqSet, NewTicket, OInv, TicketsOK, Owned, IInv, TypeOK, world
<1> QED
  BY <1>3, <1>4, LeasesSame, KnownSame, BoundLess, SameWorkKeeps DEF OInv, EnqSet, world

LEMMA ClLookupOwned ==
  ASSUME IInv, OInv, NEW p \in Proc, ClLookup(p)
  PROVE  OInv'
<1> DEFINE j == [job[p] EXCEPT !.sb = BoundSandbox(job[p])]
<1>1. pc[p] \in SessionLabels
  BY DEF ClLookup, At, SessionLabels, SandboxLabels, ReleaseLabels, Labels
<1>2. j.s = job[p].s /\ j.mode = job[p].mode /\ j.sb = BoundSandbox(job[p])
  BY JobTyped DEF Job
<1>3. BoundSandbox(job[p]) # None => Owned(j.sb, j.mode, j.s)
  BY <1>1, <1>2, AtWork DEF BoundSandbox, OInv, BoundOK
<1>4. NewWork(p)
  BY <1>1, <1>2, <1>3, AtWork, NewSet DEF ClLookup, At, world, SessionLabels, SandboxLabels, ReleaseLabels, Labels
<1> QED
  BY <1>4, NewStep DEF ClLookup, store, world

LEMMA BeginReleaseNew ==
  ASSUME IInv, OInv, NEW p \in Proc, NEW s \in Sessions, NEW reason, NEW j \in Job,
         BeginRelease(p, s, reason, j), UNCHANGED owner
  PROVE  NewWork(p)
<1>1. leases[s].mode \in ModesOf[s] /\ Owned(leases[s].sb, leases[s].mode, s)
  BY DEF BeginRelease, OInv, LeasesOK
<1> QED
  BY <1>1, NewSet DEF BeginRelease, Job

LEMMA AcquireOwned ==
  ASSUME IInv, OInv, NEW p \in Proc, NEW s \in Sessions, NEW mode \in ModesOf[s], Acquire(p, s, mode)
  PROVE  OInv'
<1>1. CASE UNCHANGED <<pc, job>>
  BY <1>1, LeasesSame, TicketsSame, KnownSame, BoundLess DEF OInv, WorkOK, Owned, Acquire, store, world
<1>2. CASE ~UNCHANGED <<pc, job>>
  <2>1. NewWork(p)
    BY <1>2, NewSet DEF Acquire, NoJob, world, SessionLabels, SandboxLabels, ReleaseLabels, Labels
  <2> QED
    BY <2>1, NewStep DEF Acquire, store, world
<1> QED
  BY <1>1, <1>2

LEMMA ReleaseOwned ==
  ASSUME IInv, OInv, NEW p \in Proc, NEW s \in Sessions, NEW reason, Release(p, s, reason)
  PROVE  OInv'
<1>1. CASE UNCHANGED <<pc, job>>
  BY <1>1, LeasesSame, TicketsSame, KnownSame, BoundLess DEF OInv, WorkOK, Owned, Release, store, world
<1>2. CASE BeginRelease(p, s, reason, [NoJob EXCEPT !.client = s])
  <2>1. [NoJob EXCEPT !.client = s] \in Job
    BY NoJobInv DEF Job
  <2>2. NewWork(p)
    BY <1>2, <2>1, BeginReleaseNew DEF Release, world
  <2> QED
    BY <2>2, NewStep DEF Release, store, world
<1> QED
  BY <1>1, <1>2 DEF Release

LEMMA HeartbeatOwned ==
  ASSUME IInv, OInv, NEW p \in Proc, NEW s \in Sessions, Heartbeat(p, s)
  PROVE  OInv'
<1>1. CASE UNCHANGED <<pc, job>>
  BY <1>1, LeasesSame, TicketsSame, KnownSame, BoundLess DEF OInv, WorkOK, Owned, Heartbeat, store, world
<1>2. CASE leases[s] # None
  <2>1. leases[s].mode \in ModesOf[s] /\ Owned(leases[s].sb, leases[s].mode, s)
    BY <1>2 DEF OInv, LeasesOK
  <2>2. NewWork(p)
    BY <1>2, <2>1, NewSet DEF Heartbeat, NoJob, world
  <2> QED
    BY <2>2, NewStep DEF Heartbeat, store, world
<1> QED
  BY <1>1, <1>2 DEF Heartbeat

LEMMA SwNextOwned ==
  ASSUME IInv, OInv, NEW p \in Proc, SwNext(p)
  PROVE  OInv'
<1>1. PICK s \in job[p].todo :
        LET rest == [NoJob EXCEPT !.todo = job[p].todo \ {s}] IN
        \/ BeginRelease(p, s, "idle", rest)
        \/ leases[s] = None /\ IF rest.todo = {} THEN Reply(p) ELSE Set(p, rest) /\ UNCHANGED pc
  BY DEF SwNext
<1> DEFINE rest == [NoJob EXCEPT !.todo = job[p].todo \ {s}]
<1>2. rest \in Job /\ s \in Sessions
  BY NoJobInv, JobTyped DEF Job
<1>3. CASE BeginRelease(p, s, "idle", rest)
  <2>1. NewWork(p)
    BY <1>2, <1>3, BeginReleaseNew DEF SwNext, world
  <2> QED
    BY <2>1, NewStep DEF SwNext, store, world
<1>4. CASE Reply(p)
  BY <1>4, SameReply, SmallStep DEF SwNext, store, world
<1>5. CASE Set(p, rest) /\ UNCHANGED pc
  <2>1. pc'[p] = "sw_next" /\ "sw_next" \notin SessionLabels /\ "sw_next" \notin SandboxLabels
    BY <1>5 DEF SwNext, SessionLabels, SandboxLabels, ReleaseLabels, Labels
  <2>2. SameWork(p)
    BY <1>5, <2>1 DEF SameWork, Set, IInv, TypeOK
  <2> QED
    BY <2>2, SmallStep DEF SwNext, store, world
<1> QED
  BY <1>1, <1>3, <1>4, <1>5

-----------------------------------------------------------------------------
(* Steps that write leases, mappings and tickets *)

LEMMA FreshIsNew ==
  ASSUME IInv, OInv, NEW id \in SandboxIds, sandbox[id] = "absent", NEW k,
         owner' = [owner EXCEPT ![id] = k],
         NEW sb \in SandboxIds, owner[sb] # None
  PROVE  owner'[sb] = owner[sb]
BY DEF OInv, KnownOK, IInv, TypeOK

LEMMA OwnedIsKnown ==
  ASSUME NEW sb, NEW mode, NEW s \in Sessions, Owned(sb, mode, s)
  PROVE  sb \in SandboxIds /\ owner[sb] # None
BY OwnerKeyIsKey, NamesAssumption DEF Owned, Keys

LEMMA ClCreateOwned ==
  ASSUME IInv, OInv, NEW p \in Proc, ClCreate(p)
  PROVE  OInv'
<1>1. pc[p] = "cl_create" /\ pc[p] \in SessionLabels
  BY DEF ClCreate, SessionLabels, SandboxLabels, ReleaseLabels, Labels
<1>2. CASE LeaseFailed(p) /\ UNCHANGED world
  BY <1>1, <1>2, SameLeaseFailed, SmallStep DEF ClCreate, store, world
<1>3. ASSUME NEW id \in SandboxIds, sandbox[id] = "absent",
             sandbox' = [sandbox EXCEPT ![id] = "started"],
             owner' = [owner EXCEPT ![id] = OwnerKey(job[p].mode, job[p].s)],
             \/ Goto(p, "cl_bind") /\ Set(p, [job[p] EXCEPT !.sb = id])
             \/ LeaseFailed(p)
      PROVE  OInv'
  <2>1. \A sb, mode : \A s \in Sessions :
          Owned(sb, mode, s) => sb \in SandboxIds /\ owner'[sb] = OwnerKey(mode, s)
    BY <1>3, FreshIsNew, OwnedIsKnown DEF Owned
  <2>2. KnownOK'
    BY <1>3 DEF OInv, KnownOK, IInv, TypeOK
  <2>3. LeasesOK'
    BY <2>1 DEF OInv, LeasesOK, Owned, ClCreate, store
  <2>4. BoundOK'
    BY <2>1 DEF OInv, BoundOK, Owned, ClCreate, store
  <2>5. TicketsOK'
    BY <2>1 DEF OInv, TicketsOK, Owned, ClCreate, store, IInv, TypeOK, Ticket
  <2>6. \A q \in Proc : pc[q] \in SandboxLabels =>
          job[q].sb \in SandboxIds /\ owner'[job[q].sb] = OwnerKey(job[q].mode, job[q].s)
    BY <2>1, SandboxIsSession DEF OInv, WorkOK, IInv, HandlersOK, JobInv
  <2>7. ASSUME LeaseFailed(p) PROVE WorkOK'
    <3>1. SameWork(p)
      BY <1>1, <2>7, SameLeaseFailed
    <3> QED
      BY <2>6, <3>1, SandboxIsSession DEF OInv, WorkOK, SameWork, Owned
  <2>8. ASSUME Goto(p, "cl_bind"), Set(p, [job[p] EXCEPT !.sb = id]) PROVE WorkOK'
    <3>1. /\ \A q \in Proc \ {p} : pc'[q] = pc[q] /\ job'[q] = job[q]
          /\ job'[p] = [job[p] EXCEPT !.sb = id]
      BY <2>8 DEF Goto, Set, IInv, TypeOK
    <3>2. job'[p].s = job[p].s /\ job'[p].mode = job[p].mode /\ job'[p].sb = id
      BY <3>1, JobTyped DEF Job
    <3>3. owner'[id] = OwnerKey(job[p].mode, job[p].s)
      BY <1>3 DEF IInv, TypeOK
    <3>4. job[p].mode \in ModesOf[job[p].s]
      BY <1>1, AtWork
    <3> QED
      BY <2>6, <3>1, <3>2, <3>3, <3>4 DEF OInv, WorkOK, Owned
  <2> QED
    BY <1>3, <2>2, <2>3, <2>4, <2>5, <2>7, <2>8 DEF OInv, WorkOK
<1> QED
  BY <1>2, <1>3 DEF ClCreate, AnyOf

\* A mapping written under the key of the sandbox's owner.
LEMMA BindKeeps ==
  ASSUME IInv, OInv, UNCHANGED owner, NEW k \in Keys, NEW sb \in SandboxIds,
         bound' = [bound EXCEPT ![k] = sb],
         \A s \in Sessions : \A m \in ModesOf[s] : OwnerKey(m, s) = k => owner[sb] = k
  PROVE  BoundOK'
BY OwnerKeyIsKey DEF OInv, BoundOK, Owned, IInv, TypeOK

LEMMA ClBindOwned ==
  ASSUME IInv, OInv, NEW p \in Proc, ClBind(p)
  PROVE  OInv'
<1>1. pc[p] = "cl_bind" /\ pc[p] \in SessionLabels /\ pc[p] \in SandboxLabels
  BY DEF ClBind, At, SessionLabels, SandboxLabels, ReleaseLabels, Labels
<1>2. SameWork(p)
  BY SameGoto DEF ClBind, At, SessionLabels, SandboxLabels, ReleaseLabels, Labels
<1>3. BoundOK'
  BY <1>1, AtWork, BindKeeps, OwnerKeyIsKey DEF ClBind, world
<1> QED
  BY <1>2, <1>3, LeasesSame, TicketsSame, KnownSame, SameWorkKeeps DEF OInv, ClBind, world

\* stop_keep writes the session's own key whatever the mode: only sessions
\* that ask for exclusive sandboxes read it.
LEMMA RelKeepOwned ==
  ASSUME StickyModes, IInv, OInv, NEW p \in Proc, RelKeep(p)
  PROVE  OInv'
<1>1. pc[p] = "rel_keep" /\ pc[p] \in SessionLabels /\ pc[p] \in SandboxLabels
  BY DEF RelKeep, At, SessionLabels, SandboxLabels, ReleaseLabels, Labels
<1>2. SameWork(p)
  BY SameGoto DEF RelKeep, At, SessionLabels, SandboxLabels, ReleaseLabels, Labels
<1>3. ASSUME NEW s \in Sessions, NEW m \in ModesOf[s], OwnerKey(m, s) = job[p].s
      PROVE  owner[job[p].sb] = job[p].s
  <2>1. job[p].s \in Sessions
    BY <1>1, AtWork
  <2>2. OwnerKey(m, s) = s
    BY <1>3, <2>1, NamesAssumption DEF OwnerKey
  <2>3. m = job[p].mode
    BY <1>1, <1>3, <2>2, AtWork DEF StickyModes
  <2> QED
    BY <1>1, <1>3, <2>2, <2>3, AtWork
<1>4. job[p].s \in Keys /\ job[p].sb \in SandboxIds
  BY <1>1, AtWork DEF Keys
<1>5. bound' = [bound EXCEPT ![job[p].s] = job[p].sb] /\ UNCHANGED owner
  BY DEF RelKeep, world
<1>6. BoundOK'
  BY <1>3, <1>4, <1>5, BindKeeps
<1> QED
  BY <1>2, <1>6, LeasesSame, TicketsSame, KnownSame, SameWorkKeeps DEF OInv, RelKeep, world

LEMMA RelDeleteOwned ==
  ASSUME IInv, OInv, NEW p \in Proc, RelDelete(p)
  PROVE  OInv'
<1>1. SameWork(p)
  BY SameGoto DEF RelDelete, At, SessionLabels, SandboxLabels, ReleaseLabels, Labels
<1>2. LeasesOK'
  BY DEF RelDelete, OInv, LeasesOK, Owned, world, IInv, TypeOK
<1> QED
  BY <1>1, <1>2, TicketsSame, KnownSame, BoundLess, SameWorkKeeps DEF OInv, RelDelete, world

\* A lease written from a handler's own variables.
LEMMA SaveKeeps ==
  ASSUME IInv, OInv, NEW p \in Proc, pc[p] \in SandboxLabels, UNCHANGED owner,
         leases' = [leases EXCEPT ![job[p].s] = LeaseOf(job[p])]
  PROVE  LeasesOK'
BY AtWork, SandboxIsSession DEF OInv, LeasesOK, Owned, LeaseOf, IInv, TypeOK

LEMMA ClSaveOwned ==
  ASSUME IInv, OInv, NEW p \in Proc, ClSave(p)
  PROVE  OInv'
<1>1. pc[p] = "cl_save" /\ pc[p] \in SandboxLabels
  BY DEF ClSave, SessionLabels, SandboxLabels, ReleaseLabels, Labels
<1>2. SameWork(p)
  BY <1>1, SameGoto, SameReply DEF ClSave, LeaseMade, SessionLabels, SandboxLabels, ReleaseLabels, Labels
<1>3. LeasesOK'
  BY <1>1, SaveKeeps DEF ClSave, world
<1> QED
  BY <1>2, <1>3, TicketsSame, KnownSame, BoundLess, SameWorkKeeps DEF OInv, ClSave, world

LEMMA HbSaveOwned ==
  ASSUME IInv, OInv, NEW p \in Proc, HbSave(p)
  PROVE  OInv'
<1>1. pc[p] = "hb_save" /\ pc[p] \in SandboxLabels
  BY DEF HbSave, SessionLabels, SandboxLabels, ReleaseLabels, Labels
<1>2. SameWork(p)
  BY SameReply DEF HbSave
<1>3. LeasesOK'
  BY <1>1, SaveKeeps DEF HbSave, world
<1> QED
  BY <1>2, <1>3, TicketsSame, KnownSame, BoundLess, SameWorkKeeps DEF OInv, HbSave, world

LEMMA ExecOwned ==
  ASSUME IInv, OInv, NEW p \in Proc, SandboxCall(p)
  PROVE  OInv'
<1>1. KnownOK'
  BY KnownSame DEF SandboxCall, Exec, Provider, ProviderFails, Fault, IInv, TypeOK
<1>2. WorkOK'
  BY DEF OInv, WorkOK, Owned, SandboxCall, Exec
<1> QED
  BY <1>1, <1>2, LeasesSame, TicketsSame, BoundLess DEF OInv, SandboxCall, Exec, store

LEMMA ExpireOwned ==
  ASSUME IInv, OInv, NEW s \in Sessions, Expire(s)
  PROVE  OInv'
<1>1. \A r \in Sessions : leases'[r] # None =>
        /\ leases[r] # None
        /\ leases'[r].sb = leases[r].sb /\ leases'[r].mode = leases[r].mode
  BY DEF Expire, IInv, TypeOK, Lease
<1>2. LeasesOK'
  BY <1>1 DEF OInv, LeasesOK, Owned, Expire, world
<1>3. WorkOK'
  BY DEF OInv, WorkOK, Owned, Expire, world
<1> QED
  BY <1>2, <1>3, TicketsSame, KnownSame, BoundLess DEF OInv, Expire, world

\* A ticket written from a handler's own variables.
LEMMA WriteKeeps ==
  ASSUME IInv, OInv, NEW p \in Proc, pc[p] \in SessionLabels, UNCHANGED owner,
         NEW status, NEW sb, WriteTicket(p, status, sb),
         status = "ready" => Owned(sb, job[p].mode, job[p].s)
  PROVE  TicketsOK'
BY AtWork DEF OInv, TicketsOK, Owned, WriteTicket, IInv, TypeOK

LEMMA FtClaimOwned ==
  ASSUME IInv, OInv, NEW p \in Proc, FtClaim(p)
  PROVE  OInv'
<1> DEFINE t == job[p].t
<1>1. CASE Fulfilled(p) /\ UNCHANGED tickets
  BY <1>1, SameReply, SameGoto, SmallStep DEF Fulfilled, FtClaim, world, SessionLabels, SandboxLabels, ReleaseLabels, Labels
<1>2. CASE /\ Claimable(t)
           /\ tickets' = [tickets EXCEPT ![t].status = "claiming"]
           /\ Goto(p, "ft_slot")
           /\ Set(p, [job[p] EXCEPT !.s = tickets[t].session, !.mode = tickets[t].mode, !.sb = None])
  <2>1. t \in TicketIds
    BY <1>2 DEF FtClaim, IInv, HandlersOK, JobInv, TicketLabels
  <2>2. tickets[t] \in Ticket /\ tickets[t].mode \in ModesOf[tickets[t].session]
    BY <1>2, <2>1 DEF Claimable, IInv, TypeOK, OInv, TicketsOK
  <2>3. TicketsOK'
    BY <1>2, <2>1, <2>2 DEF FtClaim, OInv, TicketsOK, Owned, IInv, TypeOK, Ticket, world
  <2>4. NewWork(p)
    BY <1>2, <2>2, JobTyped, NewSet DEF FtClaim, Job, world, SessionLabels, SandboxLabels, ReleaseLabels, Labels
  <2> QED
    BY <2>3, <2>4, LeasesSame, KnownSame, BoundLess, NewWorkKeeps DEF OInv, FtClaim, world
<1> QED
  BY <1>1, <1>2 DEF FtClaim

LEMMA FtResetOwned ==
  ASSUME IInv, OInv, NEW p \in Proc, FtReset(p)
  PROVE  OInv'
<1>1. pc[p] = "ft_reset" /\ pc[p] \in SessionLabels
  BY DEF FtReset, At, SessionLabels, SandboxLabels, ReleaseLabels, Labels
<1>2. SameWork(p)
  BY SameGoto DEF FtReset, At, SessionLabels, SandboxLabels, ReleaseLabels, Labels
<1>3. TicketsOK'
  BY <1>1, WriteKeeps DEF FtReset, Owned, world
<1> QED
  BY <1>2, <1>3, LeasesSame, KnownSame, BoundLess, SameWorkKeeps DEF OInv, FtReset, world

LEMMA FtRequeueOwned ==
  ASSUME IInv, OInv, NEW p \in Proc, FtRequeue(p)
  PROVE  OInv'
<1>1. pc[p] = "ft_requeue" /\ pc[p] \in SessionLabels
  BY DEF FtRequeue, At, SessionLabels, SandboxLabels, ReleaseLabels, Labels
<1>2. SameWork(p)
  BY SameGoto DEF FtRequeue, At, SessionLabels, SandboxLabels, ReleaseLabels, Labels
<1>3. TicketsOK'
  BY <1>1, WriteKeeps DEF FtRequeue, Owned, world
<1> QED
  BY <1>2, <1>3, LeasesSame, KnownSame, BoundLess, SameWorkKeeps DEF OInv, FtRequeue, world

LEMMA FtFailOwned ==
  ASSUME IInv, OInv, NEW p \in Proc, FtFail(p)
  PROVE  OInv'
<1>1. pc[p] = "ft_fail" /\ pc[p] \in SessionLabels
  BY DEF FtFail, At, SessionLabels, SandboxLabels, ReleaseLabels, Labels
<1>2. SameWork(p)
  BY SameReply, SameGoto DEF FtFail, FulfilThrows, SessionLabels, SandboxLabels, ReleaseLabels, Labels
<1>3. TicketsOK'
  BY <1>1, WriteKeeps DEF FtFail, Owned, world
<1> QED
  BY <1>2, <1>3, LeasesSame, KnownSame, BoundLess, SameWorkKeeps DEF OInv, FtFail, world

LEMMA FtReadyOwned ==
  ASSUME IInv, OInv, NEW p \in Proc, FtReady(p)
  PROVE  OInv'
<1>1. pc[p] = "ft_ready" /\ pc[p] \in SessionLabels /\ pc[p] \in SandboxLabels
  BY DEF FtReady, At, SessionLabels, SandboxLabels, ReleaseLabels, Labels
<1>2. SameWork(p)
  BY SameReply, SameGoto DEF FtReady, Fulfilled, SessionLabels, SandboxLabels, ReleaseLabels, Labels
<1>3. TicketsOK'
  BY <1>1, WriteKeeps, AtWork DEF FtReady, Owned, world
<1> QED
  BY <1>2, <1>3, LeasesSame, KnownSame, BoundLess, SameWorkKeeps DEF OInv, FtReady, world

LEMMA CrashOwned ==
  ASSUME IInv, OInv, Crash
  PROVE  OInv'
<1>1. WorkOK'
  BY DEF Crash, WorkOK, SessionLabels, SandboxLabels, ReleaseLabels, Labels
<1> QED
  BY <1>1, LeasesSame, TicketsSame, KnownSame, BoundLess DEF OInv, Crash, store, world

-----------------------------------------------------------------------------
(* Every step, and the theorem *)

LEMMA StepOwned ==
  ASSUME StickyModes, IInv, OInv, NEW p \in Proc, Step(p)
  PROVE  OInv'
<1>1. CASE AcqAttach(p) \/ AcqSlot(p) \/ AcqUndo(p) \/ EnqSet(p) \/ EnqPush(p) \/ EnqPublish(p)
  BY <1>1, AcqAttachOwned, AcqSlotOwned, AcqUndoOwned, EnqSetOwned, EnqPushOwned, EnqPublishOwned
<1>2. CASE ClLookup(p) \/ ClStart(p) \/ ClForget(p) \/ ClForgetOwner(p) \/ ClCreate(p)
  BY <1>2, ClLookupOwned, ClStartOwned, ClForgetOwned, ClForgetOwnerOwned, ClCreateOwned
<1>3. CASE ClBind(p) \/ ClWorkDir(p) \/ ClUserDir(p) \/ ClSave(p)
  BY <1>3, ClBindOwned, ClWorkDirOwned, ClUserDirOwned, ClSaveOwned
<1>4. CASE RelDelete(p) \/ RelKeys(p) \/ RelMget(p) \/ RelStop(p) \/ RelKeep(p) \/ RelKill(p)
  BY <1>4, RelDeleteOwned, RelKeysOwned, RelMgetOwned, RelStopOwned, RelKeepOwned, RelKillOwned
<1>5. CASE RelUnbind(p) \/ RelOwner(p) \/ RelUnbindOwner(p) \/ RelClear(p) \/ RelSlot(p)
  BY <1>5, RelUnbindOwned, RelOwnerOwned, RelUnbindOwnerOwned, RelClearOwned, RelSlotOwned
<1>6. CASE PqPop(p) \/ PqMore(p) \/ FtClaim(p) \/ FtSlot(p) \/ FtReset(p) \/ FtRequeue(p) \/ FtPush(p)
  BY <1>6, PqPopOwned, PqMoreOwned, FtClaimOwned, FtSlotOwned, FtResetOwned, FtRequeueOwned, FtPushOwned
<1>7. CASE FtReady(p) \/ FtUndo(p) \/ FtFail(p) \/ HbSave(p) \/ SwMget(p) \/ SwNext(p)
  BY <1>7, FtReadyOwned, FtUndoOwned, FtFailOwned, HbSaveOwned, SwMgetOwned, SwNextOwned
<1> QED
  BY <1>1, <1>2, <1>3, <1>4, <1>5, <1>6, <1>7 DEF Step

LEMMA NextOwned ==
  ASSUME StickyModes, IInv, OInv, [Next]_vars
  PROVE  OInv'
<1>1. ASSUME NEW p \in Workers, NEW s \in Sessions, ClientCall(p, s) PROVE OInv'
  BY <1>1, AcquireOwned, ReleaseOwned, HeartbeatOwned DEF ClientCall, Proc
<1>2. ASSUME NEW p \in Sweepers, SwKeys(p) PROVE OInv'
  BY <1>2, SwKeysOwned DEF Proc
<1>3. ASSUME NEW p \in Proc, Step(p) PROVE OInv'
  BY <1>3, StepOwned
<1>4. ASSUME NEW p \in Workers, SandboxCall(p) PROVE OInv'
  BY <1>4, ExecOwned DEF Proc
<1>5. CASE UNCHANGED vars
  BY <1>5, LeasesSame, TicketsSame, KnownSame, BoundLess DEF OInv, WorkOK, Owned, vars, store, world
<1> QED
  BY <1>1, <1>2, <1>3, <1>4, <1>5, ConsumeOwned, ExpireOwned, CrashOwned DEF Next, AwaitCalls

LEMMA InitOwned ==
  ASSUME Init
  PROVE  OInv
BY OwnerKeyIsKey DEF Init, OInv, KnownOK, LeasesOK, BoundOK, TicketsOK, WorkOK,
     SessionLabels, SandboxLabels, ReleaseLabels, Labels

\* Two leases on one sandbox have the key it was created for; a ready ticket
\* names a sandbox created for its key.
LEMMA OwnedIsolates ==
  ASSUME IInv, OInv
  PROVE  OwnerIsolation /\ TicketIsolation
<1>1. OwnerIsolation
  BY DEF OInv, LeasesOK, Owned, OwnerIsolation, Leased
<1>2. TicketIsolation
  BY DEF OInv, TicketsOK, Owned, TicketIsolation
<1> QED
  BY <1>1, <1>2

\* Every lease, mapping, ready ticket and handler that names a sandbox names one
\* that was created for its owner: what the two theorems below rest on.
THEOREM Ownership ==
  ASSUME StickyModes
  PROVE  Spec => []OInv
<1>1. Init => OInv
  BY InitOwned
<1>2. IInv /\ OInv /\ [Next]_vars => OInv'
  BY NextOwned
<1> QED
  BY <1>1, <1>2, Invariance, PTL DEF Spec

\* When every session keeps to one mode, no two leases ever share a sandbox
\* unless their modes share it, whatever handlers, sweeps, redelivered
\* messages, failed provider calls and restarts interleave.
THEOREM Isolated ==
  ASSUME StickyModes
  PROVE  Spec => []OwnerIsolation
<1>1. IInv /\ OInv => OwnerIsolation
  BY OwnedIsolates
<1> QED
  BY <1>1, Ownership, Invariance, PTL

\* Under the same condition a client that polls its ticket is only ever given
\* a sandbox created for the owner it asked for.
THEOREM TicketsIsolated ==
  ASSUME StickyModes
  PROVE  Spec => []TicketIsolation
<1>1. IInv /\ OInv => TicketIsolation
  BY OwnedIsolates
<1> QED
  BY <1>1, Ownership, Invariance, PTL

-----------------------------------------------------------------------------
(* Mappings to deleted sandboxes: steps that change no name of a sandbox *)

\* What p may hand on is what it may read.
Passes(p) ==
  /\ \A q \in Proc \ {p} : pc'[q] = pc[q] /\ job'[q] = job[q]
  /\ pc'[p] \notin {"cl_bind", "rel_stop", "rel_keep"}
  /\ \A k \in Keys : bound'[k] # None => bound'[k] \in NamedBy(p)
  /\ \A s \in Sessions : leases'[s] # None => leases'[s].sb \in NamedBy(p)
  /\ pc'[p] \in SandboxLabels => job'[p].sb \in NamedBy(p)
  /\ \A id \in SandboxIds : sandbox'[id] = "deleted" => sandbox[id] = "deleted" \/ id \in NamedBy(p)

LEMMA FreshKept ==
  ASSUME IInv, DInv, NEW p \in Proc, Passes(p)
  PROVE  FreshOK'
<1> SUFFICES ASSUME NEW q \in Proc, pc'[q] = "cl_bind"
             PROVE  /\ sandbox'[job'[q].sb] # "deleted"
                    /\ \A r \in Proc \ {q} : job'[q].sb \notin NamedBy(r)'
  BY DEF FreshOK
<1>1. q # p /\ pc[q] = "cl_bind" /\ job'[q] = job[q]
  BY DEF Passes
<1> DEFINE x == job[q].sb
<1>2. x \in SandboxIds /\ sandbox[x] # "deleted" /\ \A r \in Proc \ {q} : x \notin NamedBy(r)
  BY <1>1 DEF DInv, FreshOK, NamesOK, Owned, SandboxLabels
<1>3. x \notin NamedBy(p)
  BY <1>1, <1>2
<1>4. sandbox'[x] # "deleted"
  BY <1>2, <1>3 DEF Passes
<1>5. ASSUME NEW r \in Proc \ {q}, x \in NamedBy(r)'
      PROVE  FALSE
  <2>1. CASE \E k \in Keys : bound'[k] = x
    BY <1>2, <1>3, <2>1, NamesAssumption DEF Passes
  <2>2. CASE \E s \in Sessions : leases'[s] # None /\ leases'[s].sb = x
    BY <1>3, <2>2 DEF Passes
  <2>3. CASE r = p /\ pc'[r] \in SandboxLabels /\ job'[r].sb = x
    BY <1>3, <2>3 DEF Passes
  <2>4. CASE r # p /\ pc'[r] \in SandboxLabels /\ job'[r].sb = x
    <3>1. x \in NamedBy(r)
      BY <1>2, <2>4 DEF Passes, NamedBy
    <3> QED
      BY <1>2, <3>1
  <2> QED
    BY <1>5, <2>1, <2>2, <2>3, <2>4 DEF NamedBy, Leased
<1> QED
  BY <1>1, <1>4, <1>5

\* p's variables change, and no name of a sandbox anywhere else.
LEMMA SameNames ==
  ASSUME IInv, DInv, NEW p \in Proc, SameWork(p), UNCHANGED <<bound, leases, owner>>,
         pc[p] \notin UnbindLabels, pc'[p] \notin {"cl_bind", "rel_stop", "rel_keep"},
         \A id \in SandboxIds : /\ sandbox[id] # "absent" => sandbox'[id] # "absent"
                                /\ sandbox'[id] = "deleted" => sandbox[id] = "deleted"
  PROVE  DInv'
<1>1. KnownOK'
  BY DEF DInv, KnownOK
<1>2. NamesOK'
  BY SandboxIsSession DEF DInv, NamesOK, SameWork, Owned
<1>3. Passes(p)
  <2>1. \A k \in Keys : bound'[k] # None => bound'[k] \in NamedBy(p)
    BY DEF NamedBy, IInv, TypeOK
  <2>2. \A s \in Sessions : leases'[s] # None => leases'[s].sb \in NamedBy(p)
    BY DEF NamedBy, Leased, DInv, NamesOK, Owned
  <2>3. pc'[p] \in SandboxLabels => job'[p].sb \in NamedBy(p)
    BY DEF NamedBy, SameWork, DInv, NamesOK, Owned
  <2> QED
    BY <2>1, <2>2, <2>3 DEF Passes, SameWork
<1>4. FreshOK'
  BY <1>3, FreshKept
<1>5. KeptByNone'
  BY DEF DInv, KeptByNone, SameWork
<1>6. NoDeadBinding'
  BY DEF DInv, NoDeadBinding, UnbindLabels, SameWork, IInv, TypeOK
<1> QED
  BY <1>1, <1>2, <1>4, <1>5, <1>6 DEF DInv
\* p names a sandbox it has read, for the key it was created for.
LEMMA NewNames ==
  ASSUME IInv, DInv, NEW p \in Proc, Passes(p), UNCHANGED owner, NoDeadBinding',
         \A id \in SandboxIds : sandbox[id] # "absent" => sandbox'[id] # "absent",
         \A s \in Sessions : leases'[s] # None =>
           leases'[s] = leases[s] \/ Owned(leases'[s].sb, leases'[s].mode, s),
         \A k \in Keys : bound'[k] # None => owner[bound'[k]] = k,
         pc'[p] \in SandboxLabels => Owned(job'[p].sb, job'[p].mode, job'[p].s)
  PROVE  DInv'
<1>1. KnownOK'
  BY DEF DInv, KnownOK
<1>2. NamesOK'
  <2>1. \A q \in Proc : pc'[q] \in SandboxLabels => Owned(job'[q].sb, job'[q].mode, job'[q].s)
    BY DEF DInv, NamesOK, Passes
  <2> QED
    BY <2>1 DEF DInv, NamesOK, Owned
<1>3. KeptByNone'
  BY DEF DInv, KeptByNone, Passes
<1> QED
  BY <1>1, <1>2, <1>3, FreshKept DEF DInv

\* Mappings are as they were or cleared, and nobody who clears one leaves.
LEMMA StillAlive ==
  ASSUME IInv, DInv, NEW p \in Proc, \A q \in Proc \ {p} : pc'[q] = pc[q] /\ job'[q] = job[q],
         \A k \in Keys : bound'[k] \in {None, bound[k]},
         \A id \in SandboxIds : sandbox'[id] = "deleted" => sandbox[id] = "deleted",
         \A k \in Keys : /\ bound'[k] # None /\ bound'[k] = bound[k]
                         /\ pc[p] \in UnbindLabels /\ job[p].sb = bound[k]
                         => pc'[p] \in UnbindLabels /\ job'[p].sb = job[p].sb
  PROVE  NoDeadBinding'
<1> SUFFICES ASSUME NEW k \in Keys, bound'[k] # None, sandbox'[bound'[k]] = "deleted"
             PROVE  \E q \in Proc : pc'[q] \in UnbindLabels /\ job'[q].sb = bound'[k]
  BY DEF NoDeadBinding, UnbindLabels
<1>1. bound'[k] = bound[k] /\ bound[k] \in SandboxIds
  BY DEF IInv, TypeOK
<1>2. PICK q \in Proc : pc[q] \in UnbindLabels /\ job[q].sb = bound[k]
  BY <1>1 DEF DInv, NoDeadBinding, UnbindLabels
<1>3. pc'[q] \in UnbindLabels /\ job'[q].sb = bound'[k]
  BY <1>1, <1>2
<1> QED
  BY <1>3

\* The lists of labels a plain step moves between.
LEMMA PlainLabels ==
  /\ UnbindLabels \subseteq SandboxLabels
  /\ "cl_bind" \in SandboxLabels
BY DEF UnbindLabels, SandboxLabels, ReleaseLabels

-----------------------------------------------------------------------------
(* acquire and createLease *)

LEMMA AcquireBindings ==
  ASSUME IInv, DInv, NEW p \in Proc,
         AcqAttach(p) \/ AcqSlot(p) \/ AcqUndo(p) \/ EnqSet(p) \/ EnqPush(p) \/ EnqPublish(p)
  PROVE  DInv'
<1>1. CASE AcqAttach(p) \/ AcqSlot(p)
  <2>1. pc[p] \in {"acq_attach", "acq_slot"} /\ pc'[p] \in {"cl_lookup", "acq_slot", "enq_set"}
    BY <1>1 DEF AcqAttach, AcqSlot, At, Goto, IInv, TypeOK
  <2>2. SameWork(p)
    <3>1. CASE UNCHANGED job
      BY <1>1, <2>1, <3>1, SameGoto DEF AcqAttach, AcqSlot, At, SessionLabels, SandboxLabels, ReleaseLabels, Labels
    <3>2. CASE Set(p, [job[p] EXCEPT !.slot = TRUE])
      BY <1>1, <2>1, <3>2, SameSet, JobTyped DEF AcqAttach, AcqSlot, At, Job, SessionLabels, SandboxLabels,
         ReleaseLabels, Labels
    <3> QED
      BY <1>1, <3>1, <3>2 DEF AcqAttach, AcqSlot
  <2> QED
    BY <1>1, <2>1, <2>2, SameNames DEF AcqAttach, AcqSlot, UnbindLabels, store, world
<1>2. CASE AcqUndo(p) \/ EnqPublish(p)
  <2>1. SameWork(p) /\ pc[p] \in {"acq_undo", "enq_publish"} /\ pc'[p] = "idle"
    BY <1>2, SameReply DEF AcqUndo, EnqPublish, Reply, Goto, IInv, TypeOK
  <2> QED
    BY <1>2, <2>1, SameNames DEF AcqUndo, EnqPublish, UnbindLabels, store, world
<1>3. CASE EnqSet(p)
  <2>1. PICK t \in TicketIds : Set(p, [job[p] EXCEPT !.t = t]) /\ UNCHANGED <<leases, bound, sandbox, owner>>
    BY <1>3, AnyOfIn DEF EnqSet, world
  <2>2. pc[p] = "enq_set" /\ Goto(p, "enq_push") /\ pc'[p] = "enq_push"
    BY <1>3 DEF EnqSet, At, Goto, IInv, TypeOK
  <2>3. SameWork(p)
    BY <2>1, <2>2, SameSet, JobTyped DEF Job, SessionLabels, SandboxLabels, ReleaseLabels, Labels
  <2> QED
    BY <2>1, <2>2, <2>3, SameNames DEF UnbindLabels
<1>4. CASE EnqPush(p)
  <2>1. SameWork(p) /\ pc[p] = "enq_push" /\ pc'[p] = "enq_publish"
    BY <1>4, SameGoto DEF EnqPush, At, Goto, SessionLabels, SandboxLabels, ReleaseLabels, Labels, IInv, TypeOK
  <2> QED
    BY <1>4, <2>1, SameNames DEF EnqPush, UnbindLabels, world
<1> QED
  BY <1>1, <1>2, <1>3, <1>4

LEMMA LookupBindings ==
  ASSUME IInv, DInv, NEW p \in Proc, ClLookup(p)
  PROVE  DInv'
<1> DEFINE k == OwnerKey(job[p].mode, job[p].s)
           j == [job[p] EXCEPT !.sb = BoundSandbox(job[p])]
<1>1. pc[p] = "cl_lookup" /\ k \in Keys /\ job[p] \in Job
  BY OwnerKeyIsKey DEF ClLookup, At, IInv, TypeOK, HandlersOK, JobInv, SessionLabels, Labels
<1>2. j.sb = bound[k] /\ j.mode = job[p].mode /\ j.s = job[p].s
  BY <1>1 DEF BoundSandbox, Job
<1>3. Set(p, j) /\ UNCHANGED <<bound, leases, sandbox, owner>>
  BY DEF ClLookup, store, world
<1>4. pc'[p] = IF bound[k] = None THEN "cl_create" ELSE "cl_start"
  BY <1>1 DEF ClLookup, At, Goto, BoundSandbox, IInv, TypeOK
<1> HIDE DEF j
<1>5. job'[p] = j /\ \A q \in Proc \ {p} : pc'[q] = pc[q] /\ job'[q] = job[q]
  BY <1>1, <1>3 DEF Set, ClLookup, At, Goto, IInv, TypeOK
<1>6. pc'[p] \in SandboxLabels => bound[k] # None
  BY <1>4 DEF SandboxLabels, ReleaseLabels
<1>7. pc'[p] \in SandboxLabels => Owned(job'[p].sb, job'[p].mode, job'[p].s) /\ job'[p].sb = bound[k]
  BY <1>1, <1>2, <1>5, <1>6 DEF Owned, DInv, NamesOK, IInv, TypeOK
<1>8. Passes(p)
  BY <1>1, <1>3, <1>4, <1>5, <1>7 DEF Passes, NamedBy, Leased, Owned, IInv, TypeOK, DInv, NamesOK
<1>9. NoDeadBinding'
  BY <1>1, <1>3, <1>5, StillAlive DEF UnbindLabels
<1> QED
  BY <1>3, <1>7, <1>8, <1>9, NewNames DEF DInv, NamesOK

LEMMA CallBindings ==
  ASSUME IInv, DInv, NEW p \in Proc, ClStart(p) \/ ClWorkDir(p) \/ ClUserDir(p)
  PROVE  DInv'
<1>1. job[p].sb \in SandboxIds
  BY DEF ClStart, ClWorkDir, ClUserDir, MakeDir, At, IInv, HandlersOK, JobInv, SandboxLabels
<1>2. pc[p] \in {"cl_start", "cl_workdir", "cl_userdir"}
      /\ pc'[p] \in {"cl_workdir", "cl_userdir", "cl_save", "cl_forget", "acq_undo", "ft_undo", "idle"}
  BY DEF ClStart, ClWorkDir, ClUserDir, MakeDir, LeaseFailed, At, Goto, Reply, IInv, TypeOK
<1>3. SameWork(p)
  <2>1. CASE ClStart(p)
    BY <2>1, SameGoto, SameSet, JobTyped DEF ClStart, At, Job, SessionLabels, SandboxLabels, ReleaseLabels, Labels
  <2>2. CASE ClWorkDir(p) \/ ClUserDir(p)
    BY <1>2, <2>2, SameGoto, SameLeaseFailed DEF ClWorkDir, ClUserDir, MakeDir, SessionLabels, SandboxLabels, Labels
  <2> QED
    BY <2>1, <2>2
<1>4. \A id \in SandboxIds : /\ sandbox[id] # "absent" => sandbox'[id] # "absent"
                             /\ sandbox'[id] = "deleted" => sandbox[id] = "deleted"
  BY <1>1 DEF ClStart, ClWorkDir, ClUserDir, MakeDir, Provider, ProviderFails, IInv, TypeOK
<1>5. UNCHANGED <<bound, leases, owner>>
  BY DEF ClStart, ClWorkDir, ClUserDir, MakeDir, store
<1> QED
  BY <1>2, <1>3, <1>4, <1>5, SameNames DEF UnbindLabels

LEMMA ForgetBindings ==
  ASSUME IInv, DInv, NEW p \in Proc, ClForget(p) \/ ClForgetOwner(p)
  PROVE  DInv'
<1>1. pc[p] \in {"cl_forget", "cl_forgetOwner"} /\ pc'[p] \in {"cl_create", "cl_forgetOwner"}
      /\ \A q \in Proc \ {p} : pc'[q] = pc[q] /\ job'[q] = job[q]
  BY DEF ClForget, ClForgetOwner, At, Goto, IInv, TypeOK
<1>2. UNCHANGED <<leases, sandbox, owner>> /\ \A k \in Keys : bound'[k] \in {None, bound[k]}
  BY DEF ClForget, ClForgetOwner, world, IInv, TypeOK
<1>3. pc'[p] \notin SandboxLabels
  BY <1>1 DEF SandboxLabels, ReleaseLabels
<1>4. Passes(p)
  <2>1. \A k \in Keys : bound'[k] # None => bound'[k] \in NamedBy(p) /\ owner[bound'[k]] = k
    BY <1>2 DEF NamedBy, IInv, TypeOK, DInv, NamesOK
  <2> QED
    BY <1>1, <1>2, <1>3, <2>1 DEF Passes, NamedBy, Leased, Owned, DInv, NamesOK
<1>5. NoDeadBinding'
  BY <1>1, <1>2, StillAlive DEF UnbindLabels
<1> QED
  BY <1>2, <1>3, <1>4, <1>5, NewNames DEF DInv, NamesOK
LEMMA CreateBindings ==
  ASSUME IInv, DInv, NEW p \in Proc, DeletesEnd, ClCreate(p)
  PROVE  DInv'
<1> DEFINE k == OwnerKey(job[p].mode, job[p].s)
<1>1. pc[p] = "cl_create" /\ k \in Keys /\ job[p] \in Job
  BY OwnerKeyIsKey DEF ClCreate, IInv, TypeOK, HandlersOK, JobInv, SessionLabels, Labels
<1>2. PICK x \in SandboxIds :
        /\ sandbox[x] = "absent" /\ sandbox' = [sandbox EXCEPT ![x] = "started"]
        /\ owner' = [owner EXCEPT ![x] = k]
        /\ Goto(p, "cl_bind") /\ Set(p, [job[p] EXCEPT !.sb = x])
  BY AnyOfIn DEF ClCreate, Fault, DeletesEnd
<1> DEFINE j == [job[p] EXCEPT !.sb = x]
<1>3. j.sb = x /\ OwnerKey(j.mode, j.s) = k
  BY <1>1 DEF Job
<1>4. Set(p, j)
  BY <1>2
<1> HIDE DEF j, k
<1>5. pc'[p] = "cl_bind" /\ job'[p] = j /\ \A q \in Proc \ {p} : pc'[q] = pc[q] /\ job'[q] = job[q]
  BY <1>2, <1>4 DEF Goto, Set, IInv, TypeOK
<1>6. UNCHANGED <<bound, leases>>
  BY DEF ClCreate, store
<1>7. owner[x] = None
  BY <1>2 DEF DInv, KnownOK
<1>8. \A q \in Proc : x \notin NamedBy(q)
  <2>1. \A y \in Keys : bound[y] # x
    BY <1>7, NamesAssumption DEF DInv, NamesOK
  <2>2. \A s \in Leased : leases[s].sb # x
    <3>1. ASSUME NEW s \in Leased
          PROVE  owner[leases[s].sb] # None
      <4>1. owner[leases[s].sb] = OwnerKey(leases[s].mode, s) /\ leases[s] \in Lease /\ s \in Sessions
        BY DEF Leased, DInv, NamesOK, Owned, IInv, TypeOK
      <4> QED
        BY <4>1, OwnerKeyIsKey, NamesAssumption DEF Lease
    <3> QED
      BY <1>7, <3>1
  <2>3. \A q \in Proc : pc[q] \in SandboxLabels => job[q].sb # x
    <3>1. ASSUME NEW q \in Proc, pc[q] \in SandboxLabels
          PROVE  owner[job[q].sb] # None
      <4>1. owner[job[q].sb] = OwnerKey(job[q].mode, job[q].s) /\ job[q].s \in Sessions /\ job[q].mode \in Modes
        BY <3>1, SandboxIsSession DEF DInv, NamesOK, Owned, IInv, HandlersOK, JobInv
      <4> QED
        BY <4>1, OwnerKeyIsKey, NamesAssumption
    <3> QED
      BY <1>7, <3>1
  <2> QED
    BY <2>1, <2>2, <2>3 DEF NamedBy
<1>9. owner'[x] = k /\ (\A id \in SandboxIds \ {x} : owner'[id] = owner[id] /\ sandbox'[id] = sandbox[id])
      /\ sandbox'[x] = "started"
  BY <1>2 DEF IInv, TypeOK
<1>a. KnownOK'
  BY <1>9 DEF DInv, KnownOK
<1>b. NamesOK'
  <2>1. \A s \in Sessions : leases'[s] # None =>
          leases'[s].sb \in SandboxIds /\ owner'[leases'[s].sb] = OwnerKey(leases'[s].mode, s)
    BY <1>6, <1>8, <1>9 DEF DInv, NamesOK, Owned, NamedBy, Leased, IInv, TypeOK
  <2>2. \A y \in Keys : bound'[y] # None => owner'[bound'[y]] = y
    BY <1>6, <1>8, <1>9 DEF DInv, NamesOK, NamedBy, IInv, TypeOK
  <2>3. ASSUME NEW q \in Proc, pc'[q] \in SandboxLabels
        PROVE  job'[q].sb \in SandboxIds /\ owner'[job'[q].sb] = OwnerKey(job'[q].mode, job'[q].s)
    <3>1. CASE q = p
      BY <1>3, <1>5, <1>9, <3>1 DEF Owned
    <3>2. CASE q # p
      BY <1>5, <1>8, <1>9, <2>3, <3>2 DEF DInv, NamesOK, Owned, NamedBy
    <3> QED
      BY <3>1, <3>2
  <2> QED
    BY <2>1, <2>2, <2>3 DEF NamesOK, Owned
<1>c. FreshOK'
  <2> SUFFICES ASSUME NEW q \in Proc, pc'[q] = "cl_bind"
               PROVE  /\ sandbox'[job'[q].sb] # "deleted"
                      /\ \A r \in Proc \ {q} : job'[q].sb \notin NamedBy(r)'
    BY DEF FreshOK
  <2>1. CASE q = p
    BY <1>3, <1>5, <1>6, <1>8, <1>9, <2>1 DEF NamedBy, Leased
  <2>2. CASE q # p
    <3>1. /\ job[q].sb \in SandboxIds /\ job[q].sb # x /\ sandbox[job[q].sb] # "deleted"
          /\ \A r \in Proc \ {q} : job[q].sb \notin NamedBy(r)
      BY <1>5, <1>8, <2>2 DEF DInv, FreshOK, NamesOK, Owned, NamedBy, SandboxLabels
    <3>2. \A r \in Proc \ {q} : job[q].sb \notin NamedBy(r)'
      BY <1>3, <1>5, <1>6, <3>1 DEF NamedBy, Leased
    <3> QED
      BY <1>5, <1>9, <2>2, <3>1, <3>2
  <2> QED
    BY <2>1, <2>2
<1>d. NoDeadBinding'
  <2>1. \A id \in SandboxIds : sandbox'[id] = "deleted" => sandbox[id] = "deleted"
    BY <1>9
  <2> QED
    BY <1>1, <1>5, <1>6, <2>1, StillAlive DEF UnbindLabels, IInv, TypeOK
<1>e. KeptByNone'
  BY <1>5 DEF DInv, KeptByNone
<1> QED
  BY <1>a, <1>b, <1>c, <1>d, <1>e DEF DInv

LEMMA BindBindings ==
  ASSUME IInv, DInv, NEW p \in Proc, ClBind(p)
  PROVE  DInv'
<1> DEFINE k == OwnerKey(job[p].mode, job[p].s)
           x == job[p].sb
<1>1. pc[p] = "cl_bind" /\ k \in Keys /\ x \in SandboxIds
  BY OwnerKeyIsKey DEF ClBind, At, IInv, HandlersOK, JobInv, SessionLabels, SandboxLabels, Labels
<1>2. sandbox[x] # "deleted" /\ Owned(x, job[p].mode, job[p].s) /\ x \in NamedBy(p)
  BY <1>1, PlainLabels DEF DInv, FreshOK, NamesOK, NamedBy
<1>3. bound' = [bound EXCEPT ![k] = x] /\ UNCHANGED <<leases, sandbox, owner, job>>
  BY DEF ClBind, world
<1>4. pc'[p] = "cl_workdir" /\ \A q \in Proc \ {p} : pc'[q] = pc[q]
  BY DEF ClBind, At, Goto, IInv, TypeOK
<1>5. \A y \in Keys : bound'[y] = IF y = k THEN x ELSE bound[y]
  BY <1>1, <1>3 DEF IInv, TypeOK
<1> HIDE DEF k, x
<1>6. \A y \in Keys : bound'[y] # None => bound'[y] \in NamedBy(p) /\ owner[bound'[y]] = y
  BY <1>2, <1>5 DEF k, NamedBy, Owned, IInv, TypeOK, DInv, NamesOK
<1>7. Passes(p)
  BY <1>2, <1>3, <1>4, <1>6 DEF x, Passes, NamedBy, Leased, DInv, NamesOK, Owned
<1>8. NoDeadBinding'
  <2> SUFFICES ASSUME NEW y \in Keys, bound'[y] # None, sandbox'[bound'[y]] = "deleted"
               PROVE  \E q \in Proc : pc'[q] \in UnbindLabels /\ job'[q].sb = bound'[y]
    BY DEF NoDeadBinding, UnbindLabels
  <2>1. bound'[y] = bound[y]
    BY <1>2, <1>3, <1>5
  <2>2. PICK q \in Proc : pc[q] \in UnbindLabels /\ job[q].sb = bound[y]
    BY <1>3, <2>1 DEF DInv, NoDeadBinding, UnbindLabels
  <2>3. q # p
    BY <1>1, <2>2 DEF UnbindLabels
  <2> QED
    BY <1>3, <1>4, <2>1, <2>2, <2>3
<1> QED
  BY <1>2, <1>3, <1>4, <1>6, <1>7, <1>8, NewNames DEF x, DInv, NamesOK
\* A handler saves the lease of the sandbox it holds.
LEMMA SaveBindings ==
  ASSUME IInv, DInv, NEW p \in Proc, ClSave(p) \/ HbSave(p)
  PROVE  DInv'
<1> DEFINE s == job[p].s
<1>1. /\ pc[p] \in {"cl_save", "hb_save"} /\ s \in Sessions /\ job[p].sb \in SandboxIds
      /\ Owned(job[p].sb, job[p].mode, s) /\ job[p].sb \in NamedBy(p)
  BY DEF ClSave, HbSave, IInv, HandlersOK, JobInv, SessionLabels, SandboxLabels, Labels, DInv, NamesOK, NamedBy
<1>2. /\ leases' = [leases EXCEPT ![s] = LeaseOf(job[p])] /\ UNCHANGED <<bound, sandbox, owner>>
      /\ (Reply(p) \/ (Goto(p, "ft_ready") /\ UNCHANGED job))
  BY DEF ClSave, HbSave, LeaseMade, world
<1>3. /\ pc'[p] \in {"idle", "ft_ready"} /\ (pc'[p] = "ft_ready" => job'[p] = job[p])
      /\ \A q \in Proc \ {p} : pc'[q] = pc[q] /\ job'[q] = job[q]
  BY <1>2 DEF Reply, Goto, Set, IInv, TypeOK
<1>4. \A z \in Sessions : leases'[z] = IF z = s THEN LeaseOf(job[p]) ELSE leases[z]
  BY <1>1, <1>2 DEF IInv, TypeOK
<1>5. LeaseOf(job[p]).sb = job[p].sb /\ LeaseOf(job[p]).mode = job[p].mode
  BY DEF LeaseOf
<1> HIDE DEF s
<1>6. \A z \in Sessions : leases'[z] # None =>
        /\ leases'[z].sb \in NamedBy(p)
        /\ leases'[z] = leases[z] \/ Owned(leases'[z].sb, leases'[z].mode, z)
  BY <1>1, <1>4, <1>5 DEF NamedBy, Leased, DInv, NamesOK, Owned
<1>7. pc'[p] \in SandboxLabels => job'[p] = job[p]
  BY <1>3 DEF SandboxLabels, ReleaseLabels
<1>8. Passes(p)
  BY <1>1, <1>2, <1>3, <1>6, <1>7 DEF Passes, NamedBy, IInv, TypeOK
<1>9. NoDeadBinding'
  BY <1>1, <1>2, <1>3, StillAlive DEF UnbindLabels
<1> QED
  BY <1>1, <1>2, <1>3, <1>6, <1>7, <1>8, <1>9, NewNames DEF s, DInv, NamesOK

-----------------------------------------------------------------------------
(* release *)

LEMMA CountBindings ==
  ASSUME IInv, DInv, DeletesEnd, NEW p \in Proc, RelKeys(p) \/ RelMget(p)
  PROVE  DInv'
<1>1. pc[p] \in {"rel_keys", "rel_mget"} /\ pc'[p] \in {"rel_mget", "rel_kill", "rel_slot", "pq_pop"}
  BY DEF RelKeys, RelMget, Disposal, DeletesEnd, At, Goto, IInv, TypeOK
<1>2. SameWork(p)
  BY <1>1, SameSet, JobTyped DEF RelKeys, RelMget, Disposal, At, Job, SessionLabels, SandboxLabels, ReleaseLabels, Labels
<1> QED
  BY <1>1, <1>2, SameNames DEF RelKeys, RelMget, UnbindLabels, store, world

LEMMA KillBindings ==
  ASSUME IInv, DInv, DeletesEnd, NEW p \in Proc, RelKill(p)
  PROVE  DInv'
<1> DEFINE x == job[p].sb
<1>1. pc[p] = "rel_kill" /\ x \in SandboxIds /\ x \in NamedBy(p)
  BY DEF RelKill, Dispose, At, IInv, HandlersOK, JobInv, SandboxLabels, ReleaseLabels, NamedBy
<1>2. UNCHANGED <<bound, leases, owner>>
  BY DEF RelKill, Dispose, At, store, world
<1>3. ~Fault("provider")
  BY DEF Fault, DeletesEnd
<1>4. CASE UNCHANGED sandbox
  <2>1. SameWork(p) /\ pc'[p] \in {"idle", "rel_unbind"}
    BY SameGoto, SameReply DEF RelKill, Dispose, At, Goto, Reply, SessionLabels, SandboxLabels, ReleaseLabels,
       Labels, IInv, TypeOK
  <2> QED
    BY <1>1, <1>2, <1>4, <2>1, SameNames DEF UnbindLabels
<1>5. CASE sandbox' # sandbox
  <2>1. sandbox[x] # "deleted" /\ sandbox' = [sandbox EXCEPT ![x] = "deleted"]
        /\ Goto(p, "rel_unbind") /\ UNCHANGED job
    BY <1>3, <1>5 DEF RelKill, Dispose, Provider, ProviderFails, At, world
  <2>2. pc'[p] = "rel_unbind" /\ job' = job /\ \A q \in Proc \ {p} : pc'[q] = pc[q]
    BY <2>1 DEF Goto, IInv, TypeOK
  <2>3. sandbox'[x] = "deleted" /\ \A id \in SandboxIds \ {x} : sandbox'[id] = sandbox[id]
    BY <1>1, <2>1 DEF IInv, TypeOK
  <2>4. Owned(job'[p].sb, job'[p].mode, job'[p].s) /\ job'[p].sb \in NamedBy(p)
    BY <1>1, <2>2 DEF DInv, NamesOK, SandboxLabels, ReleaseLabels
  <2>5. Passes(p)
    BY <1>1, <1>2, <2>2, <2>3, <2>4 DEF Passes, NamedBy, Leased, DInv, NamesOK, Owned, IInv, TypeOK
  <2>6. NoDeadBinding'
    <3> SUFFICES ASSUME NEW k \in Keys, bound'[k] # None, sandbox'[bound'[k]] = "deleted"
                 PROVE  \E q \in Proc : pc'[q] \in UnbindLabels /\ job'[q].sb = bound'[k]
      BY DEF NoDeadBinding, UnbindLabels
    <3>1. CASE bound[k] = x
      BY <1>2, <2>2, <3>1 DEF UnbindLabels
    <3>2. CASE bound[k] # x
      <4>1. bound[k] \in SandboxIds /\ sandbox[bound[k]] = "deleted"
        BY <1>2, <2>3, <3>2 DEF IInv, TypeOK
      <4>2. PICK q \in Proc : pc[q] \in UnbindLabels /\ job[q].sb = bound[k]
        BY <1>2, <4>1 DEF DInv, NoDeadBinding, UnbindLabels
      <4>3. q # p
        BY <1>1, <4>2 DEF UnbindLabels
      <4> QED
        BY <1>2, <2>2, <4>2, <4>3
    <3> QED
      BY <3>1, <3>2
  <2> QED
    BY <1>2, <2>3, <2>4, <2>5, <2>6, NewNames DEF DInv, NamesOK
<1> QED
  BY <1>4, <1>5

\* Mappings are cleared, and p's own only when it has been looked at.
LEMMA ClearBindings ==
  ASSUME IInv, DInv, NEW p \in Proc,
         RelUnbind(p) \/ RelOwner(p) \/ RelUnbindOwner(p) \/ RelClear(p) \/ RelDelete(p) \/ RelSlot(p)
  PROVE  DInv'
<1> DEFINE j == job[p]
           k == OwnerKey(j.mode, j.s)
<1>1. pc[p] \in SandboxLabels /\ Owned(j.sb, j.mode, j.s) /\ j.sb \in NamedBy(p) /\ k \in Keys /\ j.s \in Sessions
  <2>1. pc[p] \in SandboxLabels
    BY DEF RelUnbind, RelOwner, RelUnbindOwner, RelClear, RelDelete, RelSlot, At, SandboxLabels, ReleaseLabels
  <2> QED
    BY <2>1, SandboxIsSession, OwnerKeyIsKey DEF IInv, HandlersOK, JobInv, DInv, NamesOK, NamedBy
<1>2. /\ pc'[p] \in UnbindLabels \cup {"rel_clear", "rel_slot", "rel_keys", "pq_pop"} /\ job' = job
      /\ \A q \in Proc \ {p} : pc'[q] = pc[q]
  BY DEF RelUnbind, RelOwner, RelUnbindOwner, RelClear, RelDelete, RelSlot, AfterUnbind, UnbindLabels, At, Goto,
     IInv, TypeOK
<1>3. /\ UNCHANGED <<sandbox, owner>> /\ \A y \in Keys : bound'[y] \in {None, bound[y]}
      /\ \A s \in Sessions : leases'[s] \in {None, leases[s]}
  BY DEF RelUnbind, RelOwner, RelUnbindOwner, RelClear, RelDelete, RelSlot, store, world, IInv, TypeOK
<1>4. /\ \A y \in Keys : bound'[y] # None => bound'[y] \in NamedBy(p) /\ owner[bound'[y]] = y
      /\ \A s \in Sessions : leases'[s] # None => leases'[s].sb \in NamedBy(p)
  BY <1>3 DEF NamedBy, Leased, IInv, TypeOK, DInv, NamesOK, Owned
<1>5. Passes(p)
  BY <1>1, <1>2, <1>3, <1>4 DEF Passes, UnbindLabels
<1>6. ASSUME NEW y \in Keys, bound'[y] # None, bound'[y] = bound[y], pc[p] \in UnbindLabels, j.sb = bound[y]
      PROVE  pc'[p] \in UnbindLabels
  <2>1. y = k
    BY <1>1, <1>6 DEF Owned, DInv, NamesOK
  <2>2. CASE RelUnbind(p)
    <3>1. j.mode # "exclusive"
      BY <1>1, <1>6, <2>1, <2>2 DEF RelUnbind, OwnerKey, IInv, TypeOK
    <3> QED
      BY <2>2, <3>1 DEF RelUnbind, At, Goto, UnbindLabels, IInv, TypeOK
  <2>3. CASE RelOwner(p)
    <3>1. BoundSandbox(j) = j.sb
      BY <1>6, <2>1 DEF BoundSandbox
    <3> QED
      BY <2>3, <3>1 DEF RelOwner, At, Goto, UnbindLabels, IInv, TypeOK
  <2>4. CASE RelUnbindOwner(p)
    BY <1>1, <1>6, <2>1, <2>4 DEF RelUnbindOwner, IInv, TypeOK
  <2>5. CASE RelClear(p) \/ RelDelete(p) \/ RelSlot(p)
    BY <1>6, <2>5 DEF RelClear, RelDelete, RelSlot, At, UnbindLabels
  <2> QED
    BY <2>2, <2>3, <2>4, <2>5
<1>7. NoDeadBinding'
  BY <1>2, <1>3, <1>6, StillAlive
<1>8. pc'[p] \in SandboxLabels => Owned(job'[p].sb, job'[p].mode, job'[p].s)
  BY <1>1, <1>2
<1> QED
  BY <1>3, <1>4, <1>5, <1>7, <1>8, NewNames

LEMMA NoKeepBindings ==
  ASSUME DInv, NEW p \in Proc
  PROVE  ~RelStop(p) /\ ~RelKeep(p)
BY DEF RelStop, RelKeep, Dispose, At, DInv, KeptByNone
-----------------------------------------------------------------------------
(* processQueue and fulfillTicket *)

LEMMA QueueBindings ==
  ASSUME IInv, DInv, NEW p \in Proc, PqPop(p) \/ PqMore(p)
  PROVE  DInv'
<1>1. /\ pc[p] \in {"pq_pop", "pq_more"} /\ pc'[p] \in {"idle", "sw_next", "ft_claim", "pq_pop"}
      /\ UNCHANGED <<bound, leases, sandbox, owner>>
  BY DEF PqPop, PqMore, Released, Reply, Goto, store, world, IInv, TypeOK
<1>2. SameWork(p)
  BY <1>1, SameGoto, SameSet, SameReleased DEF PqPop, PqMore, SessionLabels, SandboxLabels, ReleaseLabels, Labels
<1> QED
  BY <1>1, <1>2, SameNames DEF UnbindLabels

LEMMA FulfilBindings ==
  ASSUME IInv, DInv, NEW p \in Proc,
         FtSlot(p) \/ FtReset(p) \/ FtRequeue(p) \/ FtPush(p) \/ FtReady(p) \/ FtUndo(p) \/ FtFail(p)
  PROVE  DInv'
<1>1. /\ pc[p] \in {"ft_slot", "ft_reset", "ft_requeue", "ft_push", "ft_ready", "ft_undo", "ft_fail"}
      /\ pc'[p] \in {"cl_lookup", "ft_reset", "ft_requeue", "ft_push", "ft_fail", "pq_more", "idle"}
      /\ UNCHANGED <<bound, leases, sandbox, owner>>
  BY DEF FtSlot, FtReset, FtRequeue, FtPush, FtReady, FtUndo, FtFail, Fulfilled, FulfilThrows, At, Goto, Reply,
     world, IInv, TypeOK
<1>2. SameWork(p)
  <2>1. CASE FtSlot(p)
    BY <2>1, SameGoto, SameSet, JobTyped DEF FtSlot, At, Job, SessionLabels, SandboxLabels, ReleaseLabels, Labels
  <2>2. CASE FtReset(p) \/ FtRequeue(p) \/ FtUndo(p)
    BY <2>2, SameGoto DEF FtReset, FtRequeue, FtUndo, At, SessionLabels, SandboxLabels, ReleaseLabels, Labels
  <2>3. CASE FtPush(p) \/ FtReady(p) \/ FtFail(p)
    BY <2>3, SameGoto, SameReply DEF FtPush, FtReady, FtFail, Fulfilled, FulfilThrows, SessionLabels, SandboxLabels,
       ReleaseLabels, Labels
  <2> QED
    BY <2>1, <2>2, <2>3
<1> QED
  BY <1>1, <1>2, SameNames DEF UnbindLabels

\* A handler that begins with work that names no sandbox, or one under lease.
LEMMA BeginBindings ==
  ASSUME IInv, DInv, NEW p \in Proc, NEW l, NEW j, Goto(p, l), Set(p, j),
         pc[p] \notin UnbindLabels, l \notin {"cl_bind", "rel_stop", "rel_keep"},
         UNCHANGED <<bound, leases, sandbox, owner>>,
         l \in SandboxLabels => \E s \in Leased : j.s = s /\ j.sb = leases[s].sb /\ j.mode = leases[s].mode
  PROVE  DInv'
<1>1. pc'[p] = l /\ job'[p] = j /\ \A q \in Proc \ {p} : pc'[q] = pc[q] /\ job'[q] = job[q]
  BY DEF Goto, Set, IInv, TypeOK
<1>2. pc'[p] \in SandboxLabels => Owned(job'[p].sb, job'[p].mode, job'[p].s) /\ job'[p].sb \in NamedBy(p)
  BY <1>1 DEF Leased, NamedBy, DInv, NamesOK, Owned
<1>3. Passes(p)
  BY <1>1, <1>2 DEF Passes, NamedBy, Leased, DInv, NamesOK, Owned, IInv, TypeOK
<1>4. NoDeadBinding'
  BY <1>1, StillAlive
<1> QED
  BY <1>2, <1>3, <1>4, NewNames DEF DInv, NamesOK

LEMMA ClaimBindings ==
  ASSUME IInv, DInv, NEW p \in Proc, FtClaim(p)
  PROVE  DInv'
<1>1. pc[p] = "ft_claim" /\ UNCHANGED <<bound, leases, sandbox, owner>>
  BY DEF FtClaim, world
<1>2. PICK u : u = job[p].t
  OBVIOUS
<1> DEFINE j == [job[p] EXCEPT !.s = tickets[u].session, !.mode = tickets[u].mode, !.sb = None]
<1>3. CASE Goto(p, "ft_slot") /\ Set(p, j)
  BY <1>1, <1>3, BeginBindings DEF UnbindLabels, SandboxLabels, ReleaseLabels
<1>4. CASE Fulfilled(p)
  <2>1. SameWork(p) /\ pc'[p] \in {"idle", "pq_more"}
    BY <1>1, <1>4, SameGoto, SameReply DEF Fulfilled, Goto, Reply, SessionLabels, SandboxLabels, ReleaseLabels, Labels,
       IInv, TypeOK
  <2> QED
    BY <1>1, <2>1, SameNames DEF UnbindLabels
<1> QED
  BY <1>2, <1>3, <1>4 DEF FtClaim

-----------------------------------------------------------------------------
(* The sweep and the clients *)

LEMMA ReleaseBegins ==
  ASSUME IInv, DInv, NEW p \in Proc, pc[p] \in {"idle", "sw_next"}, NEW s \in Sessions, NEW reason,
         NEW i \in Job, BeginRelease(p, s, reason, i), UNCHANGED <<bound, leases, sandbox, owner>>
  PROVE  DInv'
<1> DEFINE j == [i EXCEPT !.s = s, !.mode = leases[s].mode, !.sb = leases[s].sb, !.reason = reason]
<1>1. Goto(p, "rel_delete") /\ Set(p, j) /\ s \in Leased
  BY DEF BeginRelease, Leased
<1>2. j.s = s /\ j.sb = leases[s].sb /\ j.mode = leases[s].mode
  BY DEF Job
<1> HIDE DEF j
<1> QED
  BY <1>1, <1>2, BeginBindings DEF UnbindLabels

LEMMA SweepBindings ==
  ASSUME IInv, DInv, NEW p \in Proc, SwMget(p) \/ SwNext(p)
  PROVE  DInv'
<1>1. pc[p] \in {"sw_mget", "sw_next"} /\ UNCHANGED <<bound, leases, sandbox, owner>>
  BY DEF SwMget, SwNext, store, world
<1>2. CASE SwMget(p)
  <2>1. PICK l, j : Goto(p, l) /\ Set(p, j) /\ l \in {"idle", "sw_next"}
    BY <1>2 DEF SwMget, Reply
  <2> QED
    BY <1>1, <2>1, BeginBindings DEF UnbindLabels, SandboxLabels, ReleaseLabels
<1>3. CASE SwNext(p)
  <2>1. PICK s \in job[p].todo :
          \/ BeginRelease(p, s, "idle", [NoJob EXCEPT !.todo = job[p].todo \ {s}])
          \/ Reply(p)
          \/ Set(p, [NoJob EXCEPT !.todo = job[p].todo \ {s}]) /\ UNCHANGED pc
    BY <1>3 DEF SwNext
  <2>2. s \in Sessions /\ [NoJob EXCEPT !.todo = job[p].todo \ {s}] \in Job
    BY JobTyped DEF Job, NoJob
  <2>3. CASE BeginRelease(p, s, "idle", [NoJob EXCEPT !.todo = job[p].todo \ {s}])
    BY <1>1, <1>3, <2>2, <2>3, ReleaseBegins DEF SwNext
  <2>4. CASE Reply(p)
    BY <1>1, <2>4, BeginBindings DEF Reply, UnbindLabels, SandboxLabels, ReleaseLabels
  <2>5. CASE Set(p, [NoJob EXCEPT !.todo = job[p].todo \ {s}]) /\ UNCHANGED pc
    <3>1. Goto(p, "sw_next")
      BY <1>3, <2>5 DEF SwNext, Goto, IInv, TypeOK
    <3> QED
      BY <1>1, <2>5, <3>1, BeginBindings DEF UnbindLabels, SandboxLabels, ReleaseLabels
  <2> QED
    BY <2>1, <2>3, <2>4, <2>5
<1> QED
  BY <1>2, <1>3

LEMMA StepBindings ==
  ASSUME IInv, DInv, DeletesEnd, NEW p \in Proc, Step(p)
  PROVE  DInv'
BY AcquireBindings, LookupBindings, CallBindings, ForgetBindings, CreateBindings, BindBindings, SaveBindings,
   CountBindings, KillBindings, ClearBindings, NoKeepBindings, QueueBindings, FulfilBindings, ClaimBindings,
   SweepBindings DEF Step

\* No handler moves, and no sandbox disappears or is deleted.
LEMMA IdleBindings ==
  ASSUME IInv, DInv, UNCHANGED <<pc, job, bound, owner>>,
         \A id \in SandboxIds : /\ sandbox[id] # "absent" => sandbox'[id] # "absent"
                                /\ sandbox'[id] = "deleted" => sandbox[id] = "deleted",
         \A s \in Sessions : leases'[s] # None =>
           leases[s] # None /\ leases'[s].sb = leases[s].sb /\ leases'[s].mode = leases[s].mode
  PROVE  DInv'
<1>1. KnownOK' /\ NamesOK' /\ KeptByNone'
  BY DEF DInv, KnownOK, NamesOK, KeptByNone, Owned
<1>2. NoDeadBinding'
  BY DEF DInv, NoDeadBinding, IInv, TypeOK
<1>3. \A p \in Proc : NamedBy(p)' \subseteq NamedBy(p)
  BY DEF NamedBy, Leased
<1>4. FreshOK'
  BY <1>3 DEF DInv, FreshOK, NamesOK, Owned, SandboxLabels
<1> QED
  BY <1>1, <1>2, <1>4 DEF DInv

LEMMA ClientBindings ==
  ASSUME IInv, DInv, NEW p \in Workers, NEW s \in Sessions, ClientCall(p, s)
  PROVE  DInv'
<1>1. p \in Proc /\ pc[p] = "idle" /\ UNCHANGED <<bound, leases, sandbox, owner>>
  BY DEF ClientCall, Acquire, Release, Heartbeat, Request, store, world, Proc
<1>2. CASE UNCHANGED <<pc, job>>
  BY <1>1, <1>2, IdleBindings
<1>3. ASSUME NEW mode \in ModesOf[s], Acquire(p, s, mode), ~UNCHANGED <<pc, job>>
      PROVE  DInv'
  BY <1>1, <1>3, BeginBindings DEF Acquire, UnbindLabels, SandboxLabels, ReleaseLabels
<1>4. ASSUME NEW reason \in Reasons, Release(p, s, reason), ~UNCHANGED <<pc, job>>
      PROVE  DInv'
  <2>1. [NoJob EXCEPT !.client = s] \in Job
    BY DEF NoJob, Job
  <2> QED
    BY <1>1, <1>4, <2>1, ReleaseBegins DEF Release
<1>5. ASSUME Heartbeat(p, s), ~UNCHANGED <<pc, job>>
      PROVE  DInv'
  <2>1. s \in Leased
    BY <1>5 DEF Heartbeat, Leased
  <2> DEFINE j == [NoJob EXCEPT !.client = s, !.s = s, !.mode = leases[s].mode, !.sb = leases[s].sb]
  <2>2. j.s = s /\ j.sb = leases[s].sb /\ j.mode = leases[s].mode
    BY DEF NoJob
  <2>3. Goto(p, "hb_save") /\ Set(p, j)
    BY <1>5 DEF Heartbeat
  <2> HIDE DEF j
  <2> QED
    BY <1>1, <2>1, <2>2, <2>3, BeginBindings DEF UnbindLabels
<1> QED
  BY <1>2, <1>3, <1>4, <1>5 DEF ClientCall

LEMMA InitBindings == Init => DInv
BY DEF Init, DInv, KnownOK, NamesOK, FreshOK, KeptByNone, NoDeadBinding, SandboxLabels, ReleaseLabels

LEMMA NextDInv == DeletesEnd /\ IInv /\ DInv /\ [Next]_vars => DInv'
<1> SUFFICES ASSUME DeletesEnd, IInv, DInv, [Next]_vars
             PROVE  DInv'
  OBVIOUS
<1>1. ASSUME NEW p \in Workers, NEW s \in Sessions, ClientCall(p, s)
      PROVE  DInv'
  BY <1>1, ClientBindings
<1>2. ASSUME NEW p \in Workers, SandboxCall(p)
      PROVE  DInv'
  BY <1>2, IdleBindings DEF SandboxCall, Exec, Provider, ProviderFails, store, IInv, TypeOK
<1>3. ASSUME NEW p \in Sweepers, SwKeys(p)
      PROVE  DInv'
  <2>1. p \in Proc
    BY DEF Proc
  <2> QED
    BY <1>3, <2>1, BeginBindings DEF SwKeys, At, store, world, UnbindLabels, SandboxLabels, ReleaseLabels
<1>4. ASSUME Consume
      PROVE  DInv'
  <2>1. Consumer \in Proc
    BY DEF Proc
  <2> QED
    BY <1>4, <2>1, BeginBindings DEF Consume, At, store, world, UnbindLabels, SandboxLabels, ReleaseLabels
<1>5. ASSUME NEW p \in Proc, Step(p)
      PROVE  DInv'
  BY <1>5, StepBindings
<1>6. ASSUME NEW s \in Sessions, Expire(s)
      PROVE  DInv'
  <2>1. /\ leases[s] # None /\ leases[s] \in Lease /\ leases' = [leases EXCEPT ![s].fresh = FALSE]
        /\ UNCHANGED <<pc, job, bound, sandbox, owner>>
    BY <1>6 DEF Expire, world, IInv, TypeOK
  <2>2. leases'[s].sb = leases[s].sb /\ leases'[s].mode = leases[s].mode
        /\ \A z \in Sessions \ {s} : leases'[z] = leases[z]
    BY <2>1 DEF Lease, IInv, TypeOK
  <2> QED
    BY <2>1, <2>2, IdleBindings
<1>7. ASSUME Crash
      PROVE  DInv'
  BY <1>7 DEF Crash, Fault, DeletesEnd
<1>8. ASSUME UNCHANGED vars
      PROVE  DInv'
  BY <1>8, IdleBindings DEF vars, store, world
<1> QED
  BY <1>1, <1>2, <1>3, <1>4, <1>5, <1>6, <1>7, <1>8 DEF Next, AwaitCalls

\* Where an idle sandbox is deleted or pooled, and no provider call fails and no
\* restart comes between the delete and cleanupMappings, a mapping to a deleted
\* sandbox always has the release at work that will look at it: whatever the
\* modes, however requests, sweeps and fulfilments overlap.
THEOREM NoDeadBindings ==
  ASSUME DeletesEnd
  PROVE  Spec => []NoDeadBinding
<1>1. DInv => NoDeadBinding
  BY DEF DInv
<1> QED
  BY <1>1, InitBindings, NextDInv, Invariance, PTL DEF Spec
=============================================================================
