----------------------------- MODULE PluginTools -----------------------------
(***************************************************************************)
(* Proofs about the sandboxes of the plugin's tools: the one a tool call   *)
(* works in is the session's own, its user's or its pool's (HandlesOwned); *)
(* no more of them run than the broker has slots, because every one that   *)
(* runs without a lease or a request that leads to it is charged to a slot *)
(* nobody else has (Charged); and a session whose calls work has a lease,  *)
(* on their sandbox unless it was replaced (LeaseKnown).                   *)
(***************************************************************************)
EXTENDS PluginProofs, BrokerIsolation

-----------------------------------------------------------------------------
(* What the request of a plugin call is doing *)

LEMMA WorkersAreProcs == Workers \subseteq Proc
BY DEF Proc

LEMMA BrokerStepKnown ==
  ASSUME IInv, KInv, NEW w \in Workers, BrokerStep(w)
  PROVE  KInv' /\ SessionsStay
<1>1. CASE Step(w)
  BY <1>1, WorkersAreProcs, StepKnown, StepSessions
<1>2. ASSUME NEW s \in Sessions, ClientCall(w, s)
      PROVE  KInv' /\ SessionsStay
  <2>1. UNCHANGED tickets
    BY <1>2 DEF ClientCall, Acquire, Release, Heartbeat, store
  <2> QED
    BY <1>2, <2>1, ClientKnown DEF SessionsStay
<1>3. CASE UNCHANGED vars \/ RuntimeCall(w)
  BY <1>3, StartsKnown DEF vars, RuntimeCall, store, log, SessionsStay
<1> QED
  BY <1>1, <1>2, <1>3 DEF BrokerStep

LEMMA BackgroundKnown ==
  ASSUME IInv, KInv, Background
  PROVE  KInv' /\ SessionsStay
<1>1. Consumer \in Proc /\ Sweepers \subseteq Proc
  BY DEF Proc
<1>2. ASSUME NEW p \in Proc, Step(p) PROVE KInv' /\ SessionsStay
  BY <1>2, StepKnown, StepSessions
<1>3. UNCHANGED tickets => SessionsStay
  BY DEF SessionsStay
<1>4. CASE Consume \/ (\E p \in Sweepers : SwKeys(p)) \/ (\E s \in Sessions : Expire(s))
  BY <1>3, <1>4, ConsumeKnown, OtherKnown DEF Consume, SwKeys, Expire, store
<1> QED
  BY <1>1, <1>2, <1>4 DEF Background

\* A request that asks for a lease goes on asking for its session's.
Asks(p) ==
  pc'[p] # "idle" =>
    /\ pc'[p] \in AskLabels /\ job'[p].s = job[p].s
    /\ job'[p].t # None => pc'[p] \in {"enq_push", "enq_publish"}

LEMMA GotoAsks ==
  ASSUME IInv, NEW p \in Proc, NEW l, Goto(p, l), UNCHANGED job, l # "idle" => l \in AskLabels,
         job[p].t = None \/ l \in {"enq_push", "enq_publish"}
  PROVE  Asks(p)
BY DEF IInv, TypeOK, Asks, Goto

LEMMA SetAsks ==
  ASSUME IInv, NEW p \in Proc, NEW l, NEW j, Goto(p, l), Set(p, j), l # "idle" => l \in AskLabels /\ j.s = job[p].s,
         j.t = None \/ l \in {"idle", "enq_push", "enq_publish"}
  PROVE  Asks(p)
BY DEF IInv, TypeOK, Asks, Goto, Set

LEMMA ReplyAsks ==
  ASSUME IInv, NEW p \in Proc, Reply(p)
  PROVE  Asks(p)
BY SetAsks DEF Reply

LEMMA LeaseAsks ==
  ASSUME IInv, NEW p \in Proc, job[p].t = None, LeaseFailed(p) \/ LeaseMade(p)
  PROVE  Asks(p)
BY ReplyAsks, GotoAsks DEF LeaseFailed, LeaseMade, AskLabels

LEMMA StepAsks ==
  ASSUME IInv, NEW p \in Proc, Step(p), pc[p] \in AskLabels,
         job[p].t # None => pc[p] \in {"enq_push", "enq_publish"}
  PROVE  Asks(p)
<1>1. job[p] \in Job
  BY DEF IInv, TypeOK
<1>2. CASE AcqAttach(p) \/ AcqSlot(p) \/ AcqUndo(p) \/ EnqPush(p) \/ EnqPublish(p)
  BY <1>1, <1>2, GotoAsks, SetAsks, ReplyAsks
  DEF AcqAttach, AcqSlot, AcqUndo, EnqPush, EnqPublish, At, AskLabels, CreateLabels, Job
<1>3. CASE EnqSet(p)
  <2>1. PICK u : Goto(p, "enq_push") /\ Set(p, [job[p] EXCEPT !.t = u])
    BY <1>3 DEF EnqSet, At
  <2>2. [job[p] EXCEPT !.t = u].s = job[p].s
    BY <1>1 DEF Job
  <2> QED
    BY <2>1, <2>2, SetAsks DEF AskLabels
<1>4. CASE ClLookup(p) \/ ClStart(p) \/ ClForget(p) \/ ClForgetOwner(p) \/ ClBind(p)
  BY <1>1, <1>4, GotoAsks, SetAsks
  DEF ClLookup, ClStart, ClForget, ClForgetOwner, ClBind, At, AskLabels, CreateLabels, Job
<1>5. CASE ClCreate(p) \/ ClWorkDir(p) \/ ClUserDir(p) \/ ClSave(p)
  BY <1>1, <1>5, GotoAsks, SetAsks, LeaseAsks
  DEF ClCreate, ClWorkDir, ClUserDir, ClSave, MakeDir, AskLabels, CreateLabels, Job
<1>6. CASE ~(\/ AcqAttach(p) \/ AcqSlot(p) \/ AcqUndo(p) \/ EnqSet(p) \/ EnqPush(p) \/ EnqPublish(p)
             \/ ClLookup(p) \/ ClStart(p) \/ ClForget(p) \/ ClForgetOwner(p) \/ ClBind(p)
             \/ ClCreate(p) \/ ClWorkDir(p) \/ ClUserDir(p) \/ ClSave(p))
  BY <1>6 DEF Step, RelDelete, RelKeys, RelMget, RelStop, RelKeep, RelKill, Dispose, RelUnbind, RelOwner,
     RelUnbindOwner, RelClear, RelSlot, PqPop, PqMore, FtClaim, FtSlot, FtReset, FtRequeue, FtPush, FtReady, FtUndo,
     FtFail, HbSave, SwMget, SwNext, At, AskLabels, CreateLabels
<1> QED
  BY <1>2, <1>3, <1>4, <1>5, <1>6

LEMMA RolesKeep ==
  ASSUME PInv, RolesOK, KInv', SessionsStay,
         \A q \in Workers :
           \/ pc'[q] = pc[q] /\ job'[q] = job[q] /\ step'[q] = step[q] /\ seat'[q] = seat[q]
           \/ RoleOK(q)'
  PROVE  RolesOK'
<1>1. ASSUME NEW q \in Workers,
             pc'[q] = pc[q] /\ job'[q] = job[q] /\ step'[q] = step[q] /\ seat'[q] = seat[q]
      PROVE  RoleOK(q)'
  BY <1>1, SeatFacts DEF RolesOK, RoleOK, SeatOK, SessionsStay
<1> QED
  BY <1>1 DEF RolesOK

\* A call takes its turn, and comes to no step that waits for the broker unless
\* its request is there.
LEMMA TurnRoles ==
  ASSUME IInv, PInv, RolesOK, NEW w \in Workers, BrokerStep(w), NEW st, NEW v, Turn(w, st, v),
         st = "asking" => pc'[w] \in AskLabels /\ job'[w].s = v.s /\ job'[w].t = None,
         st = "beating" => pc'[w] = "hb_save" /\ job'[w].s = v.s,
         st = "polling" => v.t \in TicketIds /\ tickets[v.t] # None /\ tickets[v.t].session = v.s
  PROVE  RolesOK'
<1>1. KInv' /\ SessionsStay
  BY BrokerStepKnown DEF RolesOK
<1>2. \A q \in Workers \ {w} : pc'[q] = pc[q] /\ job'[q] = job[q]
  BY BrokerStepOwn, WorkersAreProcs
<1>3. step'[w] = st /\ seat'[w] = v /\ \A q \in Workers \ {w} : step'[q] = step[q] /\ seat'[q] = seat[q]
  BY TurnSame
<1>4. RoleOK(w)'
  BY <1>1, <1>3 DEF RoleOK, SessionsStay
<1> QED
  BY <1>1, <1>2, <1>3, <1>4, RolesKeep

LEMMA CallAgainRoles ==
  ASSUME IInv, PInv, RolesOK, NEW w \in Workers, NEW s \in Sessions, CallAgain(w, s)
  PROVE  RolesOK'
BY TurnRoles DEF CallAgain, BrokerStep, vars

LEMMA CallFirstRoles ==
  ASSUME IInv, PInv, RolesOK, NEW w \in Workers, NEW s \in Sessions, CallFirst(w, s)
  PROVE  RolesOK'
<1>1. PICK mode \in ModesOf[s] : Acquire(w, s, mode)
  BY DEF CallFirst
<1>2. BrokerStep(w)
  BY <1>1, AcquireSteps
<1>3. CASE leases[s] = None
  <2> DEFINE j == [NoJob EXCEPT !.client = s, !.s = s, !.mode = mode]
  <2>1. Goto(w, IF mode = "exclusive" THEN "acq_slot" ELSE "acq_attach") /\ Set(w, j)
    BY <1>1, <1>3 DEF Acquire
  <2>2. j.s = s /\ j.t = None
    BY DEF NoJob
  <2> HIDE DEF j
  <2>3. pc'[w] \in AskLabels /\ job'[w].s = s /\ job'[w].t = None
    BY <2>1, <2>2, WorkersAreProcs DEF Goto, Set, AskLabels, IInv, TypeOK
  <2>4. [NoSeat EXCEPT !.s = s].s = s
    BY DEF NoSeat
  <2> QED
    BY <1>2, <1>3, <2>3, <2>4, TurnRoles DEF CallFirst
<1>4. CASE leases[s] # None
  BY <1>2, <1>4, TurnRoles DEF CallFirst
<1> QED
  BY <1>3, <1>4

LEMMA EventRoles ==
  ASSUME IInv, PInv, RolesOK, NEW w \in Workers, NEW s \in Sessions, NEW reason \in Reasons, Event(w, s, reason)
  PROVE  RolesOK'
<1>1. BrokerStep(w)
  BY DEF Event, BrokerStep, ClientCall
<1>2. CASE leases[s] = None
  <2>1. UNCHANGED <<pc, job, step, seat>>
    BY <1>2 DEF Event, Release, BeginRelease
  <2> QED
    BY <1>1, <2>1, BrokerStepKnown, RolesKeep DEF RolesOK
<1>3. CASE leases[s] # None
  BY <1>1, <1>3, TurnRoles DEF Event
<1> QED
  BY <1>2, <1>3

LEMMA ToolRoles ==
  ASSUME IInv, PInv, RolesOK, NEW w \in Workers, Tool(w)
  PROVE  RolesOK'
<1>1. CASE Beat(w)
  <2> DEFINE s == seat[w].s
  <2>1. s \in Sessions /\ Heartbeat(w, s) /\ BrokerStep(w)
    BY <1>1, SeatFacts DEF Beat, SeatOK, BrokerStep, ClientCall
  <2>2. leases[s] # None => pc'[w] = "hb_save" /\ job'[w].s = s
    <3> DEFINE j == [NoJob EXCEPT !.client = s, !.s = s, !.mode = leases[s].mode, !.sb = leases[s].sb]
    <3>1. leases[s] # None => Goto(w, "hb_save") /\ Set(w, j) /\ j.s = s
      BY <2>1 DEF Heartbeat, NoJob
    <3> HIDE DEF j
    <3> QED
      BY <3>1, WorkersAreProcs DEF Goto, Set, IInv, TypeOK
  <2> QED
    BY <1>1, <2>1, <2>2, TurnRoles DEF Beat, Go
<1>2. CASE PollReady(w) \/ PollTimeout(w)
  BY <1>2, TurnRoles DEF PollReady, PollTimeout, Use, GivesUp, Over, BrokerStep
<1>3. CASE Reopen(w) \/ Connect(w) \/ Prepare(w) \/ Run(w)
  <2>1. BrokerStep(w)
    BY <1>3 DEF Reopen, Connect, Prepare, Run, Calls, BrokerStep, RuntimeCall
  <2>2. \E st \in {"beat", "prepare", "run", "again", "free"} : \E v : Turn(w, st, v)
    BY <1>3 DEF Reopen, Connect, Prepare, Run, Calls, Go, Keep, Ends, GivesUp, Over
  <2> QED
    BY <2>1, <2>2, TurnRoles
<1> QED
  BY <1>1, <1>2, <1>3 DEF Tool

LEMMA ServeRoles ==
  ASSUME IInv, PInv, RolesOK, NEW w \in Workers, Serve(w)
  PROVE  RolesOK'
<1>1. w \in Proc /\ Step(w) /\ BrokerStep(w)
  BY WorkersAreProcs DEF Serve, BrokerStep
<1>2. pc[w] # "idle" /\ step[w] \in AtBroker
  BY <1>1, StepOwn, SeatFacts DEF Own, SeatOK
<1>3. CASE pc'[w] # "idle"
  <2>1. UNCHANGED plugin
    BY <1>3 DEF Serve
  <2>2. step[w] # "beating"
    <3>1. step[w] = "beating" => HbSave(w)
      BY <1>1 DEF RolesOK, RoleOK, Step, AcqAttach, AcqSlot, AcqUndo, EnqSet, EnqPush, EnqPublish, ClLookup, ClStart,
         ClForget, ClForgetOwner, ClCreate, ClBind, ClWorkDir, ClUserDir, ClSave, MakeDir, RelDelete, RelKeys, RelMget,
         RelStop, RelKeep, RelKill, Dispose, RelUnbind, RelOwner, RelUnbindOwner, RelClear, RelSlot, PqPop, PqMore,
         FtClaim, FtSlot, FtReset, FtRequeue, FtPush, FtReady, FtUndo, FtFail, SwMget, SwNext, At
    <3> QED
      BY <1>1, <1>3, <3>1 DEF HbSave, Reply, Goto, IInv, TypeOK
  <2>3. RoleOK(w)'
    BY <1>1, <1>2, <1>3, <2>1, <2>2, StepAsks DEF RolesOK, RoleOK, plugin, AtBroker, Asks
  <2> QED
    BY <1>1, <2>1, <2>3, BrokerStepKnown, BrokerStepOwn, RolesKeep DEF RolesOK, plugin, Proc
<1>4. CASE pc'[w] = "idle"
  <2>1. Answered(w)
    BY <1>4 DEF Serve
  <2>2. CASE /\ step[w] = "asking" /\ pc[w] = "enq_publish"
             /\ Turn(w, "polling", [seat[w] EXCEPT !.t = job[w].t])
    <3> DEFINE v == [seat[w] EXCEPT !.t = job[w].t]
    <3>1. v.t = job[w].t /\ v.s = seat[w].s
      BY SeatFacts DEF Seat
    <3>2. job[w].t \in TicketIds /\ tickets[job[w].t] # None /\ tickets[job[w].t].session = seat[w].s
      BY <1>1, <2>2, NamesAssumption DEF RolesOK, RoleOK, KInv, TicketWork, IInv, HandlersOK, JobInv, TicketLabels
    <3> HIDE DEF v
    <3> QED
      BY <1>1, <2>2, <3>1, <3>2, TurnRoles DEF v
  <2>3. ASSUME NEW st \in {"free", "run", "connect"}, NEW v, Turn(w, st, v)
        PROVE  RolesOK'
    BY <1>1, <2>3, TurnRoles
  <2> QED
    BY <1>1, <2>1, <2>2, <2>3, AnsweredIs DEF Go, Use, GivesUp, ReleaseError, ReleaseOk, Over
<1> QED
  BY <1>3, <1>4

LEMMA BackgroundRoles ==
  ASSUME IInv, PInv, RolesOK, Background, UNCHANGED plugin
  PROVE  RolesOK'
BY BackgroundKnown, BackgroundOthers, RolesKeep DEF RolesOK, plugin

LEMMA BrokerDiesRoles ==
  ASSUME IInv, PInv, RolesOK, BrokerDies
  PROVE  RolesOK'
<1>1. KInv' /\ SessionsStay
  BY OtherKnown DEF BrokerDies, RolesOK, SessionsStay, Crash, store
<1>2. \A w \in Workers : /\ (step'[w] = "free" /\ pc[w] # "idle") \/ (step'[w] = step[w] /\ seat'[w] = seat[w] /\ pc[w] = "idle")
  BY DEF BrokerDies
<1>3. ASSUME NEW w \in Workers PROVE RoleOK(w)'
  <2>1. pc[w] = "idle" => step[w] \notin {"asking", "beating"}
    BY DEF RolesOK, RoleOK, AskLabels, CreateLabels
  <2>2. step[w] = "polling" => seat[w].t \in TicketIds /\ tickets[seat[w].t] # None /\ tickets[seat[w].t].session = seat[w].s
    BY SeatFacts DEF SeatOK, RolesOK, RoleOK
  <2> QED
    BY <1>1, <1>2, <2>1, <2>2 DEF RoleOK, SessionsStay
<1> QED
  BY <1>1, <1>3 DEF RolesOK

LEMMA PluginNextRoles ==
  ASSUME IInv, PInv, RolesOK, [PluginNext]_allVars
  PROVE  RolesOK'
<1>1. CASE UNCHANGED allVars
  BY <1>1, StartsKnown, RolesKeep DEF allVars, vars, store, log, plugin, RolesOK, SessionsStay
<1>2. CASE Background /\ UNCHANGED plugin
  BY <1>2, BackgroundRoles
<1> QED
  BY <1>1, <1>2, CallAgainRoles, CallFirstRoles, EventRoles, ToolRoles, ServeRoles, BrokerDiesRoles
  DEF PluginNext, Background

LEMMA PluginInitRoles ==
  ASSUME PluginInit
  PROVE  RolesOK
BY InitKnown DEF PluginInit, RolesOK, RoleOK

LEMMA PluginRoles == PluginSpec => []RolesOK
<1>1. PluginInit => RolesOK
  BY PluginInitRoles
<1>2. PInv /\ IInv /\ RolesOK /\ [PluginNext]_allVars => RolesOK'
  BY PluginNextRoles
<1> QED
  BY <1>1, <1>2, PluginInvariance, PTL DEF PluginSpec

-----------------------------------------------------------------------------
(* Sandboxes under the plugin keep their owners *)

\* A sandbox that was created for a key stays with it.
OwnersStay == \A id \in SandboxIds : owner[id] # None => owner'[id] = owner[id]

LEMMA StepOwners ==
  ASSUME IInv, OInv, NEW p \in Proc, Step(p)
  PROVE  OwnersStay
<1>1. CASE ClCreate(p)
  <2>1. CASE UNCHANGED owner
    BY <2>1 DEF OwnersStay
  <2>2. ASSUME NEW id \in SandboxIds, sandbox[id] = "absent", NEW k, owner' = [owner EXCEPT ![id] = k]
        PROVE  OwnersStay
    BY <2>2, FreshIsNew DEF OwnersStay
  <2> QED
    BY <1>1, <2>1, <2>2, AnyOfIn DEF ClCreate, world
<1>2. CASE ~ClCreate(p)
  <2>1. UNCHANGED owner
    BY <1>2 DEF Step, AcqAttach, AcqSlot, AcqUndo, EnqSet, EnqPush, EnqPublish, ClLookup, ClStart, ClForget,
       ClForgetOwner, ClBind, ClWorkDir, ClUserDir, ClSave, MakeDir, RelDelete, RelKeys, RelMget, RelStop,
       RelKeep, RelKill, Dispose, RelUnbind, RelOwner, RelUnbindOwner, RelClear, RelSlot, PqPop, PqMore, FtClaim, FtSlot,
       FtReset, FtRequeue, FtPush, FtReady, FtUndo, FtFail, HbSave, SwMget, SwNext, world
  <2> QED
    BY <2>1 DEF OwnersStay
<1> QED
  BY <1>1, <1>2

LEMMA SameOwned ==
  ASSUME IInv, OInv, UNCHANGED <<pc, job, leases, bound, tickets, owner>>,
         \A id \in SandboxIds : sandbox[id] # "absent" => sandbox'[id] # "absent"
  PROVE  OInv'
BY LeasesSame, TicketsSame, KnownSame, BoundLess DEF OInv, WorkOK, Owned

LEMMA BrokerStepOwned ==
  ASSUME StickyModes, IInv, OInv, NEW w \in Workers, BrokerStep(w)
  PROVE  OInv' /\ OwnersStay
<1>1. CASE Step(w)
  BY <1>1, WorkersAreProcs, StepOwned, StepOwners
<1>2. CASE UNCHANGED vars
  BY <1>2, SameOwned DEF vars, store, world, OwnersStay
<1>3. CASE RuntimeCall(w)
  <2>1. \A id \in SandboxIds : sandbox[id] # "absent" => sandbox'[id] # "absent"
    BY <1>3 DEF RuntimeCall, Provider, ProviderFails, Fault, IInv, TypeOK
  <2> QED
    BY <1>3, <2>1, SameOwned DEF RuntimeCall, store, OwnersStay
<1>4. ASSUME NEW s \in Sessions, ClientCall(w, s) PROVE OInv' /\ OwnersStay
  <2>1. UNCHANGED owner
    BY <1>4 DEF ClientCall, Acquire, Release, Heartbeat, world
  <2> QED
    BY <1>4, <2>1, WorkersAreProcs, AcquireOwned, ReleaseOwned, HeartbeatOwned DEF ClientCall, OwnersStay
<1> QED
  BY <1>1, <1>2, <1>3, <1>4 DEF BrokerStep

LEMMA BackgroundOwned ==
  ASSUME StickyModes, IInv, OInv, Background
  PROVE  OInv' /\ OwnersStay
<1>1. Consumer \in Proc /\ Sweepers \subseteq Proc
  BY DEF Proc
<1>2. ASSUME NEW p \in Proc, Step(p) PROVE OInv' /\ OwnersStay
  BY <1>2, StepOwned, StepOwners
<1>3. UNCHANGED owner => OwnersStay
  BY DEF OwnersStay
<1>4. CASE Consume \/ (\E p \in Sweepers : SwKeys(p)) \/ (\E s \in Sessions : Expire(s))
  BY <1>1, <1>3, <1>4, ConsumeOwned, SwKeysOwned, ExpireOwned DEF Consume, SwKeys, Expire, world
<1> QED
  BY <1>1, <1>2, <1>4 DEF Background

-----------------------------------------------------------------------------
(* The sandboxes of handles and tool calls *)

\* Handles and tool calls keep the sandboxes they have, and a new one is the
\* session's by the broker's word.
HandlesKeep ==
  /\ \A s \in Sessions :
       \/ handle'[s] \in {None, handle[s]}
       \/ \E w \in Workers : step[w] \in ToolSteps /\ seat[w].s = s /\ seat[w].sb = handle'[s]
  /\ \A w \in Workers : step'[w] \in ToolSteps =>
       \/ step[w] \in ToolSteps /\ seat'[w].s = seat[w].s /\ seat'[w].sb = seat[w].sb
       \/ seat'[w].s \in Sessions /\ OwnedFor(seat'[w].s, seat'[w].sb)

LEMMA HandlesKept ==
  ASSUME OInv, PInv, HandlesOwned, OwnersStay, HandlesKeep
  PROVE  HandlesOwned'
<1>1. ASSUME NEW s \in Sessions, NEW sb, OwnedFor(s, sb)
      PROVE  \E m \in ModesOf[s] : sb \in SandboxIds /\ owner'[sb] = OwnerKey(m, s)
  <2>1. PICK m \in ModesOf[s] : Owned(sb, m, s)
    BY <1>1 DEF OwnedFor
  <2>2. sb \in SandboxIds /\ owner[sb] # None
    BY <2>1, OwnedIsKnown
  <2> QED
    BY <2>1, <2>2 DEF Owned, OwnersStay
<1>2. \A w \in Workers : step[w] \in ToolSteps => seat[w].s \in Sessions
  BY SeatFacts DEF SeatOK, ToolSteps
<1>3. \A s \in Sessions : handle'[s] # None => OwnedFor(s, handle'[s])
  BY DEF HandlesKeep, HandlesOwned
<1>4. \A w \in Workers : step'[w] \in ToolSteps => OwnedFor(seat'[w].s, seat'[w].sb) /\ seat'[w].s \in Sessions
  BY <1>2 DEF HandlesKeep, HandlesOwned
<1> QED
  BY <1>1, <1>3, <1>4 DEF HandlesOwned, OwnedFor, Owned

LEMMA TurnOwned ==
  ASSUME StickyModes, IInv, PInv, OInv, HandlesOwned, NEW w \in Workers, BrokerStep(w), NEW st, NEW v, Turn(w, st, v),
         \A s \in Sessions :
           handle'[s] \in {None, handle[s]} \/ (step[w] \in ToolSteps /\ seat[w].s = s /\ seat[w].sb = handle'[s]),
         st \in ToolSteps =>
           \/ step[w] \in ToolSteps /\ v.s = seat[w].s /\ v.sb = seat[w].sb
           \/ v.s \in Sessions /\ OwnedFor(v.s, v.sb)
  PROVE  OInv' /\ HandlesOwned'
<1>1. OInv' /\ OwnersStay
  BY BrokerStepOwned
<1>2. step'[w] = st /\ seat'[w] = v /\ \A q \in Workers \ {w} : step'[q] = step[q] /\ seat'[q] = seat[q]
  BY TurnSame
<1>3. HandlesKeep
  BY <1>2 DEF HandlesKeep
<1> QED
  BY <1>1, <1>3, HandlesKept

\* The call and the map stay as they are, or the call is over.
LEMMA SameTurnOwned ==
  ASSUME StickyModes, IInv, PInv, OInv, HandlesOwned, NEW w \in Workers, BrokerStep(w),
         \A s \in Sessions : handle'[s] \in {None, handle[s]},
         NEW st, NEW v, Turn(w, st, v), st \in ToolSteps => step[w] \in ToolSteps /\ v = seat[w]
  PROVE  OInv' /\ HandlesOwned'
BY TurnOwned

LEMMA CallAgainOwned ==
  ASSUME StickyModes, IInv, PInv, OInv, HandlesOwned, NEW w \in Workers, NEW s \in Sessions, CallAgain(w, s)
  PROVE  OInv' /\ HandlesOwned'
<1> DEFINE v == [s |-> s, sb |-> handle[s], t |-> None]
<1>1. BrokerStep(w) /\ Turn(w, "reopen", v) /\ UNCHANGED handle /\ v.s = s /\ v.sb = handle[s] /\ handle[s] # None
  BY DEF CallAgain, BrokerStep
<1> HIDE DEF v
<1>2. OwnedFor(v.s, v.sb)
  BY <1>1 DEF HandlesOwned
<1> QED
  BY <1>1, <1>2, TurnOwned

LEMMA CallFirstOwned ==
  ASSUME StickyModes, IInv, PInv, OInv, HandlesOwned, NEW w \in Workers, NEW s \in Sessions, CallFirst(w, s)
  PROVE  OInv' /\ HandlesOwned'
<1>1. BrokerStep(w) /\ UNCHANGED handle
  BY AcquireSteps DEF CallFirst
<1>2. CASE leases[s] = None
  BY <1>1, <1>2, TurnOwned DEF CallFirst, ToolSteps
<1>3. CASE leases[s] # None
  <2> DEFINE v == [NoSeat EXCEPT !.s = s, !.sb = leases[s].sb]
  <2>1. Turn(w, "connect", v) /\ v.s = s /\ v.sb = leases[s].sb
    BY <1>3 DEF CallFirst, NoSeat
  <2> HIDE DEF v
  <2>2. OwnedFor(v.s, v.sb)
    BY <1>3, <2>1 DEF OInv, LeasesOK, OwnedFor
  <2> QED
    BY <1>1, <2>1, <2>2, TurnOwned
<1> QED
  BY <1>2, <1>3

LEMMA EventOwned ==
  ASSUME StickyModes, IInv, PInv, OInv, HandlesOwned,
         NEW w \in Workers, NEW s \in Sessions, NEW reason \in Reasons, Event(w, s, reason)
  PROVE  OInv' /\ HandlesOwned'
<1>1. BrokerStep(w)
  BY DEF Event, BrokerStep, ClientCall
<1>2. \A r \in Sessions : handle'[r] \in {None, handle[r]}
  BY DEF Event, PInv, PluginTypeOK
<1>3. CASE leases[s] = None
  <2>1. HandlesKeep
    BY <1>2, <1>3 DEF Event, HandlesKeep
  <2> QED
    BY <1>1, <2>1, BrokerStepOwned, HandlesKept
<1>4. CASE leases[s] # None
  BY <1>1, <1>2, <1>4, TurnOwned DEF Event, ToolSteps
<1> QED
  BY <1>3, <1>4

LEMMA KeepOwned ==
  ASSUME StickyModes, IInv, PInv, OInv, HandlesOwned, NEW w \in Workers, BrokerStep(w), step[w] \in ToolSteps, Keep(w)
  PROVE  OInv' /\ HandlesOwned'
<1>1. \A s \in Sessions : handle'[s] = handle[s] \/ (seat[w].s = s /\ seat[w].sb = handle'[s])
  BY DEF Keep, PInv, PluginTypeOK
<1> QED
  BY <1>1, TurnOwned DEF Keep

LEMMA ToolOwned ==
  ASSUME StickyModes, IInv, PInv, OInv, RolesOK, HandlesOwned, NEW w \in Workers, Tool(w)
  PROVE  OInv' /\ HandlesOwned'
<1>1. CASE PollReady(w)
  <2> DEFINE v == [seat[w] EXCEPT !.sb = tickets[seat[w].t].sb]
          t == seat[w].t
  <2>1. BrokerStep(w) /\ UNCHANGED handle /\ Turn(w, "connect", v) /\ v.s = seat[w].s /\ v.sb = tickets[t].sb
    BY <1>1, SeatFacts DEF PollReady, Use, BrokerStep, Seat
  <2>2. t \in TicketIds /\ tickets[t] # None /\ tickets[t].session = seat[w].s /\ seat[w].s \in Sessions
    BY <1>1, SeatFacts DEF PollReady, SeatOK, RolesOK, RoleOK
  <2>3. tickets[t].mode \in ModesOf[seat[w].s] /\ Owned(tickets[t].sb, tickets[t].mode, seat[w].s)
    BY <1>1, <2>2 DEF OInv, TicketsOK, PollReady, IsReady
  <2> HIDE DEF v
  <2>4. OwnedFor(v.s, v.sb)
    BY <2>1, <2>3 DEF OwnedFor
  <2> QED
    BY <2>1, <2>2, <2>4, TurnOwned
<1>2. CASE Beat(w) \/ PollTimeout(w)
  <2>1. BrokerStep(w) /\ UNCHANGED handle
    BY <1>2, SeatFacts DEF Beat, PollTimeout, SeatOK, BrokerStep, ClientCall, Go, GivesUp
  <2> QED
    BY <1>2, <2>1, SameTurnOwned DEF Beat, PollTimeout, Go, GivesUp, Over, ToolSteps
<1>3. CASE Reopen(w) \/ Connect(w) \/ Prepare(w) \/ Run(w)
  <2>1. BrokerStep(w) /\ step[w] \in ToolSteps
    BY <1>3 DEF Reopen, Connect, Prepare, Run, Calls, BrokerStep, RuntimeCall, ToolSteps
  <2>2. Keep(w) \/ \E st : UNCHANGED handle /\ (Turn(w, st, seat[w]) \/ (st = "free" /\ Turn(w, st, NoSeat)))
    BY <1>3 DEF Reopen, Connect, Prepare, Run, Calls, Go, Ends, GivesUp, Over
  <2> QED
    BY <2>1, <2>2, KeepOwned, SameTurnOwned DEF ToolSteps
<1> QED
  BY <1>1, <1>2, <1>3 DEF Tool

LEMMA ServeOwned ==
  ASSUME StickyModes, IInv, PInv, OInv, RolesOK, HandlesOwned, NEW w \in Workers, Serve(w)
  PROVE  OInv' /\ HandlesOwned'
<1>1. w \in Proc /\ Step(w) /\ BrokerStep(w)
  BY WorkersAreProcs DEF Serve, BrokerStep
<1>2. CASE pc'[w] # "idle"
  <2>1. HandlesKeep
    BY <1>2 DEF Serve, plugin, HandlesKeep
  <2> QED
    BY <1>1, <2>1, BrokerStepOwned, HandlesKept
<1>3. CASE pc'[w] = "idle"
  <2>1. Answered(w)
    BY <1>3 DEF Serve
  <2>2. CASE step[w] = "asking" /\ pc[w] = "cl_save" /\ Use(w, "connect", job[w].sb)
    <3> DEFINE v == [seat[w] EXCEPT !.sb = job[w].sb]
    <3>1. Turn(w, "connect", v) /\ UNCHANGED handle /\ v.s = seat[w].s /\ v.sb = job[w].sb
      BY <2>2, SeatFacts DEF Use, Seat
    <3>2. seat[w].s \in Sessions /\ job[w].s = seat[w].s
      BY <2>2, SeatFacts DEF SeatOK, RolesOK, RoleOK
    <3>3. job[w].mode \in ModesOf[job[w].s] /\ Owned(job[w].sb, job[w].mode, job[w].s)
      BY <1>1, <2>2 DEF OInv, WorkOK, SessionLabels, SandboxLabels, Labels
    <3> HIDE DEF v
    <3>4. OwnedFor(v.s, v.sb)
      BY <3>1, <3>2, <3>3 DEF OwnedFor
    <3> QED
      BY <1>1, <3>1, <3>2, <3>4, TurnOwned
  <2>3. CASE step[w] = "beating" /\ Go(w, "run")
    BY <1>1, <2>3, SameTurnOwned DEF Go, ToolSteps
  <2>4. CASE Turn(w, "polling", [seat[w] EXCEPT !.t = job[w].t]) /\ UNCHANGED handle
    BY <1>1, <2>4, SameTurnOwned DEF ToolSteps
  <2>5. CASE GivesUp(w) \/ ReleaseError(w) \/ ReleaseOk(w)
    <3>1. \A s \in Sessions : handle'[s] \in {None, handle[s]}
      BY <2>5 DEF GivesUp, ReleaseError, ReleaseOk, PInv, PluginTypeOK
    <3> QED
      BY <1>1, <2>5, <3>1, SameTurnOwned DEF GivesUp, ReleaseError, ReleaseOk, Over, ToolSteps
  <2> QED
    BY <1>1, <2>1, <2>2, <2>3, <2>4, <2>5, AnsweredIs
<1> QED
  BY <1>2, <1>3

LEMMA PluginNextOwned ==
  ASSUME StickyModes, IInv, PInv, OInv, RolesOK, HandlesOwned, [PluginNext]_allVars
  PROVE  OInv' /\ HandlesOwned'
<1>1. CASE Background /\ UNCHANGED plugin
  BY <1>1, BackgroundOwned, HandlesKept DEF HandlesKeep, plugin
<1>2. CASE BrokerDies
  <2>1. OInv' /\ OwnersStay
    BY <1>2, CrashOwned DEF BrokerDies, Crash, world, OwnersStay
  <2>2. HandlesKeep
    BY <1>2 DEF BrokerDies, HandlesKeep, ToolSteps
  <2> QED
    BY <2>1, <2>2, HandlesKept
<1>3. CASE UNCHANGED allVars
  BY <1>3, NextOwned, HandlesKept DEF allVars, vars, world, plugin, HandlesKeep, OwnersStay
<1> QED
  BY <1>1, <1>2, <1>3, CallAgainOwned, CallFirstOwned, EventOwned, ToolOwned, ServeOwned DEF PluginNext, Background

LEMMA PluginOwned ==
  ASSUME StickyModes
  PROVE  PluginSpec => [](OInv /\ HandlesOwned /\ IInv /\ PInv)
<1>1. PluginInit => OInv /\ HandlesOwned
  BY InitOwned DEF PluginInit, HandlesOwned, ToolSteps
<1>2. PInv /\ IInv /\ RolesOK /\ OInv /\ HandlesOwned /\ [PluginNext]_allVars => OInv' /\ HandlesOwned'
  BY PluginNextOwned
<1> QED
  BY <1>1, <1>2, PluginInvariance, PluginRoles, PTL DEF PluginSpec

\* The sandbox a tool call works in was created for its session, its user or its
\* pool.  It comes from the plugin's map, from a lease or from a ticket, which a
\* release, a fulfilment or a restart may have overtaken since: none of them
\* names a sandbox of another owner (getHandle, pollUntilReady, fulfillTicket).
THEOREM ToolsAreIsolated ==
  ASSUME StickyModes
  PROVE  PluginSpec => []ToolsIsolated
<1>1. HandlesOwned => ToolsIsolated
  BY DEF HandlesOwned, OwnedFor, Owned, ToolsIsolated
<1> QED
  BY <1>1, PluginOwned, PTL

\* Leases stay with their owners under the plugin too, whose calls to a runtime
\* are steps the broker does not take.
THEOREM PluginIsolated ==
  ASSUME StickyModes
  PROVE  PluginSpec => []OwnerIsolation
<1>1. IInv /\ OInv => OwnerIsolation
  BY OwnedIsolates
<1> QED
  BY <1>1, PluginOwned, PTL

-----------------------------------------------------------------------------
(* Where a step of a handler leads *)

\* A release stays its client's, and its sandbox the same.
LEMMA StepReleases ==
  ASSUME IInv, SInv, NEW p \in Proc, Step(p), pc'[p] \in LeaseLabels \cup ReleaseLabels
  PROVE  /\ pc[p] \in {"rel_delete"} \cup ReleaseLabels /\ pc'[p] \in ReleaseLabels
         /\ job'[p].s = job[p].s /\ job'[p].client = job[p].client /\ job'[p].sb = job[p].sb
<1>1. ~(AcqAttach(p) \/ SwMget(p) \/ SwNext(p)) /\ job[p].todo = {} /\ job[p] \in Job
  BY DEF SInv, SlotWorkOK, AcqAttach, SwMget, SwNext, At, IInv, TypeOK
<1>2. \A l : Goto(p, l) => pc'[p] = l
  BY DEF Goto, IInv, TypeOK
<1>3. CASE RelDelete(p) \/ RelKeep(p) \/ RelUnbind(p) \/ RelOwner(p) \/ RelUnbindOwner(p) \/ RelClear(p) \/ RelSlot(p)
  BY <1>3 DEF RelDelete, RelKeep, RelUnbind, RelOwner, RelUnbindOwner, RelClear, RelSlot, At, ReleaseLabels,
     Goto, LeaseLabels, AfterUnbind, IInv, TypeOK
<1>4. CASE RelStop(p) \/ RelKill(p)
  BY <1>2, <1>4 DEF RelStop, RelKill, Dispose, At, Reply, LeaseLabels, ReleaseLabels
<1>5. CASE RelKeys(p) \/ RelMget(p)
  <2>1. \E seen : Set(p, [job[p] EXCEPT !.seen = seen])
    BY <1>5 DEF RelKeys, RelMget
  <2>2. job'[p].s = job[p].s /\ job'[p].client = job[p].client /\ job'[p].sb = job[p].sb
    BY <1>1, <2>1 DEF Set, Job, IInv, TypeOK
  <2>3. pc[p] \in ReleaseLabels /\ pc'[p] \in ReleaseLabels \cup {"pq_pop"}
    BY <1>2, <1>5 DEF RelKeys, RelMget, Disposal, At, ReleaseLabels
  <2> QED
    BY <2>2, <2>3 DEF LeaseLabels
<1>6. CASE AcqSlot(p) \/ AcqUndo(p) \/ EnqSet(p) \/ EnqPush(p) \/ EnqPublish(p)
  BY <1>2, <1>6 DEF AcqSlot, AcqUndo, EnqSet, EnqPush, EnqPublish, At, Reply, LeaseLabels, ReleaseLabels
<1>7. CASE \/ ClLookup(p) \/ ClStart(p) \/ ClForget(p) \/ ClForgetOwner(p) \/ ClCreate(p) \/ ClBind(p)
           \/ ClWorkDir(p) \/ ClUserDir(p) \/ ClSave(p)
  BY <1>2, <1>7 DEF ClLookup, ClStart, ClForget, ClForgetOwner, ClCreate, ClBind, ClWorkDir, ClUserDir, ClSave, MakeDir,
     At, Reply, LeaseFailed, LeaseMade, LeaseLabels, ReleaseLabels
<1>8. CASE PqPop(p) \/ PqMore(p) \/ FtClaim(p) \/ FtSlot(p) \/ FtReset(p) \/ FtRequeue(p)
  BY <1>1, <1>2, <1>8 DEF PqPop, PqMore, FtClaim, FtSlot, FtReset, FtRequeue, At, Reply, Released, Fulfilled, LeaseLabels,
     ReleaseLabels
<1>9. CASE FtPush(p) \/ FtReady(p) \/ FtUndo(p) \/ FtFail(p) \/ HbSave(p)
  BY <1>2, <1>9 DEF FtPush, FtReady, FtUndo, FtFail, HbSave, At, Reply, Fulfilled, FulfilThrows, LeaseLabels, ReleaseLabels
<1> QED
  BY <1>1, <1>3, <1>4, <1>5, <1>6, <1>7, <1>8, <1>9 DEF Step

LEMMA StepGoes ==
  ASSUME IInv, SInv, NEW p \in Proc, Step(p)
  PROVE  Goes(p) /\ SInv'
<1>1. SInv' /\ Own(p)
  BY StepCovers, StepOwn
<1>2. pc'[p] \notin LeaseLabels
  BY StepReleases DEF LeaseLabels, ReleaseLabels
<1> QED
  BY <1>1, <1>2 DEF Goes, Own, Follows, SInv, SerialOK, SlotWorkOK

\* How many slots are accounted for.
LEMMA Accounts ==
  ASSUME NEW L, NEW H, NEW n \in 0..MaxConcurrency, IsFiniteSet(L), IsFiniteSet(H), Cardinality(L) + Cardinality(H) <= n
  PROVE  /\ Cardinality(L) \in Nat /\ Cardinality(H) \in Nat /\ n \in Nat
         /\ n - Cardinality(L) - Cardinality(H) \in Nat
<1>1. Cardinality(L) \in Nat /\ Cardinality(H) \in Nat
  BY FS_CardinalityType
<1> QED
  BY <1>1, ConfigAssumption

\* A handler moves with its slot.
LEMMA SlackMoves ==
  ASSUME IInv, SInv, NEW p \in Proc, Step(p), Leased' = Leased,
         \/ activeCount' = activeCount
         \/ activeCount' = activeCount + 1 /\ pc'[p] \in HoldLabels
         \/ GiveSlot /\ pc[p] \in HoldLabels /\ pc'[p] \notin HoldLabels,
         pc'[p] \in HoldLabels => pc[p] \in HoldLabels \/ activeCount' = activeCount + 1
  PROVE  /\ Slack \in Nat /\ Slack' \in Nat /\ Slack' >= Slack
         /\ activeCount' = activeCount /\ pc[p] \in HoldLabels /\ pc'[p] \notin HoldLabels => Slack' >= Slack + 1
<1>1. Goes(p) /\ SInv' /\ SlotWorkOK' /\ IInv'
  BY StepGoes, StepKeeps DEF SInv
<1>2. /\ Slack \in Nat /\ Slack' \in Nat /\ activeCount \in Nat
      /\ Slack = activeCount - Cardinality(Leased) - Cardinality(Holders)
      /\ Slack' = activeCount' - Cardinality(Leased) - Cardinality(Holders')
  BY <1>1, Accounts DEF Slack, SInv, SlotsCover, IInv, SlotBound
<1>3. /\ Cardinality(Holders) \in Nat /\ Cardinality(Leased) \in Nat
      /\ Cardinality(Holders') =
              Cardinality(Holders) + (IF pc'[p] \in HoldLabels THEN 1 ELSE 0)
                                   - (IF pc[p] \in HoldLabels THEN 1 ELSE 0)
      /\ pc[p] \in HoldLabels => Cardinality(Holders) > 0
  BY <1>1, HoldersCount
<1> QED
  BY <1>2, <1>3 DEF GiveSlot

-----------------------------------------------------------------------------
(* Live sandboxes and their names *)

LEMMA AtMostOneMore ==
  ASSUME NEW A, NEW B, NEW x, IsFiniteSet(A), B \subseteq A \cup {x}
  PROVE  IsFiniteSet(B) /\ Cardinality(A) \in Nat /\ Cardinality(B) \in Nat /\ Cardinality(B) <= Cardinality(A) + 1
<1>1. IsFiniteSet(A \cup {x}) /\ Cardinality(A \cup {x}) = IF x \in A THEN Cardinality(A) ELSE Cardinality(A) + 1
  BY FS_AddElement
<1>2. IsFiniteSet(B) /\ Cardinality(B) <= Cardinality(A \cup {x})
  BY <1>1, FS_Subset
<1> QED
  BY <1>1, <1>2, FS_CardinalityType

LEMMA NoMore ==
  ASSUME NEW A, NEW B, IsFiniteSet(A), B \subseteq A
  PROVE  IsFiniteSet(B) /\ Cardinality(A) \in Nat /\ Cardinality(B) \in Nat /\ Cardinality(B) <= Cardinality(A)
BY FS_Subset, FS_CardinalityType

LEMMA OneLess ==
  ASSUME NEW A, NEW B, NEW x \in A, IsFiniteSet(A), B \subseteq A \ {x}
  PROVE  IsFiniteSet(B) /\ Cardinality(A) \in Nat /\ Cardinality(B) \in Nat /\ Cardinality(B) <= Cardinality(A) - 1
<1>1. IsFiniteSet(A \ {x}) /\ Cardinality(A \ {x}) = Cardinality(A) - 1
  BY FS_RemoveElement
<1> QED
  BY <1>1, FS_Subset, FS_CardinalityType

\* A live sandbox loses its name, or a request its lease, only against a slot.
LEMMA ChargesKeep ==
  ASSUME Charged, Slack \in Nat, Slack' \in Nat, Slack' >= Slack,
         \/ Loose' \subseteq Loose /\ Stale' \subseteq Stale
         \/ Slack' >= Slack + 1 /\ Stale' \subseteq Stale /\ \E x : Loose' \subseteq Loose \cup {x}
         \/ Slack' >= Slack + 1 /\ Loose' \subseteq Loose /\ \E p : Stale' \subseteq Stale \cup {p}
         \/ (\E x : Loose' \subseteq Loose \cup {x}) /\ (\E p \in Stale : Stale' \subseteq Stale \ {p})
  PROVE  Charged'
<1>1. IsFiniteSet(Loose) /\ IsFiniteSet(Stale) /\ Cardinality(Loose) + Cardinality(Stale) <= Slack
  BY DEF Charged
<1>2. Loose' \subseteq Loose =>
        /\ IsFiniteSet(Loose') /\ Cardinality(Loose) \in Nat /\ Cardinality(Loose') \in Nat
        /\ Cardinality(Loose') <= Cardinality(Loose)
  BY <1>1, NoMore
<1>3. Stale' \subseteq Stale =>
        /\ IsFiniteSet(Stale') /\ Cardinality(Stale) \in Nat /\ Cardinality(Stale') \in Nat
        /\ Cardinality(Stale') <= Cardinality(Stale)
  BY <1>1, NoMore
<1>4. (\E x : Loose' \subseteq Loose \cup {x}) =>
        /\ IsFiniteSet(Loose') /\ Cardinality(Loose) \in Nat /\ Cardinality(Loose') \in Nat
        /\ Cardinality(Loose') <= Cardinality(Loose) + 1
  BY <1>1, AtMostOneMore
<1>5. (\E p : Stale' \subseteq Stale \cup {p}) =>
        /\ IsFiniteSet(Stale') /\ Cardinality(Stale) \in Nat /\ Cardinality(Stale') \in Nat
        /\ Cardinality(Stale') <= Cardinality(Stale) + 1
  BY <1>1, AtMostOneMore
<1>6. (\E p \in Stale : Stale' \subseteq Stale \ {p}) =>
        /\ IsFiniteSet(Stale') /\ Cardinality(Stale) \in Nat /\ Cardinality(Stale') \in Nat
        /\ Cardinality(Stale') <= Cardinality(Stale) - 1
  BY <1>1, OneLess
<1>7. IsFiniteSet(Loose') /\ IsFiniteSet(Stale')
  BY <1>2, <1>3, <1>4, <1>5, <1>6
<1>8. Cardinality(Loose') + Cardinality(Stale') <= Slack'
  <2>1. CASE Loose' \subseteq Loose /\ Stale' \subseteq Stale
    BY <1>1, <1>2, <1>3, <2>1
  <2>2. CASE Slack' >= Slack + 1 /\ Stale' \subseteq Stale /\ \E x : Loose' \subseteq Loose \cup {x}
    BY <1>1, <1>3, <1>4, <2>2
  <2>3. CASE Slack' >= Slack + 1 /\ Loose' \subseteq Loose /\ \E p : Stale' \subseteq Stale \cup {p}
    BY <1>1, <1>2, <1>5, <2>3
  <2>4. CASE (\E x : Loose' \subseteq Loose \cup {x}) /\ (\E p \in Stale : Stale' \subseteq Stale \ {p})
    BY <1>1, <1>4, <1>6, <2>4
  <2> QED
    BY <2>1, <2>2, <2>3, <2>4
<1> QED
  BY <1>7, <1>8 DEF Charged

\* No sandbox comes into use that has no name.
UsesKeep == \A id \in SandboxIds : InUse(id)' => InUse(id) \/ Named(id)'

\* It was live, it has a name, or it is not live.
Safely(id) == sandbox'[id] = sandbox[id] \/ sandbox[id] = "started" \/ Named(id)' \/ ~Live(id)'

LEMMA LiveKeeps ==
  ASSUME UsesKeep, NEW id \in SandboxIds, Safely(id)
  PROVE  Live(id)' => Live(id) \/ Named(id)'
BY DEF UsesKeep, Safely, Live

LEMMA NamesStay ==
  ASSUME IInv, SInv, NEW p \in Proc, Step(p), UNCHANGED leases, pc[p] \notin LeaseLabels
  PROVE  /\ Stale' = Stale
         /\ \A id : Named(id) => Named(id)' \/ (pc[p] \in NamerLabels /\ id = job[p].sb)
<1>1. Goes(p)
  BY StepGoes
<1>2. Stale' = Stale
  BY <1>1 DEF Goes, Stale
<1>3. Leased' = Leased
  BY DEF Leased
<1>4. p \notin Stale
  BY DEF Stale
<1> QED
  BY <1>1, <1>2, <1>3, <1>4 DEF Named, Goes

\* The sandbox a handler leaves is dead, or somebody else's.
Dead(p) == \A id \in SandboxIds : id = job[p].sb => ~Live(id)' \/ Named(id)'

LEMMA SameNamesCharged ==
  ASSUME IInv, SInv, Charged, UsesKeep, NEW p \in Proc, Step(p), UNCHANGED leases, pc[p] \notin LeaseLabels,
         Slack \in Nat, Slack' \in Nat, Slack' >= Slack,
         \A id \in SandboxIds : Safely(id),
         \/ pc[p] \notin NamerLabels
         \/ pc'[p] \in NamerLabels /\ job'[p].sb = job[p].sb
         \/ Dead(p)
         \/ Slack' >= Slack + 1
  PROVE  Charged'
<1>1. /\ Stale' = Stale
      /\ \A id : Named(id) => Named(id)' \/ (pc[p] \in NamerLabels /\ id = job[p].sb)
  BY NamesStay
<1>2. \A id \in SandboxIds : Live(id)' => Live(id) \/ Named(id)'
  BY LiveKeeps
<1>3. pc'[p] \in NamerLabels => \A id : id = job'[p].sb => Named(id)'
  BY DEF Named
<1>4. CASE pc[p] \notin NamerLabels \/ Dead(p) \/ (pc'[p] \in NamerLabels /\ job'[p].sb = job[p].sb)
  <2>1. Loose' \subseteq Loose
    BY <1>1, <1>2, <1>3, <1>4 DEF Loose, Dead
  <2> QED
    BY <1>1, <2>1, ChargesKeep
<1>5. CASE Slack' >= Slack + 1
  <2>1. Loose' \subseteq Loose \cup {job[p].sb}
    BY <1>1, <1>2 DEF Loose
  <2> QED
    BY <1>1, <1>5, <2>1, ChargesKeep
<1> QED
  BY <1>4, <1>5

\* Without faults a provider refuses nothing but what was deleted.
LEMMA Refused ==
  ASSUME IInv, faults' = 0, NEW id, NEW st, ProviderFails(id, st)
  PROVE  sandbox[id] = "deleted" /\ UNCHANGED sandbox
BY DEF ProviderFails, Fault, IInv, TypeOK

-----------------------------------------------------------------------------
(* The steps of a handler *)

LEMMA Gone ==
  ASSUME NEW id, sandbox[id] = "deleted", UNCHANGED sandbox
  PROVE  ~Live(id)'
BY DEF Live

LEMMA QueueCharged ==
  ASSUME IInv, SInv, Charged, UsesKeep, NEW p \in Proc, Step(p), faults' = 0,
         \/ AcqSlot(p) \/ AcqUndo(p) \/ EnqSet(p) \/ EnqPush(p) \/ EnqPublish(p) \/ PqPop(p) \/ PqMore(p)
         \/ FtClaim(p) \/ FtSlot(p) \/ FtReset(p) \/ FtRequeue(p) \/ FtPush(p) \/ FtReady(p) \/ FtUndo(p) \/ FtFail(p)
  PROVE  Charged'
<1>1. UNCHANGED <<leases, sandbox>> /\ pc[p] \notin NamerLabels \cup LeaseLabels
  BY DEF AcqSlot, AcqUndo, EnqSet, EnqPush, EnqPublish, PqPop, PqMore, FtClaim, FtSlot, FtReset, FtRequeue, FtPush,
     FtReady, FtUndo, FtFail, At, store, world, NamerLabels, LeaseLabels
<1>2. /\ \/ activeCount' = activeCount
         \/ activeCount' = activeCount + 1 /\ pc'[p] \in HoldLabels
         \/ GiveSlot /\ pc[p] \in HoldLabels /\ pc'[p] \notin HoldLabels
      /\ pc'[p] \in HoldLabels => pc[p] \in HoldLabels \/ activeCount' = activeCount + 1
  <2>1. \A l : Goto(p, l) => pc'[p] = l
    BY DEF Goto, IInv, TypeOK
  <2>2. CASE AcqSlot(p) \/ FtSlot(p)
    BY <2>1, <2>2 DEF AcqSlot, FtSlot, At, TakeSlot, HoldLabels, SlotLabels, CreateLabels, ReleaseLabels
  <2>3. CASE AcqUndo(p) \/ FtUndo(p)
    BY <2>1, <2>3 DEF AcqUndo, FtUndo, At, Reply, HoldLabels, SlotLabels, CreateLabels, ReleaseLabels
  <2>4. CASE EnqSet(p) \/ EnqPush(p) \/ EnqPublish(p) \/ FtReset(p) \/ FtRequeue(p) \/ FtPush(p) \/ FtReady(p) \/ FtFail(p)
    BY <2>1, <2>4 DEF EnqSet, EnqPush, EnqPublish, FtReset, FtRequeue, FtPush, FtReady, FtFail, At, Reply,
       Fulfilled, FulfilThrows, HoldLabels, SlotLabels, CreateLabels, ReleaseLabels, store
  <2>5. CASE PqPop(p) \/ PqMore(p) \/ FtClaim(p)
    BY <2>1, <2>5 DEF PqPop, PqMore, FtClaim, At, Reply, Released, Fulfilled,
       HoldLabels, SlotLabels, CreateLabels, ReleaseLabels, store
  <2> QED
    BY <2>2, <2>3, <2>4, <2>5
<1>3. Leased' = Leased
  BY <1>1 DEF Leased
<1> QED
  BY <1>1, <1>2, <1>3, SlackMoves, SameNamesCharged DEF Safely

\* Between two labels that hold the same slot.
LEMMA HeldCharged ==
  ASSUME IInv, SInv, Charged, UsesKeep, NEW p \in Proc, Step(p), UNCHANGED <<leases, activeCount>>,
         pc[p] \in HoldLabels,
         \A id \in SandboxIds : Safely(id),
         \/ pc[p] \notin NamerLabels
         \/ pc'[p] \in NamerLabels /\ job'[p].sb = job[p].sb
         \/ Dead(p)
         \/ pc'[p] \notin HoldLabels
  PROVE  Charged'
<1>1. Leased' = Leased
  BY DEF Leased
<1>2. pc[p] \notin LeaseLabels
  BY DEF HoldLabels, SlotLabels, CreateLabels, ReleaseLabels, LeaseLabels
<1> QED
  BY <1>1, <1>2, SlackMoves, SameNamesCharged

LEMMA CreateCharged ==
  ASSUME IInv, SInv, Charged, UsesKeep, NEW p \in Proc, Step(p), faults' = 0,
         \/ ClLookup(p) \/ ClStart(p) \/ ClForget(p) \/ ClForgetOwner(p) \/ ClCreate(p) \/ ClBind(p)
         \/ ClWorkDir(p) \/ ClUserDir(p)
  PROVE  Charged'
<1>1. UNCHANGED <<leases, activeCount>> /\ pc[p] \in HoldLabels
  BY DEF ClLookup, ClStart, ClForget, ClForgetOwner, ClCreate, ClBind, ClWorkDir, ClUserDir, MakeDir, At, store,
     HoldLabels, SlotLabels, CreateLabels
<1>2. \A l : Goto(p, l) => pc'[p] = l
  BY DEF Goto, IInv, TypeOK
<1>3. pc'[p] \in NamerLabels => \A id : id = job'[p].sb => Named(id)'
  BY DEF Named
<1>4. CASE ClLookup(p) \/ ClForget(p) \/ ClForgetOwner(p)
  BY <1>1, <1>4, HeldCharged DEF Safely, ClLookup, ClForget, ClForgetOwner, At, NamerLabels, world
<1>5. CASE ClBind(p)
  BY <1>1, <1>2, <1>5, HeldCharged DEF Safely, ClBind, At, NamerLabels, world
<1>6. CASE ClStart(p) \/ ClWorkDir(p) \/ ClUserDir(p)
  <2>1. \/ /\ pc'[p] \in NamerLabels /\ job'[p].sb = job[p].sb
           /\ sandbox' = [sandbox EXCEPT ![job[p].sb] = "started"]
        \/ ProviderFails(job[p].sb, "started")
    BY <1>2, <1>6 DEF ClStart, ClWorkDir, ClUserDir, MakeDir, At, Provider, NamerLabels
  <2>2. CASE ProviderFails(job[p].sb, "started")
    <3>1. sandbox[job[p].sb] = "deleted" /\ UNCHANGED sandbox
      BY <2>2, Refused
    <3>2. Dead(p)
      BY <3>1, Gone DEF Dead
    <3> QED
      BY <1>1, <3>1, <3>2, HeldCharged DEF Safely
  <2>3. CASE /\ pc'[p] \in NamerLabels /\ job'[p].sb = job[p].sb
             /\ sandbox' = [sandbox EXCEPT ![job[p].sb] = "started"]
    <3>1. \A id \in SandboxIds : sandbox'[id] = sandbox[id] \/ Named(id)'
      BY <1>3, <2>3 DEF IInv, TypeOK
    <3> QED
      BY <1>1, <2>3, <3>1, HeldCharged DEF Safely
  <2> QED
    BY <2>1, <2>2, <2>3
<1>7. CASE ClCreate(p)
  <2>1. pc[p] \notin NamerLabels
    BY <1>7 DEF ClCreate, NamerLabels
  <2>2. ~Fault("provider")
    BY DEF Fault, IInv, TypeOK
  <2>3. PICK id \in SandboxIds : /\ sandbox' = [sandbox EXCEPT ![id] = "started"]
                                 /\ Goto(p, "cl_bind") /\ Set(p, [job[p] EXCEPT !.sb = id])
    BY <1>7, <2>2 DEF ClCreate, AnyOf
  <2>4. pc'[p] \in NamerLabels /\ job'[p].sb = id
    BY <1>2, <2>3 DEF Set, IInv, TypeOK, Job, NamerLabels
  <2>5. \A i \in SandboxIds : sandbox'[i] = sandbox[i] \/ Named(i)'
    BY <1>3, <2>3, <2>4 DEF IInv, TypeOK
  <2> QED
    BY <1>1, <2>1, <2>5, HeldCharged DEF Safely
<1> QED
  BY <1>4, <1>5, <1>6, <1>7

\* A session that releases uses no sandbox.
LEMMA NotInUse ==
  ASSUME OwnLeases, IInv, SInv, PInv, OInv, RolesOK, HandlesOwned, OneCall, ReleasesOwn,
         NEW p \in Proc, pc[p] \in ReleaseLabels
  PROVE  ~InUse(job[p].sb)
<1> DEFINE s == job[p].s
           id == job[p].sb
<1>1. p \in Workers /\ job[p].client = s /\ s \in Sessions /\ id \in SandboxIds
  BY DEF ReleasesOwn, IInv, HandlersOK, JobInv, SessionLabels, SandboxLabels, ReleaseLabels, Labels
<1>2. step[p] = "releasing" /\ seat[p].s = s
  <2>1. step[p] \in AtBroker
    BY <1>1, SeatFacts DEF SeatOK, ReleaseLabels
  <2>2. step[p] \notin {"asking", "beating"}
    BY <1>1 DEF RolesOK, RoleOK, AskLabels, CreateLabels, ReleaseLabels
  <2> QED
    BY <1>1, <2>1, <2>2, NamesAssumption DEF AtBroker, OneCall, Keys
<1>3. \A m, r : r \in Sessions /\ m \in ModesOf[r] => OwnerKey(m, r) = r
  BY DEF OwnLeases, OwnerKey
<1>4. owner[id] = s
  BY <1>1, <1>3 DEF OInv, WorkOK, SessionLabels, SandboxLabels, Owned, ReleaseLabels, Labels
<1>5. \A w \in Workers : step[w] # "free" /\ seat[w].s = s => w = p
  BY <1>1, <1>2 DEF OneCall
<1>6. ASSUME NEW w \in Workers, step[w] \in ToolSteps, seat[w].sb = id
      PROVE  FALSE
  <2>1. seat[w].s \in Sessions /\ OwnedFor(seat[w].s, id)
    BY <1>6, SeatFacts DEF HandlesOwned, SeatOK, ToolSteps
  <2>2. seat[w].s = s
    BY <1>3, <1>4, <2>1 DEF OwnedFor, Owned
  <2> QED
    BY <1>2, <1>5, <1>6, <2>2 DEF ToolSteps
<1>7. ASSUME NEW r \in Sessions, handle[r] = id, \A w \in Busy(r) : step[w] # "releasing"
      PROVE  FALSE
  <2>1. OwnedFor(r, id)
    BY <1>1, <1>7, NamesAssumption DEF HandlesOwned
  <2>2. r = s
    BY <1>3, <1>4, <2>1 DEF OwnedFor, Owned
  <2> QED
    BY <1>1, <1>2, <1>7, <2>2 DEF Busy
<1>8. ASSUME NEW w \in Workers, NEW t \in TicketIds, Awaits(w, t), Answers(t, id)
      PROVE  FALSE
  <2>1. w # p
    BY <1>2, <1>8 DEF Awaits
  <2>2. step[w] # "free" /\ seat[w].s \in Sessions
    BY <1>8, SeatFacts DEF Awaits, SeatOK
  <2>3. tickets[t] # None /\ tickets[t].session = seat[w].s
    <3>1. CASE step[w] = "polling"
      BY <1>8, <3>1, SeatFacts DEF Awaits, SeatOK, RolesOK, RoleOK
    <3>2. CASE step[w] = "asking"
      <4>1. pc[w] \in {"enq_push", "enq_publish"} /\ job[w].t = t /\ job[w].s = seat[w].s
        BY <1>8, <3>2 DEF Awaits, RolesOK, RoleOK
      <4> QED
        BY <4>1, NamesAssumption, WorkersAreProcs DEF RolesOK, KInv, TicketWork
    <3> QED
      BY <1>8, <3>1, <3>2 DEF Awaits
  <2>4. owner[id] = seat[w].s
    <3>1. CASE tickets[t].status = "ready" /\ tickets[t].sb = id
      <4>1. Owned(id, tickets[t].mode, seat[w].s) /\ tickets[t].mode \in ModesOf[seat[w].s]
        BY <2>3, <3>1 DEF OInv, TicketsOK
      <4> QED
        BY <1>3, <2>2, <4>1 DEF Owned
    <3>2. ASSUME NEW q \in Proc, pc[q] = "ft_ready", job[q].t = t, job[q].sb = id
          PROVE  owner[id] = seat[w].s
      <4>1. job[q].s = seat[w].s
        BY <2>3, <3>2, NamesAssumption DEF RolesOK, KInv, TicketWork
      <4>2. job[q].mode \in ModesOf[job[q].s] /\ Owned(id, job[q].mode, job[q].s)
        BY <3>2 DEF OInv, WorkOK, SessionLabels, SandboxLabels, Labels
      <4> QED
        BY <1>3, <2>2, <4>1, <4>2 DEF Owned
    <3> QED
      BY <1>8, <3>1, <3>2 DEF Answers
  <2> QED
    BY <1>4, <1>5, <2>1, <2>2, <2>4
<1> QED
  BY <1>6, <1>7, <1>8 DEF InUse

LEMMA ReleaseCharged ==
  ASSUME Stops, IInv, SInv, Charged, UsesKeep, NEW p \in Proc, Step(p), faults' = 0,
         pc[p] \in ReleaseLabels => ~InUse(job[p].sb),
         \/ RelKeys(p) \/ RelMget(p) \/ RelStop(p) \/ RelKeep(p) \/ RelKill(p)
         \/ RelUnbind(p) \/ RelOwner(p) \/ RelUnbindOwner(p) \/ RelClear(p) \/ RelSlot(p)
  PROVE  Charged'
<1>1. UNCHANGED leases /\ pc[p] \in HoldLabels \cap ReleaseLabels
  BY DEF RelKeys, RelMget, RelStop, RelKeep, RelKill, Dispose, RelUnbind, RelOwner, RelUnbindOwner, RelClear, RelSlot,
     At, store, HoldLabels, ReleaseLabels
<1>2. \A l : Goto(p, l) => pc'[p] = l
  BY DEF Goto, IInv, TypeOK
<1>3. CASE RelKeys(p) \/ RelMget(p)
  <2>1. \E seen : Set(p, [job[p] EXCEPT !.seen = seen])
    BY <1>3 DEF RelKeys, RelMget
  <2>2. job'[p].sb = job[p].sb
    BY <2>1 DEF Set, Job, IInv, TypeOK
  <2>3. pc'[p] \in NamerLabels \cup {"pq_pop"}
    BY <1>2, <1>3, ConfigAssumption DEF RelKeys, RelMget, Disposal, At, NamerLabels, Stops
  <2>4. UNCHANGED <<activeCount, sandbox>>
    BY <1>3 DEF RelKeys, RelMget, store, world
  <2>5. "pq_pop" \notin HoldLabels
    BY DEF HoldLabels, SlotLabels, CreateLabels, ReleaseLabels
  <2> QED
    BY <1>1, <2>2, <2>3, <2>4, <2>5, HeldCharged DEF Safely
<1>4. CASE RelStop(p) \/ RelKill(p)
  <2>1. UNCHANGED activeCount
    BY <1>4 DEF RelStop, RelKill, Dispose, store
  <2>2. CASE ProviderFails(job[p].sb, "stopped") \/ ProviderFails(job[p].sb, "deleted") \/
             (UNCHANGED world /\ sandbox[job[p].sb] = "deleted")
    <3>1. sandbox[job[p].sb] = "deleted" /\ UNCHANGED sandbox
      BY <2>2, Refused DEF world
    <3>2. Dead(p)
      BY <3>1, Gone DEF Dead
    <3> QED
      BY <1>1, <2>1, <3>1, <3>2, HeldCharged DEF Safely
  <2>3. ASSUME NEW st \in {"stopped", "deleted"}, Provider(job[p].sb, st)
        PROVE  Charged'
    <3>1. sandbox' = [sandbox EXCEPT ![job[p].sb] = st]
      BY <2>3 DEF Provider
    <3>2. job[p].sb \in SandboxIds /\ ~InUse(job[p].sb)
      BY <1>1 DEF IInv, HandlersOK, JobInv, SandboxLabels
    <3>3. Dead(p)
      BY <3>1, <3>2 DEF Dead, UsesKeep, Live, IInv, TypeOK
    <3>4. \A id \in SandboxIds : Safely(id)
      BY <3>1, <3>2, <3>3 DEF Safely, Dead, IInv, TypeOK
    <3> QED
      BY <1>1, <2>1, <3>3, <3>4, HeldCharged
  <2>4. CASE RelStop(p)
    BY <2>2, <2>3, <2>4 DEF RelStop, Dispose
  <2>5. CASE RelKill(p)
    <3>1. \/ Provider(job[p].sb, "deleted") \/ ProviderFails(job[p].sb, "deleted")
          \/ UNCHANGED world /\ sandbox[job[p].sb] = "deleted"
      <4>1. ~Fault("provider")
        BY DEF Fault, IInv, TypeOK
      <4> QED
        BY <2>5, <4>1 DEF RelKill, Dispose
    <3> QED
      BY <2>2, <2>3, <3>1
  <2> QED
    BY <1>4, <2>4, <2>5
<1>5. CASE RelKeep(p) \/ RelUnbind(p) \/ RelOwner(p) \/ RelUnbindOwner(p) \/ RelClear(p)
  BY <1>1, <1>5, HeldCharged DEF Safely, RelKeep, RelUnbind, RelOwner, RelUnbindOwner, RelClear, At, NamerLabels, world, store
<1>6. CASE RelSlot(p)
  <2>1. pc[p] \notin NamerLabels \cup LeaseLabels /\ pc'[p] \notin HoldLabels /\ GiveSlot /\ UNCHANGED sandbox
    BY <1>2, <1>6 DEF RelSlot, At, NamerLabels, LeaseLabels, HoldLabels, SlotLabels, CreateLabels, ReleaseLabels, world
  <2>2. Leased' = Leased
    BY <1>1 DEF Leased
  <2> QED
    BY <1>1, <2>1, <2>2, SlackMoves, SameNamesCharged DEF Safely
<1> QED
  BY <1>3, <1>4, <1>5, <1>6

-----------------------------------------------------------------------------
(* The steps that write a lease *)

\* A session has one request that deletes or renews its lease.
LEMMA OneLeaseRequest ==
  ASSUME IInv, SInv, NEW q \in Proc, NEW r \in Proc,
         pc[q] \in LeaseLabels, pc[r] \in LeaseLabels, job[q].s = job[r].s
  PROVE  q = r
<1>1. job[q].s # None
  BY NamesAssumption DEF IInv, HandlersOK, JobInv, SessionLabels, Labels, LeaseLabels, Keys
<1> QED
  BY <1>1 DEF SInv, SerialOK, SlotWorkOK

LEMMA LeaseNames ==
  ASSUME IInv, SInv, NEW p \in Proc, Step(p), NEW s \in Sessions,
         \A r \in Sessions \ {s} : leases'[r] = leases[r]
  PROVE  /\ \A q \in Stale' : q \in Proc \ {p} /\ pc[q] \in LeaseLabels /\ (q \in Stale \/ job[q].s = s)
         /\ \A q \in Stale \ {p} : job[q].s # s => q \in Stale'
         /\ \A x : Named(x) =>
              \/ Named(x)'
              \/ s \in Leased /\ x = leases[s].sb
              \/ (pc[p] \in NamerLabels \/ p \in Stale) /\ x = job[p].sb
              \/ \E q \in Stale \ {p} : job[q].s = s /\ q \notin Stale' /\ x = job[q].sb
<1>1. Goes(p)
  BY StepGoes
<1>2. \A q \in Proc : pc[q] \in LeaseLabels => job[q].s \in Sessions
  BY DEF IInv, HandlersOK, JobInv, SessionLabels, Labels, LeaseLabels
<1>3. \A q \in Stale' : q \in Proc \ {p} /\ pc[q] \in LeaseLabels /\ (q \in Stale \/ job[q].s = s)
  BY <1>1, <1>2 DEF Stale, Goes
<1>4. \A q \in Stale \ {p} : job[q].s # s => q \in Stale'
  BY <1>1, <1>2 DEF Stale, Goes
<1>5. ASSUME NEW x, Named(x), ~Named(x)'
      PROVE  \/ s \in Leased /\ x = leases[s].sb
             \/ (pc[p] \in NamerLabels \/ p \in Stale) /\ x = job[p].sb
             \/ \E q \in Stale \ {p} : job[q].s = s /\ q \notin Stale' /\ x = job[q].sb
  <2>1. ASSUME NEW r \in Leased, leases[r].sb = x, r # s
        PROVE  FALSE
    BY <1>5, <2>1 DEF Leased, Named
  <2>2. ASSUME NEW q \in Proc \ {p}, pc[q] \in NamerLabels, job[q].sb = x
        PROVE  FALSE
    BY <1>1, <1>5, <2>2 DEF Named, Goes
  <2>3. ASSUME NEW q \in Stale \ {p}, job[q].sb = x, q \in Stale'
        PROVE  FALSE
    BY <1>1, <1>5, <2>3 DEF Named, Goes, Stale
  <2> QED
    BY <1>4, <1>5, <2>1, <2>2, <2>3 DEF Named, Stale
<1> QED
  BY <1>3, <1>4, <1>5

\* A lease that is written names the sandbox of its handler.
LEMMA LeaseWritten ==
  ASSUME IInv, SInv, NEW p \in Proc, Step(p), NEW s \in Sessions, NEW id,
         pc[p] \in {"cl_save", "hb_save"}, job[p].sb = id,
         leases'[s] = LeaseOf(job[p]), \A r \in Sessions \ {s} : leases'[r] = leases[r]
  PROVE  /\ Leased' = Leased \cup {s} /\ leases'[s].sb = id /\ Named(id)'
         /\ \A q \in Stale : q # p /\ job[q].s = s /\ q \notin Stale' => job[q].sb = id
<1>1. Goes(p)
  BY StepGoes
<1>3. leases'[s] # None /\ leases'[s].sb = id
  <2>1. LeaseOf(job[p]) \in Lease
    BY DEF LeaseOf, Lease, IInv, HandlersOK, JobInv, SessionLabels, SandboxLabels, Labels
  <2>2. LeaseOf(job[p]) # None /\ LeaseOf(job[p]).sb = id
    BY <2>1, RecordsAssumption DEF LeaseOf
  <2> QED
    BY <2>2
<1>4. Leased' = Leased \cup {s}
  BY <1>3 DEF Leased
<1>5. Named(id)'
  BY <1>3, <1>4 DEF Named
<1> QED
  BY <1>1, <1>3, <1>4, <1>5 DEF Stale, Goes

LEMMA SaveCharged ==
  ASSUME IInv, SInv, Charged, UsesKeep, NEW p \in Proc, Step(p), ClSave(p)
  PROVE  Charged'
<1>0. pc[p] = "cl_save"
  BY DEF ClSave
<1>1. PICK s, id, old : s \in Sessions /\ id \in SandboxIds /\ s = job[p].s /\ id = job[p].sb /\ old = leases[s].sb
  BY DEF ClSave, IInv, HandlersOK, JobInv, SessionLabels, SandboxLabels, Labels
<1>2. /\ leases'[s] = LeaseOf(job[p]) /\ \A r \in Sessions \ {s} : leases'[r] = leases[r]
      /\ UNCHANGED <<sandbox, activeCount>>
  BY <1>1 DEF ClSave, world, IInv, TypeOK
<1>3. p \notin Stale /\ pc[p] \in HoldLabels /\ pc'[p] \notin HoldLabels
  <2>1. \A l : Goto(p, l) => pc'[p] = l
    BY DEF Goto, IInv, TypeOK
  <2> QED
    BY <2>1 DEF ClSave, LeaseMade, Reply, Stale, LeaseLabels, HoldLabels, SlotLabels, CreateLabels, ReleaseLabels
<1>4. /\ Leased' = Leased \cup {s} /\ leases'[s].sb = id /\ Named(id)'
      /\ \A q \in Stale : q # p /\ job[q].s = s /\ q \notin Stale' => job[q].sb = id
  BY <1>0, <1>1, <1>2, LeaseWritten
<1>5. /\ \A q \in Stale' : q \in Proc \ {p} /\ pc[q] \in LeaseLabels /\ (q \in Stale \/ job[q].s = s)
      /\ \A x : Named(x) => Named(x)' \/ (s \in Leased /\ x = old)
  BY <1>1, <1>2, <1>3, <1>4, LeaseNames
<1>6. \A x \in Loose' : x \in Loose \/ (s \in Leased /\ x = old)
  BY <1>2, <1>5, LiveKeeps DEF Loose, Safely
<1>7. /\ Slack \in Nat /\ Slack' \in Nat
      /\ Slack' = IF s \in Leased THEN Slack + 1 ELSE Slack
  <2>1. Goes(p) /\ SInv' /\ SlotWorkOK' /\ IInv'
    BY StepGoes, StepKeeps DEF SInv
  <2>2. /\ Slack \in Nat /\ Slack' \in Nat /\ activeCount \in Nat
        /\ Slack = activeCount - Cardinality(Leased) - Cardinality(Holders)
        /\ Slack' = activeCount' - Cardinality(Leased') - Cardinality(Holders')
    BY <2>1, Accounts DEF Slack, SInv, SlotsCover, IInv, SlotBound
  <2>3. Cardinality(Holders) \in Nat /\ Cardinality(Leased) \in Nat /\ Cardinality(Holders') = Cardinality(Holders) - 1
    BY <1>3, <2>1, HoldersCount
  <2>4. Cardinality(Leased') = IF s \in Leased THEN Cardinality(Leased) ELSE Cardinality(Leased) + 1
    BY <1>4, FS_AddElement DEF SInv
  <2> QED
    BY <1>2, <2>2, <2>3, <2>4
<1>8. CASE s \notin Leased
  <2>1. \A q \in Proc : pc[q] \in LeaseLabels => job[q].s # s
    BY <1>1, <1>8 DEF SInv, SlotWorkOK, Leased
  <2>2. Loose' \subseteq Loose /\ Stale' \subseteq Stale
    BY <1>5, <1>6, <1>8, <2>1
  <2> QED
    BY <1>7, <2>2, ChargesKeep
<1>9. CASE s \in Leased
  <2>1. Slack' >= Slack + 1 /\ Slack' >= Slack
    BY <1>7, <1>9
  <2>2. CASE Stale' \subseteq Stale
    BY <1>6, <1>7, <2>1, <2>2, ChargesKeep
  <2>3. ASSUME NEW q \in Stale', q \notin Stale
        PROVE  Charged'
    <3>1. q \in Proc \ {p} /\ pc[q] \in LeaseLabels /\ job[q].s = s
      BY <1>5, <2>3
    <3>2. Stale' \subseteq Stale \cup {q}
      BY <1>5, <3>1, OneLeaseRequest DEF Stale
    <3>3. job[q].sb = old
      BY <1>1, <2>3, <3>1 DEF Stale
    <3>4. Named(old)'
      BY <2>3, <3>1, <3>3, StepGoes DEF Named, Goes
    <3>5. Loose' \subseteq Loose
      BY <1>6, <3>4 DEF Loose
    <3> QED
      BY <1>7, <2>1, <3>2, <3>5, ChargesKeep
  <2> QED
    BY <2>2, <2>3
<1> QED
  BY <1>8, <1>9

\* A request that was overtaken leaves the sandbox of the lease it deletes or
\* replaces, and counts no more itself.
LEMMA OvertakenCharged ==
  ASSUME Charged, Slack \in Nat, Slack' \in Nat, Slack' >= Slack, NEW p, NEW y,
         Stale' \subseteq Stale \ {p},
         \A x \in Loose' : x \in Loose \/ (x = y /\ p \in Stale)
  PROVE  Charged'
<1>1. CASE p \in Stale
  BY <1>1, ChargesKeep
<1>2. CASE p \notin Stale
  BY <1>2, ChargesKeep
<1> QED
  BY <1>1, <1>2

LEMMA DeleteCharged ==
  ASSUME IInv, SInv, Charged, UsesKeep, NEW p \in Proc, Step(p), RelDelete(p)
  PROVE  Charged'
<1>0. pc[p] = "rel_delete" /\ pc'[p] = "rel_keys" /\ job' = job
  BY DEF RelDelete, At, Goto, IInv, TypeOK
<1>1. PICK s, id, old : s \in Sessions /\ s = job[p].s /\ id = job[p].sb /\ old = leases[s].sb
  BY <1>0 DEF IInv, HandlersOK, JobInv, SessionLabels, Labels
<1>2. /\ leases'[s] = None /\ \A r \in Sessions \ {s} : leases'[r] = leases[r]
      /\ UNCHANGED <<sandbox, activeCount>>
  BY <1>1 DEF RelDelete, world, IInv, TypeOK
<1>3. leases'[s] = None /\ Leased' = Leased \ {s} /\ s \in Leased
  BY <1>0, <1>1, <1>2 DEF Leased, SInv, SlotWorkOK, LeaseLabels, IInv, TypeOK
<1>4. Named(id)'
  BY <1>0, <1>1 DEF Named, NamerLabels
<1>5. \A q \in Proc \ {p} : pc[q] \in LeaseLabels => job[q].s # s
  BY <1>0, <1>1, OneLeaseRequest DEF LeaseLabels
<1>6. /\ \A q \in Stale' : q \in Proc \ {p} /\ pc[q] \in LeaseLabels /\ (q \in Stale \/ job[q].s = s)
      /\ \A x : Named(x) => Named(x)' \/ x = old
  BY <1>0, <1>1, <1>2, <1>4, <1>5, LeaseNames DEF Stale
<1>7. Stale' \subseteq Stale \ {p}
  BY <1>5, <1>6
<1>8. \A x \in Loose' : x \in Loose \/ (x = old /\ p \in Stale)
  <2>1. p \notin Stale => old = id
    BY <1>0, <1>1 DEF Stale, LeaseLabels
  <2> QED
    BY <1>2, <1>4, <1>6, <2>1, LiveKeeps DEF Loose, Safely
<1>9. Slack \in Nat /\ Slack' \in Nat /\ Slack' = Slack
  <2>1. Goes(p) /\ SInv' /\ SlotWorkOK' /\ IInv'
    BY StepGoes, StepKeeps DEF SInv
  <2>2. /\ Slack \in Nat /\ Slack' \in Nat /\ activeCount \in Nat
        /\ Slack = activeCount - Cardinality(Leased) - Cardinality(Holders)
        /\ Slack' = activeCount' - Cardinality(Leased') - Cardinality(Holders')
    BY <2>1, Accounts DEF Slack, SInv, SlotsCover, IInv, SlotBound
  <2>3. pc[p] \notin HoldLabels /\ pc'[p] \in HoldLabels
    BY <1>0, <1>1 DEF HoldLabels, SlotLabels, CreateLabels, ReleaseLabels
  <2>4. Cardinality(Holders) \in Nat /\ Cardinality(Leased) \in Nat /\ Cardinality(Holders') = Cardinality(Holders) + 1
    BY <2>1, <2>3, HoldersCount
  <2>5. Cardinality(Leased') = Cardinality(Leased) - 1
    BY <1>3, FS_RemoveElement DEF SInv
  <2> QED
    BY <1>2, <2>2, <2>4, <2>5
<1> QED
  BY <1>7, <1>8, <1>9, OvertakenCharged

LEMMA BeatCharged ==
  ASSUME IInv, SInv, Charged, UsesKeep, NEW p \in Proc, Step(p), HbSave(p)
  PROVE  Charged'
<1>0. pc[p] = "hb_save" /\ pc'[p] = "idle"
  BY DEF HbSave, Reply, Goto, IInv, TypeOK
<1>1. PICK s, id, old : s \in Sessions /\ s = job[p].s /\ id = job[p].sb /\ old = leases[s].sb
  BY <1>0 DEF IInv, HandlersOK, JobInv, SessionLabels, Labels
<1>2. /\ leases'[s] = LeaseOf(job[p]) /\ \A r \in Sessions \ {s} : leases'[r] = leases[r]
      /\ UNCHANGED <<sandbox, activeCount>>
  BY <1>1 DEF HbSave, world, IInv, TypeOK
<1>3. s \in Leased
  BY <1>0, <1>1 DEF Leased, SInv, SlotWorkOK, LeaseLabels
<1>4. Leased' = Leased /\ leases'[s].sb = id /\ Named(id)'
  <2>1. Leased' = Leased \cup {s} /\ leases'[s].sb = id /\ Named(id)'
    BY <1>0, <1>1, <1>2, LeaseWritten
  <2> QED
    BY <1>3, <2>1
<1>5. \A q \in Proc \ {p} : pc[q] \in LeaseLabels => job[q].s # s
  BY <1>0, <1>1, OneLeaseRequest DEF LeaseLabels
<1>6. /\ \A q \in Stale' : q \in Proc \ {p} /\ pc[q] \in LeaseLabels /\ (q \in Stale \/ job[q].s = s)
      /\ \A x : Named(x) => Named(x)' \/ x = old
  <2>1. (\A q \in Stale : q # p => job[q].s # s) /\ pc[p] \notin NamerLabels
    BY <1>0, <1>5 DEF Stale, NamerLabels
  <2>2. \A x : x = job[p].sb => Named(x)'
    BY <1>1, <1>4
  <2> QED
    BY <1>1, <1>2, <2>1, <2>2, LeaseNames
<1>7. Stale' \subseteq Stale \ {p}
  BY <1>5, <1>6
<1>8. \A x \in Loose' : x \in Loose \/ (x = old /\ p \in Stale)
  <2>1. p \notin Stale => old = id
    BY <1>0, <1>1 DEF Stale, LeaseLabels
  <2> QED
    BY <1>2, <1>4, <1>6, <2>1, LiveKeeps DEF Loose, Safely
<1>9. Slack \in Nat /\ Slack' \in Nat /\ Slack' >= Slack
  <2>1. pc'[p] \notin HoldLabels
    BY <1>0, <1>1 DEF HoldLabels, SlotLabels, CreateLabels, ReleaseLabels
  <2> QED
    BY <1>2, <1>4, <2>1, SlackMoves
<1> QED
  BY <1>7, <1>8, <1>9, OvertakenCharged

\* Every step of a handler.
LEMMA StepCharged ==
  ASSUME Stops, IInv, SInv, Charged, UsesKeep, NEW p \in Proc, Step(p), faults' = 0,
         pc[p] \in ReleaseLabels => ~InUse(job[p].sb)
  PROVE  Charged'
<1>1. ~(AcqAttach(p) \/ SwMget(p) \/ SwNext(p))
  BY DEF SInv, SlotWorkOK, AcqAttach, SwMget, SwNext, At
<1> QED
  BY <1>1, QueueCharged, CreateCharged, ReleaseCharged, SaveCharged, DeleteCharged, BeatCharged DEF Step

-----------------------------------------------------------------------------
(* How sandboxes come into use *)

\* The sandbox of an answer is the one its ticket has, or is about to have.
LEMMA AnsweredKnown ==
  ASSUME KInv, NEW t \in TicketIds, NEW id, Answers(t, id)
  PROVE  tickets[t] # None
BY NamesAssumption DEF Answers, KInv

\* Nobody but the handler that saved the lease gives a ticket its answer.
AnswersSame == \A t \in TicketIds, id \in SandboxIds : Answers(t, id)' => Answers(t, id)
AnswersKeep == \A t \in TicketIds, id \in SandboxIds : Answers(t, id)' => Answers(t, id) \/ Named(id)'

LEMMA WrittenAnswers ==
  ASSUME NEW p \in Proc, NEW u, NEW r, tickets' = [tickets EXCEPT ![u] = r],
         r # None, r.status = "ready" => pc[p] = "ft_ready" /\ job[p].t = u /\ job[p].sb = r.sb,
         \A q \in Proc : pc'[q] = "ft_ready" => pc[q] = "ft_ready" /\ job'[q] = job[q],
         tickets \in [TicketIds -> Ticket \cup {None}]
  PROVE  AnswersSame /\ AnswersKeep
<1> SUFFICES ASSUME NEW t \in TicketIds, NEW id \in SandboxIds, Answers(t, id)'
             PROVE  Answers(t, id)
  BY DEF AnswersSame, AnswersKeep
<1>1. ASSUME NEW q \in Proc, pc'[q] = "ft_ready", job'[q].t = t, job'[q].sb = id
      PROVE  Answers(t, id)
  BY <1>1 DEF Answers
<1>2. ASSUME tickets'[t].status = "ready", tickets'[t].sb = id, tickets'[t] # None
      PROVE  Answers(t, id)
  <2>1. CASE t = u
    BY <1>2, <2>1 DEF Answers
  <2>2. CASE t # u
    BY <1>2, <2>2 DEF Answers
  <2> QED
    BY <2>1, <2>2
<1> QED
  BY <1>1, <1>2 DEF Answers

LEMMA SameAnswers ==
  ASSUME UNCHANGED tickets, \A q \in Proc : pc'[q] = "ft_ready" => pc[q] = "ft_ready" /\ job'[q] = job[q]
  PROVE  AnswersSame /\ AnswersKeep
BY DEF AnswersSame, AnswersKeep, Answers

\* A handler that comes to the answer of its ticket has saved the lease.
LEMMA StepReadies ==
  ASSUME IInv, SInv, NEW p \in Proc, Step(p)
  PROVE  /\ \A q \in Proc \ {p} : pc'[q] = pc[q] /\ job'[q] = job[q]
         /\ pc'[p] = "ft_ready" => ClSave(p) /\ job'[p] = job[p]
<1>1. \A q \in Proc \ {p} : pc'[q] = pc[q] /\ job'[q] = job[q]
  BY StepGoes DEF Goes
<1>2. CASE ClSave(p)
  BY <1>1, <1>2 DEF ClSave, LeaseMade, Reply, Goto, Set, IInv, TypeOK
<1>3. CASE ~ClSave(p)
  BY <1>1, <1>3 DEF Step, AcqAttach, AcqSlot, AcqUndo, EnqSet, EnqPush, EnqPublish, ClLookup, ClStart, ClForget,
     ClForgetOwner, ClCreate, ClBind, ClWorkDir, ClUserDir, MakeDir, RelDelete, RelKeys, RelMget, RelStop,
     RelKeep, RelKill, Dispose, RelUnbind, RelOwner, RelUnbindOwner, RelClear, RelSlot, PqPop, PqMore, FtClaim, FtSlot,
     FtReset, FtRequeue, FtPush, FtReady, FtUndo, FtFail, HbSave, SwMget, SwNext, At, Goto, Reply, LeaseFailed,
     Released, Fulfilled, FulfilThrows, Disposal, AfterUnbind, BeginRelease, IInv, TypeOK
<1> QED
  BY <1>1, <1>2, <1>3

LEMMA SaveNames ==
  ASSUME IInv, SInv, NEW p \in Proc, Step(p), ClSave(p)
  PROVE  \A id : id = job[p].sb => Named(id)'
<1>1. pc[p] = "cl_save" /\ job[p].s \in Sessions
  BY DEF ClSave, IInv, HandlersOK, JobInv, SessionLabels, Labels
<1>2. PICK s \in Sessions : s = job[p].s
  BY <1>1
<1>3. leases'[s] = LeaseOf(job[p]) /\ \A r \in Sessions \ {s} : leases'[r] = leases[r]
  BY <1>2 DEF ClSave, IInv, TypeOK
<1> QED
  BY <1>1, <1>3, LeaseWritten

LEMMA StepAnswers ==
  ASSUME IInv, SInv, NEW p \in Proc, Step(p)
  PROVE  AnswersKeep /\ (~ClSave(p) => AnswersSame)
<1>1. tickets \in [TicketIds -> Ticket \cup {None}]
  BY DEF IInv, TypeOK
<1>2. /\ \A q \in Proc \ {p} : pc'[q] = pc[q] /\ job'[q] = job[q]
      /\ ~ClSave(p) => pc'[p] # "ft_ready"
  BY StepReadies
<1>3. CASE EnqSet(p)
  <2>1. NewTicket(job[p]) \in Ticket /\ NewTicket(job[p]).status = "queued"
    BY <1>3 DEF EnqSet, At, NewTicket, Ticket, IInv, HandlersOK, JobInv, SessionLabels, Labels
  <2>2. PICK u : tickets' = [tickets EXCEPT ![u] = NewTicket(job[p])]
    BY <1>3 DEF EnqSet
  <2>3. NewTicket(job[p]) # None /\ ~ClSave(p)
    BY <1>3, <2>1, RecordsAssumption DEF EnqSet, ClSave, At
  <2> QED
    BY <1>1, <1>2, <2>1, <2>2, <2>3, WrittenAnswers
<1>4. CASE FtClaim(p)
  <2>1. job[p].t \in TicketIds /\ ~ClSave(p)
    BY <1>4 DEF FtClaim, ClSave, IInv, HandlersOK, JobInv, TicketLabels
  <2> DEFINE r == [tickets[job[p].t] EXCEPT !.status = "claiming"]
  <2>2. ASSUME Claimable(job[p].t) PROVE r # None /\ r.status = "claiming"
    <3>1. tickets[job[p].t] \in Ticket
      BY <2>1, <2>2 DEF Claimable, IInv, TypeOK
    <3>2. r \in Ticket /\ r.status = "claiming"
      BY <3>1 DEF Ticket
    <3> QED
      BY <3>2, RecordsAssumption
  <2>3. (Claimable(job[p].t) /\ tickets' = [tickets EXCEPT ![job[p].t] = r]) \/ UNCHANGED tickets
    BY <1>4 DEF FtClaim
  <2> HIDE DEF r
  <2>4. CASE UNCHANGED tickets
    BY <1>2, <2>1, <2>4, SameAnswers
  <2>5. CASE Claimable(job[p].t) /\ tickets' = [tickets EXCEPT ![job[p].t] = r]
    BY <1>1, <1>2, <2>1, <2>2, <2>5, WrittenAnswers
  <2> QED
    BY <2>3, <2>4, <2>5
<1>5. CASE FtReset(p) \/ FtRequeue(p) \/ FtFail(p) \/ FtReady(p)
  <2>1. PICK status, sb : /\ WriteTicket(p, status, sb)
                          /\ \/ status = "queued" /\ sb = None
                             \/ status = "ready" /\ sb = job[p].sb /\ pc[p] = "ft_ready"
    BY <1>5 DEF FtReset, FtRequeue, FtFail, FtReady
  <2> DEFINE r == [session |-> job[p].s, mode |-> job[p].mode, status |-> status, sb |-> sb]
  <2>2. r \in Ticket /\ r.status = status /\ r.sb = sb
    BY <1>5, <2>1 DEF Ticket, FtReset, FtRequeue, FtFail, FtReady, At, IInv, HandlersOK, JobInv, SessionLabels,
       SandboxLabels, Labels
  <2>3. tickets' = [tickets EXCEPT ![job[p].t] = r] /\ ~ClSave(p)
    BY <1>5, <2>1 DEF WriteTicket, FtReset, FtRequeue, FtFail, FtReady, ClSave, At
  <2> HIDE DEF r
  <2>4. r # None
    BY <2>2, RecordsAssumption
  <2>5. r.status = "ready" => pc[p] = "ft_ready" /\ job[p].sb = r.sb
    BY <2>1, <2>2
  <2>6. \A q \in Proc : pc'[q] = "ft_ready" => pc[q] = "ft_ready" /\ job'[q] = job[q]
    BY <1>2, <2>3
  <2> QED
    BY <1>1, <2>3, <2>4, <2>5, <2>6, WrittenAnswers
<1>6. CASE ~(EnqSet(p) \/ FtClaim(p) \/ FtReset(p) \/ FtRequeue(p) \/ FtFail(p) \/ FtReady(p))
  <2>1. UNCHANGED tickets
    BY <1>6 DEF Step, AcqAttach, AcqSlot, AcqUndo, EnqPush, EnqPublish, ClLookup, ClStart, ClForget, ClForgetOwner,
       ClCreate, ClBind, ClWorkDir, ClUserDir, ClSave, MakeDir, RelDelete, RelKeys, RelMget, RelStop, RelKeep, RelKill,
       Dispose, RelUnbind, RelOwner, RelUnbindOwner, RelClear, RelSlot, PqPop, PqMore, FtSlot, FtPush, FtUndo,
       HbSave, SwMget, SwNext, store
  <2>2. CASE ~ClSave(p)
    BY <1>2, <2>1, <2>2, SameAnswers
  <2>3. CASE ClSave(p)
    <3>1. ASSUME NEW t \in TicketIds, NEW id \in SandboxIds, Answers(t, id)'
          PROVE  Answers(t, id) \/ Named(id)'
      <4>1. job[p].sb = id => Named(id)'
        BY <2>3, SaveNames
      <4> QED
        BY <1>2, <2>1, <3>1, <4>1, StepReadies DEF Answers
    <3> QED
      BY <2>3, <3>1 DEF AnswersKeep
  <2> QED
    BY <2>2, <2>3
<1> QED
  BY <1>3, <1>4, <1>5, <1>6

\* A handler that comes to the push of a ticket has just made it up.
LEMMA StepPushesNew ==
  ASSUME IInv, NEW p \in Proc, Step(p), pc'[p] \in {"enq_push", "enq_publish"}
  PROVE  tickets[job'[p].t] = None \/ (pc[p] = "enq_push" /\ job'[p] = job[p])
<1>1. CASE EnqSet(p)
  <2>1. PICK u \in TicketIds : tickets[u] = None /\ Set(p, [job[p] EXCEPT !.t = u])
    BY <1>1 DEF EnqSet, AnyOf
  <2>2. job'[p].t = u
    BY <2>1 DEF Set, IInv, TypeOK, Job
  <2> QED
    BY <2>1, <2>2
<1>2. CASE EnqPush(p)
  BY <1>2 DEF EnqPush, At
<1>3. CASE ~(EnqSet(p) \/ EnqPush(p))
  BY <1>3 DEF Step, AcqAttach, AcqSlot, AcqUndo, EnqPublish, ClLookup, ClStart, ClForget, ClForgetOwner,
     ClCreate, ClBind, ClWorkDir, ClUserDir, ClSave, MakeDir, RelDelete, RelKeys, RelMget, RelStop, RelKeep, RelKill,
     Dispose, RelUnbind, RelOwner, RelUnbindOwner, RelClear, RelSlot, PqPop, PqMore, FtClaim, FtSlot, FtReset, FtRequeue,
     FtPush, FtReady, FtUndo, FtFail, HbSave, SwMget, SwNext, At, Goto, Reply, LeaseFailed, LeaseMade, Released,
     Fulfilled, FulfilThrows, Disposal, AfterUnbind, BeginRelease, IInv, TypeOK
<1> QED
  BY <1>1, <1>2, <1>3

-----------------------------------------------------------------------------
(* No sandbox comes into use that has no name *)

\* The sandboxes that tool calls, the map and answers lead to after a step.
LEMMA UsesStay ==
  ASSUME KInv, AnswersKeep,
         \A v \in Workers, id \in SandboxIds : step'[v] \in ToolSteps /\ seat'[v].sb = id => InUse(id) \/ Named(id)',
         \A s \in Sessions, id \in SandboxIds :
           handle'[s] = id /\ (\A v \in Busy(s)' : step'[v] # "releasing") => InUse(id) \/ Named(id)',
         \A v \in Workers, t \in TicketIds : Awaits(v, t)' => Awaits(v, t) \/ tickets[t] = None
  PROVE  UsesKeep
<1> SUFFICES ASSUME NEW id \in SandboxIds, InUse(id)'
             PROVE  InUse(id) \/ Named(id)'
  BY DEF UsesKeep
<1>1. ASSUME NEW v \in Workers, NEW t \in TicketIds, Awaits(v, t)', Answers(t, id)'
      PROVE  InUse(id) \/ Named(id)'
  BY <1>1, AnsweredKnown DEF AnswersKeep, InUse
<1> QED
  BY <1>1 DEF InUse

\* A call takes its turn.
LEMMA TurnUses ==
  ASSUME PInv, KInv, AnswersKeep, NEW w \in Workers, \A q \in Workers \ {w} : pc'[q] = pc[q] /\ job'[q] = job[q],
         NEW st, NEW v, Turn(w, st, v),
         st \in ToolSteps => \A id \in SandboxIds : v.sb = id => InUse(id) \/ Named(id)',
         \A s \in Sessions : \A id \in SandboxIds : handle'[s] = id => handle[s] = id \/ InUse(id),
         step[w] = "releasing" => handle'[seat[w].s] = None,
         \A t \in TicketIds : Awaits(w, t)' => Awaits(w, t) \/ tickets[t] = None
  PROVE  UsesKeep
<1>1. step'[w] = st /\ seat'[w] = v /\ \A q \in Workers \ {w} : step'[q] = step[q] /\ seat'[q] = seat[q]
  BY TurnSame
<1>2. \A q \in Workers, id \in SandboxIds : step'[q] \in ToolSteps /\ seat'[q].sb = id => InUse(id) \/ Named(id)'
  BY <1>1 DEF InUse
<1>3. ASSUME NEW s \in Sessions, NEW id \in SandboxIds, handle'[s] = id, \A q \in Busy(s)' : step'[q] # "releasing"
      PROVE  InUse(id)
  <2>1. \A q \in Busy(s) : step[q] # "releasing"
    BY <1>1, <1>3, NamesAssumption DEF Busy
  <2> QED
    BY <1>3, <2>1 DEF InUse
<1>4. \A q \in Workers, t \in TicketIds : Awaits(q, t)' => Awaits(q, t) \/ tickets[t] = None
  BY <1>1 DEF Awaits
<1> QED
  BY <1>2, <1>3, <1>4, UsesStay

\* The plugin does nothing.
LEMMA SameUses ==
  ASSUME KInv, AnswersKeep, UNCHANGED plugin,
         \A v \in Workers, t \in TicketIds : Awaits(v, t)' => Awaits(v, t) \/ tickets[t] = None
  PROVE  UsesKeep
BY UsesStay DEF plugin, InUse, Busy

-----------------------------------------------------------------------------
(* Calls of clients and of the runtime *)

LEMMA BeginCharged ==
  ASSUME IInv, SInv, Charged, UsesKeep, UNCHANGED activeCount,
         \A s \in Sessions : (leases'[s] = None <=> leases[s] = None) /\ leases'[s].sb = leases[s].sb,
         \A p \in Proc :
           \/ pc'[p] = pc[p] /\ job'[p] = job[p]
           \/ /\ pc[p] = "idle" /\ pc'[p] \notin HoldLabels \cup NamerLabels
              /\ pc'[p] \in LeaseLabels => job'[p].s \in Sessions /\ leases[job'[p].s].sb = job'[p].sb,
         \A id \in SandboxIds : sandbox'[id] = sandbox[id] \/ Live(id)
  PROVE  Charged'
<1>1. Leased' = Leased
  BY DEF Leased
<1>2. "idle" \notin HoldLabels \cup NamerLabels \cup LeaseLabels
  BY DEF HoldLabels, SlotLabels, CreateLabels, ReleaseLabels, NamerLabels, LeaseLabels
<1>3. Holders' = Holders
  BY <1>2 DEF Holders, HoldLabels, SlotLabels
<1>4. \A p \in Proc : pc[p] \in LeaseLabels => job[p].s \in Sessions
  BY DEF IInv, HandlersOK, JobInv, SessionLabels, Labels, LeaseLabels
<1>5. Stale' = Stale
  BY <1>2, <1>4 DEF Stale
<1>6. \A id : Named(id) => Named(id)'
  BY <1>1, <1>2, <1>5 DEF Named, Leased, Stale
<1>7. \A id \in SandboxIds : Live(id)' => Live(id) \/ Named(id)'
  BY DEF UsesKeep, Live
<1>8. Loose' \subseteq Loose
  BY <1>6, <1>7 DEF Loose
<1>9. Slack \in Nat /\ Slack' = Slack
  BY <1>1, <1>3, Accounts DEF Slack, SInv, SlotsCover, IInv, SlotBound
<1> QED
  BY <1>5, <1>8, <1>9, ChargesKeep

LEMMA ClientBegins ==
  ASSUME IInv, NEW w \in Workers, NEW s \in Sessions, ClientCall(w, s)
  PROVE  /\ UNCHANGED <<store, log, world, faults>> /\ pc[w] = "idle"
         /\ \A q \in Proc \ {w} : pc'[q] = pc[q] /\ job'[q] = job[q]
         /\ pc'[w] \in {"idle", "acq_slot", "acq_attach", "rel_delete", "hb_save"}
         /\ pc'[w] = "idle" => job'[w] = job[w]
         /\ pc'[w] \in LeaseLabels =>
              leases[s] # None /\ job'[w].client = s /\ job'[w].s = s /\ job'[w].sb = leases[s].sb
<1>1. w \in Proc
  BY WorkersAreProcs
<1>2. ASSUME NEW mode \in ModesOf[s], Acquire(w, s, mode)
      PROVE  /\ UNCHANGED <<store, log, world, faults>> /\ pc[w] = "idle"
             /\ \A q \in Proc \ {w} : pc'[q] = pc[q] /\ job'[q] = job[q]
             /\ pc'[w] \in {"idle", "acq_slot", "acq_attach"} /\ (pc'[w] = "idle" => job'[w] = job[w])
  BY <1>1, <1>2 DEF Acquire, Request, Goto, Set, IInv, TypeOK
<1>3. ASSUME (\E reason \in Reasons : Release(w, s, reason)) \/ Heartbeat(w, s), leases[s] # None
      PROVE  /\ UNCHANGED <<store, log, world, faults>> /\ pc[w] = "idle"
             /\ \A q \in Proc \ {w} : pc'[q] = pc[q] /\ job'[q] = job[q]
             /\ pc'[w] \in {"rel_delete", "hb_save"}
             /\ job'[w].client = s /\ job'[w].s = s /\ job'[w].sb = leases[s].sb
  <2>1. PICK j, l : /\ Set(w, j) /\ Goto(w, l) /\ l \in {"rel_delete", "hb_save"}
                    /\ j.client = s /\ j.s = s /\ j.sb = leases[s].sb
    <3>1. ASSUME NEW reason \in Reasons, BeginRelease(w, s, reason, [NoJob EXCEPT !.client = s])
          PROVE  \E j : /\ Set(w, j) /\ Goto(w, "rel_delete")
                        /\ j.client = s /\ j.s = s /\ j.sb = leases[s].sb
      <4> DEFINE j == [[NoJob EXCEPT !.client = s] EXCEPT !.s = s, !.mode = leases[s].mode, !.sb = leases[s].sb,
                                                          !.reason = reason]
      <4>1. Set(w, j) /\ Goto(w, "rel_delete") /\ j.client = s /\ j.s = s /\ j.sb = leases[s].sb
        BY <3>1 DEF BeginRelease, NoJob
      <4> HIDE DEF j
      <4> QED
        BY <4>1
    <3>2. ASSUME Heartbeat(w, s)
          PROVE  \E j : /\ Set(w, j) /\ Goto(w, "hb_save")
                        /\ j.client = s /\ j.s = s /\ j.sb = leases[s].sb
      <4> DEFINE j == [NoJob EXCEPT !.client = s, !.s = s, !.mode = leases[s].mode, !.sb = leases[s].sb]
      <4>1. Set(w, j) /\ Goto(w, "hb_save") /\ j.client = s /\ j.s = s /\ j.sb = leases[s].sb
        BY <1>3, <3>2 DEF Heartbeat, NoJob
      <4> HIDE DEF j
      <4> QED
        BY <4>1
    <3> QED
      BY <1>3, <3>1, <3>2 DEF Release
  <2>2. pc'[w] = l /\ job'[w] = j /\ \A q \in Proc \ {w} : pc'[q] = pc[q] /\ job'[q] = job[q]
    BY <1>1, <2>1 DEF Goto, Set, IInv, TypeOK
  <2> QED
    BY <1>3, <2>1, <2>2 DEF Release, Heartbeat, Request
<1>4. ASSUME (\E reason \in Reasons : Release(w, s, reason)) \/ Heartbeat(w, s), leases[s] = None
      PROVE  UNCHANGED <<store, log, world, faults>> /\ pc[w] = "idle" /\ UNCHANGED <<pc, job>>
  BY <1>4 DEF Release, BeginRelease, Heartbeat, Request
<1>5. "idle" \notin LeaseLabels /\ "acq_slot" \notin LeaseLabels /\ "acq_attach" \notin LeaseLabels
  BY DEF LeaseLabels
<1> QED
  BY <1>2, <1>3, <1>4, <1>5 DEF ClientCall

LEMMA ClientCharged ==
  ASSUME IInv, SInv, Charged, UsesKeep, NEW w \in Workers, NEW s \in Sessions, ClientCall(w, s)
  PROVE  Charged'
<1>1. /\ UNCHANGED <<store, world>> /\ pc[w] = "idle"
      /\ \A q \in Proc \ {w} : pc'[q] = pc[q] /\ job'[q] = job[q]
      /\ pc'[w] \in {"idle", "acq_slot", "acq_attach", "rel_delete", "hb_save"}
      /\ pc'[w] \in LeaseLabels => job'[w].s = s /\ job'[w].sb = leases[s].sb
  BY ClientBegins
<1>2. pc'[w] \notin HoldLabels \cup NamerLabels
  BY <1>1 DEF HoldLabels, SlotLabels, CreateLabels, ReleaseLabels, NamerLabels
<1> QED
  BY <1>1, <1>2, BeginCharged DEF store, world

LEMMA RuntimeCharged ==
  ASSUME IInv, SInv, Charged, UsesKeep, NEW w, RuntimeCall(w), faults' = 0, InUse(seat[w].sb)
  PROVE  Charged'
<1>1. \A id \in SandboxIds : sandbox'[id] = sandbox[id] \/ Live(id)
  BY Refused DEF RuntimeCall, Provider, Live, IInv, TypeOK
<1> QED
  BY <1>1, BeginCharged DEF RuntimeCall, store

LEMMA QuietCharged ==
  ASSUME IInv, SInv, Charged, UsesKeep, UNCHANGED vars
  PROVE  Charged'
BY BeginCharged DEF vars, store, world

\* Calls of clients and of the runtime give no ticket its answer.
LEMMA BeginAnswers ==
  ASSUME IInv, NEW w \in Workers,
         UNCHANGED vars \/ RuntimeCall(w) \/ \E s \in Sessions : ClientCall(w, s)
  PROVE  /\ AnswersSame /\ AnswersKeep /\ \A q \in Workers \ {w} : pc'[q] = pc[q] /\ job'[q] = job[q]
         /\ pc'[w] \in {"enq_push", "enq_publish"} => pc'[w] = pc[w] /\ job'[w] = job[w]
<1>1. CASE UNCHANGED <<tickets, pc, job>>
  BY <1>1, SameAnswers
<1>2. ASSUME NEW s \in Sessions, ClientCall(w, s)
      PROVE  /\ AnswersSame /\ AnswersKeep /\ \A q \in Workers \ {w} : pc'[q] = pc[q] /\ job'[q] = job[q]
             /\ pc'[w] \notin {"enq_push", "enq_publish"}
  BY <1>2, ClientBegins, SameAnswers, WorkersAreProcs DEF store
<1> QED
  BY <1>1, <1>2 DEF vars, store, RuntimeCall

-----------------------------------------------------------------------------
(* The steps of the plugin *)

LEMMA CallAgainCharged ==
  ASSUME Overlap = {}, IInv, PInv, SInv, KInv, Charged, NEW w \in Workers, NEW s \in Sessions, CallAgain(w, s)
  PROVE  Charged'
<1> DEFINE v == [s |-> s, sb |-> handle[s], t |-> None]
<1>1. Busy(s) = {} /\ UNCHANGED <<vars, handle>> /\ step[w] = "free" /\ Turn(w, "reopen", v) /\ v.sb = handle[s]
  BY DEF CallAgain, MayCall, Begins
<1> HIDE DEF v
<1>2. \A id \in SandboxIds : v.sb = id => InUse(id)
  BY <1>1 DEF InUse
<1>3. UsesKeep
  BY <1>1, <1>2, BeginAnswers, TurnUses, TurnSame DEF Awaits
<1> QED
  BY <1>1, <1>3, QuietCharged

LEMMA CallFirstCharged ==
  ASSUME IInv, PInv, SInv, KInv, Charged, NEW w \in Workers, NEW s \in Sessions, CallFirst(w, s)
  PROVE  Charged'
<1>1. /\ ClientCall(w, s) /\ UNCHANGED <<store, handle>> /\ step[w] = "free"
      /\ pc'[w] \notin {"enq_push", "enq_publish"}
  BY AcquireSteps DEF CallFirst, Begins, ClientCall, Acquire
<1>2. CASE leases[s] = None
  <2>1. Turn(w, "asking", [NoSeat EXCEPT !.s = s])
    BY <1>2 DEF CallFirst
  <2>2. UsesKeep
    BY <1>1, <2>1, BeginAnswers, TurnUses, TurnSame DEF Awaits, ToolSteps
  <2> QED
    BY <1>1, <2>2, ClientCharged
<1>3. CASE leases[s] # None
  <2> DEFINE v == [NoSeat EXCEPT !.s = s, !.sb = leases[s].sb]
  <2>1. Turn(w, "connect", v) /\ v.sb = leases[s].sb
    BY <1>3 DEF CallFirst, NoSeat
  <2> HIDE DEF v
  <2>2. \A id \in SandboxIds : v.sb = id => Named(id)'
    BY <1>1, <1>3, <2>1 DEF Named, Leased, store
  <2>3. UsesKeep
    BY <1>1, <2>1, <2>2, BeginAnswers, TurnUses, TurnSame DEF Awaits
  <2> QED
    BY <1>1, <2>3, ClientCharged
<1> QED
  BY <1>2, <1>3

LEMMA EventCharged ==
  ASSUME IInv, PInv, SInv, KInv, Charged, NEW w \in Workers, NEW s \in Sessions, NEW reason \in Reasons, Event(w, s, reason)
  PROVE  Charged'
<1>1. ClientCall(w, s) /\ step[w] = "free"
  BY DEF Event, Begins, ClientCall
<1>2. \A v \in Workers, t \in TicketIds : step[v] = "free" => ~Awaits(v, t)
  BY DEF Awaits
<1>3. CASE leases[s] = None
  <2>1. UNCHANGED <<step, seat>> /\ \A r \in Sessions : handle'[r] = handle[r] \/ handle'[r] = None
    BY <1>3 DEF Event, PInv, PluginTypeOK
  <2>2. \A v \in Workers, t \in TicketIds : Awaits(v, t)' => Awaits(v, t)
    BY <1>1, <2>1, BeginAnswers DEF Awaits
  <2>3. UsesKeep
    BY <1>1, <2>1, <2>2, BeginAnswers, UsesStay, NamesAssumption DEF InUse, Busy
  <2> QED
    BY <1>1, <2>3, ClientCharged
<1>4. CASE leases[s] # None
  <2>1. Turn(w, "releasing", [NoSeat EXCEPT !.s = s]) /\ UNCHANGED handle
    BY <1>4 DEF Event
  <2>2. UsesKeep
    BY <1>1, <2>1, BeginAnswers, TurnUses, TurnSame DEF Awaits, ToolSteps
  <2> QED
    BY <1>1, <2>2, ClientCharged
<1> QED
  BY <1>3, <1>4

LEMMA ToolCharged ==
  ASSUME IInv, PInv, SInv, KInv, Charged, NEW w \in Workers, Tool(w), faults' = 0
  PROVE  Charged'
<1>1. CASE PollReady(w)
  <2> DEFINE v == [seat[w] EXCEPT !.sb = tickets[seat[w].t].sb]
          t == seat[w].t
  <2>1. UNCHANGED <<vars, handle>> /\ Turn(w, "connect", v) /\ v.sb = tickets[t].sb /\ step[w] = "polling"
    BY <1>1, SeatFacts DEF PollReady, Use, Seat
  <2>2. t \in TicketIds /\ tickets[t] # None /\ tickets[t].status = "ready"
    BY <1>1, SeatFacts DEF PollReady, IsReady, SeatOK
  <2> HIDE DEF v
  <2>3. \A id \in SandboxIds : v.sb = id => InUse(id)
    BY <2>1, <2>2 DEF InUse, Awaits, Answers
  <2>4. UsesKeep
    BY <2>1, <2>3, BeginAnswers, TurnUses, TurnSame DEF Awaits
  <2> QED
    BY <2>1, <2>4, QuietCharged
<1>2. CASE PollTimeout(w)
  <2>1. UNCHANGED <<vars, handle>> /\ Turn(w, "free", NoSeat) /\ step[w] = "polling"
    BY <1>2 DEF PollTimeout, GivesUp, Over
  <2>2. UsesKeep
    BY <2>1, BeginAnswers, TurnUses, TurnSame DEF Awaits, ToolSteps
  <2> QED
    BY <2>1, <2>2, QuietCharged
<1>3. CASE Beat(w)
  <2>1. /\ seat[w].s \in Sessions /\ ClientCall(w, seat[w].s) /\ step[w] = "beat" /\ UNCHANGED handle
        /\ \E st \in {"run", "beating"} : Turn(w, st, seat[w])
    BY <1>3, SeatFacts DEF Beat, SeatOK, ClientCall, Go
  <2>2. \A id \in SandboxIds : seat[w].sb = id => InUse(id)
    BY <2>1 DEF InUse, ToolSteps
  <2>3. UsesKeep
    BY <2>1, <2>2, BeginAnswers, TurnUses, TurnSame DEF Awaits
  <2> QED
    BY <2>1, <2>3, ClientCharged
<1>4. CASE Reopen(w) \/ Connect(w) \/ Prepare(w) \/ Run(w)
  <2>1. RuntimeCall(w) /\ step[w] \in ToolSteps
    BY <1>4 DEF Reopen, Connect, Prepare, Run, Calls, RuntimeCall, ToolSteps
  <2>2. /\ \E st \in ToolSteps \cup {"free"} : \E v : Turn(w, st, v) /\ (st # "free" => v = seat[w])
        /\ \A s \in Sessions : handle'[s] = handle[s] \/ handle'[s] = seat[w].sb
    BY <1>4 DEF Reopen, Connect, Prepare, Run, Calls, Go, Keep, Ends, GivesUp, Over, ToolSteps, PInv, PluginTypeOK
  <2>3. \A id \in SandboxIds : seat[w].sb = id => InUse(id)
    BY <2>1 DEF InUse
  <2>4. UsesKeep
    BY <2>1, <2>2, <2>3, BeginAnswers, TurnUses, TurnSame DEF Awaits, ToolSteps
  <2>5. InUse(seat[w].sb)
    BY <2>1, <2>3, SeatFacts DEF SeatOK
  <2> QED
    BY <2>1, <2>4, <2>5, RuntimeCharged
<1> QED
  BY <1>1, <1>2, <1>3, <1>4 DEF Tool

LEMMA StepDisposes ==
  ASSUME NEW p \in Proc, Step(p), pc[p] \in {"rel_stop", "rel_kill"}
  PROVE  RelStop(p) \/ RelKill(p)
BY DEF Step, AcqAttach, AcqSlot, AcqUndo, EnqSet, EnqPush, EnqPublish, ClLookup, ClStart, ClForget, ClForgetOwner,
   ClCreate, ClBind, ClWorkDir, ClUserDir, ClSave, MakeDir, RelDelete, RelKeys, RelMget, RelKeep, RelUnbind, RelOwner,
   RelUnbindOwner, RelClear, RelSlot, PqPop, PqMore, FtClaim, FtSlot, FtReset, FtRequeue, FtPush, FtReady, FtUndo,
   FtFail, HbSave, SwMget, SwNext, At

LEMMA StepSaves ==
  ASSUME NEW p \in Proc, Step(p), pc[p] = "cl_save"
  PROVE  ClSave(p)
BY DEF Step, AcqAttach, AcqSlot, AcqUndo, EnqSet, EnqPush, EnqPublish, ClLookup, ClStart, ClForget, ClForgetOwner,
   ClCreate, ClBind, ClWorkDir, ClUserDir, MakeDir, RelDelete, RelKeys, RelMget, RelStop, RelKill, Dispose, RelKeep,
   RelUnbind, RelOwner, RelUnbindOwner, RelClear, RelSlot, PqPop, PqMore, FtClaim, FtSlot, FtReset, FtRequeue, FtPush,
   FtReady, FtUndo, FtFail, HbSave, SwMget, SwNext, At

\* A release that is refused keeps its slot, and the plugin its handle: the
\* sandbox of the handle is charged to that slot.
LEMMA ErrorCharged ==
  ASSUME IInv, PInv, SInv, KInv, Charged, NEW w \in Workers, Step(w), faults' = 0,
         step[w] = "releasing", pc[w] \in {"rel_stop", "rel_kill"}, pc'[w] = "idle", ReleaseError(w)
  PROVE  Charged'
<1>1. w \in Proc /\ seat[w].s \in Sessions
  BY WorkersAreProcs, SeatFacts DEF SeatOK
<1>2. PICK s \in Sessions, id \in SandboxIds : s = seat[w].s /\ id = job[w].sb
  BY <1>1 DEF IInv, HandlersOK, JobInv, SandboxLabels, ReleaseLabels
<1>3. PICK y : y = handle[s]
  OBVIOUS
<1>4. sandbox[id] = "deleted" /\ UNCHANGED <<sandbox, leases, activeCount>>
  <2>1. RelStop(w) \/ RelKill(w)
    BY <1>1, StepDisposes
  <2>2. \A l : Goto(w, l) => l = "idle"
    BY <1>1 DEF Goto, IInv, TypeOK
  <2>3. \E st : ProviderFails(id, st)
    BY <1>2, <2>1, <2>2 DEF RelStop, RelKill, Dispose, At
  <2> QED
    BY <2>1, <2>3, Refused DEF RelStop, RelKill, Dispose, At, store
<1>5. Slack \in Nat /\ Slack' \in Nat /\ Slack' >= Slack + 1
  <2>1. Leased' = Leased
    BY <1>4 DEF Leased
  <2>2. pc[w] \in HoldLabels /\ pc'[w] \notin HoldLabels
    BY DEF HoldLabels, SlotLabels, CreateLabels, ReleaseLabels
  <2> QED
    BY <1>1, <1>4, <2>1, <2>2, SlackMoves
<1>6. Stale' = Stale /\ \A x : Named(x) => Named(x)' \/ x = id
  <2>1. pc[w] \notin LeaseLabels
    BY DEF LeaseLabels
  <2> QED
    BY <1>1, <1>2, <1>4, <2>1, NamesStay
<1>7. \A x \in SandboxIds : InUse(x)' => InUse(x) \/ Named(x)' \/ x = y
  <2>1. /\ step'[w] = "free" /\ UNCHANGED handle
        /\ \A q \in Workers \ {w} : step'[q] = step[q] /\ seat'[q] = seat[q]
    BY TurnSame DEF ReleaseError, Over
  <2>2. \A q \in Workers \ {w} : pc'[q] = pc[q] /\ job'[q] = job[q]
    BY <1>1, StepGoes, WorkersAreProcs DEF Goes
  <2>3. ASSUME NEW x \in SandboxIds, NEW v \in Workers, NEW t \in TicketIds, Awaits(v, t)', Answers(t, x)'
        PROVE  InUse(x) \/ Named(x)'
    <3>1. Awaits(v, t)
      BY <2>1, <2>2, <2>3 DEF Awaits
    <3> QED
      BY <1>1, <2>3, <3>1, StepAnswers DEF AnswersKeep, InUse
  <2>4. ASSUME NEW x \in SandboxIds, NEW r \in Sessions, handle'[r] = x, \A q \in Busy(r)' : step'[q] # "releasing"
        PROVE  InUse(x) \/ x = y
    <3>1. r # s => \A q \in Busy(r) : step[q] # "releasing"
      BY <1>2, <2>1, <2>4 DEF Busy
    <3> QED
      BY <1>3, <2>1, <2>4, <3>1 DEF InUse
  <2>5. ASSUME NEW x \in SandboxIds, NEW v \in Workers, step'[v] \in ToolSteps, seat'[v].sb = x
        PROVE  InUse(x)
    BY <2>1, <2>5 DEF InUse, ToolSteps
  <2> QED
    BY <2>3, <2>4, <2>5 DEF InUse
<1>8. Loose' \subseteq Loose \cup {y}
  <2>1. ~Live(id)'
    BY <1>4 DEF Live
  <2> QED
    BY <1>4, <1>6, <1>7, <2>1 DEF Loose, Live
<1> QED
  BY <1>5, <1>6, <1>8, ChargesKeep

LEMMA ServeCharged ==
  ASSUME OwnLeases, Stops, IInv, PInv, SInv, OInv, RolesOK, HandlesOwned, OneCall, ReleasesOwn, Charged,
         NEW w \in Workers, Serve(w), faults' = 0
  PROVE  Charged'
<1>1. w \in Proc /\ Step(w) /\ KInv
  BY WorkersAreProcs DEF Serve, RolesOK
<1>2. AnswersKeep /\ \A q \in Workers \ {w} : pc'[q] = pc[q] /\ job'[q] = job[q]
  BY <1>1, StepAnswers, StepGoes, WorkersAreProcs DEF Goes
<1>3. UsesKeep => Charged'
  BY <1>1, NotInUse, StepCharged
<1>4. pc[w] # "idle" /\ step[w] \in AtBroker
  BY <1>1, StepOwn, SeatFacts DEF Own, SeatOK
<1>5. CASE pc'[w] # "idle"
  <2>1. UNCHANGED plugin
    BY <1>5 DEF Serve
  <2>2. \A t \in TicketIds : Awaits(w, t)' => Awaits(w, t) \/ tickets[t] = None
    BY <1>1, <2>1, StepPushesNew DEF Awaits, plugin
  <2>3. \A v \in Workers, t \in TicketIds : Awaits(v, t)' => Awaits(v, t) \/ tickets[t] = None
    BY <1>2, <2>1, <2>2 DEF Awaits, plugin
  <2> QED
    BY <1>1, <1>2, <1>3, <2>1, <2>3, SameUses
<1>6. CASE pc'[w] = "idle"
  <2>1. Answered(w)
    BY <1>6 DEF Serve
  <2>2. CASE step[w] = "beating" /\ Go(w, "run")
    <3>1. \A id \in SandboxIds : seat[w].sb = id => InUse(id)
      BY <2>2 DEF InUse, ToolSteps
    <3>2. UsesKeep
      BY <1>1, <1>2, <2>2, <3>1, TurnUses, TurnSame DEF Go, Awaits
    <3> QED
      BY <1>3, <3>2
  <2>3. CASE step[w] = "asking" /\ pc[w] = "cl_save" /\ Use(w, "connect", job[w].sb)
    <3> DEFINE v == [seat[w] EXCEPT !.sb = job[w].sb]
    <3>1. Turn(w, "connect", v) /\ UNCHANGED handle /\ v.sb = job[w].sb
      BY <2>3, SeatFacts DEF Use, Seat
    <3> HIDE DEF v
    <3>2. \A id \in SandboxIds : v.sb = id => Named(id)'
      BY <1>1, <2>3, <3>1, StepSaves, SaveNames
    <3>3. UsesKeep
      BY <1>1, <1>2, <2>3, <3>1, <3>2, TurnUses, TurnSame DEF Awaits
    <3> QED
      BY <1>3, <3>3
  <2>4. CASE /\ step[w] = "asking" /\ pc[w] = "enq_publish"
             /\ Turn(w, "polling", [seat[w] EXCEPT !.t = job[w].t])
             /\ UNCHANGED <<handle, begun, failed, abandoned>>
    <3> DEFINE v == [seat[w] EXCEPT !.t = job[w].t]
    <3>1. Turn(w, "polling", v) /\ UNCHANGED handle /\ v.t = job[w].t
      BY <2>4, SeatFacts DEF Seat
    <3> HIDE DEF v
    <3>2. UsesKeep
      BY <1>1, <1>2, <2>4, <3>1, TurnUses, TurnSame DEF Awaits, ToolSteps
    <3> QED
      BY <1>3, <3>2
  <2>5. CASE step[w] = "asking" /\ GivesUp(w)
    <3>1. UsesKeep
      BY <1>1, <1>2, <2>5, TurnUses, TurnSame DEF GivesUp, Over, Awaits, ToolSteps
    <3> QED
      BY <1>3, <3>1
  <2>6. CASE step[w] = "releasing"
    <3>1. IF pc[w] \in {"rel_stop", "rel_kill"} THEN ReleaseError(w) ELSE ReleaseOk(w)
      BY <2>1, <2>6 DEF Answered
    <3>2. CASE pc[w] \in {"rel_stop", "rel_kill"}
      BY <1>1, <1>6, <2>6, <3>1, <3>2, ErrorCharged
    <3>3. CASE ReleaseOk(w)
      <4>1. /\ seat[w].s \in Sessions /\ Turn(w, "free", NoSeat) /\ handle'[seat[w].s] = None
            /\ \A r \in Sessions : handle'[r] = handle[r] \/ handle'[r] = None
        BY <2>6, <3>3, SeatFacts DEF ReleaseOk, Over, SeatOK, PluginVarsOK
      <4>2. UsesKeep
        BY <1>1, <1>2, <4>1, NamesAssumption, TurnUses, TurnSame DEF Awaits, ToolSteps
      <4> QED
        BY <1>3, <4>2
    <3> QED
      BY <3>1, <3>2, <3>3
  <2> QED
    BY <1>1, <2>1, <2>2, <2>3, <2>4, <2>5, <2>6, AnsweredIs
<1> QED
  BY <1>5, <1>6

LEMMA BackgroundCharged ==
  ASSUME OwnLeases, Stops, IInv, PInv, SInv, OInv, RolesOK, HandlesOwned, OneCall, ReleasesOwn, Charged,
         Background, UNCHANGED plugin, faults' = 0
  PROVE  Charged'
<1>1. KInv /\ Sweepers = {} /\ Consumer \in Proc
  BY DEF RolesOK, OwnLeases, Proc
<1>2. \A v \in Workers, t \in TicketIds : Awaits(v, t)' => Awaits(v, t)
  BY BackgroundOthers DEF plugin, Awaits
<1>3. CASE Step(Consumer)
  <2>1. UsesKeep
    BY <1>1, <1>2, <1>3, StepAnswers, SameUses
  <2> QED
    BY <1>1, <1>3, <2>1, NotInUse, StepCharged
<1>4. CASE Consume
  <2>1. /\ UNCHANGED <<store, world>> /\ pc[Consumer] = "idle" /\ pc'[Consumer] = "ft_claim"
        /\ \A q \in Proc \ {Consumer} : pc'[q] = pc[q] /\ job'[q] = job[q]
    BY <1>1, <1>4 DEF Consume, At, Goto, Set, IInv, TypeOK
  <2>2. AnswersKeep
    BY <2>1, SameAnswers DEF store
  <2>3. UsesKeep
    BY <1>1, <1>2, <2>2, SameUses
  <2>4. "ft_claim" \notin HoldLabels \cup NamerLabels \cup LeaseLabels
    BY DEF HoldLabels, SlotLabels, CreateLabels, ReleaseLabels, NamerLabels, LeaseLabels
  <2> QED
    BY <2>1, <2>3, <2>4, BeginCharged DEF store, world
<1>5. ASSUME NEW s \in Sessions, Expire(s)
      PROVE  Charged'
  <2>1. UNCHANGED <<activeCount, tickets, sandbox, pc, job>>
    BY <1>5 DEF Expire, world
  <2>2. UsesKeep
    BY <1>1, <1>2, <2>1, SameAnswers, SameUses
  <2>3. \A r \in Sessions : (leases'[r] = None <=> leases[r] = None) /\ leases'[r].sb = leases[r].sb
    <3>1. leases[s] \in Lease /\ leases' = [leases EXCEPT ![s] = [leases[s] EXCEPT !.fresh = FALSE]]
      BY <1>5 DEF Expire, IInv, TypeOK
    <3>2. [leases[s] EXCEPT !.fresh = FALSE] \in Lease /\ [leases[s] EXCEPT !.fresh = FALSE].sb = leases[s].sb
      BY <3>1 DEF Lease
    <3> QED
      BY <3>1, <3>2, RecordsAssumption DEF IInv, TypeOK
  <2> QED
    BY <2>1, <2>2, <2>3, BeginCharged
<1> QED
  BY <1>1, <1>3, <1>4, <1>5 DEF Background

-----------------------------------------------------------------------------
(* Releases serve the session of their client *)

LEMMA StepReleasesOwn ==
  ASSUME IInv, SInv, ReleasesOwn, NEW p \in Proc, Step(p)
  PROVE  ReleasesOwn'
<1>1. \A q \in Proc \ {p} : pc'[q] = pc[q] /\ job'[q] = job[q]
  BY StepGoes DEF Goes
<1>2. pc'[p] \in LeaseLabels \cup ReleaseLabels => p \in Workers /\ job'[p].client = job'[p].s
  BY StepReleases DEF ReleasesOwn, LeaseLabels
<1> QED
  BY <1>1, <1>2 DEF ReleasesOwn

LEMMA ClientReleasesOwn ==
  ASSUME IInv, ReleasesOwn, NEW w \in Workers, NEW s \in Sessions, ClientCall(w, s)
  PROVE  ReleasesOwn'
BY ClientBegins, WorkersAreProcs DEF ReleasesOwn, LeaseLabels, ReleaseLabels

LEMMA BackgroundReleasesOwn ==
  ASSUME OwnLeases, IInv, SInv, ReleasesOwn, Background
  PROVE  ReleasesOwn'
<1>1. Consumer \in Proc /\ Sweepers = {}
  BY DEF Proc, OwnLeases
<1>2. CASE Consume
  BY <1>1, <1>2 DEF Consume, At, Goto, Set, IInv, TypeOK, ReleasesOwn, LeaseLabels, ReleaseLabels
<1>3. ASSUME NEW s \in Sessions, Expire(s)
      PROVE  ReleasesOwn'
  BY <1>3 DEF Expire, ReleasesOwn
<1> QED
  BY <1>1, <1>2, <1>3, StepReleasesOwn DEF Background

LEMMA NextReleasesOwn ==
  ASSUME OwnLeases, IInv, PInv, SInv, ReleasesOwn, [PluginNext]_allVars
  PROVE  ReleasesOwn'
<1>1. CASE UNCHANGED <<pc, job>>
  BY <1>1 DEF ReleasesOwn
<1>2. ASSUME NEW w \in Workers, NEW s \in Sessions, CallFirst(w, s) \/ \E reason \in Reasons : Event(w, s, reason)
      PROVE  ReleasesOwn'
  BY <1>2, ClientReleasesOwn DEF CallFirst, Event, ClientCall
<1>3. ASSUME NEW w \in Workers, Tool(w)
      PROVE  ReleasesOwn'
  <2>1. Beat(w) => seat[w].s \in Sessions /\ ClientCall(w, seat[w].s)
    BY SeatFacts DEF Beat, SeatOK, ClientCall
  <2>2. ~Beat(w) => UNCHANGED <<pc, job>>
    BY <1>3 DEF Tool, Reopen, PollReady, PollTimeout, Connect, Prepare, Run, Calls, vars
  <2> QED
    BY <1>1, <2>1, <2>2, ClientReleasesOwn
<1>4. CASE BrokerDies
  BY <1>4 DEF BrokerDies, Crash, ReleasesOwn, LeaseLabels, ReleaseLabels
<1>5. ASSUME NEW w \in Workers, NEW s \in Sessions, CallAgain(w, s)
      PROVE  ReleasesOwn'
  BY <1>1, <1>5 DEF CallAgain, vars
<1>6. ASSUME NEW w \in Workers, Serve(w)
      PROVE  ReleasesOwn'
  BY <1>6, StepReleasesOwn, WorkersAreProcs DEF Serve
<1> QED
  BY <1>1, <1>2, <1>3, <1>4, <1>5, <1>6, BackgroundReleasesOwn DEF PluginNext, Background, allVars, vars

LEMMA NextFaults ==
  ASSUME IInv, [PluginNext]_allVars, faults' = 0
  PROVE  faults = 0
<1>1. \A p \in Proc : Step(p) => faults = 0
  BY StepFaults
<1>2. \A w \in Workers, s \in Sessions : ClientCall(w, s) => UNCHANGED faults
  BY DEF ClientCall, Acquire, Release, Heartbeat
<1>3. \A w \in Workers : Tool(w) => UNCHANGED faults
  BY Refused DEF Tool, Reopen, Beat, Heartbeat, PollReady, PollTimeout, Connect, Prepare, Run, Calls, vars, bounds, Provider,
     ProviderFails, Fault, IInv, TypeOK
<1>4. Background => faults = 0
  BY <1>1 DEF Background, Consume, SwKeys, Expire, bounds, Proc
<1>5. ~BrokerDies
  BY DEF BrokerDies, Crash, Fault, IInv, TypeOK
<1>6. \A w \in Workers, s \in Sessions :
        CallAgain(w, s) \/ CallFirst(w, s) \/ (\E reason \in Reasons : Event(w, s, reason)) => UNCHANGED faults
  BY <1>2 DEF CallAgain, CallFirst, Event, ClientCall, vars, bounds
<1>7. \A w \in Workers : Serve(w) => faults = 0
  BY <1>1, WorkersAreProcs DEF Serve
<1> QED
  BY <1>3, <1>4, <1>5, <1>6, <1>7 DEF PluginNext, Background, allVars, vars, bounds

-----------------------------------------------------------------------------
(* The sandboxes that run *)

LEMMA PluginNextCharged ==
  ASSUME OwnLeases, Overlap = {}, Stops, IInv, PInv, SInv, OneCall, OInv, RolesOK, HandlesOwned, RInv,
         [PluginNext]_allVars
  PROVE  RInv'
<1>1. ReleasesOwn'
  BY NextReleasesOwn DEF RInv
<1>2. ASSUME faults' = 0
      PROVE  Charged'
  <2>1. Charged /\ ReleasesOwn /\ KInv
    BY <1>2, NextFaults DEF RInv, RolesOK
  <2>2. CASE UNCHANGED allVars
    <3>1. AnswersKeep
      BY <2>2, SameAnswers DEF allVars, vars, store
    <3>2. UsesKeep
      BY <2>1, <2>2, <3>1, SameUses DEF Awaits, allVars, plugin, vars
    <3> QED
      BY <2>1, <2>2, <3>2, QuietCharged DEF allVars
  <2>3. CASE Background /\ UNCHANGED plugin
    BY <1>2, <2>1, <2>3, BackgroundCharged
  <2>4. ~BrokerDies
    BY <1>2 DEF BrokerDies, Crash, Fault, IInv, TypeOK
  <2> QED
    BY <1>2, <2>1, <2>2, <2>3, <2>4, CallAgainCharged, CallFirstCharged, EventCharged, ToolCharged, ServeCharged
    DEF PluginNext, Background
<1> QED
  BY <1>1, <1>2 DEF RInv

LEMMA PluginInitCharged ==
  ASSUME PluginInit
  PROVE  RInv
<1>1. ReleasesOwn /\ Stale = {}
  BY DEF PluginInit, Init, ReleasesOwn, Stale, LeaseLabels, ReleaseLabels
<1>2. \A id \in SandboxIds : ~Live(id)
  BY NamesAssumption DEF PluginInit, Init, Live, InUse, Awaits, ToolSteps
<1>3. Loose = {}
  BY <1>2 DEF Loose
<1>4. Leased = {} /\ Holders = {} /\ activeCount = 0
  BY DEF PluginInit, Init, Leased, Holders, CreateLabels, ReleaseLabels
<1> QED
  BY <1>1, <1>3, <1>4, FS_EmptySet DEF RInv, Charged, Slack

\* A set of values of f is no larger than the set it takes them from.
LEMMA ImageSmall ==
  ASSUME NEW f, NEW S, IsFiniteSet(S)
  PROVE  LET T == {f[x] : x \in S} IN
         IsFiniteSet(T) /\ Cardinality(T) \in Nat /\ Cardinality(S) \in Nat /\ Cardinality(T) <= Cardinality(S)
<1> DEFINE T == {f[x] : x \in S}
           g == [x \in S |-> f[x]]
<1>1. g \in Surjection(S, T)
  BY DEF Surjection
<1>2. IsFiniteSet(T) /\ Cardinality(T) <= Cardinality(S)
  BY <1>1, FS_Surjection
<1> QED
  BY <1>2, FS_CardinalityType

LEMMA UnionSmall ==
  ASSUME NEW A, NEW B, IsFiniteSet(A), IsFiniteSet(B)
  PROVE  /\ IsFiniteSet(A \cup B) /\ Cardinality(A \cup B) \in Nat /\ Cardinality(A) \in Nat /\ Cardinality(B) \in Nat
         /\ Cardinality(A \cup B) <= Cardinality(A) + Cardinality(B)
<1>1. IsFiniteSet(A \cap B)
  BY FS_Subset
<1>2. Cardinality(A \cap B) \in Nat /\ Cardinality(A \cup B) = Cardinality(A) + Cardinality(B) - Cardinality(A \cap B)
  BY <1>1, FS_Union, FS_CardinalityType
<1>3. IsFiniteSet(A \cup B) /\ Cardinality(A) \in Nat /\ Cardinality(B) \in Nat
  BY FS_Union, FS_CardinalityType
<1> QED
  BY <1>2, <1>3, FS_CardinalityType

\* What runs has a lease, a handler or a slot of its own.
LEMMA ChargedCaps ==
  ASSUME SInv, IInv, Charged
  PROVE  Cardinality(Running) <= MaxConcurrency
<1> DEFINE LeasedTo == [s \in Sessions |-> leases[s].sb]
           WorkOf == [p \in Proc |-> job[p].sb]
           OfLeases == {LeasedTo[x] : x \in Leased}
           OfHolders == {WorkOf[x] : x \in Holders}
           OfStale == {WorkOf[x] : x \in Stale}
<1>1. Running \subseteq (OfLeases \cup OfHolders) \cup (OfStale \cup Loose)
  <2> SUFFICES ASSUME NEW id \in Running, id \notin Loose
               PROVE  id \in OfLeases \cup OfHolders \cup OfStale
    OBVIOUS
  <2>1. Named(id)
    BY DEF Running, Live, Loose
  <2>2. ASSUME NEW s \in Leased, leases[s].sb = id
        PROVE  id \in OfLeases
    BY <2>2 DEF Leased
  <2>3. ASSUME NEW p \in Proc, pc[p] \in NamerLabels, job[p].sb = id
        PROVE  id \in OfHolders
    <3>1. p \in Holders
      BY <2>3, HoldersAre DEF SInv, NamerLabels, HoldLabels, SlotLabels, CreateLabels, ReleaseLabels
    <3> QED
      BY <2>3, <3>1
  <2>4. ASSUME NEW p \in Stale, job[p].sb = id
        PROVE  id \in OfStale
    BY <2>4 DEF Stale
  <2> QED
    BY <2>1, <2>2, <2>3, <2>4 DEF Named
<1>2. IsFiniteSet(Leased) /\ IsFiniteSet(Holders) /\ IsFiniteSet(Stale) /\ IsFiniteSet(Loose)
  BY DEF SInv, Charged
<1>3. /\ IsFiniteSet(OfLeases) /\ Cardinality(OfLeases) \in Nat /\ Cardinality(Leased) \in Nat
      /\ Cardinality(OfLeases) <= Cardinality(Leased)
  BY ONLY <1>2, ImageSmall
<1>4. /\ IsFiniteSet(OfHolders) /\ Cardinality(OfHolders) \in Nat /\ Cardinality(Holders) \in Nat
      /\ Cardinality(OfHolders) <= Cardinality(Holders)
  BY ONLY <1>2, ImageSmall
<1>5. /\ IsFiniteSet(OfStale) /\ Cardinality(OfStale) \in Nat /\ Cardinality(Stale) \in Nat
      /\ Cardinality(OfStale) <= Cardinality(Stale)
  BY ONLY <1>2, ImageSmall
<1> DEFINE A == OfLeases \cup OfHolders
           B == OfStale \cup Loose
<1>6. IsFiniteSet(A) /\ Cardinality(A) \in Nat /\ Cardinality(A) <= Cardinality(OfLeases) + Cardinality(OfHolders)
  BY <1>3, <1>4, UnionSmall
<1>7. /\ IsFiniteSet(B) /\ Cardinality(B) \in Nat /\ Cardinality(Loose) \in Nat
      /\ Cardinality(B) <= Cardinality(OfStale) + Cardinality(Loose)
  BY <1>2, <1>5, UnionSmall
<1>8. /\ IsFiniteSet(A \cup B) /\ Cardinality(A \cup B) \in Nat
      /\ Cardinality(A \cup B) <= Cardinality(A) + Cardinality(B)
  BY <1>6, <1>7, UnionSmall
<1>9. Cardinality(Running) \in Nat /\ Cardinality(Running) <= Cardinality(A \cup B)
  BY <1>1, <1>8, FS_Subset, FS_CardinalityType
<1>10. activeCount \in Nat /\ activeCount <= MaxConcurrency /\ MaxConcurrency \in Nat
  BY ConfigAssumption DEF IInv, SlotBound
<1>11. Cardinality(Loose) + Cardinality(Stale) <= activeCount - Cardinality(Leased) - Cardinality(Holders)
  BY DEF Charged, Slack
<1> HIDE DEF A, B, OfLeases, OfHolders, OfStale
<1> QED
  BY <1>3, <1>4, <1>5, <1>6, <1>7, <1>8, <1>9, <1>10, <1>11

LEMMA PluginCharged ==
  ASSUME OwnLeases, Overlap = {}, Stops
  PROVE  PluginSpec => [](RInv /\ SInv /\ IInv)
<1>1. StickyModes
  BY DEF OwnLeases, StickyModes
<1>2. PluginInit => RInv
  BY PluginInitCharged
<1>3. /\ IInv /\ PInv /\ SInv /\ OneCall /\ OInv /\ RolesOK /\ HandlesOwned /\ RInv /\ [PluginNext]_allVars => RInv'
  BY PluginNextCharged
<1> QED
  BY <1>1, <1>2, <1>3, PluginOne, PluginOwned, PluginRoles, PTL DEF PluginSpec

\* Without faults no more sandboxes run than MAX_CONCURRENCY allows, whichever
\* handlers, releases and heartbeats overtake each other, when each session has
\* leases and sandboxes of its own and one request at a time, and a release
\* stops or deletes the sandbox (createLease, fulfillTicket, releaseLease,
\* heartbeat; tryAcquireSlot is the only place that counts).
THEOREM RunningStaysCapped ==
  ASSUME OwnLeases, Overlap = {}, Stops
  PROVE  PluginSpec => []RunningCap
<1>1. RInv /\ SInv /\ IInv => RunningCap
  BY ChargedCaps DEF RInv, RunningCap
<1> QED
  BY <1>1, PluginCharged, PTL

-----------------------------------------------------------------------------
(* Leases stay, or are replaced *)

LeasesStay == \A s \in Sessions : leases[s] # None => leases'[s] # None

\* What the plugin has of a lease stays true when the lease is written again:
\* the history notes one that then names another sandbox.
LEMMA KnownStays ==
  ASSUME LeasesStay, Noted
  PROVE  \A s \in Sessions : \A sb : LeasedOn(s, sb) => LeasedOn(s, sb)'
BY DEF LeasesStay, Noted, Replaced, Leased, LeasedOn

\* A step that neither makes a lease nor ends one, and answers nobody anew.
Calm ==
  /\ LeasesStay /\ AnswersSame
  /\ \A p \in Proc : pc'[p] \in LeaseLabels =>
       \/ leases[job'[p].s] # None /\ leases[job'[p].s].sb = job'[p].sb /\ job'[p].s \in Sessions
       \/ pc[p] \in LeaseLabels /\ job'[p] = job[p]

LEMMA LeaseJob ==
  ASSUME IInv, NEW p \in Proc, pc[p] \in LeaseLabels
  PROVE  job[p].s \in Sessions /\ job[p].sb \in SandboxIds
BY DEF IInv, HandlersOK, JobInv, SessionLabels, SandboxLabels, Labels, LeaseLabels

LEMMA NewLease ==
  ASSUME IInv, NEW p \in Proc, pc[p] \in {"cl_save", "hb_save"}
  PROVE  /\ job[p].s \in Sessions /\ job[p].sb \in SandboxIds
         /\ LeaseOf(job[p]) # None /\ LeaseOf(job[p]).sb = job[p].sb
<1>1. job[p].s \in Sessions /\ job[p].sb \in SandboxIds /\ job[p].mode \in Modes
  BY DEF IInv, HandlersOK, JobInv, SessionLabels, SandboxLabels, Labels
<1>2. LeaseOf(job[p]) \in Lease /\ LeaseOf(job[p]).sb = job[p].sb
  BY <1>1 DEF LeaseOf, Lease
<1> QED
  BY <1>1, <1>2, RecordsAssumption

LEMMA StepCalm ==
  ASSUME IInv, SInv, NEW p \in Proc, Step(p), ~RelDelete(p), ~ClSave(p)
  PROVE  Calm
<1>1. Goes(p)
  BY StepGoes
<1>2. LeasesStay
  <2>1. CASE HbSave(p)
    <3>1. pc[p] = "hb_save" /\ leases' = [leases EXCEPT ![job[p].s] = LeaseOf(job[p])]
      BY <2>1 DEF HbSave
    <3>2. LeaseOf(job[p]).sb = job[p].sb /\ LeaseOf(job[p]) # None
      BY <3>1, NewLease
    <3>3. PICK l : l = LeaseOf(job[p]) /\ job[p].s \in Sessions
      BY <3>1, LeaseJob DEF LeaseLabels
    <3>4. leases \in [Sessions -> Lease \cup {None}]
      BY DEF IInv, TypeOK
    <3> QED
      BY <3>1, <3>2, <3>3, <3>4 DEF LeasesStay
  <2>2. CASE ~HbSave(p)
    <3>1. UNCHANGED leases
      BY <2>2 DEF Step, AcqAttach, AcqSlot, AcqUndo, EnqSet, EnqPush, EnqPublish, ClLookup, ClStart, ClForget,
         ClForgetOwner, ClCreate, ClBind, ClWorkDir, ClUserDir, MakeDir, RelKeys, RelMget, RelStop, RelKeep, RelKill,
         Dispose, RelUnbind, RelOwner, RelUnbindOwner, RelClear, RelSlot, PqPop, PqMore, FtClaim, FtSlot, FtReset,
         FtRequeue, FtPush, FtReady, FtUndo, FtFail, SwMget, SwNext, store
    <3> QED
      BY <3>1 DEF LeasesStay
  <2> QED
    BY <2>1, <2>2
<1>3. AnswersSame
  BY StepAnswers
<1> QED
  BY <1>1, <1>2, <1>3 DEF Calm, Goes

LEMMA BeginCalm ==
  ASSUME IInv, NEW w \in Workers,
         UNCHANGED vars \/ RuntimeCall(w) \/ \E s \in Sessions : ClientCall(w, s)
  PROVE  Calm
<1>1. CASE UNCHANGED <<store, pc, job>>
  BY <1>1, SameAnswers DEF store, Calm, LeasesStay
<1>2. ASSUME NEW s \in Sessions, ClientCall(w, s)
      PROVE  Calm
  BY <1>2, ClientBegins, BeginAnswers DEF store, Calm, LeasesStay
<1> QED
  BY <1>1, <1>2 DEF vars, RuntimeCall

\* A worker takes its turn while the broker is calm.
LEMMA CalmKnown ==
  ASSUME IInv, PInv, LeaseKnown, Calm, NEW w \in Workers, \A q \in Workers \ {w} : pc'[q] = pc[q] /\ job'[q] = job[q],
         NEW st, NEW v, Turn(w, st, v),
         st \in ToolSteps /\ v.s \notin failed' => v.s \in Sessions /\ LeasedOn(v.s, v.sb),
         \A s \in Sessions : \/ handle'[s] = handle[s]
                             \/ handle'[s] = None
                             \/ s \notin failed' => LeasedOn(s, handle'[s]),
         step[w] = "releasing" => handle'[seat[w].s] = None \/ seat[w].s \in failed',
         \A s \in failed \ failed' :
           handle'[s] = None /\ \A q \in Workers \ {w} : step[q] \in ToolSteps => seat[q].s # s,
         \A t \in TicketIds : Awaits(w, t)' =>
           (Awaits(w, t) /\ v.s = seat[w].s) \/ tickets[t] = None,
         KInv
  PROVE  LeaseKnown'
<1>1. step'[w] = st /\ seat'[w] = v /\ \A q \in Workers \ {w} : step'[q] = step[q] /\ seat'[q] = seat[q]
  BY TurnSame
<1>2. \A s \in Sessions : \A sb : LeasedOn(s, sb) => LeasedOn(s, sb)'
  BY KnownStays DEF Calm, Turn
<1>3. ASSUME NEW p \in Proc, pc'[p] \in LeaseLabels
      PROVE  LeasedOn(job[p].s, job[p].sb)'
  <2>1. CASE pc[p] \in LeaseLabels /\ job'[p] = job[p]
    <3>1. PICK s \in Sessions : s = job[p].s
      BY <2>1, LeaseJob
    <3>2. \A sb : sb = job[p].sb => LeasedOn(s, sb)'
      BY <1>2, <2>1, <3>1 DEF LeaseKnown
    <3> QED
      BY <2>1, <3>1, <3>2 DEF LeasedOn
  <2>2. CASE leases[job'[p].s] # None /\ leases[job'[p].s].sb = job'[p].sb /\ job'[p].s \in Sessions
    <3>1. PICK s \in Sessions : s = job'[p].s
      BY <2>2
    <3>2. LeasedOn(s, job'[p].sb)
      BY <2>2, <3>1 DEF LeasedOn
    <3>3. \A sb : sb = job'[p].sb => LeasedOn(s, sb)'
      BY <1>2, <3>2
    <3> QED
      BY <3>1, <3>3 DEF LeasedOn
  <2> QED
    BY <1>3, <2>1, <2>2 DEF Calm
<1>4. ASSUME NEW q \in Workers, NEW t \in TicketIds, NEW id \in SandboxIds, Awaits(q, t)', Answers(t, id)'
      PROVE  LeasedOn(seat[q].s, id)'
  <2>1. Answers(t, id)
    BY <1>4 DEF Calm, AnswersSame
  <2>2. tickets[t] # None
    BY <2>1, AnsweredKnown
  <2>3. Awaits(q, t) /\ seat'[q].s = seat[q].s
    BY <1>1, <1>4, <2>2 DEF Awaits
  <2>4. seat[q].s \in Sessions
    BY <2>3, SeatFacts DEF SeatOK, Awaits
  <2>5. PICK s \in Sessions : s = seat[q].s
    BY <2>4
  <2>6. LeasedOn(s, id)'
    BY <1>2, <2>1, <2>3, <2>5 DEF LeaseKnown
  <2> QED
    BY <2>3, <2>5, <2>6 DEF LeasedOn
<1>5. ASSUME NEW q \in Workers, step'[q] \in ToolSteps, seat'[q].s \notin failed'
      PROVE  LeasedOn(seat[q].s, seat[q].sb)'
  <2>1. CASE q = w
    BY <1>1, <1>2, <1>5, <2>1 DEF LeasedOn
  <2>2. CASE q # w
    <3>1. step[q] \in ToolSteps /\ seat[q].s \notin failed /\ seat'[q] = seat[q]
      BY <1>1, <1>5, <2>2
    <3>2. seat[q].s \in Sessions
      BY <3>1, SeatFacts DEF SeatOK, ToolSteps
    <3>3. PICK s \in Sessions : s = seat[q].s
      BY <3>2
    <3>4. \A sb : sb = seat[q].sb => LeasedOn(s, sb)'
      BY <1>2, <3>1, <3>3 DEF LeaseKnown
    <3> QED
      BY <3>1, <3>3, <3>4 DEF LeasedOn
  <2> QED
    BY <2>1, <2>2
<1>6. ASSUME NEW s \in Sessions, handle'[s] # None, s \notin failed', \A q \in Busy(s)' : step'[q] # "releasing"
      PROVE  LeasedOn(s, handle[s])'
  <2>1. CASE s \notin failed' => LeasedOn(s, handle'[s])
    BY <1>2, <1>6, <2>1 DEF LeasedOn
  <2>2. CASE handle'[s] = handle[s]
    <3>1. s \notin failed
      BY <1>6
    <3>2. \A q \in Busy(s) : step[q] # "releasing"
      BY <1>1, <1>6 DEF Busy
    <3> QED
      BY <1>2, <1>6, <2>2, <3>1, <3>2 DEF LeaseKnown, LeasedOn
  <2> QED
    BY <1>6, <2>1, <2>2
<1> QED
  BY <1>3, <1>4, <1>5, <1>6 DEF LeaseKnown

\* The plugin does nothing while the broker is calm.
LEMMA CalmStays ==
  ASSUME IInv, PInv, KInv, LeaseKnown, Calm, UNCHANGED plugin, Noted,
         \A v \in Workers, t \in TicketIds : Awaits(v, t)' => Awaits(v, t) \/ tickets[t] = None
  PROVE  LeaseKnown'
<1>1. \A s \in Sessions : \A sb : LeasedOn(s, sb) => LeasedOn(s, sb)'
  BY KnownStays DEF Calm
<1>2. \A w \in Workers : step[w] # "free" => seat[w].s \in Sessions
  BY SeatFacts DEF SeatOK
<1>3. ASSUME NEW p \in Proc, pc'[p] \in LeaseLabels
      PROVE  LeasedOn(job[p].s, job[p].sb)'
  <2>1. CASE pc[p] \in LeaseLabels /\ job'[p] = job[p]
    <3>1. PICK s \in Sessions : s = job[p].s
      BY <2>1, LeaseJob
    <3>2. \A sb : sb = job[p].sb => LeasedOn(s, sb)'
      BY <1>1, <2>1, <3>1 DEF LeaseKnown
    <3> QED
      BY <2>1, <3>1, <3>2 DEF LeasedOn
  <2>2. CASE leases[job'[p].s] # None /\ leases[job'[p].s].sb = job'[p].sb /\ job'[p].s \in Sessions
    BY <1>1, <2>2 DEF LeasedOn
  <2> QED
    BY <1>3, <2>1, <2>2 DEF Calm
<1>4. ASSUME NEW q \in Workers, NEW t \in TicketIds, NEW id \in SandboxIds, Awaits(q, t)', Answers(t, id)'
      PROVE  LeasedOn(seat[q].s, id)'
  <2>1. Answers(t, id) /\ Awaits(q, t)
    BY <1>4, AnsweredKnown DEF Calm, AnswersSame
  <2> QED
    BY <1>1, <1>2, <2>1 DEF LeaseKnown, LeasedOn, plugin, Awaits
<1>5. ASSUME NEW q \in Workers, step[q] \in ToolSteps, seat[q].s \notin failed
      PROVE  LeasedOn(seat[q].s, seat[q].sb)'
  BY <1>1, <1>2, <1>5 DEF LeaseKnown, LeasedOn, plugin, ToolSteps
<1>6. ASSUME NEW s \in Sessions, handle[s] # None, s \notin failed, \A q \in Busy(s) : step[q] # "releasing"
      PROVE  LeasedOn(s, handle[s])'
  BY <1>1, <1>6 DEF LeaseKnown, LeasedOn, plugin
<1> QED
  BY <1>3, <1>4, <1>5, <1>6 DEF LeaseKnown, plugin, Busy

-----------------------------------------------------------------------------
(* Leases are made and deleted *)

\* A call waits for a ticket of its own session.
LEMMA AwaitsOwn ==
  ASSUME PInv, RolesOK, NEW w \in Workers, NEW t \in TicketIds, Awaits(w, t)
  PROVE  tickets[t].session = seat[w].s /\ seat[w].s \in Sessions
<1>1. seat[w].s \in Sessions
  BY SeatFacts DEF SeatOK, Awaits
<1>2. CASE step[w] = "polling" /\ seat[w].t = t
  BY <1>1, <1>2 DEF RolesOK, RoleOK
<1>3. CASE step[w] = "asking" /\ pc[w] \in {"enq_push", "enq_publish"} /\ job[w].t = t
  BY <1>1, <1>3, WorkersAreProcs, NamesAssumption DEF RolesOK, RoleOK, KInv, TicketWork
<1> QED
  BY <1>2, <1>3 DEF Awaits

\* A lease is made for the session of the request, or of the ticket.
LEMMA SaveKnown ==
  ASSUME IInv, PInv, SInv, OneCall, RolesOK, LeaseKnown, NEW p \in Proc, Step(p), ClSave(p),
         \/ UNCHANGED plugin /\ Noted
         \/ p \in Workers /\ step[p] = "asking" /\ Use(p, "connect", job[p].sb)
         \/ p \in Workers /\ step[p] = "releasing" /\ ReleaseOk(p)
  PROVE  LeaseKnown'
<1>1. pc[p] = "cl_save" /\ KInv /\ job[p].s \in Sessions /\ job[p].sb \in SandboxIds
  BY DEF ClSave, RolesOK, IInv, HandlersOK, JobInv, SessionLabels, SandboxLabels, Labels
<1>2. Noted
  BY DEF Use, ReleaseOk, Over, Turn
<1>3. PICK s \in Sessions, y \in SandboxIds : s = job[p].s /\ y = job[p].sb
  BY <1>1
<1>4. LeasedOn(s, y)' /\ \A r \in Sessions : \A sb : LeasedOn(r, sb) => LeasedOn(r, sb)'
  <2>1. leases' = [leases EXCEPT ![s] = LeaseOf(job[p])] /\ leases \in [Sessions -> Lease \cup {None}]
    BY <1>3 DEF ClSave, IInv, TypeOK
  <2>2. LeaseOf(job[p]) # None /\ LeaseOf(job[p]).sb = y
    BY <1>1, <1>3, NewLease
  <2>3. leases'[s] = LeaseOf(job[p]) /\ \A r \in Sessions \ {s} : leases'[r] = leases[r]
    BY <2>1
  <2>4. LeasesStay
    BY <2>2, <2>3 DEF LeasesStay
  <2> QED
    BY <1>2, <2>2, <2>3, <2>4, KnownStays DEF LeasedOn
<1>5. /\ Goes(p) /\ UNCHANGED tickets
      /\ \A q \in Proc \ {p} : pc'[q] = pc[q] /\ job'[q] = job[q]
      /\ pc'[p] \notin LeaseLabels \cup {"enq_push", "enq_publish"} /\ (pc'[p] = "ft_ready" => job'[p] = job[p])
  <2>1. pc'[p] \notin {"enq_push", "enq_publish"} /\ UNCHANGED tickets
    BY DEF ClSave, LeaseMade, Reply, Goto, IInv, TypeOK
  <2> QED
    BY <2>1, StepGoes, StepReadies DEF Goes
<1>6. /\ \A q \in Workers :
           \/ step'[q] = step[q] /\ seat'[q] = seat[q]
           \/ step'[q] = "free"
           \/ step[q] = "asking" /\ step'[q] = "connect" /\ seat'[q].s = s /\ seat'[q].sb = y
      /\ \A v \in Workers : step'[v] \in ToolSteps /\ step'[v] = step[v] /\ seat'[v] = seat[v] /\ seat'[v].s \notin failed'
           => seat[v].s \notin failed
      /\ \A r \in Sessions : handle'[r] # None /\ r \notin failed' /\ (\A q \in Busy(r)' : step'[q] # "releasing") =>
           handle'[r] = handle[r] /\ r \notin failed /\ (\A q \in Busy(r) : step[q] # "releasing")
  <2>1. CASE p \in Workers /\ step[p] = "asking" /\ Use(p, "connect", job[p].sb)
    <3> DEFINE v == [seat[p] EXCEPT !.sb = job[p].sb]
    <3>1. v.s = s /\ v.sb = y
      BY <1>3, <2>1, SeatFacts DEF RolesOK, RoleOK, Seat
    <3>2. Turn(p, "connect", v) /\ UNCHANGED <<handle, failed>>
      BY <2>1 DEF Use
    <3> HIDE DEF v
    <3>3. \A q \in Workers :
            \/ step'[q] = step[q] /\ seat'[q] = seat[q]
            \/ q = p /\ step'[q] = "connect" /\ seat'[q].s = s /\ seat'[q].sb = y
      BY <2>1, <3>1, <3>2, TurnSame
    <3>4. \A r \in Sessions : \A q \in Busy(r) : step[q] = "releasing" => q \in Busy(r)' /\ step'[q] = "releasing"
      BY <2>1, <3>3 DEF Busy
    <3> QED
      BY <2>1, <3>2, <3>3, <3>4
  <2>2. CASE p \in Workers /\ step[p] = "releasing" /\ ReleaseOk(p)
    <3>1. seat[p].s \in Sessions /\ Turn(p, "free", NoSeat)
      BY <2>2, SeatFacts DEF ReleaseOk, Over, SeatOK
    <3>2. \A q \in Workers : (step'[q] = step[q] /\ seat'[q] = seat[q]) \/ (q = p /\ step'[q] = "free")
      BY <2>2, <3>1, TurnSame
    <3>3. /\ failed' = failed \ {seat[p].s} /\ handle'[seat[p].s] = None
          /\ \A r \in Sessions \ {seat[p].s} : handle'[r] = handle[r]
      BY <2>2, <3>1 DEF ReleaseOk, PInv, PluginTypeOK
    <3>4. \A q \in Workers : step[q] \in ToolSteps => seat[q].s # seat[p].s
      BY <2>2 DEF OneCall, ToolSteps
    <3>5. \A r \in Sessions \ {seat[p].s} : \A q \in Busy(r) : step[q] = "releasing" =>
            q \in Busy(r)' /\ step'[q] = "releasing"
      BY <3>2 DEF Busy
    <3> QED
      BY <3>2, <3>3, <3>4, <3>5
  <2>3. CASE UNCHANGED plugin
    BY <2>3 DEF plugin, Busy
  <2> QED
    BY <2>1, <2>2, <2>3
<1>7. ASSUME NEW v \in Workers, NEW t \in TicketIds, NEW id \in SandboxIds, Awaits(v, t)', Answers(t, id)'
      PROVE  LeasedOn(seat[v].s, id)'
  <2>1. Awaits(v, t) /\ seat'[v] = seat[v]
    BY <1>5, <1>6, <1>7, WorkersAreProcs DEF Awaits
  <2>2. tickets[t].session = seat[v].s /\ seat[v].s \in Sessions
    BY <2>1, AwaitsOwn
  <2>3. CASE Answers(t, id)
    BY <1>4, <2>1, <2>2, <2>3 DEF LeaseKnown, LeasedOn
  <2>4. CASE ~Answers(t, id)
    <3>1. job[p].t = t /\ id = y
      BY <1>3, <1>5, <1>7, <2>4 DEF Answers
    <3>2. tickets[t].session = s
      BY <1>1, <1>3, <3>1, NamesAssumption DEF KInv, TicketWork, CreateLabels
    <3>3. seat'[v].s = s
      BY <2>1, <2>2, <3>2
    <3> QED
      BY <1>4, <3>1, <3>3 DEF LeasedOn
  <2> QED
    BY <2>3, <2>4
<1>8. ASSUME NEW v \in Workers, step'[v] \in ToolSteps, seat'[v].s \notin failed'
      PROVE  LeasedOn(seat[v].s, seat[v].sb)'
  <2>1. CASE step'[v] = step[v] /\ seat'[v] = seat[v]
    <3>1. seat[v].s \in Sessions
      BY <1>8, <2>1, SeatFacts DEF SeatOK, ToolSteps
    <3> QED
      BY <1>4, <1>6, <1>8, <2>1, <3>1 DEF LeaseKnown, LeasedOn
  <2>2. CASE step'[v] # step[v] \/ seat'[v] # seat[v]
    BY <1>4, <1>6, <1>8, <2>2 DEF LeasedOn, ToolSteps
  <2> QED
    BY <2>1, <2>2
<1>9. ASSUME NEW r \in Sessions, handle'[r] # None, r \notin failed', \A q \in Busy(r)' : step'[q] # "releasing"
      PROVE  LeasedOn(r, handle[r])'
  <2>1. handle'[r] = handle[r] /\ LeasedOn(r, handle[r])
    BY <1>6, <1>9 DEF LeaseKnown
  <2> QED
    BY <1>4, <2>1 DEF LeasedOn
<1>10. ASSUME NEW q \in Proc, pc'[q] \in LeaseLabels
       PROVE  LeasedOn(job[q].s, job[q].sb)'
  <2>1. pc[q] \in LeaseLabels /\ job'[q] = job[q]
    BY <1>5, <1>10
  <2> QED
    BY <1>4, <2>1, LeaseJob DEF LeaseKnown, LeasedOn
<1> QED
  BY <1>7, <1>8, <1>9, <1>10 DEF LeaseKnown

\* A lease is deleted while no call of its session uses it.
LEMMA DeleteKnown ==
  ASSUME IInv, PInv, SInv, OneCall, RolesOK, ReleasesOwn, LeaseKnown, NEW p \in Proc, Step(p), RelDelete(p),
         UNCHANGED plugin, Noted
  PROVE  LeaseKnown'
<1>1. PICK s \in Sessions : s = job[p].s
  BY LeaseJob DEF RelDelete, At, LeaseLabels
<1>2. pc[p] = "rel_delete" /\ p \in Workers /\ job[p].client = s /\ s # None
  BY <1>1, NamesAssumption DEF RelDelete, At, ReleasesOwn, LeaseLabels, Keys
<1>3. step[p] = "releasing" /\ seat[p].s = s
  <2>1. step[p] \in AtBroker
    BY <1>2, SeatFacts DEF SeatOK
  <2>2. step[p] \notin {"asking", "beating"}
    BY <1>2 DEF RolesOK, RoleOK, AskLabels, CreateLabels
  <2> QED
    BY <1>2, <2>1, <2>2, NamesAssumption DEF AtBroker, OneCall
<1>4. \A v \in Workers : v # p /\ step[v] # "free" => seat[v].s # s
  BY <1>2, <1>3 DEF OneCall
<1>5. /\ \A r \in Sessions \ {s} : leases'[r] = leases[r]
      /\ UNCHANGED tickets /\ job' = job
      /\ \A q \in Proc \ {p} : pc'[q] = pc[q]
      /\ pc'[p] = "rel_keys"
  BY <1>1 DEF RelDelete, At, Goto, IInv, TypeOK
<1>6. \A r \in Sessions \ {s} : \A sb : LeasedOn(r, sb) => LeasedOn(r, sb)'
  BY <1>5 DEF LeasedOn, Noted
<1>7. ASSUME NEW q \in Proc, pc'[q] \in LeaseLabels
      PROVE  LeasedOn(job[q].s, job[q].sb)'
  <2>1. q # p /\ pc[q] \in LeaseLabels
    BY <1>5, <1>7 DEF LeaseLabels
  <2>2. job[q].s # s
    BY <1>1, <1>2, <2>1, OneLeaseRequest DEF LeaseLabels
  <2> QED
    BY <1>5, <1>6, <2>1, <2>2, LeaseJob DEF LeaseKnown, LeasedOn
<1>8. ASSUME NEW v \in Workers, NEW t \in TicketIds, NEW id \in SandboxIds, Awaits(v, t)', Answers(t, id)'
      PROVE  LeasedOn(seat[v].s, id)'
  <2>1. Awaits(v, t) /\ Answers(t, id) /\ v # p
    BY <1>3, <1>5, <1>8, WorkersAreProcs DEF Awaits, Answers, plugin
  <2>2. seat[v].s \in Sessions \ {s}
    BY <1>4, <2>1, AwaitsOwn DEF Awaits
  <2> QED
    BY <1>6, <2>1, <2>2 DEF LeaseKnown, LeasedOn, plugin
<1>9. ASSUME NEW v \in Workers, step[v] \in ToolSteps, seat[v].s \notin failed
      PROVE  LeasedOn(seat[v].s, seat[v].sb)'
  <2>1. seat[v].s \in Sessions \ {s}
    BY <1>3, <1>4, <1>9, SeatFacts DEF SeatOK, ToolSteps
  <2> QED
    BY <1>6, <1>9, <2>1 DEF LeaseKnown, LeasedOn, plugin
<1>10. ASSUME NEW r \in Sessions, handle[r] # None, r \notin failed, \A q \in Busy(r) : step[q] # "releasing"
       PROVE  LeasedOn(r, handle[r])'
  <2>1. r # s
    BY <1>2, <1>3, <1>10 DEF Busy
  <2> QED
    BY <1>6, <1>10, <2>1 DEF LeaseKnown, LeasedOn, plugin
<1> QED
  BY <1>7, <1>8, <1>9, <1>10 DEF LeaseKnown, plugin, Busy

-----------------------------------------------------------------------------
(* The steps of the plugin *)

LEMMA CallAgainKnown ==
  ASSUME Overlap = {}, IInv, PInv, KInv, LeaseKnown, NEW w \in Workers, NEW s \in Sessions, CallAgain(w, s)
  PROVE  LeaseKnown'
<1> DEFINE v == [s |-> s, sb |-> handle[s], t |-> None]
<1>1. /\ Busy(s) = {} /\ UNCHANGED <<vars, handle, failed>> /\ step[w] = "free" /\ handle[s] # None
      /\ Turn(w, "reopen", v) /\ v.s = s /\ v.sb = handle[s]
  BY DEF CallAgain, MayCall, Begins
<1> HIDE DEF v
<1>2. Calm /\ UNCHANGED <<pc, job>>
  BY <1>1, BeginCalm DEF vars
<1>3. s \notin failed => LeasedOn(s, handle[s])
  BY <1>1 DEF LeaseKnown
<1>4. step'[w] = "reopen"
  BY <1>1, TurnSame
<1>5. \A t \in TicketIds : ~Awaits(w, t)'
  BY <1>4 DEF Awaits
<1> QED
  BY <1>1, <1>2, <1>3, <1>5, CalmKnown

LEMMA CallFirstKnown ==
  ASSUME IInv, PInv, KInv, LeaseKnown, NEW w \in Workers, NEW s \in Sessions, CallFirst(w, s)
  PROVE  LeaseKnown'
<1>1. /\ ClientCall(w, s) /\ UNCHANGED <<handle, failed>> /\ step[w] = "free"
      /\ pc'[w] \notin {"enq_push", "enq_publish"}
  BY AcquireSteps DEF CallFirst, Begins, ClientCall, Acquire
<1>2. Calm /\ \A q \in Workers \ {w} : pc'[q] = pc[q] /\ job'[q] = job[q]
  BY <1>1, BeginCalm, BeginAnswers
<1>3. CASE leases[s] = None
  <2>1. Turn(w, "asking", [NoSeat EXCEPT !.s = s])
    BY <1>3 DEF CallFirst
  <2>2. \A t \in TicketIds : ~Awaits(w, t)'
    BY <1>1, <2>1, TurnSame DEF Awaits
  <2> QED
    BY <1>1, <1>2, <2>1, <2>2, CalmKnown DEF ToolSteps
<1>4. CASE leases[s] # None
  <2> DEFINE v == [NoSeat EXCEPT !.s = s, !.sb = leases[s].sb]
  <2>1. Turn(w, "connect", v) /\ v.s = s /\ v.sb = leases[s].sb
    BY <1>4 DEF CallFirst, NoSeat
  <2> HIDE DEF v
  <2>2. \A t \in TicketIds : ~Awaits(w, t)'
    BY <1>1, <2>1, TurnSame DEF Awaits
  <2>3. LeasedOn(v.s, v.sb)
    BY <1>4, <2>1 DEF LeasedOn
  <2> QED
    BY <1>1, <1>2, <2>1, <2>2, <2>3, CalmKnown
<1> QED
  BY <1>3, <1>4

LEMMA EventKnown ==
  ASSUME IInv, PInv, KInv, LeaseKnown, NEW w \in Workers, NEW s \in Sessions, NEW reason \in Reasons,
         Event(w, s, reason)
  PROVE  LeaseKnown'
<1>1. ClientCall(w, s) /\ step[w] = "free" /\ pc[w] = "idle" /\ Busy(s) = {}
  BY DEF Event, Begins, ClientCall
<1>2. /\ Calm /\ \A q \in Workers \ {w} : pc'[q] = pc[q] /\ job'[q] = job[q]
      /\ pc'[w] \notin {"enq_push", "enq_publish"}
  BY <1>1, BeginCalm, BeginAnswers
<1>3. CASE leases[s] = None
  <2>1. /\ step' = step /\ seat' = seat /\ handle' = [handle EXCEPT ![s] = None] /\ failed' = failed \ {s}
        /\ UNCHANGED <<leases, regranted>>
    BY <1>3 DEF Event, Release, BeginRelease, vars, store
  <2>2. Turn(w, step[w], seat[w])
    BY <2>1 DEF Turn, Noted, Replaced, PInv, PluginTypeOK
  <2>3. \A r \in Sessions : handle'[r] = handle[r] \/ handle'[r] = None
    BY <2>1 DEF PInv, PluginTypeOK
  <2>4. handle'[s] = None /\ \A q \in Workers : step[q] \in ToolSteps => seat[q].s # s
    BY <1>1, <2>1 DEF Busy, ToolSteps, PInv, PluginTypeOK
  <2>5. \A t \in TicketIds : ~Awaits(w, t)'
    BY <1>1, <2>1 DEF Awaits
  <2> QED
    BY <1>1, <1>2, <2>1, <2>2, <2>3, <2>4, <2>5, CalmKnown DEF ToolSteps
<1>4. CASE leases[s] # None
  <2>1. Turn(w, "releasing", [NoSeat EXCEPT !.s = s]) /\ UNCHANGED <<handle, failed>>
    BY <1>4 DEF Event
  <2>2. \A t \in TicketIds : ~Awaits(w, t)'
    BY <2>1, TurnSame DEF Awaits
  <2> QED
    BY <1>1, <1>2, <2>1, <2>2, CalmKnown DEF ToolSteps
<1> QED
  BY <1>3, <1>4

LEMMA ToolKnown ==
  ASSUME IInv, PInv, KInv, LeaseKnown, NEW w \in Workers, Tool(w)
  PROVE  LeaseKnown'
<1>1. step[w] \in ToolSteps /\ seat[w].s \notin failed => seat[w].s \in Sessions /\ LeasedOn(seat[w].s, seat[w].sb)
  BY SeatFacts DEF LeaseKnown, SeatOK, ToolSteps
<1>2. CASE PollReady(w)
  <2> DEFINE v == [seat[w] EXCEPT !.sb = tickets[seat[w].t].sb]
             t == seat[w].t
  <2>1. /\ UNCHANGED <<vars, handle, failed>> /\ Turn(w, "connect", v) /\ step[w] = "polling"
        /\ v.s = seat[w].s /\ v.sb = tickets[t].sb
    BY <1>2, SeatFacts DEF PollReady, Use, Seat
  <2>2. /\ t \in TicketIds /\ tickets[t] # None /\ tickets[t].status = "ready" /\ tickets[t].sb \in SandboxIds
        /\ seat[w].s \in Sessions
    BY <1>2, SeatFacts DEF PollReady, IsReady, SeatOK, PInv, ReadyOK
  <2> HIDE DEF v
  <2>3. LeasedOn(v.s, v.sb)
    BY <2>1, <2>2 DEF LeaseKnown, Awaits, Answers
  <2>4. Calm /\ UNCHANGED <<pc, job>>
    BY <2>1, BeginCalm DEF vars
  <2>5. \A u \in TicketIds : ~Awaits(w, u)'
    BY <2>1, TurnSame DEF Awaits
  <2> QED
    BY <2>1, <2>2, <2>3, <2>4, <2>5, CalmKnown
<1>3. CASE PollTimeout(w)
  <2>1. UNCHANGED <<vars, handle, failed>> /\ Turn(w, "free", NoSeat) /\ step[w] = "polling"
    BY <1>3 DEF PollTimeout, GivesUp, Over
  <2>2. Calm /\ UNCHANGED <<pc, job>>
    BY <2>1, BeginCalm DEF vars
  <2>3. \A u \in TicketIds : ~Awaits(w, u)'
    BY <2>1, TurnSame DEF Awaits
  <2> QED
    BY <2>1, <2>2, <2>3, CalmKnown DEF ToolSteps
<1>4. CASE Beat(w)
  <2>1. /\ seat[w].s \in Sessions /\ ClientCall(w, seat[w].s) /\ step[w] = "beat" /\ UNCHANGED <<handle, failed>>
    BY <1>4, SeatFacts DEF Beat, SeatOK, ClientCall, Go
  <2>2. PICK st \in {"run", "beating"} : Turn(w, st, seat[w])
    BY <1>4 DEF Beat, Go
  <2>3. Calm /\ \A q \in Workers \ {w} : pc'[q] = pc[q] /\ job'[q] = job[q]
    BY <2>1, BeginCalm, BeginAnswers
  <2>4. \A u \in TicketIds : ~Awaits(w, u)'
    BY <2>2, TurnSame DEF Awaits
  <2> QED
    BY <1>1, <2>1, <2>2, <2>3, <2>4, CalmKnown DEF ToolSteps
<1>5. CASE Reopen(w) \/ Connect(w) \/ Prepare(w) \/ Run(w)
  <2>1. RuntimeCall(w) /\ step[w] \in ToolSteps /\ UNCHANGED failed
    BY <1>5 DEF Reopen, Connect, Prepare, Run, Calls, RuntimeCall, ToolSteps, Go, Keep, Ends, GivesUp
  <2>2. PICK st, v : /\ st \in ToolSteps \cup {"free"} /\ Turn(w, st, v)
                     /\ st # "free" => v = seat[w]
    BY <1>5 DEF Reopen, Connect, Prepare, Run, Calls, Go, Keep, Ends, GivesUp, Over, ToolSteps
  <2>3. \A s \in Sessions : handle'[s] = handle[s] \/ (s = seat[w].s /\ handle'[s] = seat[w].sb)
    BY <1>5 DEF Reopen, Connect, Prepare, Run, Calls, Go, Keep, Ends, GivesUp, Over, PInv, PluginTypeOK
  <2>4. Calm /\ UNCHANGED <<pc, job>>
    BY <2>1, BeginCalm DEF RuntimeCall
  <2>5. \A u \in TicketIds : ~Awaits(w, u)'
    BY <2>2, TurnSame DEF Awaits, ToolSteps
  <2>6. step[w] # "releasing" /\ (st \in ToolSteps => v = seat[w])
    BY <2>1, <2>2 DEF ToolSteps
  <2> QED
    BY <1>1, <2>1, <2>2, <2>3, <2>4, <2>5, <2>6, CalmKnown
<1> QED
  BY <1>2, <1>3, <1>4, <1>5 DEF Tool

LEMMA ServeKnown ==
  ASSUME IInv, PInv, SInv, OneCall, RolesOK, ReleasesOwn, LeaseKnown, NEW w \in Workers, Serve(w)
  PROVE  LeaseKnown'
<1>1. w \in Proc /\ Step(w) /\ KInv
  BY WorkersAreProcs DEF Serve, RolesOK
<1>2. \A q \in Workers \ {w} : pc'[q] = pc[q] /\ job'[q] = job[q]
  BY <1>1, StepGoes, WorkersAreProcs DEF Goes
<1>3. pc[w] # "idle" /\ step[w] \in AtBroker
  BY <1>1, StepOwn, SeatFacts DEF Own, SeatOK
<1>4. CASE pc'[w] # "idle"
  <2>1. UNCHANGED plugin /\ Noted
    BY <1>4 DEF Serve
  <2>2. \A t \in TicketIds : Awaits(w, t)' => Awaits(w, t) \/ tickets[t] = None
    BY <1>1, <2>1, StepPushesNew DEF Awaits, plugin
  <2>3. \A v \in Workers, t \in TicketIds : Awaits(v, t)' => Awaits(v, t) \/ tickets[t] = None
    BY <1>2, <2>1, <2>2 DEF Awaits, plugin
  <2>4. CASE ClSave(w)
    BY <1>1, <2>1, <2>4, SaveKnown
  <2>5. CASE RelDelete(w)
    BY <1>1, <2>1, <2>5, DeleteKnown
  <2>6. CASE ~ClSave(w) /\ ~RelDelete(w)
    BY <1>1, <2>1, <2>3, <2>6, StepCalm, CalmStays
  <2> QED
    BY <2>4, <2>5, <2>6
<1>5. CASE pc'[w] = "idle"
  <2>1. Answered(w) /\ ~RelDelete(w)
    BY <1>1, <1>5 DEF Serve, RelDelete, At, Goto, IInv, TypeOK
  <2>2. ClSave(w) => \/ step[w] = "asking" /\ Use(w, "connect", job[w].sb)
                     \/ step[w] = "releasing" /\ ReleaseOk(w)
    <3>1. ClSave(w) => pc[w] = "cl_save"
      BY DEF ClSave
    <3>2. ClSave(w) => step[w] # "beating"
      BY <3>1, <1>1 DEF RolesOK, RoleOK
    <3> QED
      BY <1>3, <2>1, <3>1, <3>2 DEF Answered, AtBroker
  <2>3. CASE ClSave(w)
    BY <1>1, <2>2, <2>3, SaveKnown
  <2>4. CASE ~ClSave(w)
    <3>1. Calm
      BY <1>1, <2>1, <2>4, StepCalm
    <3>2. CASE step[w] = "beating" /\ Go(w, "run")
      <4>1. Turn(w, "run", seat[w]) /\ UNCHANGED <<handle, failed>>
        BY <3>2 DEF Go
      <4>2. seat[w].s \notin failed => seat[w].s \in Sessions /\ LeasedOn(seat[w].s, seat[w].sb)
        BY <3>2, SeatFacts DEF LeaseKnown, SeatOK, ToolSteps
      <4>3. \A u \in TicketIds : ~Awaits(w, u)'
        BY <4>1, TurnSame DEF Awaits
      <4> QED
        BY <1>1, <1>2, <3>1, <3>2, <4>1, <4>2, <4>3, CalmKnown
    <3>3. CASE step[w] = "asking" /\ pc[w] = "enq_publish" /\ Turn(w, "polling", [seat[w] EXCEPT !.t = job[w].t])
               /\ UNCHANGED <<handle, begun, failed, abandoned>>
      <4> DEFINE v == [seat[w] EXCEPT !.t = job[w].t]
      <4>1. Turn(w, "polling", v) /\ v.s = seat[w].s /\ v.t = job[w].t
        BY <3>3, SeatFacts DEF Seat
      <4> HIDE DEF v
      <4>2. \A u \in TicketIds : Awaits(w, u)' => Awaits(w, u) /\ v.s = seat[w].s
        BY <3>3, <4>1, TurnSame DEF Awaits
      <4> QED
        BY <1>1, <1>2, <3>1, <3>3, <4>1, <4>2, CalmKnown DEF ToolSteps
    <3>4. CASE step[w] = "asking" /\ GivesUp(w)
      <4>1. Turn(w, "free", NoSeat) /\ UNCHANGED <<handle, failed>>
        BY <3>4 DEF GivesUp, Over
      <4>2. \A u \in TicketIds : ~Awaits(w, u)'
        BY <4>1, TurnSame DEF Awaits
      <4> QED
        BY <1>1, <1>2, <3>1, <3>4, <4>1, <4>2, CalmKnown DEF ToolSteps
    <3>5. CASE step[w] = "releasing" /\ (ReleaseError(w) \/ ReleaseOk(w))
      <4>1. seat[w].s \in Sessions /\ Turn(w, "free", NoSeat)
        BY <3>5, SeatFacts DEF ReleaseOk, ReleaseError, Over, SeatOK
      <4>2. /\ \A s \in Sessions : handle'[s] = handle[s] \/ handle'[s] = None
            /\ handle'[seat[w].s] = None \/ seat[w].s \in failed'
            /\ \A s \in failed \ failed' : s = seat[w].s /\ handle'[s] = None
        BY <3>5, <4>1, SeatFacts DEF ReleaseOk, ReleaseError, PluginVarsOK
      <4>3. \A u \in TicketIds : ~Awaits(w, u)'
        BY <4>1, TurnSame DEF Awaits
      <4>4. \A q \in Workers \ {w} : step[q] \in ToolSteps => seat[q].s # seat[w].s
        BY <3>5 DEF OneCall, ToolSteps
      <4> QED
        BY <1>1, <1>2, <3>1, <4>1, <4>2, <4>3, <4>4, CalmKnown DEF ToolSteps
    <3>6. CASE step[w] = "asking" /\ pc[w] = "cl_save"
      BY <1>1, <2>4, <3>6, StepSaves
    <3> QED
      BY <1>1, <2>1, <3>2, <3>3, <3>4, <3>5, <3>6, AnsweredIs
  <2> QED
    BY <2>3, <2>4
<1> QED
  BY <1>4, <1>5

LEMMA BackgroundKeepsLeases ==
  ASSUME OwnLeases, IInv, PInv, SInv, OneCall, RolesOK, ReleasesOwn, LeaseKnown,
         Background, UNCHANGED plugin, Noted
  PROVE  LeaseKnown'
<1>1. KInv /\ Sweepers = {} /\ Consumer \in Proc \ Workers
  BY NamesAssumption DEF RolesOK, OwnLeases, Proc
<1>2. \A v \in Workers, t \in TicketIds : Awaits(v, t)' => Awaits(v, t)
  BY BackgroundOthers DEF plugin, Awaits
<1>3. CASE Step(Consumer)
  <2>1. ~RelDelete(Consumer)
    BY <1>1 DEF RelDelete, At, ReleasesOwn, LeaseLabels
  <2> QED
    BY <1>1, <1>2, <1>3, <2>1, SaveKnown, StepCalm, CalmStays
<1>4. CASE Consume
  <2>1. /\ UNCHANGED store /\ pc'[Consumer] = "ft_claim"
        /\ \A q \in Proc \ {Consumer} : pc'[q] = pc[q] /\ job'[q] = job[q]
    BY <1>1, <1>4 DEF Consume, At, Goto, Set, IInv, TypeOK
  <2>2. Calm
    BY <2>1, SameAnswers DEF store, Calm, LeasesStay, LeaseLabels
  <2> QED
    BY <1>1, <1>2, <2>2, CalmStays
<1>5. ASSUME NEW s \in Sessions, Expire(s)
      PROVE  LeaseKnown'
  <2>1. UNCHANGED <<tickets, pc, job>>
    BY <1>5 DEF Expire
  <2>2. LeasesStay
    <3>1. leases[s] \in Lease /\ leases' = [leases EXCEPT ![s] = [leases[s] EXCEPT !.fresh = FALSE]]
      BY <1>5 DEF Expire, IInv, TypeOK
    <3>2. [leases[s] EXCEPT !.fresh = FALSE] \in Lease /\ [leases[s] EXCEPT !.fresh = FALSE].sb = leases[s].sb
      BY <3>1 DEF Lease
    <3> QED
      BY <3>1, <3>2, RecordsAssumption DEF LeasesStay, IInv, TypeOK
  <2>3. Calm
    BY <2>1, <2>2, SameAnswers DEF Calm
  <2> QED
    BY <1>1, <1>2, <2>3, CalmStays
<1> QED
  BY <1>1, <1>3, <1>4, <1>5 DEF Background

\* Requests in flight fail; what the plugin has from earlier answers stays.
LEMMA BrokerDiesKnown ==
  ASSUME IInv, PInv, LeaseKnown, BrokerDies
  PROVE  LeaseKnown'
<1>1. UNCHANGED <<leases, tickets, handle, regranted>> /\ \A p \in Proc : pc'[p] = "idle"
  BY DEF BrokerDies, Crash, store
<1>2. \A w \in Workers : step'[w] # "free" => step'[w] = step[w] /\ seat'[w] = seat[w]
  BY DEF BrokerDies
<1>3. /\ failed \subseteq failed'
      /\ \A w \in Workers : step[w] = "releasing" =>
           (step'[w] = step[w] /\ seat'[w] = seat[w]) \/ seat[w].s \in failed'
  BY DEF BrokerDies
<1>4. \A w \in Workers, t \in TicketIds : Awaits(w, t)' => Awaits(w, t) /\ seat'[w] = seat[w]
  BY <1>1, <1>2, WorkersAreProcs DEF Awaits
<1>5. AnswersSame
  BY <1>1, SameAnswers
<1>6. ASSUME NEW s \in Sessions, handle[s] # None, s \notin failed', \A q \in Busy(s)' : step'[q] # "releasing"
      PROVE  \A q \in Busy(s) : step[q] # "releasing"
  BY <1>3, <1>6 DEF Busy
<1> QED
  BY <1>1, <1>2, <1>3, <1>4, <1>5, <1>6 DEF LeaseKnown, LeasedOn, AnswersSame, LeaseLabels, ToolSteps

LEMMA PluginNextKnown ==
  ASSUME OwnLeases, Overlap = {}, IInv, PInv, SInv, OneCall, RolesOK, ReleasesOwn, LeaseKnown,
         [PluginNext]_allVars
  PROVE  LeaseKnown'
<1>1. CASE Background /\ UNCHANGED plugin /\ Noted
  BY <1>1, BackgroundKeepsLeases
<1>2. CASE UNCHANGED allVars
  BY <1>2 DEF allVars, vars, store, plugin, LeaseKnown, LeasedOn, Awaits, Answers, Busy
<1> QED
  BY <1>1, <1>2, CallAgainKnown, CallFirstKnown, EventKnown, ToolKnown, ServeKnown, BrokerDiesKnown
  DEF PluginNext, Background, RolesOK

LEMMA PluginReleasesOwn ==
  ASSUME OwnLeases, Overlap = {}
  PROVE  PluginSpec => []ReleasesOwn
<1>1. PluginInit => ReleasesOwn
  BY DEF PluginInit, Init, ReleasesOwn, LeaseLabels, ReleaseLabels
<1>2. IInv /\ PInv /\ SInv /\ ReleasesOwn /\ [PluginNext]_allVars => ReleasesOwn'
  BY NextReleasesOwn
<1> QED
  BY <1>1, <1>2, PluginOne, PluginInvariance, PTL DEF PluginSpec

LEMMA PluginKnown ==
  ASSUME OwnLeases, Overlap = {}
  PROVE  PluginSpec => []LeaseKnown
<1>1. PluginInit => LeaseKnown
  BY NamesAssumption DEF PluginInit, Init, LeaseKnown, Awaits, LeaseLabels, ToolSteps
<1>2. IInv /\ PInv /\ SInv /\ OneCall /\ RolesOK /\ ReleasesOwn /\ LeaseKnown /\ [PluginNext]_allVars => LeaseKnown'
  BY PluginNextKnown
<1> QED
  BY <1>1, <1>2, PluginOne, PluginInvariance, PluginRoles, PluginReleasesOwn, PTL DEF PluginSpec

\* A tool call works while its session has a lease, in the sandbox of that lease
\* unless it was replaced: the answer of acquire, the ticket, the plugin's map and
\* Redis, each read at its own time, disagree only after two handlers served the
\* session's tickets at once, at a broker with any number of slots.
THEOREM ToolsUnderLease ==
  ASSUME OwnLeases, Overlap = {}
  PROVE  PluginSpec => []ToolUnderLease
<1>1. LeaseKnown => ToolUnderLease
  BY DEF LeaseKnown, LeasedOn, ToolUnderLease
<1> QED
  BY <1>1, PluginKnown, PTL

\* Under the same conditions a session in the plugin's map has a lease on the
\* sandbox of its handle, until its release is sent (sessions.set and delete).
THEOREM MapStaysLeased ==
  ASSUME OwnLeases, Overlap = {}
  PROVE  PluginSpec => []MapIsLeased
<1>1. LeaseKnown => MapIsLeased
  BY DEF LeaseKnown, LeasedOn, MapIsLeased
<1> QED
  BY <1>1, PluginKnown, PTL

=============================================================================
