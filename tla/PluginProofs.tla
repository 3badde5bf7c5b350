---------------------------- MODULE PluginProofs ----------------------------
(***************************************************************************)
(* Proofs about the plugin on top of the broker: every tool call has the   *)
(* session, sandbox and ticket its next step uses; and a plugin whose      *)
(* sessions do one thing at a time sends the serial requests under which   *)
(* slots cover leases.                                                     *)
(***************************************************************************)
EXTENDS PluginInv, BrokerSlots

-----------------------------------------------------------------------------
(* What a step of the broker does to tickets *)

\* What a ticket record may become.
TicketGrows(t) ==
  \/ tickets'[t] = tickets[t]
  \/ /\ tickets'[t] \in Ticket
     /\ tickets'[t].status = "ready" => tickets'[t].sb \in SandboxIds

LEMMA WriteGrows ==
  ASSUME IInv, NEW p \in Proc, pc[p] \in TicketLabels \cap SessionLabels, NEW status, NEW sb, WriteTicket(p, status, sb),
         (status = "queued" /\ sb = None) \/ (status = "ready" /\ sb \in SandboxIds)
  PROVE  \A t \in TicketIds : TicketGrows(t)
<1>1. job[p].t \in TicketIds /\ job[p].s \in Sessions /\ job[p].mode \in Modes
  BY DEF IInv, HandlersOK, JobInv
<1> QED
  BY <1>1 DEF WriteTicket, TicketGrows, Ticket, IInv, TypeOK

LEMMA StepGrows ==
  ASSUME IInv, NEW p \in Proc, Step(p)
  PROVE  \A t \in TicketIds : TicketGrows(t)
<1>1. CASE EnqSet(p)
  <2>1. NewTicket(job[p]) \in Ticket /\ NewTicket(job[p]).status = "queued"
    BY <1>1 DEF EnqSet, At, NewTicket, Ticket, IInv, HandlersOK, JobInv, SessionLabels, Labels
  <2>2. PICK u \in TicketIds : tickets' = [tickets EXCEPT ![u] = NewTicket(job[p])]
    BY <1>1 DEF EnqSet, AnyOf
  <2> QED
    BY <2>1, <2>2 DEF TicketGrows, IInv, TypeOK
<1>2. CASE FtClaim(p)
  <2>1. job[p].t \in TicketIds
    BY <1>2 DEF FtClaim, IInv, HandlersOK, JobInv, TicketLabels
  <2> DEFINE r == [tickets[job[p].t] EXCEPT !.status = "claiming"]
  <2>2. ASSUME Claimable(job[p].t) PROVE r \in Ticket /\ r.status = "claiming"
    <3>1. tickets[job[p].t] \in Ticket
      BY <2>1, <2>2 DEF Claimable, IInv, TypeOK
    <3> QED
      BY <3>1 DEF Ticket
  <2>3. (Claimable(job[p].t) /\ tickets' = [tickets EXCEPT ![job[p].t] = r]) \/ UNCHANGED tickets
    BY <1>2 DEF FtClaim
  <2> HIDE DEF r
  <2> QED
    BY <2>1, <2>2, <2>3 DEF TicketGrows, IInv, TypeOK
<1>3. CASE FtReset(p) \/ FtRequeue(p) \/ FtFail(p)
  <2>1. pc[p] \in TicketLabels \cap SessionLabels /\ WriteTicket(p, "queued", None)
    BY <1>3 DEF FtReset, FtRequeue, FtFail, At, TicketLabels, SessionLabels, Labels
  <2> QED
    BY <2>1, WriteGrows
<1>4. CASE FtReady(p)
  <2>1. pc[p] \in TicketLabels \cap SessionLabels /\ WriteTicket(p, "ready", job[p].sb)
    BY <1>4 DEF FtReady, TicketLabels, SessionLabels, Labels
  <2>2. job[p].sb \in SandboxIds
    BY <1>4 DEF FtReady, IInv, HandlersOK, JobInv, SandboxLabels
  <2> QED
    BY <2>1, <2>2, WriteGrows
<1>5. CASE ~(EnqSet(p) \/ FtClaim(p) \/ FtReset(p) \/ FtRequeue(p) \/ FtFail(p) \/ FtReady(p))
  <2>1. UNCHANGED tickets
    BY <1>5 DEF Step, AcqAttach, AcqSlot, AcqUndo, EnqPush, EnqPublish, ClLookup, ClStart, ClForget, ClForgetOwner,
       ClCreate, ClBind, ClWorkDir, ClUserDir, ClSave, MakeDir, RelDelete, RelKeys, RelMget, RelStop, RelKeep, RelKill,
       Dispose, RelUnbind, RelOwner, RelUnbindOwner, RelClear, RelSlot, PqPop, PqMore, FtSlot, FtPush, FtUndo,
       HbSave, SwMget, SwNext, store
  <2> QED
    BY <2>1 DEF TicketGrows
<1> QED
  BY <1>1, <1>2, <1>3, <1>4, <1>5

LEMMA GrowsKeeps ==
  ASSUME PInv, IInv, \A t \in TicketIds : TicketGrows(t)
  PROVE  ReadyOK' /\ \A t \in TicketIds : tickets[t] # None => tickets'[t] # None
BY RecordsAssumption DEF TicketGrows, PInv, ReadyOK

\* A handler that comes to the push of a ticket has written it.
LEMMA StepPushes ==
  ASSUME IInv, NEW p \in Proc, Step(p), pc'[p] \in {"enq_push", "enq_publish"}
  PROVE  tickets'[job'[p].t] # None \/ (pc[p] = "enq_push" /\ job'[p] = job[p])
<1>1. CASE EnqSet(p)
  <2>1. NewTicket(job[p]) \in Ticket
    BY <1>1 DEF EnqSet, At, NewTicket, Ticket, IInv, HandlersOK, JobInv, SessionLabels, Labels
  <2>2. PICK u \in TicketIds : tickets' = [tickets EXCEPT ![u] = NewTicket(job[p])] /\ Set(p, [job[p] EXCEPT !.t = u])
    BY <1>1 DEF EnqSet, AnyOf
  <2>3. job'[p].t = u
    BY <2>2 DEF Set, IInv, TypeOK, Job
  <2> QED
    BY <2>1, <2>2, <2>3, RecordsAssumption DEF IInv, TypeOK
<1>2. CASE EnqPush(p)
  BY <1>2 DEF EnqPush, At
<1>3. CASE ~(EnqSet(p) \/ EnqPush(p))
  BY <1>3 DEF Step, AcqAttach, AcqSlot, AcqUndo, EnqPublish, ClLookup, ClStart, ClForget, ClForgetOwner,
     ClCreate, ClBind, ClWorkDir, ClUserDir, ClSave, MakeDir, RelDelete, RelKeys, RelMget, RelStop, RelKeep, RelKill,
     Dispose, RelUnbind, RelOwner, RelUnbindOwner, RelClear, RelSlot, PqPop, PqMore, FtClaim, FtSlot, FtReset, FtRequeue,
     FtPush, FtReady, FtUndo, FtFail, HbSave, SwMget, SwNext, At, Goto, Reply, LeaseFailed, LeaseMade, Released,
     Fulfilled, FulfilThrows, Disposal, AfterUnbind, BeginRelease, IInv, TypeOK
<1> QED
  BY <1>1, <1>2, <1>3

-----------------------------------------------------------------------------
(* Calls have what their next step needs *)

RuntimeCall(w) ==
  /\ UNCHANGED <<store, log, owner, pc, job, issued>>
  /\ Provider(seat[w].sb, "started") \/ ProviderFails(seat[w].sb, "started")

\* What the plugin sees of a step of the broker.
BrokerStep(w) ==
  \/ UNCHANGED vars
  \/ RuntimeCall(w)
  \/ \E s \in Sessions : ClientCall(w, s)
  \/ Step(w)

LEMMA RuntimeCallKeeps ==
  ASSUME IInv, NEW w, RuntimeCall(w)
  PROVE  IInv'
<1>1. sandbox' \in [SandboxIds -> {"absent", "started", "stopped", "deleted"}] /\ faults' \in Nat
  BY DEF RuntimeCall, Provider, ProviderFails, Fault, IInv, TypeOK
<1> QED
  BY <1>1 DEF RuntimeCall, store, log, IInv, TypeOK, HandlersOK, ConsumerOK, SlotBound

LEMMA BrokerStepKeeps ==
  ASSUME IInv, NEW w \in Workers, BrokerStep(w)
  PROVE  IInv'
<1>1. w \in Proc
  BY DEF Proc
<1>2. CASE UNCHANGED vars
  BY <1>2, NextIInv
<1> QED
  BY <1>1, <1>2, RuntimeCallKeeps, ClientCallKeeps, StepKeeps DEF BrokerStep

LEMMA BrokerStepGrows ==
  ASSUME IInv, NEW w \in Workers, BrokerStep(w)
  PROVE  \A t \in TicketIds : TicketGrows(t)
<1>1. CASE Step(w)
  BY <1>1, StepGrows DEF Proc
<1>2. CASE UNCHANGED tickets
  BY <1>2 DEF TicketGrows
<1> QED
  BY <1>1, <1>2 DEF BrokerStep, RuntimeCall, vars, store, ClientCall, Acquire, Release, Heartbeat

LEMMA BrokerStepOwn ==
  ASSUME IInv, NEW w \in Workers, BrokerStep(w)
  PROVE  \A q \in Proc \ {w} : pc'[q] = pc[q] /\ job'[q] = job[q]
<1>1. w \in Proc
  BY DEF Proc
<1>2. CASE Step(w)
  BY <1>1, <1>2, StepOwn DEF Own
<1>3. ASSUME NEW s \in Sessions, ClientCall(w, s)
      PROVE  \A q \in Proc \ {w} : pc'[q] = pc[q] /\ job'[q] = job[q]
  BY <1>1, <1>3 DEF ClientCall, Acquire, Release, Heartbeat, BeginRelease, Goto, Set, IInv, TypeOK
<1> QED
  BY <1>2, <1>3 DEF BrokerStep, RuntimeCall, vars

\* The types of the plugin's own variables.
PluginVarsOK ==
  /\ handle \in [Sessions -> SandboxIds \cup {None}]
  /\ step \in [Workers -> Steps] /\ seat \in [Workers -> Seat]
  /\ begun \in 0..MaxCalls /\ failed \subseteq Sessions /\ abandoned \subseteq Sessions
  /\ regranted \subseteq Sessions

LEMMA NotedTyped ==
  ASSUME PInv, Noted
  PROVE  regranted' \subseteq Sessions
BY DEF PInv, PluginTypeOK, Noted, Replaced, Leased

\* A worker's turn: everything else in the plugin and its handlers stays.
LEMMA SeatKeeps ==
  ASSUME IInv, IInv', PInv, PluginVarsOK', \A t \in TicketIds : TicketGrows(t),
         \A q \in Workers :
           \/ pc'[q] = pc[q] /\ job'[q] = job[q] /\ step'[q] = step[q] /\ seat'[q] = seat[q]
           \/ SeatOK(q)'
  PROVE  PInv'
<1>1. ReadyOK' /\ \A t \in TicketIds : tickets[t] # None => tickets'[t] # None
  BY GrowsKeeps
<1>2. ASSUME NEW q \in Workers,
             pc'[q] = pc[q] /\ job'[q] = job[q] /\ step'[q] = step[q] /\ seat'[q] = seat[q]
      PROVE  SeatOK(q)'
  <2>1. SeatOK(q)
    BY DEF PInv, SeatsOK
  <2>2. pc[q] \in {"enq_push", "enq_publish"} => job[q].t \in TicketIds
    BY DEF IInv, HandlersOK, JobInv, TicketLabels, Proc
  <2> QED
    BY <1>1, <1>2, <2>1, <2>2 DEF SeatOK
<1>3. SeatsOK'
  BY <1>2 DEF SeatsOK
<1> QED
  BY <1>1, <1>3 DEF PInv, PluginTypeOK, PluginVarsOK, IInv

LEMMA TurnKeeps ==
  ASSUME IInv, PInv, NEW w \in Workers, BrokerStep(w), NEW st \in Steps, NEW v \in Seat, Turn(w, st, v),
         /\ handle' \in [Sessions -> SandboxIds \cup {None}]
         /\ begun' \in 0..MaxCalls /\ failed' \subseteq Sessions /\ abandoned' \subseteq Sessions,
         pc'[w] # "idle" => st \in AtBroker,
         st # "free" => v.s \in Sessions,
         st \in ToolSteps => v.sb \in SandboxIds,
         st = "polling" => v.t \in TicketIds /\ tickets[v.t] # None,
         pc'[w] \notin {"enq_push", "enq_publish"}
  PROVE  PInv' /\ IInv'
<1>1. IInv' /\ \A t \in TicketIds : TicketGrows(t)
  BY BrokerStepKeeps, BrokerStepGrows
<1>2. \A q \in Workers \ {w} : pc'[q] = pc[q] /\ job'[q] = job[q]
  BY BrokerStepOwn DEF Proc
<1>3. /\ step' \in [Workers -> Steps] /\ seat' \in [Workers -> Seat]
      /\ step'[w] = st /\ seat'[w] = v
      /\ \A q \in Workers \ {w} : step'[q] = step[q] /\ seat'[q] = seat[q]
  BY DEF Turn, PInv, PluginTypeOK
<1>4. PluginVarsOK'
  BY <1>3, NotedTyped DEF PluginVarsOK, Turn
<1>5. SeatOK(w)'
  BY <1>1, <1>3, GrowsKeeps DEF SeatOK
<1> QED
  BY <1>1, <1>2, <1>3, <1>4, <1>5, SeatKeeps

LEMMA SeatFacts ==
  ASSUME PInv, NEW w \in Workers
  PROVE  SeatOK(w) /\ PluginVarsOK /\ seat[w] \in Seat /\ NoSeat \in Seat
BY NamesAssumption DEF PInv, SeatsOK, PluginTypeOK, PluginVarsOK, NoSeat, Seat

LEMMA OverKeeps ==
  ASSUME IInv, PInv, NEW w \in Workers, BrokerStep(w), Over(w), pc'[w] = "idle",
         /\ handle' \in [Sessions -> SandboxIds \cup {None}]
         /\ failed' \subseteq Sessions /\ abandoned' \subseteq Sessions
  PROVE  PInv' /\ IInv'
BY SeatFacts, TurnKeeps DEF Over, PluginVarsOK, Steps, ToolSteps

LEMMA EndsKeeps ==
  ASSUME IInv, PInv, NEW w \in Workers, BrokerStep(w), pc'[w] = "idle", step[w] # "free", Ends(w) \/ GivesUp(w)
  PROVE  PInv' /\ IInv'
BY SeatFacts, OverKeeps DEF Ends, GivesUp, PluginVarsOK, SeatOK

LEMMA GoKeeps ==
  ASSUME IInv, PInv, NEW w \in Workers, BrokerStep(w), step[w] # "free", NEW st \in Steps \ {"polling"}, Go(w, st),
         pc'[w] # "idle" => st \in AtBroker, pc'[w] \notin {"enq_push", "enq_publish"},
         st \in ToolSteps => step[w] \in ToolSteps
  PROVE  PInv' /\ IInv'
BY SeatFacts, TurnKeeps DEF Go, PluginVarsOK, SeatOK

LEMMA UseKeeps ==
  ASSUME IInv, PInv, NEW w \in Workers, BrokerStep(w), step[w] # "free", pc'[w] = "idle",
         NEW sb \in SandboxIds, Use(w, "connect", sb)
  PROVE  PInv' /\ IInv'
<1>1. /\ [seat[w] EXCEPT !.sb = sb] \in Seat /\ seat[w].s \in Sessions
      /\ [seat[w] EXCEPT !.sb = sb].sb = sb /\ [seat[w] EXCEPT !.sb = sb].s = seat[w].s
  BY SeatFacts DEF SeatOK, Seat
<1> QED
  BY <1>1, SeatFacts, TurnKeeps DEF Use, PluginVarsOK, Steps, AtBroker

LEMMA KeepKeeps ==
  ASSUME IInv, PInv, NEW w \in Workers, BrokerStep(w), step[w] \in ToolSteps, pc'[w] = "idle", Keep(w)
  PROVE  PInv' /\ IInv'
<1>1. seat[w].s \in Sessions /\ seat[w].sb \in SandboxIds
  BY SeatFacts DEF SeatOK, ToolSteps
<1> QED
  BY <1>1, SeatFacts, TurnKeeps DEF Keep, PluginVarsOK, Steps

LEMMA CallAgainKeeps ==
  ASSUME IInv, PInv, NEW w \in Workers, NEW s \in Sessions, CallAgain(w, s)
  PROVE  PInv' /\ IInv'
<1>1. handle[s] \in SandboxIds /\ begun' \in 0..MaxCalls /\ BrokerStep(w) /\ pc'[w] = "idle"
  BY PluginAssumption DEF CallAgain, Begins, PInv, PluginTypeOK, BrokerStep, vars
<1>2. [s |-> s, sb |-> handle[s], t |-> None] \in Seat
  BY <1>1 DEF Seat
<1> QED
  BY <1>1, <1>2, SeatFacts, TurnKeeps DEF CallAgain, PluginVarsOK, Steps

LEMMA AcquireSteps ==
  ASSUME IInv, NEW w \in Workers, NEW s \in Sessions, NEW mode \in ModesOf[s], Acquire(w, s, mode)
  PROVE  /\ BrokerStep(w) /\ pc'[w] \notin {"enq_push", "enq_publish"}
         /\ leases[s] # None => pc'[w] = "idle"
BY DEF BrokerStep, ClientCall, Acquire, Request, Goto, IInv, TypeOK, Proc

LEMMA CallFirstKeeps ==
  ASSUME IInv, PInv, NEW w \in Workers, NEW s \in Sessions, CallFirst(w, s)
  PROVE  PInv' /\ IInv'
<1>1. BrokerStep(w) /\ pc'[w] \notin {"enq_push", "enq_publish"} /\ (leases[s] # None => pc'[w] = "idle")
  BY AcquireSteps DEF CallFirst
<1>2. begun' \in 0..MaxCalls
  BY PluginAssumption DEF CallFirst, Begins, PInv, PluginTypeOK
<1>3. CASE leases[s] = None
  <2>1. [NoSeat EXCEPT !.s = s] \in Seat /\ [NoSeat EXCEPT !.s = s].s = s
    BY DEF Seat, NoSeat
  <2> QED
    BY <1>1, <1>2, <1>3, <2>1, SeatFacts, TurnKeeps DEF CallFirst, PluginVarsOK, Steps, AtBroker, ToolSteps
<1>4. CASE leases[s] # None
  <2> DEFINE v == [NoSeat EXCEPT !.s = s, !.sb = leases[s].sb]
  <2>1. leases[s].sb \in SandboxIds
    BY <1>4 DEF IInv, TypeOK, Lease
  <2>2. v \in Seat /\ v.s = s /\ v.sb = leases[s].sb
    BY <2>1 DEF Seat, NoSeat
  <2>3. Turn(w, "connect", v) /\ UNCHANGED <<handle, failed, abandoned>>
    BY <1>4 DEF CallFirst
  <2> HIDE DEF v
  <2> QED
    BY <1>1, <1>2, <1>4, <2>1, <2>2, <2>3, SeatFacts, TurnKeeps DEF PluginVarsOK, Steps
<1> QED
  BY <1>3, <1>4

LEMMA EventKeeps ==
  ASSUME IInv, PInv, NEW w \in Workers, NEW s \in Sessions, NEW reason \in Reasons, Event(w, s, reason)
  PROVE  PInv' /\ IInv'
<1>1. BrokerStep(w) /\ begun' \in 0..MaxCalls
  BY PluginAssumption DEF Event, Begins, PInv, PluginTypeOK, BrokerStep, ClientCall
<1>2. CASE leases[s] = None
  <2>1. UNCHANGED <<pc, job, step, seat, abandoned, regranted>>
    BY <1>2 DEF Event, Release, BeginRelease
  <2>2. handle' \in [Sessions -> SandboxIds \cup {None}] /\ failed' \subseteq Sessions
    BY <1>2 DEF Event, PInv, PluginTypeOK
  <2>3. PluginVarsOK'
    BY <1>1, <2>1, <2>2, SeatFacts DEF PluginVarsOK
  <2> QED
    BY <1>1, <2>1, <2>3, BrokerStepKeeps, BrokerStepGrows, SeatKeeps
<1>3. CASE leases[s] # None
  <2>1. pc'[w] = "rel_delete"
    BY <1>3 DEF Event, Release, BeginRelease, Goto, IInv, TypeOK, Proc
  <2>2. [NoSeat EXCEPT !.s = s] \in Seat /\ [NoSeat EXCEPT !.s = s].s = s
    BY DEF Seat, NoSeat
  <2> QED
    BY <1>1, <1>3, <2>1, <2>2, SeatFacts, TurnKeeps DEF Event, PluginVarsOK, Steps, AtBroker, ToolSteps
<1> QED
  BY <1>2, <1>3

LEMMA CallsSteps ==
  ASSUME NEW w \in Workers, NEW ok, NEW error, Calls(w, ok, error)
  PROVE  BrokerStep(w) /\ pc'[w] = "idle" /\ (ok \/ error)
BY DEF Calls, BrokerStep, RuntimeCall

LEMMA ToolKeeps ==
  ASSUME IInv, PInv, NEW w \in Workers, Tool(w)
  PROVE  PInv' /\ IInv'
<1>1. CASE Reopen(w)
  <2>1. BrokerStep(w) /\ pc'[w] = "idle" /\ (Go(w, "beat") \/ Ends(w)) /\ step[w] = "reopen"
    BY <1>1, CallsSteps DEF Reopen
  <2> QED
    BY <2>1, GoKeeps, EndsKeeps DEF Steps, ToolSteps
<1>2. CASE Beat(w)
  <2>1. step[w] = "beat" /\ seat[w].s \in Sessions /\ BrokerStep(w)
    BY <1>2, SeatFacts DEF Beat, SeatOK, BrokerStep, ClientCall
  <2>2. pc'[w] = IF leases[seat[w].s] = None THEN "idle" ELSE "hb_save"
    BY <1>2 DEF Beat, Heartbeat, Request, Goto, IInv, TypeOK, Proc
  <2> QED
    BY <1>2, <2>1, <2>2, GoKeeps DEF Beat, Steps, ToolSteps, AtBroker
<1>3. CASE PollReady(w)
  <2>1. step[w] = "polling" /\ BrokerStep(w) /\ pc' = pc
    BY <1>3 DEF PollReady, BrokerStep, vars
  <2>2. pc[w] = "idle" /\ tickets[seat[w].t].sb \in SandboxIds
    BY <1>3, <2>1, SeatFacts DEF SeatOK, AtBroker, PollReady, IsReady, PInv, ReadyOK
  <2> QED
    BY <1>3, <2>1, <2>2, UseKeeps DEF PollReady
<1>4. CASE PollTimeout(w)
  <2>1. step[w] = "polling" /\ BrokerStep(w) /\ pc' = pc
    BY <1>4 DEF PollTimeout, BrokerStep, vars
  <2>2. pc[w] = "idle"
    BY <2>1, SeatFacts DEF SeatOK, AtBroker
  <2> QED
    BY <1>4, <2>1, <2>2, EndsKeeps DEF PollTimeout
<1>5. CASE Connect(w)
  <2>1. /\ BrokerStep(w) /\ pc'[w] = "idle" /\ step[w] = "connect"
        /\ Go(w, "prepare") \/ Keep(w) \/ GivesUp(w)
    BY <1>5 DEF Connect, Calls, BrokerStep, RuntimeCall
  <2> QED
    BY <2>1, GoKeeps, KeepKeeps, EndsKeeps DEF Steps, ToolSteps
<1>6. CASE Prepare(w)
  <2>1. BrokerStep(w) /\ pc'[w] = "idle" /\ step[w] = "prepare" /\ (Keep(w) \/ GivesUp(w))
    BY <1>6 DEF Prepare, Calls, BrokerStep, RuntimeCall
  <2> QED
    BY <2>1, KeepKeeps, EndsKeeps DEF ToolSteps
<1>7. CASE Run(w)
  <2>1. BrokerStep(w) /\ pc'[w] = "idle" /\ step[w] \in {"run", "again"} /\ (Go(w, "again") \/ Ends(w))
    BY <1>7 DEF Run, Calls, BrokerStep, RuntimeCall
  <2> QED
    BY <2>1, GoKeeps, EndsKeeps DEF Steps, ToolSteps
<1> QED
  BY <1>1, <1>2, <1>3, <1>4, <1>5, <1>6, <1>7 DEF Tool

\* What the plugin makes of an answer of the broker.
LEMMA AnsweredIs ==
  ASSUME IInv, PInv, NEW w \in Workers, Step(w), Answered(w)
  PROVE  \/ step[w] = "beating" /\ Go(w, "run")
         \/ step[w] = "asking" /\ pc[w] = "cl_save" /\ Use(w, "connect", job[w].sb)
         \/ /\ step[w] = "asking" /\ pc[w] = "enq_publish"
            /\ Turn(w, "polling", [seat[w] EXCEPT !.t = job[w].t])
            /\ UNCHANGED <<handle, begun, failed, abandoned>>
         \/ step[w] = "asking" /\ GivesUp(w)
         \/ step[w] = "releasing" /\ (ReleaseError(w) \/ ReleaseOk(w))
<1>1. step[w] \in AtBroker
  BY SeatFacts, StepOwn DEF SeatOK, Own, Proc
<1> QED
  BY <1>1 DEF Answered, AtBroker

LEMMA ServeKeeps ==
  ASSUME IInv, PInv, NEW w \in Workers, Serve(w)
  PROVE  PInv' /\ IInv'
<1>1. w \in Proc /\ Step(w) /\ BrokerStep(w)
  BY DEF Proc, Serve, BrokerStep
<1>2. pc[w] # "idle" /\ step[w] # "free"
  BY <1>1, StepOwn, SeatFacts DEF Own, SeatOK, AtBroker
<1>3. CASE pc'[w] # "idle"
  <2>1. UNCHANGED plugin /\ Noted /\ IInv'
    BY <1>1, <1>3, BrokerStepKeeps DEF Serve
  <2>2. job'[w].t \in TicketIds \/ pc'[w] \notin {"enq_push", "enq_publish"}
    BY <1>1, <2>1 DEF IInv, HandlersOK, JobInv, TicketLabels
  <2>3. \A t \in TicketIds : TicketGrows(t)
    BY <1>1, StepGrows
  <2>4. pc'[w] \in {"enq_push", "enq_publish"} => tickets'[job'[w].t] # None
    BY <1>1, <2>2, <2>3, StepPushes, SeatFacts, GrowsKeeps DEF SeatOK
  <2>5. SeatOK(w)'
    BY <1>2, <2>1, <2>3, <2>4, SeatFacts, GrowsKeeps DEF SeatOK, plugin
  <2>6. PluginVarsOK'
    BY <2>1, SeatFacts, NotedTyped DEF plugin, PluginVarsOK
  <2>7. \A q \in Workers \ {w} : pc'[q] = pc[q] /\ job'[q] = job[q] /\ step'[q] = step[q] /\ seat'[q] = seat[q]
    BY <1>1, <2>1, BrokerStepOwn DEF plugin, Proc
  <2> QED
    BY <2>1, <2>3, <2>5, <2>6, <2>7, SeatKeeps
<1>4. CASE pc'[w] = "idle"
  <2>1. Answered(w)
    BY <1>4 DEF Serve
  <2>2. CASE step[w] = "beating" /\ Go(w, "run")
    BY <1>1, <1>4, <2>2, GoKeeps DEF Steps, ToolSteps
  <2>3. CASE step[w] = "asking" /\ pc[w] = "cl_save" /\ Use(w, "connect", job[w].sb)
    <3>1. job[w].sb \in SandboxIds
      BY <1>1, <2>3 DEF IInv, HandlersOK, JobInv, SandboxLabels
    <3> QED
      BY <1>1, <1>2, <1>4, <2>3, <3>1, UseKeeps
  <2>4. CASE /\ step[w] = "asking" /\ pc[w] = "enq_publish"
             /\ Turn(w, "polling", [seat[w] EXCEPT !.t = job[w].t])
             /\ UNCHANGED <<handle, begun, failed, abandoned>>
    <3>1. job[w].t \in TicketIds /\ tickets[job[w].t] # None /\ seat[w].s \in Sessions
      BY <1>1, <2>4, SeatFacts DEF IInv, HandlersOK, JobInv, TicketLabels, SeatOK
    <3> DEFINE v == [seat[w] EXCEPT !.t = job[w].t]
    <3>2. v \in Seat /\ v.s = seat[w].s /\ v.t = job[w].t
      BY <3>1, SeatFacts DEF Seat
    <3>3. Turn(w, "polling", v)
      BY <2>4
    <3> HIDE DEF v
    <3> QED
      BY <1>1, <1>4, <2>4, <3>1, <3>2, <3>3, SeatFacts, TurnKeeps DEF PluginVarsOK, Steps, ToolSteps
  <2>5. CASE step[w] = "asking" /\ GivesUp(w)
    BY <1>1, <1>2, <1>4, <2>5, EndsKeeps
  <2>6. CASE step[w] = "releasing" /\ (ReleaseError(w) \/ ReleaseOk(w))
    BY <1>1, <1>2, <1>4, <2>6, SeatFacts, OverKeeps DEF ReleaseError, ReleaseOk, SeatOK, PluginVarsOK
  <2> QED
    BY <1>1, <2>1, <2>2, <2>3, <2>4, <2>5, <2>6, AnsweredIs
<1> QED
  BY <1>3, <1>4

\* The consumer, the sweep timer and the clock.
Background ==
  \/ Consume \/ Step(Consumer)
  \/ \E p \in Sweepers : SwKeys(p) \/ Step(p)
  \/ \E s \in Sessions : Expire(s)

LEMMA BackgroundOthers ==
  ASSUME IInv, Background
  PROVE  \A w \in Workers : pc'[w] = pc[w] /\ job'[w] = job[w]
<1>1. ASSUME NEW p \in Proc \ Workers, Step(p)
      PROVE  \A w \in Workers : pc'[w] = pc[w] /\ job'[w] = job[w]
  BY <1>1, StepOwn DEF Own, Proc
<1>2. Consumer \in Proc \ Workers /\ Sweepers \subseteq Proc \ Workers
  BY NamesAssumption DEF Proc
<1>3. ASSUME NEW p \in Proc \ Workers, NEW l, NEW j, Goto(p, l), Set(p, j)
      PROVE  \A w \in Workers : pc'[w] = pc[w] /\ job'[w] = job[w]
  BY <1>3 DEF Goto, Set, IInv, TypeOK, Proc
<1>4. CASE Consume
  BY <1>2, <1>3, <1>4 DEF Consume, At
<1>5. ASSUME NEW p \in Sweepers, SwKeys(p)
      PROVE  \A w \in Workers : pc'[w] = pc[w] /\ job'[w] = job[w]
  BY <1>2, <1>3, <1>5 DEF SwKeys, At
<1>6. CASE \E s \in Sessions : Expire(s)
  BY <1>6 DEF Expire
<1> QED
  BY <1>1, <1>2, <1>4, <1>5, <1>6 DEF Background

LEMMA BackgroundKeeps ==
  ASSUME IInv, PInv, Background, UNCHANGED plugin, Noted
  PROVE  PInv' /\ IInv'
<1>1. IInv'
  BY ConsumeKeeps, StepKeeps, SwKeysKeeps, ExpireKeeps DEF Background, Proc
<1>2. \A t \in TicketIds : TicketGrows(t)
  <2>1. ASSUME NEW p \in Proc, Step(p) PROVE \A t \in TicketIds : TicketGrows(t)
    BY <2>1, StepGrows
  <2>2. CASE UNCHANGED tickets
    BY <2>2 DEF TicketGrows
  <2> QED
    BY <2>1, <2>2 DEF Background, Consume, SwKeys, Expire, store, Proc
<1>3. \A w \in Workers : pc'[w] = pc[w] /\ job'[w] = job[w]
  BY BackgroundOthers
<1>4. PluginVarsOK'
  BY NotedTyped DEF plugin, PInv, PluginTypeOK, PluginVarsOK
<1> QED
  BY <1>1, <1>2, <1>3, <1>4, SeatKeeps DEF plugin

LEMMA BrokerDiesKeeps ==
  ASSUME IInv, PInv, BrokerDies
  PROVE  PInv' /\ IInv'
<1>1. IInv' /\ Crash
  BY CrashKeeps DEF BrokerDies
<1>2. UNCHANGED tickets /\ \A w \in Workers : pc'[w] = "idle"
  BY <1>1 DEF Crash, store, Proc
<1>3. \A w \in Workers : (step'[w] = "free" /\ seat'[w] = NoSeat) \/ (step'[w] = step[w] /\ seat'[w] = seat[w])
  BY DEF BrokerDies
<1>4. step' \in [Workers -> Steps] /\ seat' \in [Workers -> Seat]
  <2>1. /\ step' = [w \in Workers |-> IF pc[w] # "idle" THEN "free" ELSE step[w]]
        /\ seat' = [w \in Workers |-> IF pc[w] # "idle" THEN NoSeat ELSE seat[w]]
    BY DEF BrokerDies
  <2> QED
    BY <2>1, SeatFacts DEF PInv, PluginTypeOK, Steps
<1>5. PluginVarsOK'
  <2>1. \A w \in Workers : step[w] \in {"asking", "releasing"} => seat[w].s \in Sessions
    BY SeatFacts DEF SeatOK
  <2> QED
    BY <1>4, <2>1 DEF BrokerDies, PInv, PluginTypeOK, PluginVarsOK
<1>6. ASSUME NEW w \in Workers PROVE SeatOK(w)'
  BY <1>2, <1>3, SeatFacts DEF SeatOK, ToolSteps
<1> QED
  BY <1>1, <1>2, <1>5, <1>6, SeatKeeps DEF TicketGrows

LEMMA PluginNextKeeps == IInv /\ PInv /\ [PluginNext]_allVars => PInv' /\ IInv'
<1> SUFFICES ASSUME IInv, PInv, [PluginNext]_allVars PROVE PInv' /\ IInv'
  OBVIOUS
<1>1. CASE UNCHANGED allVars
  <2>1. IInv'
    BY <1>1, NextIInv DEF allVars
  <2>2. PInv'
    BY <1>1 DEF allVars, vars, store, plugin, PInv, PluginTypeOK, TypeOK, log, world, bounds, SeatsOK, SeatOK, ReadyOK
  <2> QED
    BY <2>1, <2>2
<1>2. CASE Background /\ UNCHANGED plugin /\ Noted
  BY <1>2, BackgroundKeeps
<1> QED
  BY <1>1, <1>2, CallAgainKeeps, CallFirstKeeps, EventKeeps, ToolKeeps, ServeKeeps, BrokerDiesKeeps
  DEF PluginNext, Background

LEMMA PluginInitKeeps == PluginInit => PInv /\ IInv
<1> SUFFICES ASSUME PluginInit PROVE PInv /\ IInv
  OBVIOUS
<1>1. IInv
  BY InitIInv DEF PluginInit
<1>2. PluginTypeOK
  BY <1>1, PluginAssumption DEF PluginInit, PluginTypeOK, IInv, Steps, Seat, NoSeat
<1>3. SeatsOK /\ ReadyOK
  BY DEF PluginInit, Init, SeatsOK, SeatOK, ReadyOK, ToolSteps, Proc
<1> QED
  BY <1>1, <1>2, <1>3 DEF PInv

LEMMA PluginInvariance == PluginSpec => [](PInv /\ IInv)
BY PluginInitKeeps, PluginNextKeeps, PTL DEF PluginSpec

\* A tool call, an answer, a late ticket and a restart of the broker leave the
\* plugin's map and the state of every call within their types, because a call
\* comes to no step without the session, the sandbox or the ticket it uses.
THEOREM PluginTypeCorrect == PluginSpec => []PluginTypeOK
<1>1. PInv => PluginTypeOK
  BY DEF PInv
<1> QED
  BY <1>1, PluginInvariance, PTL

-----------------------------------------------------------------------------
(* A plugin whose sessions do one thing at a time is a serial client *)

\* A worker's call goes on or ends; a request it has is for its session.
Stays(w) ==
  /\ step'[w] # "free" => step[w] # "free" /\ seat'[w].s = seat[w].s
  /\ job'[w].client # None => step'[w] # "free" /\ job'[w].client = seat'[w].s

LEMMA StaysOne ==
  ASSUME OneCall, \A w \in Workers : Stays(w)
  PROVE  OneCall'
BY DEF OneCall, Stays

\* Workers whose call and request stay as they are.
Same(q) ==
  /\ step'[q] = step[q] /\ seat'[q] = seat[q]
  /\ job'[q].client = job[q].client

LEMMA SameStays ==
  ASSUME OneCall, NEW q \in Workers, Same(q)
  PROVE  Stays(q)
BY DEF OneCall, Same, Stays

LEMMA BeginsOne ==
  ASSUME OneCall, NEW w \in Workers, NEW s \in Sessions, Busy(s) = {},
         \A q \in Workers \ {w} : Same(q),
         job'[w].client \in {s, None},
         \/ step'[w] # "free" /\ seat'[w].s = s
         \/ step'[w] = "free" /\ job'[w].client = None
  PROVE  OneCall'
BY DEF OneCall, Same, Busy

\* Nobody else serves a session that has no other call.
LEMMA FreeSession ==
  ASSUME OneCall, NEW s \in Sessions, Busy(s) = {}
  PROVE  \A v \in Workers : job[v].client # s
BY NamesAssumption DEF OneCall, Busy, Keys

LEMMA TurnSame ==
  ASSUME PInv, NEW w \in Workers, NEW st, NEW v, Turn(w, st, v)
  PROVE  /\ step'[w] = st /\ seat'[w] = v
         /\ \A q \in Workers \ {w} : step'[q] = step[q] /\ seat'[q] = seat[q]
BY DEF PInv, PluginTypeOK, Turn

\* A step of the plugin alone, or of the runtime, ends w's call or takes it on.
LEMMA TurnOne ==
  ASSUME IInv, PInv, SInv, OneCall, NEW w \in Workers, pc[w] = "idle", UNCHANGED job, step[w] # "free",
         NEW st, NEW v, Turn(w, st, v), st # "free" => v.s = seat[w].s
  PROVE  OneCall'
<1>1. job[w].client = None
  BY DEF SInv, SerialOK, Proc
<1>2. \A q \in Workers \ {w} : Same(q)
  BY TurnSame DEF Same
<1>3. Stays(w)
  BY <1>1, TurnSame DEF Stays
<1> QED
  BY <1>2, <1>3, SameStays, StaysOne

LEMMA RuntimeCovers ==
  ASSUME IInv, SInv, NEW w, RuntimeCall(w)
  PROVE  SInv' /\ PoolStep
BY SameCovers DEF RuntimeCall, store, PoolStep

LEMMA QuietCovers ==
  ASSUME IInv, SInv, UNCHANGED vars
  PROVE  SInv' /\ PoolStep
BY SameCovers DEF vars, store, PoolStep

LEMMA CallAgainOne ==
  ASSUME Overlap = {}, IInv, PInv, SInv, OneCall, NEW w \in Workers, NEW s \in Sessions, CallAgain(w, s)
  PROVE  SInv' /\ OneCall' /\ PoolStep
<1>1. Busy(s) = {} /\ pc[w] = "idle" /\ UNCHANGED vars
  BY DEF CallAgain, MayCall, Begins
<1>2. job'[w].client = None
  BY <1>1 DEF SInv, SerialOK, Proc, vars
<1>3. /\ step'[w] = "reopen" /\ seat'[w].s = s
      /\ \A q \in Workers \ {w} : Same(q)
  BY <1>1, TurnSame DEF CallAgain, Same, vars
<1> QED
  BY <1>1, <1>2, <1>3, BeginsOne, QuietCovers

LEMMA CallFirstOne ==
  ASSUME Overlap = {}, OwnLeases, IInv, PInv, SInv, OneCall, NEW w \in Workers, NEW s \in Sessions, CallFirst(w, s)
  PROVE  SInv' /\ OneCall' /\ PoolStep
<1>1. Busy(s) = {} /\ pc[w] = "idle" /\ ClientCall(w, s)
  BY DEF CallFirst, MayCall, Begins, ClientCall
<1>2. SInv' /\ PoolStep
  BY <1>1, FreeSession, ClientCallCovers DEF PoolStep
<1>3. job'[w].client \in {s, None} /\ \A q \in Workers \ {w} : job'[q] = job[q]
  <2>1. job[w].client = None
    BY <1>1 DEF SInv, SerialOK, Proc
  <2>2. PICK mode \in ModesOf[s] : Acquire(w, s, mode)
    BY DEF CallFirst
  <2> DEFINE j == [NoJob EXCEPT !.client = s, !.s = s, !.mode = mode]
  <2>3. job' = job \/ Set(w, j)
    BY <2>2 DEF Acquire
  <2>4. j.client = s
    BY DEF NoJob
  <2> HIDE DEF j
  <2> QED
    BY <2>1, <2>3, <2>4 DEF Set, IInv, TypeOK, Proc
<1>4. /\ step'[w] # "free" /\ seat'[w].s = s
      /\ \A q \in Workers \ {w} : step'[q] = step[q] /\ seat'[q] = seat[q]
  <2> DEFINE v == [NoSeat EXCEPT !.s = s, !.sb = leases[s].sb]
  <2>1. v.s = s /\ [NoSeat EXCEPT !.s = s].s = s
    BY DEF NoSeat
  <2>2. Turn(w, "asking", [NoSeat EXCEPT !.s = s]) \/ Turn(w, "connect", v)
    BY DEF CallFirst
  <2> HIDE DEF v
  <2>3. PICK st, u : Turn(w, st, u) /\ st # "free" /\ u.s = s
    BY <2>1, <2>2
  <2> QED
    BY <2>3, TurnSame
<1> QED
  BY <1>1, <1>2, <1>3, <1>4, BeginsOne DEF Same

LEMMA EventOne ==
  ASSUME OwnLeases, IInv, PInv, SInv, OneCall,
         NEW w \in Workers, NEW s \in Sessions, NEW reason \in Reasons, Event(w, s, reason)
  PROVE  SInv' /\ OneCall' /\ PoolStep
<1>1. Busy(s) = {} /\ pc[w] = "idle" /\ step[w] = "free" /\ ClientCall(w, s)
  BY DEF Event, Begins, ClientCall
<1>2. SInv' /\ PoolStep
  BY <1>1, FreeSession, ClientCallCovers DEF PoolStep
<1>3. job[w].client = None
  BY <1>1 DEF SInv, SerialOK, Proc
<1>4. CASE leases[s] = None
  <2>1. UNCHANGED <<job, step, seat>>
    BY <1>4 DEF Event, Release, BeginRelease
  <2> QED
    BY <1>2, <2>1 DEF OneCall
<1>5. CASE leases[s] # None
  <2>1. BeginRelease(w, s, reason, [NoJob EXCEPT !.client = s])
    BY <1>5 DEF Event, Release
  <2>2. job'[w].client = s /\ \A q \in Workers \ {w} : job'[q] = job[q]
    BY <2>1 DEF BeginRelease, Set, NoJob, IInv, TypeOK, Proc
  <2>3. /\ step'[w] # "free" /\ seat'[w].s = s
        /\ \A q \in Workers \ {w} : step'[q] = step[q] /\ seat'[q] = seat[q]
    BY <1>5, TurnSame DEF Event, NoSeat
  <2> QED
    BY <1>1, <1>2, <2>2, <2>3, BeginsOne DEF Same
<1> QED
  BY <1>4, <1>5

LEMMA ToolOne ==
  ASSUME OwnLeases, IInv, PInv, SInv, OneCall, NEW w \in Workers, Tool(w)
  PROVE  SInv' /\ OneCall' /\ PoolStep
<1>1. CASE Beat(w)
  <2> DEFINE s == seat[w].s
  <2>1. s \in Sessions /\ step[w] = "beat" /\ pc[w] = "idle" /\ Heartbeat(w, s)
    BY <1>1, SeatFacts DEF Beat, SeatOK, Heartbeat, Request
  <2>2. job[w].client = None /\ s # None
    BY <2>1, NamesAssumption DEF SInv, SerialOK, Proc, Keys
  <2>3. \A v \in Workers : job[v].client # s
    BY <2>1, <2>2 DEF OneCall
  <2>4. SInv' /\ PoolStep
    BY <2>1, <2>3, ClientCallCovers DEF ClientCall, PoolStep
  <2>5. job'[w].client \in {s, None} /\ \A q \in Workers \ {w} : job'[q] = job[q]
    <3> DEFINE j == [NoJob EXCEPT !.client = s, !.s = s, !.mode = leases[s].mode, !.sb = leases[s].sb]
    <3>1. j.client = s /\ (UNCHANGED job \/ Set(w, j))
      BY <2>1 DEF Heartbeat, NoJob
    <3> HIDE DEF j
    <3> QED
      BY <2>2, <3>1 DEF Set, IInv, TypeOK, Proc
  <2>6. /\ step'[w] # "free" /\ seat'[w] = seat[w]
        /\ \A q \in Workers \ {w} : step'[q] = step[q] /\ seat'[q] = seat[q]
    BY <1>1, TurnSame DEF Beat, Go
  <2>7. Stays(w)
    BY <2>1, <2>5, <2>6 DEF Stays
  <2> QED
    BY <2>4, <2>5, <2>6, <2>7, SameStays, StaysOne DEF Same
<1>2. CASE PollReady(w) \/ PollTimeout(w)
  <2>1. step[w] = "polling" /\ pc[w] = "idle" /\ UNCHANGED vars
    BY <1>2, SeatFacts DEF PollReady, PollTimeout, SeatOK, AtBroker
  <2>2. SInv' /\ PoolStep
    BY <2>1, QuietCovers
  <2>3. [seat[w] EXCEPT !.sb = tickets[seat[w].t].sb].s = seat[w].s
    BY SeatFacts DEF Seat
  <2>4. OneCall'
    BY <1>2, <2>1, <2>3, TurnOne DEF PollReady, PollTimeout, Use, GivesUp, Over, vars
  <2> QED
    BY <2>2, <2>4
<1>3. CASE Reopen(w) \/ Connect(w) \/ Prepare(w) \/ Run(w)
  <2>1. RuntimeCall(w) /\ pc[w] = "idle" /\ step[w] # "free" /\ UNCHANGED job
    BY <1>3 DEF Reopen, Connect, Prepare, Run, Calls, RuntimeCall
  <2>2. \/ \E st \in Steps : Turn(w, st, seat[w])
        \/ Turn(w, "free", NoSeat)
    BY <1>3 DEF Reopen, Connect, Prepare, Run, Calls, Go, Keep, Ends, GivesUp, Over, Steps
  <2>3. OneCall'
    BY <2>1, <2>2, TurnOne
  <2> QED
    BY <2>1, <2>3, RuntimeCovers
<1> QED
  BY <1>1, <1>2, <1>3 DEF Tool

LEMMA ServeOne ==
  ASSUME IInv, PInv, SInv, OneCall, NEW w \in Workers, Serve(w)
  PROVE  SInv' /\ OneCall' /\ PoolStep
<1>1. w \in Proc /\ Step(w)
  BY DEF Proc, Serve
<1>2. SInv' /\ PoolStep
  BY <1>1, StepCovers
<1>3. Own(w) /\ step[w] # "free"
  BY <1>1, StepOwn, SeatFacts DEF Own, SeatOK, AtBroker
<1>4. \A q \in Workers \ {w} : job'[q] = job[q]
  BY <1>3 DEF Own, Proc
<1>5. CASE pc'[w] # "idle"
  <2>1. UNCHANGED plugin
    BY <1>5 DEF Serve
  <2>2. Stays(w)
    BY <1>3, <2>1 DEF Stays, plugin, Own, Follows, OneCall
  <2> QED
    BY <1>2, <1>4, <2>1, <2>2, SameStays, StaysOne DEF Same, plugin
<1>6. CASE pc'[w] = "idle"
  <2>1. job'[w].client = None
    BY <1>1, <1>2, <1>6 DEF SInv, SerialOK
  <2>2. /\ [seat[w] EXCEPT !.sb = job[w].sb].s = seat[w].s
        /\ [seat[w] EXCEPT !.t = job[w].t].s = seat[w].s
    BY SeatFacts DEF Seat
  <2>3. \E st, v : Turn(w, st, v) /\ (st # "free" => v.s = seat[w].s)
    BY <1>1, <1>6, <2>2, AnsweredIs DEF Serve, Go, Use, GivesUp, ReleaseError, ReleaseOk, Over
  <2>4. Stays(w) /\ \A q \in Workers \ {w} : step'[q] = step[q] /\ seat'[q] = seat[q]
    BY <1>3, <2>1, <2>3, TurnSame DEF Stays
  <2> QED
    BY <1>2, <1>4, <2>4, SameStays, StaysOne DEF Same
<1> QED
  BY <1>5, <1>6

LEMMA BackgroundOne ==
  ASSUME OwnLeases, IInv, PInv, SInv, OneCall, Background, UNCHANGED plugin
  PROVE  SInv' /\ OneCall' /\ PoolStep
<1>1. Consumer \in Proc \ Workers /\ Sweepers = {}
  BY NamesAssumption DEF OwnLeases, Proc
<1>2. CASE Consume
  <2>1. \A q \in Workers : job'[q] = job[q]
    BY <1>1, <1>2 DEF Consume, Set, IInv, TypeOK, Proc
  <2> QED
    BY <1>2, <2>1, ConsumeCovers DEF PoolStep, OneCall, plugin
<1>3. CASE Step(Consumer)
  <2>1. \A q \in Workers : job'[q] = job[q]
    BY <1>1, <1>3, StepOwn DEF Own, Proc
  <2> QED
    BY <1>1, <1>3, <2>1, StepCovers DEF OneCall, plugin
<1>4. ASSUME NEW s \in Sessions, Expire(s)
      PROVE  SInv' /\ OneCall' /\ PoolStep
  BY <1>4, ExpireCovers DEF Expire, PoolStep, OneCall, plugin
<1> QED
  BY <1>1, <1>2, <1>3, <1>4 DEF Background

LEMMA BrokerDiesOne ==
  ASSUME IInv, PInv, SInv, OneCall, BrokerDies
  PROVE  SInv' /\ OneCall' /\ PoolStep
<1>1. SInv' /\ PoolStep /\ \A w \in Workers : job'[w].client = None
  BY CrashCovers DEF BrokerDies, PoolStep, Crash, NoJob, Proc
<1>2. \A w \in Workers : step'[w] = "free" \/ (step'[w] = step[w] /\ seat'[w] = seat[w])
  BY DEF BrokerDies
<1> QED
  BY <1>1, <1>2, StaysOne DEF Stays

LEMMA PluginNextOne ==
  ASSUME OwnLeases, Overlap = {}, IInv, PInv, SInv, OneCall, [PluginNext]_allVars
  PROVE  SInv' /\ OneCall' /\ PoolStep
<1>1. CASE UNCHANGED allVars
  BY <1>1, QuietCovers DEF allVars, OneCall, plugin, vars
<1>2. CASE Background /\ UNCHANGED plugin
  BY <1>2, BackgroundOne
<1> QED
  BY <1>1, <1>2, CallAgainOne, CallFirstOne, EventOne, ToolOne, ServeOne, BrokerDiesOne
  DEF PluginNext, Background

LEMMA PluginInitOne ==
  ASSUME PluginInit
  PROVE  SInv /\ OneCall /\ Leased = {}
BY InitCovers DEF PluginInit, Init, OneCall, NoJob, Proc

LEMMA PluginOne ==
  ASSUME OwnLeases, Overlap = {}
  PROVE  PluginSpec => [](SInv /\ OneCall)
<1>1. PluginInit => SInv /\ OneCall
  BY PluginInitOne
<1>2. PInv /\ IInv /\ SInv /\ OneCall /\ [PluginNext]_allVars => SInv' /\ OneCall'
  BY PluginNextOne
<1> QED
  BY <1>1, <1>2, PluginInvariance, PTL DEF PluginSpec

\* Tool calls, idle and deleted events of sessions that do one thing at a time
\* never make two requests for one session meet at the broker, although the
\* plugin gives up polling and tickets are fulfilled late: a slot covers every
\* lease, without the broker's own word for it.
THEOREM PluginSlotsCovered ==
  ASSUME OwnLeases, Overlap = {}
  PROVE  PluginSpec => []SlotsCover
<1>1. SInv => SlotsCover
  BY DEF SInv
<1> QED
  BY <1>1, PluginOne, PTL

\* With such a plugin the leases implement the abstract pool.
THEOREM PluginImplementsPool ==
  ASSUME OwnLeases, Overlap = {}
  PROVE  PluginSpec => IsLeasePool
<1>1. PluginInit => Pool!Init
  BY PluginInitOne DEF Pool!Init
<1>2. PInv /\ IInv /\ SInv /\ OneCall /\ [PluginNext]_allVars => [Pool!Next]_Leased
  BY PluginNextOne, PoolStepIsNext
<1> QED
  BY <1>1, <1>2, PluginOne, PluginInvariance, PTL DEF PluginSpec, IsLeasePool, Pool!Spec

=============================================================================
