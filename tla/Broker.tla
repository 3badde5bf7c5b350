------------------------------- MODULE Broker -------------------------------
(***************************************************************************)
(* The sandbox broker (packages/broker): HTTP requests of sessions acquire *)
(* and release sandbox leases under a concurrency cap, requests over the   *)
(* cap become tickets in a Redis list and in a Kafka topic, a timer sweeps *)
(* leases whose heartbeat is too old.                                      *)
(*                                                                         *)
(* All durable state is in Redis, Kafka and the provider.  A handler keeps *)
(* only its local variables, so every `await` of the source is a point     *)
(* where the other handlers run: one action is one Redis command (or Lua   *)
(* script), one Kafka call or one provider call, with the local code that  *)
(* follows it up to the next await.  The reads and writes of different     *)
(* handlers interleave freely between them.                                *)
(***************************************************************************)
EXTENDS Integers, Sequences, FiniteSets

CONSTANTS
  Sessions,        \* (userId, sessionId) pairs
  Users, Pools,    \* user ids and pool ids
  UserOf, PoolOf,  \* the user of a session, the pool its requests name
  ModesOf,         \* the modes the requests of a session may ask for
  Workers,         \* HTTP requests the broker serves at the same time
  Sweepers,        \* callbacks of the sweep timer that may overlap
  Consumer,        \* the Kafka consumer (one partition, eachMessage is serial)
  SandboxIds, TicketIds,
  None,            \* null: a missing Redis key, an unset variable
  MaxConcurrency, IdlePolicy,
  FaultKinds,      \* which of "provider", "publish" and "crash" may happen
  MaxFaults,       \* bound: how many faults in a behaviour
  Requests,        \* which of "acquire", "release", "heartbeat", "exec" are sent
  Reasons,         \* the reasons a release may give
  SerialClients,   \* a session has at most one request in flight
  MaxRequests      \* bound: how many requests in a behaviour

Modes == {"exclusive", "user_shared", "multi_user_shared"}
Proc  == Workers \cup Sweepers \cup {Consumer}
Keys  == Sessions \cup Users \cup Pools

ASSUME NamesAssumption ==
  /\ Sessions \cap Users = {} /\ Sessions \cap Pools = {} /\ Users \cap Pools = {}
  /\ Workers \cap Sweepers = {} /\ Consumer \notin Workers \cup Sweepers
  /\ None \notin Keys \cup SandboxIds \cup TicketIds \cup Proc
  /\ UserOf \in [Sessions -> Users] /\ PoolOf \in [Sessions -> Pools]
  /\ ModesOf \in [Sessions -> SUBSET Modes]

ASSUME ConfigAssumption ==
  /\ MaxConcurrency \in Nat \ {0}
  /\ IdlePolicy \in {"stop_keep", "delete", "pool"}
  /\ FaultKinds \subseteq {"provider", "publish", "crash"}
  /\ Requests \subseteq {"acquire", "release", "heartbeat", "exec"}
  /\ Reasons \subseteq {"idle", "deleted"}
  /\ SerialClients \in BOOLEAN
  /\ MaxFaults \in Nat /\ MaxRequests \in Nat

VARIABLES
  \* Redis
  activeCount,   \* the slot counter
  leases,        \* session -> lease record or None
  bound,         \* session, user or pool -> its sandbox or None
  tickets,       \* ticket id -> ticket record or None
  queue,         \* the list of waiting ticket ids
  \* Kafka
  topic,         \* the acquire requests published so far
  offset,        \* how many of them the consumer has finished
  \* the provider
  sandbox,       \* sandbox id -> "absent", "started", "stopped" or "deleted"
  owner,         \* history: the key a sandbox was created for (its labels)
  \* the handlers
  pc, job,
  \* bounds
  issued, faults

store  == <<activeCount, leases, bound, tickets, queue>>
log    == <<topic, offset>>
world  == <<sandbox, owner>>
bounds == <<issued, faults>>
vars   == <<store, log, world, pc, job, bounds>>

-----------------------------------------------------------------------------
(* Records *)

Lease  == [sb : SandboxIds, mode : Modes, fresh : BOOLEAN]
Ticket == [session : Sessions, mode : Modes,
           status : {"queued", "claiming", "ready"}, sb : SandboxIds \cup {None}]

\* A Redis key that is missing is told from any record.
ASSUME RecordsAssumption == None \notin Lease \cup Ticket

\* The local variables of a handler: the session whose HTTP request it serves,
\* the session, mode, sandbox and ticket it works on, the reason of a release,
\* whether the work holds a slot it must give back on failure, the keys a
\* KEYS command returned and the leases a sweep has still to release.
Job == [client : Sessions \cup {None}, s : Sessions \cup {None},
        mode : Modes \cup {None}, reason : {"idle", "deleted", None},
        sb : SandboxIds \cup {None}, t : TicketIds \cup {None},
        slot : BOOLEAN, seen : SUBSET Sessions, todo : SUBSET Sessions]

NoJob == [client |-> None, s |-> None, mode |-> None, reason |-> None,
          sb |-> None, t |-> None, slot |-> FALSE, seen |-> {}, todo |-> {}]

Labels ==
  {"idle", "acq_attach", "acq_slot", "acq_undo", "enq_set", "enq_push", "enq_publish",
   "cl_lookup", "cl_start", "cl_forget", "cl_forgetOwner", "cl_create", "cl_bind",
   "cl_workdir", "cl_userdir", "cl_save",
   "rel_delete", "rel_keys", "rel_mget", "rel_stop", "rel_keep", "rel_kill",
   "rel_unbind", "rel_owner", "rel_unbindOwner", "rel_clear", "rel_slot",
   "pq_pop", "pq_more",
   "ft_claim", "ft_slot", "ft_reset", "ft_requeue", "ft_push", "ft_ready",
   "ft_undo", "ft_fail", "hb_save", "sw_mget", "sw_next"}

Leased == {s \in Sessions : leases[s] # None}

Init ==
  /\ activeCount = 0
  /\ leases = [s \in Sessions |-> None]
  /\ bound = [k \in Keys |-> None]
  /\ tickets = [t \in TicketIds |-> None]
  /\ queue = <<>> /\ topic = <<>> /\ offset = 0
  /\ sandbox = [id \in SandboxIds |-> "absent"]
  /\ owner = [id \in SandboxIds |-> None]
  /\ pc = [p \in Proc |-> "idle"]
  /\ job = [p \in Proc |-> NoJob]
  /\ issued = 0 /\ faults = 0

-----------------------------------------------------------------------------
(* Idioms of the handlers *)

Goto(p, l) == pc' = [pc EXCEPT ![p] = l]
At(p, l, m) == pc[p] = l /\ Goto(p, m)
Set(p, j)  == job' = [job EXCEPT ![p] = j]

\* The handler is over: a reply, a rejected promise, a swallowed error.
Reply(p) == Goto(p, "idle") /\ Set(p, NoJob)

\* One of the set, whichever it is: unused ids differ in nothing but the name.
AnyOf(S) == IF S = {} THEN {} ELSE {CHOOSE x \in S : TRUE}

\* The Redis key under which a mode keeps the sandbox of a session.
OwnerKey(mode, s) ==
  CASE mode = "user_shared"       -> UserOf[s]
    [] mode = "multi_user_shared" -> PoolOf[s]
    [] OTHER                      -> s

Fault(kind) == kind \in FaultKinds /\ faults < MaxFaults /\ faults' = faults + 1

\* A call to the provider that leaves the sandbox in state st.  It is refused
\* when the sandbox is gone; a fault may strike before or after its effect.
Provider(id, st) ==
  sandbox[id] # "deleted" /\ sandbox' = [sandbox EXCEPT ![id] = st] /\ UNCHANGED faults
ProviderFails(id, st) ==
  \/ sandbox[id] = "deleted" /\ UNCHANGED <<sandbox, faults>>
  \/ Fault("provider") /\ UNCHANGED sandbox
  \/ Fault("provider") /\ sandbox[id] # "deleted" /\ sandbox' = [sandbox EXCEPT ![id] = st]

\* The two Lua scripts on the slot counter.
SlotFreeLate == activeCount <= MaxConcurrency  \* mutant: one too many
SlotFree == activeCount < MaxConcurrency
TakeSlot == SlotFree /\ activeCount' = activeCount + 1
GiveSlot == activeCount' = IF activeCount > 0 THEN activeCount - 1 ELSE activeCount

-----------------------------------------------------------------------------
(* acquire *)

\* An HTTP request of session s reaches an idle worker.
Request(p, s, kind) ==
  /\ pc[p] = "idle" /\ kind \in Requests
  /\ issued < MaxRequests /\ issued' = issued + 1
  /\ SerialClients => \A w \in Workers : job[w].client # s

\* getLease: an existing lease is returned as it is.
Acquire(p, s, mode) ==
  /\ Request(p, s, "acquire")
  /\ IF leases[s] # None
     THEN UNCHANGED <<pc, job>>
     ELSE /\ Goto(p, IF mode = "exclusive" THEN "acq_slot" ELSE "acq_attach")
          /\ Set(p, [NoJob EXCEPT !.client = s, !.s = s, !.mode = mode])
  /\ UNCHANGED <<store, log, world, faults>>

\* canAttachSharedSandbox: a shared sandbox that is bound needs no slot.
CanAttachNever(p) == FALSE  \* mutant: shared sandboxes take a slot per session
CanAttach(p) == bound[OwnerKey(job[p].mode, job[p].s)] # None

AcqAttach(p) ==
  /\ At(p, "acq_attach", IF CanAttach(p) THEN "cl_lookup" ELSE "acq_slot")
  /\ UNCHANGED <<store, log, world, job, bounds>>

AcqSlot(p) ==
  /\ \/ /\ TakeSlot
        /\ At(p, "acq_slot", "cl_lookup")
        /\ Set(p, [job[p] EXCEPT !.slot = TRUE])
     \/ /\ ~SlotFree
        /\ At(p, "acq_slot", "enq_set")
        /\ UNCHANGED <<activeCount, job>>
  /\ UNCHANGED <<leases, bound, tickets, queue, log, world, bounds>>

\* createLease threw: the slot goes back and the client gets the error.
AcqUndo(p) ==
  /\ pc[p] = "acq_undo" /\ GiveSlot /\ Reply(p)
  /\ UNCHANGED <<leases, bound, tickets, queue, log, world, bounds>>

\* enqueue: a new ticket is written, pushed on the list, then published.
NewTicket(j) == [session |-> j.s, mode |-> j.mode, status |-> "queued", sb |-> None]

EnqSet(p) ==
  /\ At(p, "enq_set", "enq_push")
  /\ \E t \in AnyOf({u \in TicketIds : tickets[u] = None}) :
       /\ tickets' = [tickets EXCEPT ![t] = NewTicket(job[p])]
       /\ Set(p, [job[p] EXCEPT !.t = t])
  /\ UNCHANGED <<activeCount, leases, bound, queue, log, world, bounds>>

EnqPush(p) ==
  /\ At(p, "enq_push", "enq_publish")
  /\ queue' = Append(queue, job[p].t)
  /\ UNCHANGED <<activeCount, leases, bound, tickets, log, world, job, bounds>>

EnqPublish(p) ==
  /\ pc[p] = "enq_publish" /\ Reply(p)
  /\ \/ topic' = Append(topic, job[p].t) /\ UNCHANGED faults
     \/ Fault("publish") /\ topic' \in {topic, Append(topic, job[p].t)}
  /\ UNCHANGED <<store, offset, world, issued>>

-----------------------------------------------------------------------------
(* createLease *)

\* It returns to acquire, which replies, or to fulfillTicket.
LeaseMade(p) ==
  IF job[p].t = None THEN Reply(p) ELSE Goto(p, "ft_ready") /\ UNCHANGED job
LeaseFailed(p) ==
  \/ job[p].t # None /\ Goto(p, "ft_undo") /\ UNCHANGED job
  \/ job[p].t = None /\ job[p].slot /\ Goto(p, "acq_undo") /\ UNCHANGED job
  \/ job[p].t = None /\ ~job[p].slot /\ Reply(p)

\* The sandbox bound to the session, the user or the pool.
\* Mutant: the user's is the fallback.
BoundSandboxOfUser(j) ==
  LET own == bound[OwnerKey(j.mode, j.s)]
  IN  IF own # None THEN own ELSE bound[UserOf[j.s]]
BoundSandbox(j) == bound[OwnerKey(j.mode, j.s)]

ClLookup(p) ==
  /\ At(p, "cl_lookup", IF BoundSandbox(job[p]) = None THEN "cl_create" ELSE "cl_start")
  /\ Set(p, [job[p] EXCEPT !.sb = BoundSandbox(job[p])])
  /\ UNCHANGED <<store, log, world, bounds>>

\* provider.get and provider.start: a get that fails is a start that fails,
\* because a deleted sandbox never comes back.
ClStart(p) ==
  /\ \/ /\ At(p, "cl_start", "cl_workdir")
        /\ Provider(job[p].sb, "started")
        /\ UNCHANGED job
     \/ /\ At(p, "cl_start", "cl_forget")
        /\ ProviderFails(job[p].sb, "started")
        /\ Set(p, [job[p] EXCEPT !.sb = None])
  /\ UNCHANGED <<store, log, owner, issued>>

ClForget(p) ==
  /\ At(p, "cl_forget", IF job[p].mode = "exclusive" THEN "cl_create" ELSE "cl_forgetOwner")
  /\ bound' = [bound EXCEPT ![job[p].s] = None]
  /\ UNCHANGED <<activeCount, leases, tickets, queue, log, world, job, bounds>>

ClForgetOwner(p) ==
  /\ At(p, "cl_forgetOwner", "cl_create")
  /\ bound' = [bound EXCEPT ![OwnerKey(job[p].mode, job[p].s)] = None]
  /\ UNCHANGED <<activeCount, leases, tickets, queue, log, world, job, bounds>>

\* A create that fails may leave a running sandbox nobody knows.
ClCreate(p) ==
  /\ pc[p] = "cl_create"
  /\ \/ /\ \E id \in AnyOf({i \in SandboxIds : sandbox[i] = "absent"}) :
             /\ sandbox' = [sandbox EXCEPT ![id] = "started"]
             /\ owner' = [owner EXCEPT ![id] = OwnerKey(job[p].mode, job[p].s)]
             /\ \/ Goto(p, "cl_bind") /\ Set(p, [job[p] EXCEPT !.sb = id]) /\ UNCHANGED faults
                \/ Fault("provider") /\ LeaseFailed(p)
     \/ Fault("provider") /\ LeaseFailed(p) /\ UNCHANGED world
  /\ UNCHANGED <<store, log, issued>>

ClBindSession(p) ==  \* mutant: every mode binds the session
  /\ At(p, "cl_bind", "cl_workdir")
  /\ bound' = [bound EXCEPT ![job[p].s] = job[p].sb]
  /\ UNCHANGED <<activeCount, leases, tickets, queue, log, world, job, bounds>>
ClBind(p) ==
  /\ At(p, "cl_bind", "cl_workdir")
  /\ bound' = [bound EXCEPT ![OwnerKey(job[p].mode, job[p].s)] = job[p].sb]
  /\ UNCHANGED <<activeCount, leases, tickets, queue, log, world, job, bounds>>

\* ensureWorkDir and setupMultiUserDirs run a command in the sandbox, which
\* starts it when it is stopped; the exit code is ignored.
MakeDir(p, here, next) ==
  /\ pc[p] = here
  /\ \/ Provider(job[p].sb, "started") /\ Goto(p, next) /\ UNCHANGED job
     \/ ProviderFails(job[p].sb, "started") /\ LeaseFailed(p)
  /\ UNCHANGED <<store, log, owner, issued>>

ClWorkDir(p) ==
  MakeDir(p, "cl_workdir", IF job[p].mode = "multi_user_shared" THEN "cl_userdir" ELSE "cl_save")
ClUserDir(p) == MakeDir(p, "cl_userdir", "cl_save")

LeaseOf(j) == [sb |-> j.sb, mode |-> j.mode, fresh |-> TRUE]

ClSave(p) ==
  /\ pc[p] = "cl_save" /\ LeaseMade(p)
  /\ leases' = [leases EXCEPT ![job[p].s] = LeaseOf(job[p])]
  /\ UNCHANGED <<activeCount, bound, tickets, queue, log, world, bounds>>

-----------------------------------------------------------------------------
(* release *)

\* getLease: without a lease there is nothing to release.
BeginRelease(p, s, reason, j) ==
  /\ leases[s] # None
  /\ Goto(p, "rel_delete")
  /\ Set(p, [j EXCEPT !.s = s, !.mode = leases[s].mode, !.sb = leases[s].sb, !.reason = reason])

Release(p, s, reason) ==
  /\ Request(p, s, "release")
  /\ \/ leases[s] = None /\ UNCHANGED <<pc, job>>
     \/ BeginRelease(p, s, reason, [NoJob EXCEPT !.client = s])
  /\ UNCHANGED <<store, log, world, faults>>

RelDelete(p) ==
  /\ At(p, "rel_delete", "rel_keys")
  /\ leases' = [leases EXCEPT ![job[p].s] = None]
  /\ UNCHANGED <<activeCount, bound, tickets, queue, log, world, job, bounds>>

\* countLeasesForSandbox: KEYS, then MGET of the keys it returned.
OthersNone(p) == {}  \* mutant: the lease count of the sandbox is not looked at
Others(p) == {s \in job[p].seen \cap Leased : leases[s].sb = job[p].sb}

DisposalIdle(p) ==  \* mutant: an idle sandbox is left running
  IF job[p].reason = "deleted" THEN "rel_kill" ELSE "rel_slot"
Disposal(p) ==
  IF job[p].reason = "deleted" \/ IdlePolicy = "delete" THEN "rel_kill"
  ELSE IF IdlePolicy = "stop_keep" THEN "rel_stop"
  ELSE "rel_slot"

RelKeys(p) ==
  /\ At(p, "rel_keys", IF Leased = {} THEN Disposal(p) ELSE "rel_mget")
  /\ Set(p, [job[p] EXCEPT !.seen = Leased])
  /\ UNCHANGED <<store, log, world, bounds>>

RelMget(p) ==
  /\ At(p, "rel_mget", IF Others(p) # {} THEN "pq_pop" ELSE Disposal(p))
  /\ Set(p, [job[p] EXCEPT !.seen = {}])
  /\ UNCHANGED <<store, log, world, bounds>>

\* A provider call that throws ends the release, and the sweep it is part of.
Dispose(p, here, st, next) ==
  /\ pc[p] = here
  /\ \/ Provider(job[p].sb, st) /\ Goto(p, next) /\ UNCHANGED job
     \/ ProviderFails(job[p].sb, st) /\ Reply(p)
  /\ UNCHANGED <<store, log, owner, issued>>

RelStop(p) == Dispose(p, "rel_stop", "stopped", "rel_keep")
\* A delete that overlaps the one that removed the sandbox may succeed as well;
\* the runtime may also confirm one that failed (Swallowed in DockerRuntime).
RelKill(p) ==
  \/ Dispose(p, "rel_kill", "deleted", "rel_unbind")
  \/ /\ At(p, "rel_kill", "rel_unbind")
     /\ \/ sandbox[job[p].sb] = "deleted" /\ UNCHANGED faults
        \/ Fault("provider")
     /\ UNCHANGED <<store, log, world, job, issued>>

RelKeep(p) ==
  /\ At(p, "rel_keep", "rel_slot")
  /\ bound' = [bound EXCEPT ![job[p].s] = job[p].sb]
  /\ UNCHANGED <<activeCount, leases, tickets, queue, log, world, job, bounds>>

\* cleanupMappings: the session's, then the owner's if it is still this sandbox.
AfterUnbind(p) == IF job[p].reason = "deleted" THEN "rel_slot" ELSE "rel_clear"

RelUnbindSession(p) ==  \* mutant: the owner's mapping is never looked at
  /\ At(p, "rel_unbind", AfterUnbind(p))
  /\ bound' = [bound EXCEPT ![job[p].s] = None]
  /\ UNCHANGED <<activeCount, leases, tickets, queue, log, world, job, bounds>>
RelUnbind(p) ==
  /\ At(p, "rel_unbind", IF job[p].mode = "exclusive" THEN AfterUnbind(p) ELSE "rel_owner")
  /\ bound' = [bound EXCEPT ![job[p].s] = None]
  /\ UNCHANGED <<activeCount, leases, tickets, queue, log, world, job, bounds>>

RelOwner(p) ==
  /\ At(p, "rel_owner", IF BoundSandbox(job[p]) = job[p].sb THEN "rel_unbindOwner" ELSE AfterUnbind(p))
  /\ UNCHANGED <<store, log, world, job, bounds>>

RelUnbindOwner(p) ==
  /\ At(p, "rel_unbindOwner", AfterUnbind(p))
  /\ bound' = [bound EXCEPT ![OwnerKey(job[p].mode, job[p].s)] = None]
  /\ UNCHANGED <<activeCount, leases, tickets, queue, log, world, job, bounds>>

RelClear(p) ==
  /\ At(p, "rel_clear", "rel_slot")
  /\ bound' = [bound EXCEPT ![job[p].s] = None]
  /\ UNCHANGED <<activeCount, leases, tickets, queue, log, world, job, bounds>>

RelSlot(p) ==
  /\ At(p, "rel_slot", "pq_pop") /\ GiveSlot
  /\ UNCHANGED <<leases, bound, tickets, queue, log, world, job, bounds>>

-----------------------------------------------------------------------------
(* processQueue and fulfillTicket *)

\* The release is over: the worker replies, a sweep goes on to its next lease.
Released(p) ==
  IF job[p].todo = {} THEN Reply(p)
  ELSE Goto(p, "sw_next") /\ Set(p, [NoJob EXCEPT !.todo = job[p].todo])

PqPop(p) ==
  /\ pc[p] = "pq_pop"
  /\ \/ queue = <<>> /\ Released(p) /\ UNCHANGED queue
     \/ /\ queue # <<>> /\ queue' = Tail(queue)
        /\ Goto(p, "ft_claim")
        /\ Set(p, [job[p] EXCEPT !.t = Head(queue)])
  /\ UNCHANGED <<activeCount, leases, bound, tickets, log, world, bounds>>

\* The drain goes on while slots may be free.
MayDrainOn(p) == activeCount <= MaxConcurrency  \* mutant: also when all are taken
MayDrain(p) == activeCount < MaxConcurrency

PqMore(p) ==
  /\ pc[p] = "pq_more"
  /\ IF MayDrain(p) THEN Goto(p, "pq_pop") /\ UNCHANGED job ELSE Released(p)
  /\ UNCHANGED <<store, log, world, bounds>>

\* fulfillTicket returns to processQueue, or to the consumer, whose message
\* is then done.  When it throws, processQueue goes on and Kafka redelivers.
FulfilledAll(p) ==  \* mutant: processQueue advances the offset as well
  /\ offset' = offset + 1
  /\ IF p = Consumer THEN Reply(p) ELSE Goto(p, "pq_more") /\ UNCHANGED job
Fulfilled(p) ==
  IF p = Consumer THEN Reply(p) /\ offset' = offset + 1
  ELSE Goto(p, "pq_more") /\ UNCHANGED <<job, offset>>
FulfilThrows(p) ==
  IF p = Consumer THEN Reply(p) ELSE Goto(p, "pq_more") /\ UNCHANGED job

Consume ==
  /\ At(Consumer, "idle", "ft_claim") /\ offset < Len(topic)
  /\ Set(Consumer, [NoJob EXCEPT !.t = topic[offset + 1]])
  /\ UNCHANGED <<store, log, world, bounds>>

\* The Lua script that turns a queued ticket into a claimed one.
Claimable(t) == tickets[t] # None /\ tickets[t].status = "queued"

FtClaim(p) ==
  /\ pc[p] = "ft_claim"
  /\ LET t == job[p].t IN
     \/ /\ Claimable(t)
        /\ tickets' = [tickets EXCEPT ![t].status = "claiming"]
        /\ Goto(p, "ft_slot")
        /\ Set(p, [job[p] EXCEPT !.s = tickets[t].session, !.mode = tickets[t].mode, !.sb = None])
        /\ UNCHANGED offset
     \/ ~Claimable(t) /\ Fulfilled(p) /\ UNCHANGED tickets
  /\ UNCHANGED <<activeCount, leases, bound, queue, topic, world, bounds>>

FtSlot(p) ==
  /\ \/ /\ TakeSlot
        /\ At(p, "ft_slot", "cl_lookup")
        /\ Set(p, [job[p] EXCEPT !.slot = TRUE])
     \/ /\ ~SlotFree
        /\ At(p, "ft_slot", "ft_reset")
        /\ UNCHANGED <<activeCount, job>>
  /\ UNCHANGED <<leases, bound, tickets, queue, log, world, bounds>>

\* SET of the handler's own copy of the ticket, whatever Redis holds by now.
WriteTicket(p, status, sb) ==
  tickets' = [tickets EXCEPT ![job[p].t] =
               [session |-> job[p].s, mode |-> job[p].mode, status |-> status, sb |-> sb]]

\* No slot: updateTicket, then enqueueTicket writes the ticket a second time.
FtReset(p) ==
  /\ At(p, "ft_reset", "ft_requeue") /\ WriteTicket(p, "queued", None)
  /\ UNCHANGED <<activeCount, leases, bound, queue, log, world, job, bounds>>

FtRequeue(p) ==
  /\ At(p, "ft_requeue", "ft_push") /\ WriteTicket(p, "queued", None)
  /\ UNCHANGED <<activeCount, leases, bound, queue, log, world, job, bounds>>

FtPushLost(p) ==  \* mutant: the ticket is written but not pushed
  /\ pc[p] = "ft_push" /\ Fulfilled(p)
  /\ UNCHANGED <<activeCount, leases, bound, tickets, queue, topic, world, bounds>>
FtPush(p) ==
  /\ pc[p] = "ft_push" /\ Fulfilled(p)
  /\ queue' = Append(queue, job[p].t)
  /\ UNCHANGED <<activeCount, leases, bound, tickets, topic, world, bounds>>

FtReady(p) ==
  /\ pc[p] = "ft_ready" /\ WriteTicket(p, "ready", job[p].sb) /\ Fulfilled(p)
  /\ UNCHANGED <<activeCount, leases, bound, queue, topic, world, bounds>>

FtUndo(p) ==
  /\ At(p, "ft_undo", "ft_fail") /\ GiveSlot
  /\ UNCHANGED <<leases, bound, tickets, queue, log, world, job, bounds>>

FtFailGives(p) ==  \* mutant: the slot is given back a second time
  /\ pc[p] = "ft_fail" /\ WriteTicket(p, "queued", None) /\ FulfilThrows(p) /\ GiveSlot
  /\ UNCHANGED <<leases, bound, queue, log, world, bounds>>
FtFail(p) ==
  /\ pc[p] = "ft_fail" /\ WriteTicket(p, "queued", None) /\ FulfilThrows(p)
  /\ UNCHANGED <<activeCount, leases, bound, queue, log, world, bounds>>

-----------------------------------------------------------------------------
(* heartbeat *)

\* getLease, then saveLease of that copy with a new time.
Heartbeat(p, s) ==
  /\ Request(p, s, "heartbeat")
  /\ IF leases[s] = None
     THEN UNCHANGED <<pc, job>>
     ELSE /\ Goto(p, "hb_save")
          /\ Set(p, [NoJob EXCEPT !.client = s, !.s = s, !.mode = leases[s].mode, !.sb = leases[s].sb])
  /\ UNCHANGED <<store, log, world, faults>>

HbSave(p) ==
  /\ pc[p] = "hb_save" /\ Reply(p)
  /\ leases' = [leases EXCEPT ![job[p].s] = LeaseOf(job[p])]
  /\ UNCHANGED <<activeCount, bound, tickets, queue, log, world, bounds>>

-----------------------------------------------------------------------------
(* execInSandbox *)

\* The broker passes the call on, and a stopped sandbox is started for it: no
\* lease is asked for, and the client may have kept the id of an earlier one.
Exec(p, id) ==
  /\ pc[p] = "idle" /\ "exec" \in Requests
  /\ issued < MaxRequests /\ issued' = issued + 1
  /\ sandbox[id] # "absent"
  /\ Provider(id, "started") \/ ProviderFails(id, "started")
  /\ UNCHANGED <<store, log, owner, pc, job>>

-----------------------------------------------------------------------------
(* sweepExpiredLeases *)

SwKeys(p) ==
  /\ At(p, "idle", "sw_mget") /\ Leased # {}
  /\ Set(p, [NoJob EXCEPT !.seen = Leased])
  /\ UNCHANGED <<store, log, world, bounds>>

\* The leases that were too old when the sweep read its clock.
TooOldSwapped(p) == {s \in job[p].seen \cap Leased : leases[s].fresh}  \* mutant
TooOld(p) == {s \in job[p].seen \cap Leased : ~leases[s].fresh}

SwMget(p) ==
  /\ pc[p] = "sw_mget"
  /\ IF TooOld(p) = {} THEN Reply(p)
     ELSE Goto(p, "sw_next") /\ Set(p, [NoJob EXCEPT !.todo = TooOld(p)])
  /\ UNCHANGED <<store, log, world, bounds>>

\* The loop body: release, whose getLease finds a lease or nothing to do.
SwNext(p) ==
  /\ pc[p] = "sw_next"
  /\ \E s \in job[p].todo :
       LET rest == [NoJob EXCEPT !.todo = job[p].todo \ {s}] IN
       \/ BeginRelease(p, s, "idle", rest)
       \/ /\ leases[s] = None
          /\ IF rest.todo = {} THEN Reply(p) ELSE Set(p, rest) /\ UNCHANGED pc
  /\ UNCHANGED <<store, log, world, bounds>>

-----------------------------------------------------------------------------
(* The environment *)

\* LEASE_TTL_MS passes without a heartbeat.  A sweep compares with the clock
\* it read before KEYS, so what expires before its MGET is for the next one.
Expire(s) ==
  /\ leases[s] # None /\ leases[s].fresh
  /\ \A p \in Sweepers : pc[p] # "sw_mget"
  /\ leases' = [leases EXCEPT ![s].fresh = FALSE]
  /\ UNCHANGED <<activeCount, bound, tickets, queue, log, world, pc, job, bounds>>

\* The broker process dies and is restarted: the handlers are gone, and Kafka
\* delivers again what the consumer finished and did not commit.  A consumer
\* that has committed nothing starts at the end: subscribe does not ask for the
\* beginning.
Crash ==
  /\ Fault("crash")
  /\ pc' = [p \in Proc |-> "idle"] /\ job' = [p \in Proc |-> NoJob]
  /\ \E committed \in 0..offset :
       offset' = IF committed = 0 THEN Len(topic) ELSE committed
  /\ UNCHANGED <<store, topic, world, issued>>

-----------------------------------------------------------------------------
(* The specification *)

ClientCall(p, s) ==
  \/ \E mode \in ModesOf[s] : Acquire(p, s, mode)
  \/ \E reason \in Reasons : Release(p, s, reason)
  \/ Heartbeat(p, s)

SandboxCall(p) == \E id \in SandboxIds : Exec(p, id)

Step(p) ==
  \/ AcqAttach(p) \/ AcqSlot(p) \/ AcqUndo(p)
  \/ EnqSet(p) \/ EnqPush(p) \/ EnqPublish(p)
  \/ ClLookup(p) \/ ClStart(p) \/ ClForget(p) \/ ClForgetOwner(p) \/ ClCreate(p)
  \/ ClBind(p) \/ ClWorkDir(p) \/ ClUserDir(p) \/ ClSave(p)
  \/ RelDelete(p) \/ RelKeys(p) \/ RelMget(p) \/ RelStop(p) \/ RelKeep(p) \/ RelKill(p)
  \/ RelUnbind(p) \/ RelOwner(p) \/ RelUnbindOwner(p) \/ RelClear(p) \/ RelSlot(p)
  \/ PqPop(p) \/ PqMore(p)
  \/ FtClaim(p) \/ FtSlot(p) \/ FtReset(p) \/ FtRequeue(p) \/ FtPush(p)
  \/ FtReady(p) \/ FtUndo(p) \/ FtFail(p)
  \/ HbSave(p) \/ SwMget(p) \/ SwNext(p)

Quiet == (\A p \in Proc : pc[p] = "idle") /\ offset = Len(topic)

\* Nothing runs and nothing is left to consume: the broker waits for a call.
AwaitCalls == Quiet /\ UNCHANGED vars

Next ==
  \/ \E p \in Workers, s \in Sessions : ClientCall(p, s)
  \/ \E p \in Workers : SandboxCall(p)
  \/ \E p \in Sweepers : SwKeys(p)
  \/ Consume
  \/ \E p \in Proc : Step(p)
  \/ \E s \in Sessions : Expire(s)
  \/ Crash
  \/ AwaitCalls

Spec == Init /\ [][Next]_vars

\* The event loop runs every handler to its end, the consumer keeps polling
\* and the interval timer keeps firing.  No call of a client is ever due.
FairSpec ==
  /\ Spec
  /\ \A p \in Proc : WF_vars(Step(p))
  /\ WF_vars(Consume)
  /\ \A p \in Sweepers : WF_vars(SwKeys(p))
=============================================================================
