---------------------------- MODULE DockerRuntime ----------------------------
(***************************************************************************)
(* The sandbox runtime (packages/sandbox-runtime): HTTP requests become    *)
(* calls to the Docker daemon and, for the AIO backend, to an HTTP server  *)
(* inside the container.  Besides the containers there is a Map of records *)
(* in memory.  A record is one shared object: every handler that resolved  *)
(* a sandbox reads and writes the same fields of it (two lookups that both *)
(* miss the Map make an object each; here the second refills the first).   *)
(*                                                                         *)
(* A handler that waits is at the call it made.  The daemon performs the   *)
(* call and leaves an answer in one step, the handler goes on with the     *)
(* answer in another: between the two the other handlers run, so answers   *)
(* arrive in any order and may be old when they are read.                  *)
(***************************************************************************)
EXTENDS Integers, FiniteSets

CONSTANTS
  Ids,         \* sandbox ids, each with a container of its own
  Addrs,       \* addresses Docker gives to running containers
  Handlers,    \* HTTP requests served at the same time
  Backends,    \* values of RUNTIME_BACKEND a start of the process may find
  Ops,         \* which routes are called
  None,
  Has404,      \* ids whose container id, 64 hex digits, has "404" in it
  FaultKinds,  \* which of "docker", "exit" and "restart" may happen
  MaxFaults,   \* bound: how many of them
  MaxCalls     \* bound: how many requests

ASSUME RuntimeAssumption ==
  /\ Backends \subseteq {"e2b", "aio"} /\ Backends # {}
  /\ Ops \subseteq {"create", "get", "start", "stop", "resize", "kill", "exec", "file"}
  /\ Has404 \subseteq Ids
  /\ FaultKinds \subseteq {"docker", "exit", "restart"}
  /\ MaxFaults \in Nat /\ MaxCalls \in Nat

VARIABLES
  \* Docker
  container,  \* id -> status of its container
  label,      \* id -> the backend in the container's labels
  addr,       \* id -> the address of the container while it runs
  late,       \* calls of an earlier process that the daemon has not finished
  \* the process
  backend,    \* its own RUNTIME_BACKEND
  record,     \* id -> the record object
  cached,     \* the ids in the Map
  pc, job,
  \* history
  known,      \* ids that a create has answered
  killed,     \* ids whose kill was answered
  calm,       \* ids whose requests never overlapped and whose container never exited by itself
  \* bounds
  issued, faults

docker  == <<container, label, addr, late>>
memory  == <<backend, record, cached>>
history == <<known, killed, calm>>
bounds  == <<issued, faults>>
vars    == <<docker, memory, pc, job, history, bounds>>

Status == {"created", "running", "exited"}
Record == [backend : {"e2b", "aio"}, state : {"started", "stopped"}, endpoint : Addrs \cup {None}]

\* None is no other value, and an address is not taken for a word of the code.
Words == Status \cup {"e2b", "aio", "ok", "gone", "error", "error404", "create", "get", "start", "stop", "kill",
                     "reply", "check", "again", "send", "file", "update"}
ASSUME NamesAssumption ==
  None \notin Ids \cup Addrs \cup Record \cup Words /\ Addrs \cap Words = {}

\* What a handler waits for.  "endpoint" is the inspect of resolveEndpoint and
\* "fill" the same from within resolve; "exec" is docker exec, "fetch" a
\* request to the AIO server.
Waits == {"image", "create", "start", "stop", "remove", "list", "fill", "inspect",
          "endpoint", "ready", "update", "exec", "fetch"}

\* Local variables: the route, the sandbox, the method at work, what its
\* caller does when it returns, the address of an AIO request, the answer.
Job == [op : Ops \cup {None}, id : Ids \cup {None},
        sub : {"create", "get", "start", "stop", "kill", None},
        then : {"reply", "check", "again", "send", "file", "update", None},
        to : Addrs \cup {None},
        ans : {"ok", "gone", "error", "error404", None} \cup Status \cup Addrs]
NoJob == [op |-> None, id |-> None, sub |-> None, then |-> None, to |-> None, ans |-> None]

Exists(id) == container[id] \in Status
Running(id) == container[id] = "running"
At(p, wait, sub) == pc[p] = wait /\ job[p].sub = sub
Id(p) == job[p].id

Init ==
  /\ container = [id \in Ids |-> "absent"]
  /\ label = [id \in Ids |-> None] /\ addr = [id \in Ids |-> None] /\ late = {}
  /\ backend \in Backends
  /\ record = [id \in Ids |-> None] /\ cached = {}
  /\ pc = [p \in Handlers |-> "idle"] /\ job = [p \in Handlers |-> NoJob]
  /\ known = {} /\ killed = {} /\ calm = Ids
  /\ issued = 0 /\ faults = 0

Fault(kind) == kind \in FaultKinds /\ faults < MaxFaults /\ faults' = faults + 1

-----------------------------------------------------------------------------
(* The daemon and the AIO servers *)

Asked(p, wait) == pc[p] = wait /\ job[p].ans = None
Answer(p, a) == job' = [job EXCEPT ![p].ans = a]

\* Calls that only look, and docker update.
Look(p, a) == Answer(p, a) /\ UNCHANGED <<docker, memory, pc, history, bounds>>

DImage(p) == Asked(p, "image") /\ Look(p, "ok")
DInspect(p) ==
  /\ \E wait \in {"inspect", "list"} : Asked(p, wait)
  /\ Look(p, IF Exists(Id(p)) THEN container[Id(p)] ELSE "gone")
DEndpoint(p) ==  \* a container that does not run has no address
  /\ \E wait \in {"endpoint", "fill"} : Asked(p, wait)
  /\ Look(p, IF Running(Id(p)) THEN addr[Id(p)] ELSE "error")
DUpdate(p) == Asked(p, "update") /\ Look(p, IF Exists(Id(p)) THEN "ok" ELSE "gone")
DExec(p) == Asked(p, "exec") /\ Look(p, IF Running(Id(p)) THEN "ok" ELSE "error")

\* Whoever has the address by now answers, if an AIO server runs there.
Listener(a) == {c \in Ids : Running(c) /\ label[c] = "aio" /\ addr[c] = a}
DAio(p) ==
  /\ \E wait \in {"ready", "fetch"} : Asked(p, wait)
  /\ Look(p, IF Listener(job[p].to) = {} THEN "error" ELSE "ok")

\* Calls that change the container.  The answer may be lost on its way.
Change(p, st, a) ==
  /\ container' = [container EXCEPT ![Id(p)] = st]
  /\ addr' = [addr EXCEPT ![Id(p)] = a]
  /\ \/ Answer(p, "ok") /\ UNCHANGED faults
     \/ Fault("docker") /\ Answer(p, "error")
  /\ UNCHANGED <<late, memory, pc, history, issued>>
Refuse(p, a) == Look(p, IF Exists(Id(p)) THEN a ELSE "gone")

DCreate(p) ==
  /\ Asked(p, "create") /\ Change(p, "created", None)
  /\ label' = [label EXCEPT ![Id(p)] = backend]
DStart(p) ==  \* 304 is an error for dockerode
  /\ Asked(p, "start")
  /\ \/ (~Exists(Id(p)) \/ Running(Id(p))) /\ Refuse(p, "error")
     \/ /\ Exists(Id(p)) /\ ~Running(Id(p))
        /\ \E a \in Addrs : (\A c \in Ids : addr[c] # a) /\ Change(p, "running", a)
        /\ UNCHANGED label
DStop(p) ==
  /\ Asked(p, "stop")
  /\ \/ ~Running(Id(p)) /\ Refuse(p, "error")
     \/ Running(Id(p)) /\ Change(p, "exited", None) /\ UNCHANGED label
DRemove(p) ==
  /\ Asked(p, "remove")
  /\ \/ ~Exists(Id(p)) /\ Refuse(p, "gone")
     \/ Exists(Id(p)) /\ Change(p, "removed", None) /\ UNCHANGED label

\* A call that fails before it had an effect; an AIO server that is not ready
\* in time.  Docker's 409 and 500 quote the container id, and kill alone reads
\* the text of an error.
Quotes404(p) ==
  Id(p) \in Has404 /\ job[p].sub = "kill" /\ pc[p] \in {"inspect", "stop", "remove"}
DFails(p) ==
  /\ pc[p] # "idle" /\ job[p].ans = None
  /\ Fault("docker")
  /\ Answer(p, "error") \/ (Quotes404(p) /\ Answer(p, "error404"))
  /\ UNCHANGED <<docker, memory, pc, history, issued>>

\* The main process of a container ends.
Exit(id) ==
  /\ Running(id) /\ Fault("exit")
  /\ container' = [container EXCEPT ![id] = "exited"]
  /\ addr' = [addr EXCEPT ![id] = None]
  /\ calm' = calm \ {id}
  /\ UNCHANGED <<label, late, memory, pc, job, known, killed, issued>>

\* The daemon finishes a call whose process is gone: nobody reads its answer.
Finish(c) ==
  LET to == [start |-> "running", stop |-> "exited", remove |-> "removed"][c.call] IN
  /\ c \in late /\ late' = late \ {c}
  /\ \/ /\ Exists(c.id) /\ (c.call = "start" => ~Running(c.id)) /\ (c.call = "stop" => Running(c.id))
        /\ container' = [container EXCEPT ![c.id] = to]
        /\ \/ /\ c.call = "start"
              /\ \E a \in Addrs : (\A d \in Ids : addr[d] # a) /\ addr' = [addr EXCEPT ![c.id] = a]
           \/ c.call # "start" /\ addr' = [addr EXCEPT ![c.id] = None]
     \/ UNCHANGED <<container, addr>>  \* refused, or failed
  /\ UNCHANGED <<label, memory, pc, job, history, bounds>>

Daemon(p) ==
  \/ DImage(p) \/ DCreate(p) \/ DStart(p) \/ DStop(p) \/ DRemove(p)
  \/ DInspect(p) \/ DEndpoint(p) \/ DUpdate(p) \/ DExec(p) \/ DAio(p)

-----------------------------------------------------------------------------
(* Idioms of the handlers *)

Wait(p, w, j) == pc' = [pc EXCEPT ![p] = w] /\ job' = [job EXCEPT ![p] = [j EXCEPT !.ans = None]]

\* The HTTP response: its status is what is left of the handler.
Respond(p, a) == pc' = [pc EXCEPT ![p] = "idle"] /\ job' = [job EXCEPT ![p] = [NoJob EXCEPT !.ans = a]]
Reply(p) == Respond(p, "ok")
Throw(p) == Respond(p, "error")

\* resolve, which every method starts with: a cached record saves the lookup.
Begin(p, j, sub, then) ==
  Wait(p, IF j.id \in cached' THEN "inspect" ELSE "list", [j EXCEPT !.sub = sub, !.then = then])

Got(p, wait) == pc[p] = wait /\ job[p].ans \notin {None, "gone", "error", "error404"}
Sub(p, sub) == job[p].sub = sub

\* mapDockerState
MapStateRaw(st) == IF st = "running" THEN "started" ELSE st  \* mutant: exited is not mapped
MapState(st) == IF st = "running" THEN "started" ELSE "stopped"

SetRecord(p, r) == record' = [record EXCEPT ![Id(p)] = r]
Now(p) == record'[Id(p)]

-----------------------------------------------------------------------------
(* What the caller of a method does when it returns *)

\* exec on a started sandbox, by the backend of its record.
Proceed(p) ==
  \/ Now(p).backend = "aio" /\ Begin(p, job[p], "get", "send")
  \/ Now(p).backend = "e2b" /\ Wait(p, "exec", job[p])
Checked(p) ==
  \/ Now(p).state = "started" /\ Proceed(p)
  \/ Now(p).state # "started" /\ Begin(p, job[p], "start", "again")

Continue(p) ==
  LET then == job[p].then IN
  \/ then = "reply" /\ Reply(p)
  \/ then = "update" /\ Wait(p, "update", job[p])
  \/ then = "check" /\ Checked(p)
  \/ then = "again" /\ Proceed(p)
  \/ then = "send" /\ Now(p).endpoint = None /\ Throw(p)
  \/ /\ then = "send" /\ Now(p).endpoint # None
     /\ Wait(p, "fetch", [job[p] EXCEPT !.to = Now(p).endpoint])
  \/ then = "file" /\ Now(p).backend = "aio" /\ Checked(p)
  \/ then = "file" /\ Now(p).backend = "e2b" /\ Begin(p, job[p], "get", "check")

\* The method is over: meta.set, then the caller goes on.
Return(p) == cached' = cached \cup {Id(p)} /\ Continue(p)

-----------------------------------------------------------------------------
(* The methods of the manager, one action per answer they wait for *)

others == <<docker, backend, history, bounds>>

\* The route calls a method, which calls resolve.
Method == [get    |-> <<"get", "reply">>,   start |-> <<"start", "reply">>,
           stop   |-> <<"stop", "reply">>,  kill  |-> <<"kill", "reply">>,
           resize |-> <<"get", "update">>,  exec  |-> <<"get", "check">>,
           file   |-> <<"get", "file">>]

Call(p, op, id) ==
  /\ pc[p] = "idle" /\ issued < MaxCalls /\ issued' = issued + 1
  /\ op \in Ops \ {"create"} /\ id \in known
  /\ UNCHANGED <<docker, memory, known, killed, faults>>
  /\ Begin(p, [NoJob EXCEPT !.op = op, !.id = id], Method[op][1], Method[op][2])
  /\ calm' = IF \E q \in Handlers : Id(q) = id THEN calm \ {id} ELSE calm

CallCreate(p, id) ==
  /\ pc[p] = "idle" /\ issued < MaxCalls /\ issued' = issued + 1
  /\ "create" \in Ops
  /\ container[id] = "absent" /\ \A q \in Handlers : Id(q) # id
  /\ Wait(p, "image", [NoJob EXCEPT !.op = "create", !.id = id, !.sub = "create"])
  /\ UNCHANGED <<docker, memory, history, faults>>

\* createE2b and createAio: ensureImage (and ensureNetwork), createContainer, start.
Pulled(p) ==
  /\ Got(p, "image") /\ Wait(p, "create", job[p])
  /\ UNCHANGED <<record, cached, others>>
MadeContainer(p) ==
  /\ Got(p, "create") /\ Wait(p, "start", job[p])
  /\ UNCHANGED <<record, cached, others>>
Created(p) ==
  /\ SetRecord(p, [backend |-> backend, state |-> "started", endpoint |-> job[p].to])
  /\ cached' = cached \cup {Id(p)} /\ known' = known \cup {Id(p)}
  /\ Reply(p)
  /\ UNCHANGED <<docker, backend, killed, calm, bounds>>

\* resolve: the record of a sandbox that is not in the Map is made from the
\* container's labels, then its endpoint is looked up if it runs.
BackendOwn(id) == backend  \* mutant: the label is not looked at
BackendOf(id) == IF label[id] = "aio" \/ backend = "aio" THEN "aio" ELSE "e2b"
Listed(p) ==
  LET id == Id(p)
      b  == BackendOf(id)
      st == MapState(job[p].ans)
  IN
  /\ Got(p, "list")
  /\ \/ b = "aio" /\ st = "started" /\ Wait(p, "fill", job[p]) /\ UNCHANGED <<record, cached>>
     \/ /\ ~(b = "aio" /\ st = "started")
        /\ SetRecord(p, [backend |-> b, state |-> st, endpoint |-> None])
        /\ cached' = cached \cup {id} /\ Wait(p, "inspect", job[p])
  /\ UNCHANGED others
Filled(p) ==  \* an error leaves the endpoint undefined
  /\ pc[p] = "fill" /\ job[p].ans # None
  /\ SetRecord(p, [backend |-> "aio", state |-> "started",
                   endpoint |-> IF job[p].ans \in Addrs THEN job[p].ans ELSE None])
  /\ cached' = cached \cup {Id(p)} /\ Wait(p, "inspect", job[p])
  /\ UNCHANGED others

\* get, after the inspect.
InspectedGet(p) ==
  /\ Got(p, "inspect") /\ Sub(p, "get")
  /\ SetRecord(p, [record[Id(p)] EXCEPT !.state = MapState(job[p].ans)])
  /\ IF Now(p).backend = "aio" /\ job[p].ans = "running"
     THEN Wait(p, "endpoint", job[p]) /\ UNCHANGED cached
     ELSE Return(p)
  /\ UNCHANGED others

\* start, after the inspect or the start of the container.
Started(p) ==
  /\ SetRecord(p, [record[Id(p)] EXCEPT !.state = "started"])
  /\ IF Now(p).backend = "aio"
     THEN Wait(p, "endpoint", job[p]) /\ UNCHANGED cached
     ELSE Return(p)
InspectedStartBlind(p) ==  \* mutant: a running container is started as well
  /\ Got(p, "inspect") /\ Sub(p, "start") /\ Wait(p, "start", job[p])
  /\ UNCHANGED <<record, cached, others>>
InspectedStart(p) ==
  /\ Got(p, "inspect") /\ Sub(p, "start")
  /\ \/ job[p].ans = "running" /\ Started(p)
     \/ job[p].ans # "running" /\ Wait(p, "start", job[p]) /\ UNCHANGED <<record, cached>>
  /\ UNCHANGED others
StartedContainer(p) ==
  /\ Got(p, "start")
  /\ \/ Sub(p, "start") /\ Started(p) /\ UNCHANGED others
     \/ Sub(p, "create") /\ backend = "e2b" /\ Created(p)
     \/ /\ Sub(p, "create") /\ backend = "aio" /\ Wait(p, "endpoint", job[p])
        /\ UNCHANGED <<record, cached, others>>

\* resolveEndpoint has answered, in get, in start and in createAio.
EndpointOld(p) ==  \* mutant: an endpoint that is known is not looked up again
  LET old == record[Id(p)].endpoint IN IF old = None THEN job[p].ans ELSE old
Endpoint(p) == job[p].ans
GotEndpoint(p) ==
  LET r == IF Sub(p, "create") THEN record[Id(p)]
           ELSE [record[Id(p)] EXCEPT !.endpoint = Endpoint(p)]
  IN
  /\ Got(p, "endpoint") /\ SetRecord(p, r)
  /\ IF Sub(p, "get") THEN Return(p)
     ELSE Wait(p, "ready", [job[p] EXCEPT !.to = job[p].ans]) /\ UNCHANGED cached
  /\ UNCHANGED others
Ready(p) ==
  /\ Got(p, "ready")
  /\ \/ Sub(p, "start") /\ UNCHANGED record /\ Return(p) /\ UNCHANGED others
     \/ Sub(p, "create") /\ Created(p)

\* stop and kill, after the inspect, the stop and the remove.
StoppedStale(p) == UNCHANGED record /\ Return(p)  \* mutant: the state is not written
Stopped(p) ==
  SetRecord(p, [record[Id(p)] EXCEPT !.state = "stopped"]) /\ Return(p)
InspectedStop(p) ==
  /\ Got(p, "inspect") /\ Sub(p, "stop")
  /\ \/ job[p].ans = "running" /\ Wait(p, "stop", job[p]) /\ UNCHANGED <<record, cached>>
     \/ job[p].ans # "running" /\ Stopped(p)
  /\ UNCHANGED others
InspectedKill(p) ==
  /\ Got(p, "inspect") /\ Sub(p, "kill")
  /\ Wait(p, IF job[p].ans = "running" THEN "stop" ELSE "remove", job[p])
  /\ UNCHANGED <<record, cached, others>>
StoppedContainer(p) ==
  /\ Got(p, "stop")
  /\ \/ Sub(p, "stop") /\ Stopped(p)
     \/ Sub(p, "kill") /\ Wait(p, "remove", job[p]) /\ UNCHANGED <<record, cached>>
  /\ UNCHANGED others

\* kill ends with a removed container, or with an error whose text says
\* "No such container" or has "404" in it, be it from the container's id.
SwallowedAll(p) ==  \* mutant: whatever the error
  job[p].ans \in {"gone", "error", "error404"} /\ pc[p] \in {"inspect", "stop", "remove"}
Swallowed(p) == job[p].ans \in {"gone", "error404"} /\ pc[p] \in {"inspect", "stop", "remove"}
Killed(p) ==
  /\ Sub(p, "kill") /\ (Got(p, "remove") \/ Swallowed(p))
  /\ cached' = cached \ {Id(p)} /\ killed' = killed \cup {Id(p)}
  /\ Reply(p)
  /\ UNCHANGED <<docker, backend, record, known, calm, bounds>>

\* resize: the second get.
Updated(p) ==
  /\ Got(p, "update")
  /\ cached' = cached \cup {Id(p)} /\ UNCHANGED record /\ Begin(p, job[p], "get", "reply")
  /\ UNCHANGED others

\* exec, readFile and writeFile: the command's result.  A file call throws when
\* its command ends with another code than 0, or the AIO server refuses it.
Ran(p) ==
  /\ Got(p, "exec") \/ Got(p, "fetch")
  /\ Reply(p) \/ (job[p].op = "file" /\ Throw(p))
  /\ UNCHANGED <<record, cached, others>>

\* A call that threw.  createAio removes the container it made.
CleansNot(p) == FALSE  \* mutant: no catch
Cleans(p) == Sub(p, "create") /\ backend = "aio" /\ pc[p] \in {"start", "endpoint", "ready"}
Catch(p) ==
  /\ job[p].ans \in {"gone", "error"} /\ pc[p] \notin {"idle", "fill", "remove"}
  /\ ~(Sub(p, "kill") /\ Swallowed(p))
  /\ IF Cleans(p) THEN Wait(p, "remove", job[p]) ELSE Throw(p)
  /\ UNCHANGED <<record, cached, others>>
CatchRemove(p) ==  \* the cleanup of createAio throws whatever came of it
  /\ pc[p] = "remove" /\ job[p].ans # None
  /\ Sub(p, "create") \/ (Sub(p, "kill") /\ job[p].ans = "error")
  /\ Throw(p) /\ UNCHANGED <<record, cached, others>>

Handle(p) ==
  \/ Pulled(p) \/ MadeContainer(p) \/ Listed(p) \/ Filled(p)
  \/ InspectedGet(p) \/ InspectedStart(p) \/ InspectedStop(p) \/ InspectedKill(p)
  \/ StartedContainer(p) \/ GotEndpoint(p) \/ Ready(p) \/ StoppedContainer(p)
  \/ Killed(p) \/ Updated(p) \/ Ran(p) \/ Catch(p) \/ CatchRemove(p)

\* The process is started again, perhaps with another RUNTIME_BACKEND.  What it
\* asked of Docker goes on; a create's own calls may be taken as done before or
\* never, since no other request has its id.
Underway(p) == pc[p] \in {"start", "stop", "remove"} /\ job[p].ans = None /\ ~Sub(p, "create")
Restart ==
  LET calls == {[call |-> pc[p], id |-> Id(p)] : p \in {q \in Handlers : Underway(q)}} IN
  /\ Fault("restart") /\ backend' \in Backends
  /\ record' = [id \in Ids |-> None] /\ cached' = {}
  /\ pc' = [p \in Handlers |-> "idle"] /\ job' = [p \in Handlers |-> NoJob]
  /\ late' = late \cup calls /\ calm' = calm \ {c.id : c \in calls}
  /\ UNCHANGED <<container, label, addr, known, killed, issued>>

-----------------------------------------------------------------------------
(* The specification *)

\* Only then may the program wait: a handler stuck at an answer is a deadlock.
Idle == \A p \in Handlers : pc[p] = "idle"
AwaitCalls == Idle /\ UNCHANGED vars

Next ==
  \/ \E p \in Handlers, id \in Ids : CallCreate(p, id) \/ \E op \in Ops : Call(p, op, id)
  \/ \E p \in Handlers : Daemon(p) \/ DFails(p) \/ Handle(p)
  \/ \E id \in Ids : Exit(id)
  \/ \E c \in late : Finish(c)
  \/ Restart
  \/ AwaitCalls

Spec == Init /\ [][Next]_vars
=============================================================================
