---------------------------- MODULE RuntimeProps ----------------------------
(* What the sandbox runtime promises, over the states of DockerRuntime. *)
EXTENDS DockerRuntime

\* Containers, records and the handlers' variables hold values of their kind,
\* and every id in the Map has a record.
TypeOK ==
  /\ container \in [Ids -> Status \cup {"absent", "removed"}]
  /\ label \in [Ids -> {"e2b", "aio", None}] /\ addr \in [Ids -> Addrs \cup {None}]
  /\ late \subseteq [call : {"start", "stop", "remove"}, id : Ids]
  /\ backend \in Backends
  /\ record \in [Ids -> Record \cup {None}]
  /\ cached \subseteq Ids /\ \A id \in cached : record[id] # None
  /\ pc \in [Handlers -> Waits \cup {"idle"}] /\ job \in [Handlers -> Job]
  /\ known \subseteq Ids /\ killed \subseteq known /\ calm \subseteq Ids
  /\ issued \in 0..MaxCalls /\ faults \in 0..MaxFaults

\* A handler answers its request, well or with an error.
Replies(p) == pc[p] # "idle" /\ pc'[p] = "idle" /\ job'[p].ans = "ok"
Throws(p)  == pc[p] # "idle" /\ pc'[p] = "idle" /\ job'[p].ans = "error"

-----------------------------------------------------------------------------
(* Safety *)

\* A command or a file goes to the AIO server of the sandbox it names, unless
\* other requests or the container's own end got in between: the endpoint is
\* looked up after the start, so an address that another container took over
\* while the sandbox was stopped is never used (exec, readFile, writeFile).
RunsInOwn ==
  [][\A p \in Handlers :
       Asked(p, "fetch") /\ job'[p].ans = "ok" /\ Id(p) \in calm
         => Listener(job[p].to) = {Id(p)}]_vars

\* A get, start or stop that is answered well has left in the shared record
\* the state Docker has, and create, exec and the file calls leave a sandbox
\* that runs, also after failed calls, restarts and commands of other routes.
AnswersTrue ==
  [][\A p \in Handlers : Replies(p) /\ Id(p) \in calm =>
       LET st == container[Id(p)] IN
       /\ job[p].op \in {"get", "start", "stop", "resize"} => record'[Id(p)].state = MapState(st)
       /\ job[p].op \in {"start", "create", "exec", "file"} => st = "running"
       /\ job[p].op = "stop" => st = "exited" \/ st = "created"]_vars

\* Without faults a request on its own sandbox fails only because that is
\* gone, or, for a file, because the sandbox runs and its own command ended in
\* an error: the inspect before start and stop keeps Docker's 304, an error for
\* dockerode, away from the caller, and a file call never meets a sandbox that
\* was not started for it.
OwnCommand(p) == job[p].op = "file" /\ (Got(p, "exec") \/ Got(p, "fetch"))
NoSpuriousError ==
  [][\A p \in Handlers : Throws(p) /\ Id(p) \in calm /\ faults = 0
       => ~Exists(Id(p)) \/ (OwnCommand(p) /\ Running(Id(p)))]_vars

\* A container made for the AIO backend is never served by docker exec,
\* also by a process started again for the other backend (resolve).
AioKept == \A id \in cached : label[id] = "aio" => record[id].backend = "aio"

\* A create for the AIO backend that fails after its container was made, on
\* the start, the address or the readiness check, leaves no container behind,
\* unless a second fault hits the cleanup or the answer of createContainer
\* itself was lost (createAio; createE2b cleans nothing up).
FailedCreateCleans ==
  [][\A p \in Handlers :
       /\ Throws(p) /\ job[p].op = "create" /\ backend = "aio" /\ pc[p] # "create"
       /\ faults <= 1
       => ~Exists(Id(p))]_vars

-----------------------------------------------------------------------------
(* Refinement *)

lifeOf ==
  [id \in Ids |-> CASE container[id] = "absent"  -> "absent"
                   [] container[id] = "running" -> "started"
                   [] container[id] = "removed" -> "deleted"
                   [] OTHER                     -> "stopped"]

Life == INSTANCE SandboxLife WITH life <- lifeOf, Doubtful <- Has404

\* The runtime keeps the promises of SandboxLife: an id is given out once and
\* names a container, and a kill is confirmed only when the container is gone,
\* whichever of its three Docker calls found it missing.  Of the containers
\* with "404" in their id the last is not promised: kill takes their failed
\* removal for a container that is not there.
KeepsPromises == Life!Spec

=============================================================================
