----------------------------- MODULE RuntimeInv -----------------------------
(***************************************************************************)
(* The inductive invariant of the sandbox runtime: what a handler can be   *)
(* sure of at the call it waits for, whatever the other handlers do.       *)
(***************************************************************************)
EXTENDS RuntimeProps

\* The methods that wait for a call, and the answers it may leave.
SubsAt(call) ==
  CASE call \in {"image", "create"}            -> {"create"}
    [] call = "start"                          -> {"create", "start"}
    [] call = "stop"                           -> {"stop", "kill"}
    [] call = "remove"                         -> {"create", "kill"}
    [] call \in {"list", "fill", "inspect"}    -> {"get", "start", "stop", "kill"}
    [] call = "endpoint"                       -> {"create", "get", "start"}
    [] call = "ready"                          -> {"create", "start"}
    [] call = "exec"                           -> {"get", "start"}
    [] OTHER                                   -> {"get"}
AnswersAt(call) ==
  CASE call \in {"list", "inspect"}            -> Status \cup {"gone", "error", "error404"}
    [] call \in {"fill", "endpoint"}           -> Addrs \cup {"error"}
    [] call \in {"image", "create", "ready", "exec", "fetch"} -> {"ok", "error"}
    [] OTHER                                   -> {"ok", "gone", "error", "error404"}

\* What the caller of a method does next, by the route.
Plan(j) ==
  \/ j.op = "create" /\ j.sub = "create" /\ j.then = None
  \/ j.op \in {"get", "start", "stop", "kill"} /\ j.sub = j.op /\ j.then = "reply"
  \/ j.op = "resize" /\ j.sub = "get" /\ j.then \in {"update", "reply"}
  \/ j.op \in {"exec", "file"} /\ j.sub = "get" /\ j.then \in {"check", "send"}
  \/ j.op \in {"exec", "file"} /\ j.sub = "start" /\ j.then = "again"
  \/ j.op = "file" /\ j.sub = "get" /\ j.then = "file"
PlanAt(call, j) ==
  /\ Plan(j) /\ j.sub \in SubsAt(call)
  /\ call = "update" => j.op = "resize"
  /\ call = "fetch" => j.then = "send"
  /\ call = "exec" => j.op \in {"exec", "file"}

Formed(p) ==
  /\ Id(p) \in Ids /\ PlanAt(pc[p], job[p])
  /\ job[p].ans \in AnswersAt(pc[p]) \cup {None}
  /\ job[p].ans = "error404" => Quotes404(p)
  /\ pc[p] \in {"ready", "fetch"} => job[p].to \in Addrs

\* A method other than create is at work on a sandbox some client was given,
\* past resolve it finds a record, and it is told "gone" for good.
Resolved(p) ==
  ~Sub(p, "create") =>
    /\ Id(p) \in known
    /\ pc[p] \notin {"list", "fill"} => record[Id(p)] # None
    /\ pc[p] = "fill" => BackendOf(Id(p)) = "aio"
    /\ job[p].ans = "gone" \/ (pc[p] = "remove" /\ job[p].ans = "ok")
         => container[Id(p)] = "removed"

\* A create has its id to itself, and after createContainer a container with
\* the label of this process.  Nobody but Docker's faults gets in its way.
Made(p) == (pc[p] = "create" /\ job[p].ans = "ok") \/ pc[p] \in {"start", "endpoint", "ready"}
Creating(p) ==
  Sub(p, "create") =>
    /\ Id(p) \notin known \cup cached /\ record[Id(p)] = None
    /\ pc[p] = "image" \/ (pc[p] = "create" /\ job[p].ans = None) => container[Id(p)] = "absent"
    /\ Made(p) => Exists(Id(p)) /\ label[Id(p)] = backend
    /\ pc[p] \in {"endpoint", "ready", "remove"} => backend = "aio"
    /\ Id(p) \in calm \/ faults > 0
    /\ pc[p] = "remove" => faults > 0
    /\ pc[p] = "remove" /\ job[p].ans # None => faults > 1 \/ ~Exists(Id(p))

Alone(p) ==
  Sub(p, "create") \/ Id(p) \in calm => \A q \in Handlers : Id(q) = Id(p) => q = p

\* A record is never ahead of its container, its backend is one that serves
\* the container, and addresses are those of running containers, one each.
Sound(id) ==
  /\ container[id] = "absent" => id \notin known /\ id \in calm /\ record[id] = None
  /\ container[id] = "absent" <=> label[id] = None
  /\ record[id] # None /\ label[id] = "aio" => record[id].backend = "aio"
  /\ Running(id) <=> addr[id] # None
  /\ faults = 0 => label[id] \in {backend, None}
  /\ faults = 0 /\ record[id] # None => record[id].backend = label[id]
Apart == \A c, d \in Ids : addr[c] = addr[d] /\ addr[c] # None => c = d
Sandboxes == Apart /\ \A id \in Ids : Sound(id)

\* The calls an earlier process left behind are about sandboxes clients know,
\* and count as an overlap.
Leftovers == \A c \in late : c.id \in known \ calm

Work ==
  \A p \in Handlers :
    /\ pc[p] = "idle" => Id(p) = None
    /\ pc[p] # "idle" => Formed(p) /\ Resolved(p) /\ Creating(p) /\ Alone(p)

\* While requests for a sandbox do not overlap and it does not exit, what the
\* handler was told is still so, and only a fault makes a call fail.
UpAt(p) ==
  \/ pc[p] \in {"fill", "endpoint", "ready", "exec", "fetch"}
  \/ job[p].then = "send"
  \/ pc[p] = "stop" /\ job[p].ans = None
  \/ pc[p] = "start" /\ job[p].ans = "ok"
Knows(p) ==
  /\ UpAt(p) => Running(Id(p))
  /\ pc[p] = "create" => ~Running(Id(p))
  /\ pc[p] = "start" /\ job[p].ans = None => Exists(Id(p)) /\ ~Running(Id(p))
  /\ pc[p] = "stop" /\ job[p].ans = "ok" => container[Id(p)] = "exited"
  /\ pc[p] \in {"list", "inspect"} /\ job[p].ans \in Status => container[Id(p)] = job[p].ans
  /\ pc[p] \in {"fill", "endpoint"} /\ job[p].ans \in Addrs => job[p].ans = addr[Id(p)]
  /\ pc[p] \in {"ready", "fetch"} => job[p].to = addr[Id(p)]
  /\ pc[p] \in {"endpoint", "ready"} /\ ~Sub(p, "create") => record[Id(p)].state = "started"
  /\ pc[p] \in {"endpoint", "ready", "fetch"} /\ ~Sub(p, "create") => record[Id(p)].backend = "aio"
  /\ job[p].then = "send" => pc[p] \in {"inspect", "endpoint", "fetch"} /\ record[Id(p)].backend = "aio"
  /\ job[p].ans = "error" \/ (job[p].ans = "gone" /\ pc[p] \in {"start", "stop"})
       => faults > 0
Undisturbed == \A p \in Handlers : pc[p] # "idle" /\ Id(p) \in calm => Knows(p)

IInv == TypeOK /\ Sandboxes /\ Leftovers /\ Work /\ Undisturbed
=============================================================================
