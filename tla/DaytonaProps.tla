---------------------------- MODULE DaytonaProps ----------------------------
(* What the Daytona provider promises. *)
EXTENDS Daytona

\* The sandbox and the requests' variables hold values of their kind, and a
\* request past its first lookup has a copy of a sandbox.
TypeOK ==
  /\ box \in Box
  /\ pc \in [Handlers -> Calls \cup {"idle"}] /\ job \in [Handlers -> Job]
  /\ \A p \in Handlers :
       pc[p] \in Calls \ {"create", "look", "exec"} => job[p].copy # None
  /\ {known, killed, calm} \subseteq BOOLEAN
  /\ issued \in 0..MaxCalls /\ faults \in 0..MaxFaults

\* The operations that make a call.
OpsAt(call) ==
  CASE call \in {"create", "delete"} -> {call}
    [] call = "look"    -> {"get", "start", "stop", "delete", "resize", "exec"}
    [] call = "wake"    -> {"get", "start", "resize", "exec"}
    [] call = "start"   -> {"create", "resize"}
    [] call = "stop"    -> {"stop", "resize"}
    [] call = "exec"    -> {"exec", "handle_exec", "handle_file"}
    [] OTHER            -> {"resize"}

\* The inductive invariant: a call is made by an operation that makes it, with
\* the amounts that operation needs, and on a sandbox its client was given.
IInv ==
  /\ TypeOK
  /\ \A p \in Handlers : pc[p] # "idle" =>
       /\ job[p].op \in OpsAt(pc[p])
       /\ job[p].op \in {"create", "resize"} => job[p].ask \in Ask
       /\ job[p].op # "create" => known

\* What a request that is alone with the sandbox knows of it at each call, and
\* the first request is the one that creates it.
Fits(p) ==
  /\ pc[p] = "create" => box.state = "absent"
  /\ pc[p] \in {"stop", "refresh"} \/ (pc[p] = "exec" /\ job[p].op = "exec") => box.state = "started"
  /\ pc[p] = "resize" => ~(box.state = "started" /\ Less(Whole(job[p].ask), box.size))
  /\ pc[p] \in {"start", "refresh"} => box.size = Whole(job[p].ask)

CalmOK ==
  /\ issued = 0 => box.state = "absent" /\ AllIdle
  /\ calm => \A p \in Handlers : pc[p] # "idle" =>
       Fits(p) /\ \A q \in Handlers : q # p => pc[q] = "idle"

Replies(p) == pc[p] # "idle" /\ pc'[p] = "idle" /\ job'[p].ans = "ok"
Throws(p)  == pc[p] # "idle" /\ pc'[p] = "idle" /\ job'[p].ans = "error"

\* A create or resize that is answered well leaves the sandbox running, with
\* at least what was asked for and less than one unit more, whether it grows,
\* shrinks or both, and whether the sandbox was started or stopped before.  A
\* request that names no disk asks for 3 GiB, whatever the sandbox has.
SizeTakes ==
  [][\A p \in Handlers : Replies(p) /\ job[p].op \in {"create", "resize"} /\ calm =>
       /\ box'.state = "started"
       /\ \A a \in Amount : LET ask == Wanted(job[p].ask, a) IN
            /\ 2 * box.size[a] >= ask
            /\ 2 * box.size[a] < ask + 2 \/ box.size[a] = 1]_vars

\* An answered get, start or command found or made the sandbox started,
\* an answered stop left it stopped, unless requests overlapped.
LeavesState ==
  [][\A p \in Handlers : Replies(p) /\ calm =>
       /\ job[p].op \in {"get", "start", "exec", "handle_exec", "handle_file"} => box'.state = "started"
       /\ job[p].op = "stop" => box'.state = "stopped"]_vars

\* Without faults and overlapping requests an operation fails only because
\* the sandbox is gone.  Exceptions: a command of the plugin's handle, which
\* does not look, when the sandbox is stopped; a file of the handle that is not
\* there; and a resize to another disk, which the code does not compare.  CPU
\* and memory are never the reason that Daytona refuses a resize.
Excused(p) ==
  \/ job[p].op = "handle_exec" /\ box.state = "stopped"
  \/ job[p].op = "handle_file"
  \/ job[p].op = "resize" /\ pc[p] = "resize" /\ OtherDisk(p)
NoSpuriousError ==
  [][\A p \in Handlers : Throws(p) /\ calm /\ faults' = 0 => ~There \/ Excused(p)]_vars

\* The promises of SandboxLife: the sandbox is announced when it exists, and
\* a delete is confirmed only when it is gone, also when requests overlap.
Life == INSTANCE SandboxLife WITH
  Ids    <- {"box"}, Doubtful <- {},
  life   <- [b \in {"box"} |-> box.state],
  known  <- IF known THEN {"box"} ELSE {},
  killed <- IF killed THEN {"box"} ELSE {}
KeepsPromises == Life!Spec
=============================================================================
