------------------------------- MODULE Daytona -------------------------------
(***************************************************************************)
(* The Daytona provider of the broker (providers/daytona.ts) and the       *)
(* plugin's handle on a Daytona sandbox (daytona-handle.ts), for one       *)
(* sandbox.  A request looks the sandbox up and then works on its local    *)
(* copy of it, which only its own SDK calls bring up to date: requests     *)
(* that overlap act on states that are gone.                               *)
(*                                                                         *)
(* One action is one SDK call: the server performs it and the request goes *)
(* on with the answer, up to its next call.                                *)
(***************************************************************************)
EXTENDS Integers

CONSTANTS
  Handlers,    \* requests served at the same time
  Ops,         \* which operations are called
  Asks,        \* amounts asked for, in half units (1/2 CPU, 512 MiB)
  Disks,       \* disks asked for, in half GiB; None when the request names none
  None,
  MaxFaults,   \* bound: calls that fail and sandboxes that stop by themselves
  MaxCalls     \* bound: how many requests

ASSUME DaytonaAssumption ==
  /\ Ops \subseteq {"create", "get", "start", "stop", "delete", "resize", "exec",
                    "handle_exec", "handle_file"}
  /\ Asks \subseteq Nat /\ Disks \subseteq Nat \cup {None}
  /\ MaxFaults \in Nat /\ MaxCalls \in Nat

Amount == {"cpu", "memory", "disk"}
Size == [Amount -> Nat \ {0}]
Ask == [cpu : Asks, memory : Asks, disk : Disks]

\* diskGiB ?? 3
DefaultDisk == 6
Wanted(ask, a) == IF ask[a] = None THEN DefaultDisk ELSE ask[a]

AtLeastOne(n) == IF n < 1 THEN 1 ELSE n

\* Mutants of toDaytonaResources: rounded down; nothing is kept above zero.
WholeDown(ask) == [a \in Amount |-> AtLeastOne(Wanted(ask, a) \div 2)]
WholeZero(ask) == [a \in Amount |-> (Wanted(ask, a) + 1) \div 2]

\* toDaytonaResources: whole CPUs and GiB, rounded up, at least one.
Whole(ask) == [a \in Amount |-> AtLeastOne((Wanted(ask, a) + 1) \div 2)]

\* The disk is sent with the rest and not compared.
Less(e, f) == \E a \in {"cpu", "memory"} : e[a] < f[a]
Smallest == [a \in Amount |-> 1]

VARIABLES
  box,      \* the sandbox at Daytona: its state and size
  pc,       \* the SDK call a request makes next
  job,      \* its operation, the resources asked for, its copy, how it ended
  \* history
  known,    \* a create was answered with the sandbox
  killed,   \* a delete was answered well
  calm,     \* requests never overlapped
  \* bounds
  issued, faults

history == <<known, killed, calm>>
vars    == <<box, pc, job, history, issued, faults>>

Box == [state : {"absent", "started", "stopped", "deleted"}, size : Size]

ASSUME NoneAssumption == None \notin Box \cup Nat

Calls == {"create", "look", "wake", "start", "stop", "delete", "resize", "exec", "refresh"}
Job == [op : Ops \cup {None}, ask : Ask \cup {None},
        copy : Box \cup {None}, ans : {None, "ok", "error"}]
NoJob == [op |-> None, ask |-> None, copy |-> None, ans |-> None]

There == box.state \in {"started", "stopped"}

Init ==
  /\ box = [state |-> "absent", size |-> Smallest]
  /\ pc = [p \in Handlers |-> "idle"] /\ job = [p \in Handlers |-> NoJob]
  /\ known = FALSE /\ killed = FALSE /\ calm = TRUE
  /\ issued = 0 /\ faults = 0

-----------------------------------------------------------------------------
(* A request *)

FirstCall(op) ==
  CASE op = "create" -> "create" [] op \in {"handle_exec", "handle_file"} -> "exec" [] OTHER -> "look"

\* Every operation but create names a sandbox its client was given.
Begin(p, op, ask) ==
  /\ pc[p] = "idle" /\ issued < MaxCalls /\ issued' = issued + 1
  /\ IF op = "create" THEN issued = 0 ELSE known
  /\ pc' = [pc EXCEPT ![p] = FirstCall(op)]
  /\ job' = [job EXCEPT ![p] = [NoJob EXCEPT !.op = op, !.ask = ask]]
  /\ calm' = (calm /\ \A q \in Handlers : pc[q] = "idle")
  /\ UNCHANGED <<box, known, killed, faults>>

Request(p) ==
  \E op \in Ops :
    \E ask \in IF op \in {"create", "resize"} THEN Ask ELSE {None} : Begin(p, op, ask)

Ends(p, ans) ==
  /\ pc' = [pc EXCEPT ![p] = "idle"] /\ job' = [job EXCEPT ![p] = [NoJob EXCEPT !.ans = ans]]
  /\ killed' = (killed \/ (ans = "ok" /\ job[p].op = "delete"))
  /\ known' = (known \/ (ans = "ok" /\ job[p].op = "create"))

\* The method goes on with its copy of the sandbox as the call left it.
On(p, call, copy) ==
  /\ pc' = [pc EXCEPT ![p] = call] /\ job' = [job EXCEPT ![p].copy = copy]
  /\ UNCHANGED <<known, killed>>

\* Mutant: the memory alone is compared.
StopsFirstMemory(p, copy) ==
  Whole(job[p].ask)["memory"] < copy.size["memory"] /\ copy.state = "started"

\* resize stops the sandbox first when anything gets smaller.
StopsFirst(p, copy) == Less(Whole(job[p].ask), copy.size) /\ copy.state = "started"

Works(p, copy) ==
  LET op == job[p].op IN
  \/ op \in {"get", "start"} /\ Ends(p, "ok")
  \/ op = "exec" /\ On(p, "exec", copy)
  \/ op = "resize" /\ On(p, IF StopsFirst(p, copy) THEN "stop" ELSE "resize", copy)

-----------------------------------------------------------------------------
(* SDK calls *)

\* The call is done and the request goes on, or it throws: because the server
\* refuses, or because of a fault before or after the effect.
Call(p, call, ready, after, next) ==
  /\ pc[p] = call
  /\ \/ ready /\ box' = after /\ next /\ UNCHANGED faults
     \/ ~ready /\ Ends(p, "error") /\ UNCHANGED <<box, faults>>
     \/ /\ faults < MaxFaults /\ faults' = faults + 1
        /\ box' \in {box} \cup IF ready THEN {after} ELSE {}
        /\ Ends(p, "error")
  /\ UNCHANGED <<calm, issued>>

InState(st) == [box EXCEPT !.state = st]

Create(p) ==
  \E st \in {"started", "stopped"} :
    LET after == [state |-> st, size |-> Whole(job[p].ask)]
    IN pc[p] = "create" /\ Call(p, "create", box.state = "absent", after, On(p, "start", after))

\* Mutant: getRaw does not start.
LookOnly(p) ==
  Call(p, "look", There, box,
    \/ job[p].op \in {"stop", "delete"} /\ On(p, job[p].op, box)
    \/ Works(p, box))

\* getRaw, and the lookups of start, stop and delete.
Look(p) ==
  Call(p, "look", There, box,
    \/ job[p].op = "delete" /\ On(p, "delete", box)
    \/ /\ job[p].op = "stop"
       /\ IF box.state = "started" THEN On(p, "stop", box) ELSE Ends(p, "ok")
    \/ /\ job[p].op \notin {"stop", "delete"}
       /\ IF box.state = "started" THEN Works(p, box) ELSE On(p, "wake", box))

Wake(p) == Call(p, "wake", There, InState("started"), Works(p, InState("started")))

\* After a create, which always starts, and after the resize of a stopped one.
Start(p) ==
  Call(p, "start", There, InState("started"),
    IF job[p].op = "create" THEN Ends(p, "ok") ELSE On(p, "refresh", InState("started")))

\* What Daytona says to a stop of a stopped sandbox is not in the code.
Stop(p) ==
  \E refused \in {FALSE} \cup {box.state = "stopped"} :
    Call(p, "stop", There /\ ~refused, InState("stopped"),
      IF job[p].op = "stop" THEN Ends(p, "ok") ELSE On(p, "resize", InState("stopped")))

\* Mutant: not awaited.
DeleteUnawaited(p) ==
  /\ pc[p] = "delete" /\ box' \in {box, InState("deleted")}
  /\ Ends(p, "ok") /\ UNCHANGED <<calm, issued, faults>>

Delete(p) == Call(p, "delete", There, InState("deleted"), Ends(p, "ok"))

\* Daytona takes no CPU or memory from a started sandbox.  What it says to
\* another disk than the sandbox has is not in the code.
OtherDisk(p) == Whole(job[p].ask)["disk"] # box.size["disk"]
Resize(p) ==
  LET target == Whole(job[p].ask)
      after == [box EXCEPT !.size = target]
  IN \E refused \in {FALSE} \cup {pc[p] = "resize" /\ OtherDisk(p)} :
       pc[p] = "resize"
       /\ Call(p, "resize", There /\ ~refused /\ ~(box.state = "started" /\ Less(target, box.size)), after,
            On(p, IF after.state = "started" THEN "refresh" ELSE "start", after))

Refresh(p) == Call(p, "refresh", There, box, Ends(p, "ok"))

\* A command's exit code is part of the answer; the download or upload of a
\* path that is not there throws.
Exec(p) ==
  \E missing \in {FALSE} \cup {job[p].op = "handle_file"} :
    Call(p, "exec", box.state = "started" /\ ~missing, box, Ends(p, "ok"))

\* Daytona stops a sandbox that was not used for a while.
AutoStop ==
  /\ box.state = "started" /\ box' = InState("stopped")
  /\ faults < MaxFaults /\ faults' = faults + 1
  /\ calm' = (calm /\ \A p \in Handlers : pc[p] = "idle")
  /\ UNCHANGED <<pc, job, known, killed, issued>>

-----------------------------------------------------------------------------
(* The specification *)

Step(p) ==
  \/ Create(p) \/ Look(p) \/ Wake(p) \/ Start(p) \/ Stop(p) \/ Delete(p)
  \/ Resize(p) \/ Refresh(p) \/ Exec(p)

AllIdle == \A p \in Handlers : pc[p] = "idle"

Next ==
  \/ \E p \in Handlers : Request(p) \/ Step(p)
  \/ AutoStop
  \/ AllIdle /\ UNCHANGED vars

Spec == Init /\ [][Next]_vars
=============================================================================
