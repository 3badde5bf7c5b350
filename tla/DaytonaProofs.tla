---------------------------- MODULE DaytonaProofs ----------------------------
(***************************************************************************)
(* Proofs that the Daytona provider keeps its types and implements         *)
(* SandboxLife, for every number of overlapping requests, faults, sizes.   *)
(* One lemma per action: it keeps IInv and is a step of a sandbox's life;  *)
(* a second one: a client that is alone with the sandbox (CalmOK) gets the *)
(* answer it should.                                                       *)
(***************************************************************************)
EXTENDS DaytonaProps, TLAPS

-----------------------------------------------------------------------------
(* A step of the sandbox's life *)

StateTurns ==
  \/ box'.state = box.state
  \/ box.state = "absent" /\ box'.state \in {"started", "stopped"}
  \/ There /\ box'.state \in {"started", "stopped", "deleted"}

\* What SandboxLife allows, in the provider's variables: the sandbox turns
\* into another state, or a create or a delete is answered.
Legal ==
  \/ StateTurns /\ UNCHANGED <<known, killed>>
  \/ /\ There /\ box'.state \in {box.state, "started"}
     /\ known' = TRUE /\ killed' = killed
  \/ known = TRUE /\ known' = TRUE /\ killed' = TRUE /\ box'.state = "deleted"

LEMMA LegalLives ==
  ASSUME IInv, Legal
  PROVE  [Life!Next]_(Life!vars)
<1> DEFINE lf == [b \in {"box"} |-> box.state]
           kn == IF known THEN {"box"} ELSE {}
           kl == IF killed THEN {"box"} ELSE {}
<1>1. box.state \in {"absent", "started", "stopped", "deleted"} /\ known \in BOOLEAN /\ killed \in BOOLEAN
  BY DEF IInv, TypeOK, Box
<1>2. lf["box"] = box.state
  OBVIOUS
<1>3. ASSUME NEW st, box'.state = st
      PROVE  lf' = [lf EXCEPT !["box"] = st]
  BY <1>3
<1>4. CASE StateTurns /\ UNCHANGED <<known, killed>>
  <2>1. kn' = kn /\ kl' = kl
    BY <1>4
  <2>2. CASE box'.state = box.state
    BY <2>1, <2>2 DEF Life!vars
  <2>3. CASE box'.state # box.state /\ box.state = "absent"
    <3>1. Life!Appear("box")
      BY <1>2, <1>3, <1>4, <2>1, <2>3 DEF StateTurns, There, Life!Appear, Life!Turn
    <3> QED
      BY <3>1 DEF Life!Next
  <2>4. CASE box'.state # box.state /\ There
    <3>1. Life!Resume("box") \/ Life!Suspend("box") \/ Life!Delete("box")
      BY <1>2, <1>3, <1>4, <2>1, <2>4 DEF StateTurns, There, Life!Resume, Life!Suspend, Life!Delete, Life!Turn
    <3> QED
      BY <3>1 DEF Life!Next
  <2> QED
    BY <1>4, <2>2, <2>3, <2>4 DEF StateTurns
<1>5. CASE There /\ box'.state \in {box.state, "started"} /\ known' = TRUE /\ killed' = killed
  <2>1. kl' = kl /\ kn' = {"box"} /\ lf' \in {lf, [lf EXCEPT !["box"] = "started"]}
    BY <1>3, <1>5
  <2>2. CASE known = FALSE
    <3>1. Life!Announce("box")
      BY <1>2, <1>5, <2>1, <2>2 DEF There, Life!Announce
    <3> QED
      BY <3>1 DEF Life!Next
  <2>3. CASE known = TRUE /\ box'.state = box.state
    BY <2>1, <2>3 DEF Life!vars
  <2>4. CASE known = TRUE /\ box'.state # box.state
    <3>1. Life!Resume("box")
      BY <1>2, <1>3, <1>5, <2>1, <2>4 DEF There, Life!Resume, Life!Turn
    <3> QED
      BY <3>1 DEF Life!Next
  <2> QED
    BY <1>1, <2>2, <2>3, <2>4
<1>6. CASE known = TRUE /\ known' = TRUE /\ killed' = TRUE /\ box'.state = "deleted"
  <2>1. Life!Confirm("box")
    BY <1>1, <1>2, <1>3, <1>6 DEF Life!Confirm
  <2> QED
    BY <2>1 DEF Life!Next
<1> QED
  BY <1>4, <1>5, <1>6 DEF Legal

-----------------------------------------------------------------------------
(* The idioms of the requests *)

\* What an action does beside moving its request.
World ==
  box' \in Box /\ calm' \in BOOLEAN /\ issued' \in 0..MaxCalls /\ faults' \in 0..MaxFaults

LEMMA WantedIsNat ==
  ASSUME NEW ask \in Ask, NEW a \in Amount
  PROVE  Wanted(ask, a) \in Nat
<1>1. CASE a = "disk"
  BY <1>1, DaytonaAssumption DEF Ask, Wanted, DefaultDisk
<1>2. CASE a \in {"cpu", "memory"}
  <2>1. ask[a] \in Nat
    BY <1>2, DaytonaAssumption DEF Ask
  <2> QED
    BY <2>1, NoneAssumption DEF Wanted
<1> QED
  BY <1>1, <1>2 DEF Amount

LEMMA WholeIsSize ==
  ASSUME NEW ask \in Ask
  PROVE  Whole(ask) \in Size
<1>1. ASSUME NEW a \in Amount
      PROVE  AtLeastOne((Wanted(ask, a) + 1) \div 2) \in Nat \ {0}
  <2>1. Wanted(ask, a) \in Nat
    BY WantedIsNat
  <2> QED
    BY <2>1 DEF AtLeastOne
<1> QED
  BY <1>1 DEF Whole, Size

LEMMA InStateIsBox ==
  ASSUME IInv, NEW st \in {"absent", "started", "stopped", "deleted"}
  PROVE  InState(st) \in Box /\ InState(st).state = st
BY DEF IInv, TypeOK, Box, InState

LEMMA EndsKeeps ==
  ASSUME IInv, NEW p \in Handlers, pc[p] # "idle",
         NEW ans \in {"ok", "error"}, Ends(p, ans), World
  PROVE  IInv'
<1>1. [NoJob EXCEPT !.ans = ans] \in Job
  BY DEF NoJob, Job
<1>2. known' \in BOOLEAN /\ killed' \in BOOLEAN /\ (known = TRUE => known' = TRUE)
  BY DEF IInv, TypeOK, Ends
<1>3. pc' \in [Handlers -> Calls \cup {"idle"}] /\ job' \in [Handlers -> Job]
  BY <1>1 DEF IInv, TypeOK, Ends
<1>4. \A q \in Handlers : pc'[q] # "idle" => pc'[q] = pc[q] /\ job'[q] = job[q]
  BY DEF IInv, TypeOK, Ends
<1>5. TypeOK'
  BY <1>2, <1>3, <1>4 DEF IInv, TypeOK, World, Calls
<1>6. ASSUME NEW q \in Handlers, pc'[q] # "idle"
      PROVE  /\ job'[q].op \in OpsAt(pc'[q])
             /\ job'[q].op \in {"create", "resize"} => job'[q].ask \in Ask
             /\ job'[q].op # "create" => known'
  <2>1. pc'[q] = pc[q] /\ job'[q] = job[q]
    BY <1>4, <1>6
  <2>2. job'[q].op # "create" => known = TRUE
    BY <1>6, <2>1 DEF IInv, TypeOK
  <2> QED
    BY <1>2, <1>6, <2>1, <2>2 DEF IInv
<1> QED
  BY <1>5, <1>6 DEF IInv, OpsAt

LEMMA OnKeeps ==
  ASSUME IInv, NEW p \in Handlers, pc[p] # "idle",
         NEW call \in Calls, NEW copy \in Box, job[p].op \in OpsAt(call), On(p, call, copy), World
  PROVE  IInv'
<1>1. [job[p] EXCEPT !.copy = copy] \in Job
  BY DEF IInv, TypeOK, Job
<1>2. pc' \in [Handlers -> Calls \cup {"idle"}] /\ job' \in [Handlers -> Job]
  BY <1>1 DEF IInv, TypeOK, On
<1>3. pc'[p] = call /\ job'[p].copy = copy /\ job'[p].op = job[p].op /\ job'[p].ask = job[p].ask
  BY DEF IInv, TypeOK, On, Job
<1>4. \A q \in Handlers : q # p => pc'[q] = pc[q] /\ job'[q] = job[q]
  BY DEF IInv, TypeOK, On
<1>5. known' = known /\ killed' = killed /\ copy # None
  BY NoneAssumption DEF On
<1> QED
  BY <1>2, <1>3, <1>4, <1>5 DEF IInv, TypeOK, World

\* An error, or an answer that is no create's or delete's, tells nothing new.
LEMMA EndsQuietly ==
  ASSUME IInv, NEW p \in Handlers, pc[p] # "idle", NEW ans \in {"ok", "error"}, Ends(p, ans),
         ans = "error" \/ job[p].op \notin {"create", "delete"}, World, StateTurns
  PROVE  IInv' /\ Legal
<1>1. UNCHANGED <<known, killed>>
  BY DEF IInv, TypeOK, Ends
<1> QED
  BY <1>1, EndsKeeps DEF Legal

LEMMA OnTurns ==
  ASSUME IInv, NEW p \in Handlers, pc[p] # "idle", NEW call \in Calls, NEW copy \in Box,
         job[p].op \in OpsAt(call), On(p, call, copy), World, StateTurns
  PROVE  IInv' /\ Legal
<1>1. UNCHANGED <<known, killed>>
  BY DEF On
<1> QED
  BY <1>1, OnKeeps DEF Legal

LEMMA WorksTurns ==
  ASSUME IInv, NEW p \in Handlers, pc[p] # "idle", NEW copy \in Box, Works(p, copy), World, StateTurns
  PROVE  IInv' /\ Legal
<1>1. CASE job[p].op \in {"get", "start"} /\ Ends(p, "ok")
  BY <1>1, EndsQuietly
<1>2. CASE job[p].op = "exec" /\ On(p, "exec", copy)
  BY <1>2, OnTurns DEF OpsAt, Calls
<1>3. CASE job[p].op = "resize" /\ On(p, IF StopsFirst(p, copy) THEN "stop" ELSE "resize", copy)
  <2>1. CASE StopsFirst(p, copy)
    BY <1>3, <2>1, OnTurns DEF OpsAt, Calls
  <2>2. CASE ~StopsFirst(p, copy)
    BY <1>3, <2>2, OnTurns DEF OpsAt, Calls
  <2> QED
    BY <2>1, <2>2
<1> QED
  BY <1>1, <1>2, <1>3 DEF Works

\* The ways a call ends early: refused by the server, or lost before or after
\* its effect.
Fails(p, after) ==
  /\ Ends(p, "error") /\ box' \in {box, after}
  /\ UNCHANGED <<calm, issued>> /\ faults' \in 0..MaxFaults

LEMMA FailsTurns ==
  ASSUME IInv, NEW p \in Handlers, pc[p] # "idle", NEW after \in Box, Fails(p, after), StateTurns
  PROVE  IInv' /\ Legal
<1>1. World
  BY DEF IInv, TypeOK, World, Fails
<1> QED
  BY <1>1, EndsQuietly DEF Fails

LEMMA CallTurns ==
  ASSUME There, box'.state \in {"started", "stopped", "deleted"}
  PROVE  StateTurns
BY DEF StateTurns

LEMMA SameTurns == UNCHANGED box => StateTurns
BY DEF StateTurns

LEMMA SameWorld ==
  ASSUME IInv, box' \in Box, UNCHANGED <<calm, issued, faults>>
  PROVE  World
BY DEF IInv, TypeOK, World

\* A call that fails on a sandbox that was to be there afterwards, or deleted.
LEMMA FailsThere ==
  ASSUME IInv, NEW p \in Handlers, pc[p] # "idle",
         NEW after \in Box, after.state \in {"started", "stopped", "deleted"},
         Fails(p, after), box' = box \/ There
  PROVE  IInv' /\ Legal
<1>1. StateTurns
  BY CallTurns, SameTurns DEF Fails
<1> QED
  BY <1>1, FailsTurns

-----------------------------------------------------------------------------
(* The SDK calls *)

LEMMA CreateKeeps ==
  ASSUME IInv, NEW p \in Handlers, Create(p)
  PROVE  IInv' /\ Legal
<1>1. PICK st \in {"started", "stopped"} :
        LET after == [state |-> st, size |-> Whole(job[p].ask)]
        IN pc[p] = "create" /\ Call(p, "create", box.state = "absent", after, On(p, "start", after))
  BY DEF Create
<1> DEFINE after == [state |-> st, size |-> Whole(job[p].ask)]
<1>2. job[p].op = "create" /\ after \in Box
  BY <1>1, WholeIsSize DEF IInv, OpsAt, Box
<1>3. CASE box.state = "absent" /\ box' = after /\ On(p, "start", after) /\ UNCHANGED <<calm, issued, faults>>
  <2>1. World /\ StateTurns
    BY <1>2, <1>3, SameWorld DEF StateTurns
  <2> QED
    BY <1>1, <1>2, <1>3, <2>1, OnTurns DEF OpsAt, Calls
<1>4. CASE Fails(p, after) /\ (box' = box \/ box.state = "absent")
  <2>1. StateTurns
    BY <1>4 DEF StateTurns, Fails
  <2> QED
    BY <1>1, <1>2, <1>4, <2>1, FailsTurns
<1>5. \/ box.state = "absent" /\ box' = after /\ On(p, "start", after) /\ UNCHANGED <<calm, issued, faults>>
      \/ Fails(p, after) /\ (box' = box \/ box.state = "absent")
  BY <1>1, DaytonaAssumption DEF Call, Fails, IInv, TypeOK
<1> QED
  BY <1>3, <1>4, <1>5

LEMMA LookKeeps ==
  ASSUME IInv, NEW p \in Handlers, Look(p)
  PROVE  IInv' /\ Legal
<1>1. pc[p] = "look" /\ box \in Box /\ job[p].op \in OpsAt("look")
  BY DEF Look, Call, IInv, TypeOK
<1>2. CASE There /\ UNCHANGED <<box, calm, issued, faults>>
           /\ \/ job[p].op = "delete" /\ On(p, "delete", box)
              \/ /\ job[p].op = "stop"
                 /\ IF box.state = "started" THEN On(p, "stop", box) ELSE Ends(p, "ok")
              \/ /\ job[p].op \notin {"stop", "delete"}
                 /\ IF box.state = "started" THEN Works(p, box) ELSE On(p, "wake", box)
  <2>1. World /\ StateTurns
    BY <1>1, <1>2, SameWorld, SameTurns
  <2>2. CASE job[p].op = "delete" /\ On(p, "delete", box)
    BY <1>1, <2>1, <2>2, OnTurns DEF OpsAt, Calls
  <2>3. CASE job[p].op = "stop" /\ On(p, "stop", box)
    BY <1>1, <2>1, <2>3, OnTurns DEF OpsAt, Calls
  <2>4. CASE job[p].op = "stop" /\ Ends(p, "ok")
    BY <1>1, <2>1, <2>4, EndsQuietly
  <2>5. CASE job[p].op \notin {"stop", "delete"} /\ Works(p, box)
    BY <1>1, <2>1, <2>5, WorksTurns
  <2>6. CASE job[p].op \notin {"stop", "delete"} /\ On(p, "wake", box)
    BY <1>1, <2>1, <2>6, OnTurns DEF OpsAt, Calls
  <2> QED
    BY <1>2, <2>2, <2>3, <2>4, <2>5, <2>6
<1>3. CASE Fails(p, box)
  <2>1. StateTurns
    BY <1>3, SameTurns DEF Fails
  <2> QED
    BY <1>1, <1>3, <2>1, FailsTurns
<1>4. ~Fails(p, box) => There /\ UNCHANGED <<box, calm, issued, faults>>
  BY DaytonaAssumption DEF Look, Call, Fails, IInv, TypeOK
<1> QED
  BY <1>2, <1>3, <1>4, DaytonaAssumption DEF Look, Call, Fails, IInv, TypeOK

LEMMA WakeKeeps ==
  ASSUME IInv, NEW p \in Handlers, Wake(p)
  PROVE  IInv' /\ Legal
<1> DEFINE after == InState("started")
<1>1. pc[p] = "wake" /\ after \in Box /\ after.state = "started"
  BY InStateIsBox DEF Wake, Call
<1>2. CASE There /\ box' = after /\ Works(p, after) /\ UNCHANGED <<calm, issued, faults>>
  <2>1. World /\ StateTurns
    BY <1>1, <1>2, SameWorld, CallTurns
  <2> QED
    BY <1>1, <1>2, <2>1, WorksTurns
<1>3. CASE Fails(p, after) /\ (box' = box \/ There)
  BY <1>1, <1>3, FailsThere
<1> QED
  BY <1>2, <1>3, DaytonaAssumption DEF Wake, Call, Fails, IInv, TypeOK

LEMMA StartKeeps ==
  ASSUME IInv, NEW p \in Handlers, Start(p)
  PROVE  IInv' /\ Legal
<1> DEFINE after == InState("started")
<1>1. pc[p] = "start" /\ job[p].op \in {"create", "resize"} /\ after \in Box /\ after.state = "started"
  BY InStateIsBox DEF Start, Call, IInv, OpsAt
<1>2. CASE /\ There /\ box' = after /\ UNCHANGED <<calm, issued, faults>>
           /\ job[p].op = "create" /\ Ends(p, "ok")
  <2>1. World
    BY <1>1, <1>2, SameWorld
  <2>2. known' = TRUE /\ killed' = killed
    BY <1>2 DEF Ends, IInv, TypeOK
  <2> QED
    BY <1>1, <1>2, <2>1, <2>2, EndsKeeps DEF Legal
<1>3. CASE /\ There /\ box' = after /\ UNCHANGED <<calm, issued, faults>>
           /\ job[p].op = "resize" /\ On(p, "refresh", after)
  <2>1. World /\ StateTurns
    BY <1>1, <1>3, SameWorld, CallTurns
  <2> QED
    BY <1>1, <1>3, <2>1, OnTurns DEF OpsAt, Calls
<1>4. CASE Fails(p, after) /\ (box' = box \/ There)
  BY <1>1, <1>4, FailsThere
<1> QED
  BY <1>1, <1>2, <1>3, <1>4, DaytonaAssumption DEF Start, Call, Fails, IInv, TypeOK

LEMMA StopKeeps ==
  ASSUME IInv, NEW p \in Handlers, Stop(p)
  PROVE  IInv' /\ Legal
<1> DEFINE after == InState("stopped")
<1>1. pc[p] = "stop" /\ job[p].op \in {"stop", "resize"} /\ after \in Box /\ after.state = "stopped"
  BY InStateIsBox DEF Stop, Call, IInv, OpsAt
<1>2. CASE /\ There /\ box' = after /\ UNCHANGED <<calm, issued, faults>>
           /\ job[p].op = "stop" /\ Ends(p, "ok")
  <2>1. World /\ StateTurns
    BY <1>1, <1>2, SameWorld, CallTurns
  <2> QED
    BY <1>1, <1>2, <2>1, EndsQuietly
<1>3. CASE /\ There /\ box' = after /\ UNCHANGED <<calm, issued, faults>>
           /\ job[p].op = "resize" /\ On(p, "resize", after)
  <2>1. World /\ StateTurns
    BY <1>1, <1>3, SameWorld, CallTurns
  <2> QED
    BY <1>1, <1>3, <2>1, OnTurns DEF OpsAt, Calls
<1>4. CASE Fails(p, after) /\ (box' = box \/ There)
  BY <1>1, <1>4, FailsThere
<1> QED
  BY <1>1, <1>2, <1>3, <1>4, DaytonaAssumption DEF Stop, Call, Fails, IInv, TypeOK

LEMMA DeleteKeeps ==
  ASSUME IInv, NEW p \in Handlers, Delete(p)
  PROVE  IInv' /\ Legal
<1> DEFINE after == InState("deleted")
<1>1. pc[p] = "delete" /\ job[p].op = "delete" /\ after \in Box /\ after.state = "deleted"
  BY InStateIsBox DEF Delete, Call, IInv, OpsAt
<1>2. CASE There /\ box' = after /\ UNCHANGED <<calm, issued, faults>> /\ Ends(p, "ok")
  <2>1. World
    BY <1>1, <1>2, SameWorld
  <2>2. known = TRUE
    BY <1>1 DEF IInv, TypeOK
  <2>3. known' = TRUE /\ killed' = TRUE
    BY <1>1, <1>2, <2>2 DEF Ends
  <2> QED
    BY <1>1, <1>2, <2>1, <2>2, <2>3, EndsKeeps DEF Legal
<1>3. CASE Fails(p, after) /\ (box' = box \/ There)
  BY <1>1, <1>3, FailsThere
<1> QED
  BY <1>2, <1>3, DaytonaAssumption DEF Delete, Call, Fails, IInv, TypeOK

LEMMA ResizeKeeps ==
  ASSUME IInv, NEW p \in Handlers, Resize(p)
  PROVE  IInv' /\ Legal
<1> DEFINE after == [box EXCEPT !.size = Whole(job[p].ask)]
<1>1. pc[p] = "resize" /\ job[p].op = "resize"
  BY DEF Resize, IInv, OpsAt
<1>2. after \in Box /\ after.state = box.state
  BY <1>1, WholeIsSize DEF IInv, TypeOK, Box
<1>3. CASE /\ There /\ box' = after /\ UNCHANGED <<calm, issued, faults>>
           /\ On(p, IF after.state = "started" THEN "refresh" ELSE "start", after)
  <2>1. World /\ StateTurns
    BY <1>2, <1>3, SameWorld DEF StateTurns
  <2>2. CASE after.state = "started"
    BY <1>1, <1>2, <1>3, <2>1, <2>2, OnTurns DEF OpsAt, Calls
  <2>3. CASE after.state # "started"
    BY <1>1, <1>2, <1>3, <2>1, <2>3, OnTurns DEF OpsAt, Calls
  <2> QED
    BY <2>2, <2>3
<1>4. CASE Fails(p, after)
  <2>1. StateTurns
    BY <1>2, <1>4 DEF StateTurns, Fails
  <2> QED
    BY <1>1, <1>2, <1>4, <2>1, FailsTurns
<1> QED
  BY <1>3, <1>4, DaytonaAssumption DEF Resize, Call, Fails, IInv, TypeOK

LEMMA RefreshKeeps ==
  ASSUME IInv, NEW p \in Handlers, Refresh(p)
  PROVE  IInv' /\ Legal
<1>1. pc[p] = "refresh" /\ job[p].op = "resize" /\ box \in Box
  BY DEF Refresh, Call, IInv, TypeOK, OpsAt
<1>2. World /\ StateTurns
  BY <1>1, SameTurns, DaytonaAssumption DEF Refresh, Call, World, IInv, TypeOK
<1>3. Ends(p, "ok") \/ Ends(p, "error")
  BY DEF Refresh, Call
<1> QED
  BY <1>1, <1>2, <1>3, EndsQuietly

LEMMA ExecKeeps ==
  ASSUME IInv, NEW p \in Handlers, Exec(p)
  PROVE  IInv' /\ Legal
<1>1. pc[p] = "exec" /\ job[p].op \in {"exec", "handle_exec", "handle_file"} /\ box \in Box
  BY DEF Exec, Call, IInv, TypeOK, OpsAt
<1>2. World /\ StateTurns
  BY <1>1, SameTurns, DaytonaAssumption DEF Exec, Call, World, IInv, TypeOK
<1>3. Ends(p, "ok") \/ Ends(p, "error")
  BY DEF Exec, Call
<1> QED
  BY <1>1, <1>2, <1>3, EndsQuietly

-----------------------------------------------------------------------------
(* Requests and the environment *)

LEMMA RequestKeeps ==
  ASSUME IInv, NEW p \in Handlers, Request(p)
  PROVE  IInv' /\ Legal
<1>1. PICK op \in Ops,
           ask \in Ask \cup {None} :
        Begin(p, op, ask) /\ (op \in {"create", "resize"} => ask \in Ask)
  BY DEF Request
<1> DEFINE j == [NoJob EXCEPT !.op = op, !.ask = ask]
<1>2. j \in Job /\ j.op = op /\ j.ask = ask
  BY <1>1 DEF Job, NoJob
<1>3. FirstCall(op) \in {"create", "look", "exec"} /\ op \in OpsAt(FirstCall(op))
  BY <1>1, DaytonaAssumption DEF FirstCall, OpsAt
<1>4. pc' \in [Handlers -> Calls \cup {"idle"}] /\ job' \in [Handlers -> Job]
  BY <1>1, <1>2, <1>3 DEF Begin, IInv, TypeOK, Calls
<1>5. pc'[p] = FirstCall(op) /\ job'[p] = j
      /\ \A q \in Handlers : q # p => pc'[q] = pc[q] /\ job'[q] = job[q]
  BY <1>1 DEF Begin, IInv, TypeOK
<1>6. UNCHANGED <<box, known, killed, faults>> /\ calm' \in BOOLEAN /\ issued' \in 0..MaxCalls
  BY <1>1, DaytonaAssumption DEF Begin, IInv, TypeOK
<1>7. TypeOK'
  BY <1>3, <1>4, <1>5, <1>6 DEF IInv, TypeOK
<1>8. op # "create" => known = TRUE
  BY <1>1 DEF Begin, IInv, TypeOK
<1>9. ASSUME NEW q \in Handlers, pc'[q] # "idle"
      PROVE  /\ job'[q].op \in OpsAt(pc'[q])
             /\ job'[q].op \in {"create", "resize"} => job'[q].ask \in Ask
             /\ job'[q].op # "create" => known'
  <2>1. CASE q = p
    BY <1>1, <1>2, <1>3, <1>5, <1>6, <1>8, <2>1
  <2>2. CASE q # p
    BY <1>5, <1>6, <1>9, <2>2 DEF IInv
  <2> QED
    BY <2>1, <2>2
<1> QED
  BY <1>6, <1>7, <1>9 DEF Legal, StateTurns, IInv

LEMMA AutoStopKeeps ==
  ASSUME IInv, AutoStop
  PROVE  IInv' /\ Legal
<1>1. box' \in Box /\ box'.state = "stopped"
  BY InStateIsBox DEF AutoStop
<1>2. calm' \in BOOLEAN /\ faults' \in 0..MaxFaults
  BY DaytonaAssumption DEF AutoStop, IInv, TypeOK
<1>3. IInv'
  BY <1>1, <1>2 DEF AutoStop, IInv, TypeOK
<1> QED
  BY <1>1, <1>3 DEF AutoStop, Legal, StateTurns, There

LEMMA IdleKeeps ==
  ASSUME IInv, UNCHANGED vars
  PROVE  IInv' /\ Legal
BY DEF IInv, TypeOK, vars, history, Legal, StateTurns

-----------------------------------------------------------------------------
(* The theorems *)

LEMMA InitOK == Init => IInv
<1> SUFFICES ASSUME Init PROVE IInv
  OBVIOUS
<1>1. box \in Box
  BY DEF Init, Box, Size, Smallest
<1>2. NoJob \in Job
  BY DEF NoJob, Job
<1>3. {known, killed, calm} \subseteq BOOLEAN
  BY DEF Init
<1>4. issued \in 0..MaxCalls /\ faults \in 0..MaxFaults
  BY DaytonaAssumption DEF Init
<1>5. \A p \in Handlers : pc[p] = "idle"
  BY DEF Init
<1>6. pc \in [Handlers -> Calls \cup {"idle"}] /\ job \in [Handlers -> Job]
  BY <1>2 DEF Init
<1>7. TypeOK
  BY <1>1, <1>3, <1>4, <1>5, <1>6 DEF TypeOK, Calls
<1> QED
  BY <1>5, <1>7 DEF IInv

LEMMA NextKeeps == IInv /\ [Next]_vars => IInv' /\ Legal
<1> SUFFICES ASSUME IInv, [Next]_vars PROVE IInv' /\ Legal
  OBVIOUS
<1>1. CASE \E p \in Handlers : Request(p) \/ Step(p)
  BY <1>1, RequestKeeps, CreateKeeps, LookKeeps, WakeKeeps, StartKeeps, StopKeeps,
     DeleteKeeps, ResizeKeeps, RefreshKeeps, ExecKeeps DEF Step
<1>2. CASE AutoStop
  BY <1>2, AutoStopKeeps
<1>3. CASE UNCHANGED vars
  BY <1>3, IdleKeeps
<1> QED
  BY <1>1, <1>2, <1>3 DEF Next

LEMMA Invariance == Spec => []IInv
BY InitOK, NextKeeps, PTL DEF Spec

\* For any number of overlapping requests, sizes and faults, the sandbox and
\* the requests' variables keep their types: getRaw and resize never go on
\* without a copy, and sizes are whole and at least one.
THEOREM TypeCorrect == Spec => []TypeOK
<1>1. IInv => TypeOK
  BY DEF IInv
<1> QED
  BY <1>1, Invariance, PTL

LEMMA InitLives == Init => Life!Init
BY DEF Init, Life!Init

\* The provider implements SandboxLife for any number of overlapping requests
\* and faults: a sandbox is announced by a create only when it is there, and a
\* delete is answered well only when it is gone.
THEOREM ImplementsLife == Spec => KeepsPromises
<1>1. IInv /\ [Next]_vars => [Life!Next]_(Life!vars)
  BY NextKeeps, LegalLives
<1> QED
  BY <1>1, Invariance, InitLives, PTL DEF Spec, KeepsPromises, Life!Spec

-----------------------------------------------------------------------------
(* Requests that do not overlap *)

\* What the action properties say of p's answer, and of its error.
AnswerOK(p) ==
  Replies(p) /\ calm =>
    /\ job[p].op \in {"create", "resize"} =>
         box'.state = "started" /\ box.size = Whole(job[p].ask) /\ job[p].ask \in Ask
    /\ job[p].op \in {"get", "start", "exec", "handle_exec", "handle_file"} => box'.state = "started"
    /\ job[p].op = "stop" => box'.state = "stopped"

ErrorOK(p) ==
  Throws(p) /\ calm /\ faults' = 0 =>
    ~There \/ Excused(p)

LEMMA OnMoves ==
  ASSUME IInv, NEW p \in Handlers, NEW call \in Calls, NEW copy, On(p, call, copy)
  PROVE  /\ pc'[p] = call /\ job'[p].op = job[p].op /\ job'[p].ask = job[p].ask
         /\ \A q \in Handlers : q # p => pc'[q] = pc[q]
         /\ ~Replies(p) /\ ~Throws(p)
<1>1. job[p] \in Job /\ "idle" \notin Calls
  BY DEF IInv, TypeOK, Calls
<1> QED
  BY <1>1 DEF IInv, TypeOK, On, Job, Replies, Throws

LEMMA EndsMoves ==
  ASSUME IInv, NEW p \in Handlers, NEW ans \in {"ok", "error"}, Ends(p, ans)
  PROVE  /\ pc'[p] = "idle" /\ job'[p].ans = ans
         /\ \A q \in Handlers : q # p => pc'[q] = pc[q]
BY DEF IInv, TypeOK, Ends, NoJob

LEMMA OnCalm ==
  ASSUME IInv, CalmOK, NEW p \in Handlers, pc[p] # "idle", NEW call \in Calls, NEW copy, On(p, call, copy),
         UNCHANGED <<calm, issued>>, calm => Fits(p)'
  PROVE  CalmOK' /\ AnswerOK(p) /\ ErrorOK(p)
<1>1. issued # 0
  BY DEF CalmOK, AllIdle
<1>2. ASSUME calm, NEW q \in Handlers, pc'[q] # "idle"
      PROVE  q = p
  BY <1>2, OnMoves DEF CalmOK
<1> QED
  BY <1>1, <1>2, OnMoves DEF CalmOK, AnswerOK, ErrorOK

LEMMA EndsCalm ==
  ASSUME IInv, CalmOK, NEW p \in Handlers, pc[p] # "idle", NEW ans \in {"ok", "error"}, Ends(p, ans),
         UNCHANGED <<calm, issued>>
  PROVE  CalmOK' /\ (ans = "ok" => ErrorOK(p)) /\ (ans = "error" => AnswerOK(p))
<1>1. issued # 0
  BY DEF CalmOK, AllIdle
<1>2. calm => \A q \in Handlers : pc'[q] = "idle"
  BY EndsMoves DEF CalmOK
<1> QED
  BY <1>1, <1>2, EndsMoves DEF CalmOK, AnswerOK, ErrorOK, Replies, Throws

\* A call that throws says why, when its request was alone.
LEMMA ThrowsCalm ==
  ASSUME IInv, CalmOK, NEW p \in Handlers, pc[p] # "idle", Ends(p, "error"), UNCHANGED <<calm, issued>>,
         \/ faults' = faults + 1
         \/ calm => ~There \/ Excused(p)
  PROVE  CalmOK' /\ AnswerOK(p) /\ ErrorOK(p)
<1>1. faults \in Nat
  BY DEF IInv, TypeOK
<1> QED
  BY <1>1, EndsCalm DEF ErrorOK

LEMMA EndsWell ==
  ASSUME IInv, CalmOK, NEW p \in Handlers, pc[p] # "idle", Ends(p, "ok"), UNCHANGED <<calm, issued>>, AnswerOK(p)
  PROVE  CalmOK' /\ AnswerOK(p) /\ ErrorOK(p)
BY EndsCalm

LEMMA WorksCalm ==
  ASSUME IInv, CalmOK, NEW p \in Handlers, pc[p] # "idle", NEW copy, Works(p, copy), UNCHANGED <<calm, issued>>,
         box' = copy, copy.state = "started"
  PROVE  CalmOK' /\ AnswerOK(p) /\ ErrorOK(p)
<1>1. CASE job[p].op \in {"get", "start"} /\ Ends(p, "ok")
  BY <1>1, EndsWell DEF AnswerOK
<1>2. CASE job[p].op = "exec" /\ On(p, "exec", copy)
  <2>1. Fits(p)'
    BY <1>2, OnMoves DEF Fits, Calls
  <2> QED
    BY <1>2, <2>1, OnCalm DEF Calls
<1>3. CASE job[p].op = "resize" /\ On(p, IF StopsFirst(p, copy) THEN "stop" ELSE "resize", copy)
  <2>1. CASE StopsFirst(p, copy)
    <3>1. On(p, "stop", copy)
      BY <1>3, <2>1
    <3>2. Fits(p)'
      BY <3>1, OnMoves DEF Fits, Calls
    <3> QED
      BY <3>1, <3>2, OnCalm DEF Calls
  <2>2. CASE ~StopsFirst(p, copy)
    <3>1. On(p, "resize", copy)
      BY <1>3, <2>2
    <3>2. pc'[p] = "resize" /\ job'[p].ask = job[p].ask
      BY <3>1, OnMoves DEF Calls
    <3>3. Fits(p)'
      BY <2>2, <3>2 DEF Fits, StopsFirst
    <3> QED
      BY <3>1, <3>3, OnCalm DEF Calls
  <2> QED
    BY <2>1, <2>2
<1> QED
  BY <1>1, <1>2, <1>3 DEF Works

LEMMA CreateCalm ==
  ASSUME IInv, CalmOK, NEW p \in Handlers, Create(p)
  PROVE  CalmOK' /\ AnswerOK(p) /\ ErrorOK(p)
<1>1. PICK st \in {"started", "stopped"} :
        LET after == [state |-> st, size |-> Whole(job[p].ask)]
        IN pc[p] = "create" /\ Call(p, "create", box.state = "absent", after, On(p, "start", after))
  BY DEF Create
<1> DEFINE after == [state |-> st, size |-> Whole(job[p].ask)]
<1>2. CASE box' = after /\ On(p, "start", after) /\ UNCHANGED <<calm, issued>>
  <2>1. pc'[p] = "start" /\ job'[p].ask = job[p].ask
    BY <1>2, OnMoves DEF Calls
  <2>2. Fits(p)'
    BY <1>2, <2>1 DEF Fits
  <2> QED
    BY <1>1, <1>2, <2>2, OnCalm DEF Calls
<1>3. calm => box.state = "absent"
  BY <1>1 DEF CalmOK, Fits
<1> QED
  BY <1>1, <1>2, <1>3, ThrowsCalm DEF Call

LEMMA LookCalm ==
  ASSUME IInv, CalmOK, NEW p \in Handlers, Look(p)
  PROVE  CalmOK' /\ AnswerOK(p) /\ ErrorOK(p)
<1>1. pc[p] = "look" /\ job[p].op \in OpsAt("look") /\ UNCHANGED <<calm, issued>>
  BY DEF Look, Call, IInv
<1>2. CASE There /\ box' = box /\ job[p].op = "delete" /\ On(p, "delete", box)
  <2>1. Fits(p)'
    BY <1>2, OnMoves DEF Fits, Calls
  <2> QED
    BY <1>1, <1>2, <2>1, OnCalm DEF Calls
<1>3. CASE There /\ box' = box /\ job[p].op = "stop" /\ box.state = "started" /\ On(p, "stop", box)
  <2>1. Fits(p)'
    BY <1>3, OnMoves DEF Fits, Calls
  <2> QED
    BY <1>1, <1>3, <2>1, OnCalm DEF Calls
<1>4. CASE There /\ box' = box /\ job[p].op = "stop" /\ box.state # "started" /\ Ends(p, "ok")
  <2>1. AnswerOK(p)
    BY <1>4 DEF AnswerOK, There
  <2> QED
    BY <1>1, <1>4, <2>1, EndsWell
<1>5. CASE box' = box /\ box.state = "started" /\ Works(p, box)
  BY <1>1, <1>5, WorksCalm
<1>6. CASE box' = box /\ job[p].op \notin {"stop", "delete"} /\ On(p, "wake", box)
  <2>1. Fits(p)'
    BY <1>6, OnMoves DEF Fits, Calls
  <2> QED
    BY <1>1, <1>6, <2>1, OnCalm DEF Calls
<1>7. CASE Ends(p, "error") /\ (~There \/ faults' = faults + 1)
  BY <1>1, <1>7, ThrowsCalm
<1> QED
  BY <1>1, <1>2, <1>3, <1>4, <1>5, <1>6, <1>7 DEF Look, Call

LEMMA WakeCalm ==
  ASSUME IInv, CalmOK, NEW p \in Handlers, Wake(p)
  PROVE  CalmOK' /\ AnswerOK(p) /\ ErrorOK(p)
<1>1. pc[p] = "wake" /\ UNCHANGED <<calm, issued>> /\ InState("started").state = "started"
  BY InStateIsBox DEF Wake, Call
<1>2. CASE box' = InState("started") /\ Works(p, InState("started"))
  BY <1>1, <1>2, WorksCalm
<1>3. CASE Ends(p, "error") /\ (~There \/ faults' = faults + 1)
  BY <1>1, <1>3, ThrowsCalm
<1> QED
  BY <1>2, <1>3 DEF Wake, Call

LEMMA StartCalm ==
  ASSUME IInv, CalmOK, NEW p \in Handlers, Start(p)
  PROVE  CalmOK' /\ AnswerOK(p) /\ ErrorOK(p)
<1> DEFINE after == InState("started")
<1>1. /\ pc[p] = "start" /\ UNCHANGED <<calm, issued>> /\ job[p].op \in {"create", "resize"}
      /\ job[p].ask \in Ask
  BY DEF Start, Call, IInv, OpsAt
<1>2. after.state = "started" /\ after.size = box.size
  BY DEF InState, IInv, TypeOK, Box
<1>3. calm => box.size = Whole(job[p].ask)
  BY <1>1 DEF CalmOK, Fits
<1>4. CASE box' = after /\ job[p].op = "create" /\ Ends(p, "ok")
  BY <1>1, <1>2, <1>3, <1>4, EndsWell DEF AnswerOK
<1>5. CASE box' = after /\ job[p].op = "resize" /\ On(p, "refresh", after)
  <2>1. pc'[p] = "refresh" /\ job'[p].ask = job[p].ask /\ job'[p].op = "resize"
    BY <1>5, OnMoves DEF Calls
  <2>2. calm => Fits(p)'
    BY <1>2, <1>3, <1>5, <2>1 DEF Fits
  <2> QED
    BY <1>1, <1>5, <2>2, OnCalm DEF Calls
<1>6. CASE Ends(p, "error") /\ (~There \/ faults' = faults + 1)
  BY <1>1, <1>6, ThrowsCalm
<1> QED
  BY <1>1, <1>4, <1>5, <1>6 DEF Start, Call

LEMMA StopCalm ==
  ASSUME IInv, CalmOK, NEW p \in Handlers, Stop(p)
  PROVE  CalmOK' /\ AnswerOK(p) /\ ErrorOK(p)
<1> DEFINE after == InState("stopped")
<1>1. pc[p] = "stop" /\ UNCHANGED <<calm, issued>> /\ job[p].op \in {"stop", "resize"}
  BY DEF Stop, Call, IInv, OpsAt
<1>2. after.state = "stopped"
  BY InStateIsBox
<1>3. CASE box' = after /\ job[p].op = "stop" /\ Ends(p, "ok")
  BY <1>1, <1>2, <1>3, EndsWell DEF AnswerOK
<1>4. CASE box' = after /\ job[p].op = "resize" /\ On(p, "resize", after)
  <2>1. Fits(p)'
    BY <1>2, <1>4, OnMoves DEF Fits, Calls
  <2> QED
    BY <1>1, <1>4, <2>1, OnCalm DEF Calls
<1>5. calm => box.state = "started"
  BY <1>1 DEF CalmOK, Fits
<1>6. CASE Ends(p, "error") /\ (~There \/ box.state = "stopped" \/ faults' = faults + 1)
  BY <1>1, <1>5, <1>6, ThrowsCalm
<1> QED
  BY <1>1, <1>3, <1>4, <1>6 DEF Stop, Call

LEMMA DeleteCalm ==
  ASSUME IInv, CalmOK, NEW p \in Handlers, Delete(p)
  PROVE  CalmOK' /\ AnswerOK(p) /\ ErrorOK(p)
<1>1. pc[p] = "delete" /\ UNCHANGED <<calm, issued>> /\ job[p].op = "delete"
  BY DEF Delete, Call, IInv, OpsAt
<1>2. CASE Ends(p, "ok")
  BY <1>1, <1>2, EndsWell DEF AnswerOK
<1>3. CASE Ends(p, "error") /\ (~There \/ faults' = faults + 1)
  BY <1>1, <1>3, ThrowsCalm
<1> QED
  BY <1>2, <1>3 DEF Delete, Call

LEMMA ResizeCalm ==
  ASSUME IInv, CalmOK, NEW p \in Handlers, Resize(p)
  PROVE  CalmOK' /\ AnswerOK(p) /\ ErrorOK(p)
<1> DEFINE target == Whole(job[p].ask)
           after == [box EXCEPT !.size = target]
<1>1. pc[p] = "resize" /\ UNCHANGED <<calm, issued>>
  BY DEF Resize, Call
<1>2. after.state = box.state /\ after.size = target
  BY DEF IInv, TypeOK, Box
<1>3. ASSUME NEW call \in {"refresh", "start"}, box' = after, On(p, call, after),
             call = "refresh" => after.state = "started"
      PROVE  CalmOK' /\ AnswerOK(p) /\ ErrorOK(p)
  <2>1. call \in Calls
    BY DEF Calls
  <2>2. pc'[p] = call /\ job'[p].ask = job[p].ask
    BY <1>3, <2>1, OnMoves
  <2>3. Fits(p)'
    BY <1>2, <1>3, <2>2 DEF Fits
  <2> QED
    BY <1>1, <1>3, <2>1, <2>3, OnCalm
<1>4. calm => ~(box.state = "started" /\ Less(target, box.size))
  BY <1>1 DEF CalmOK, Fits
<1>5. CASE /\ Ends(p, "error")
           /\ \/ ~(There /\ ~(box.state = "started" /\ Less(target, box.size)))
              \/ OtherDisk(p)
              \/ faults' = faults + 1
  <2>1. job[p].op = "resize"
    BY <1>1 DEF IInv, OpsAt
  <2>2. OtherDisk(p) => Excused(p)
    BY <1>1, <2>1 DEF Excused
  <2> QED
    BY <1>1, <1>4, <1>5, <2>2, ThrowsCalm
<1> QED
  BY <1>1, <1>3, <1>5 DEF Resize, Call

LEMMA RefreshCalm ==
  ASSUME IInv, CalmOK, NEW p \in Handlers, Refresh(p)
  PROVE  CalmOK' /\ AnswerOK(p) /\ ErrorOK(p)
<1>1. /\ pc[p] = "refresh" /\ UNCHANGED <<calm, issued>> /\ job[p].op = "resize"
      /\ job[p].ask \in Ask
  BY DEF Refresh, Call, IInv, OpsAt
<1>2. calm => box.state = "started" /\ box.size = Whole(job[p].ask)
  BY <1>1 DEF CalmOK, Fits
<1>3. CASE box' = box /\ Ends(p, "ok")
  BY <1>1, <1>2, <1>3, EndsWell DEF AnswerOK
<1>4. CASE Ends(p, "error") /\ (~There \/ faults' = faults + 1)
  BY <1>1, <1>4, ThrowsCalm
<1> QED
  BY <1>3, <1>4 DEF Refresh, Call

LEMMA ExecCalm ==
  ASSUME IInv, CalmOK, NEW p \in Handlers, Exec(p)
  PROVE  CalmOK' /\ AnswerOK(p) /\ ErrorOK(p)
<1>1. pc[p] = "exec" /\ UNCHANGED <<calm, issued>> /\ job[p].op \in {"exec", "handle_exec", "handle_file"}
  BY DEF Exec, Call, IInv, OpsAt
<1>2. calm /\ job[p].op = "exec" => box.state = "started"
  BY <1>1 DEF CalmOK, Fits
<1>3. CASE box' = box /\ box.state = "started" /\ Ends(p, "ok")
  BY <1>1, <1>3, EndsWell DEF AnswerOK
<1>4. CASE Ends(p, "error") /\ (box.state # "started" \/ job[p].op = "handle_file" \/ faults' = faults + 1)
  <2>1. calm /\ (box.state # "started" \/ job[p].op = "handle_file") => ~There \/ Excused(p)
    BY <1>1, <1>2 DEF There, Excused
  <2> QED
    BY <1>1, <1>4, <2>1, ThrowsCalm
<1> QED
  BY <1>3, <1>4 DEF Exec, Call

LEMMA RequestCalm ==
  ASSUME IInv, CalmOK, NEW p \in Handlers, Request(p)
  PROVE  CalmOK' /\ \A q \in Handlers : pc'[q] # "idle" \/ pc'[q] = pc[q]
<1>1. PICK op \in Ops, ask \in Ask \cup {None} : Begin(p, op, ask)
  BY DEF Request
<1>2. /\ pc'[p] = FirstCall(op) /\ pc'[p] \in {"create", "look", "exec"}
      /\ \A q \in Handlers : q # p => pc'[q] = pc[q]
  BY <1>1 DEF Begin, FirstCall, IInv, TypeOK
<1>3. job'[p].op = op
  BY <1>1 DEF Begin, NoJob, IInv, TypeOK
<1>4. issued' # 0 /\ UNCHANGED box
  BY <1>1 DEF Begin, IInv, TypeOK
<1>5. Fits(p)'
  BY <1>1, <1>2, <1>3, <1>4 DEF Fits, FirstCall, Begin, CalmOK
<1>6. calm' => calm /\ \A q \in Handlers : pc[q] = "idle"
  BY <1>1 DEF Begin
<1> QED
  BY <1>2, <1>4, <1>5, <1>6 DEF CalmOK

LEMMA AutoStopCalm ==
  ASSUME IInv, CalmOK, AutoStop
  PROVE  CalmOK'
<1>1. issued' # 0
  BY DEF AutoStop, CalmOK
<1> QED
  BY <1>1 DEF AutoStop, CalmOK

LEMMA StepOthers ==
  ASSUME IInv, NEW p \in Handlers, Step(p)
  PROVE  \A q \in Handlers : q # p => pc'[q] = pc[q]
BY DEF Step, Create, Look, Wake, Start, Stop, Delete, Resize, Refresh, Exec, Call, Works, On, Ends, IInv, TypeOK

LEMMA NextCalm ==
  ASSUME IInv, CalmOK, [Next]_vars
  PROVE  CalmOK' /\ \A p \in Handlers : AnswerOK(p) /\ ErrorOK(p)
<1>1. ASSUME NEW p \in Handlers, Step(p)
      PROVE  CalmOK' /\ \A q \in Handlers : AnswerOK(q) /\ ErrorOK(q)
  <2>1. CalmOK' /\ AnswerOK(p) /\ ErrorOK(p)
    BY <1>1, CreateCalm, LookCalm, WakeCalm, StartCalm, StopCalm, DeleteCalm, ResizeCalm, RefreshCalm, ExecCalm
    DEF Step
  <2>2. \A q \in Handlers : q # p => AnswerOK(q) /\ ErrorOK(q)
    BY <1>1, StepOthers DEF AnswerOK, ErrorOK, Replies, Throws
  <2> QED
    BY <2>1, <2>2
<1>2. ASSUME NEW p \in Handlers, Request(p)
      PROVE  CalmOK' /\ \A q \in Handlers : AnswerOK(q) /\ ErrorOK(q)
  BY <1>2, RequestCalm DEF AnswerOK, ErrorOK, Replies, Throws
<1>3. CASE AutoStop
  BY <1>3, AutoStopCalm DEF AutoStop, AnswerOK, ErrorOK, Replies, Throws
<1>4. CASE UNCHANGED vars
  BY <1>4 DEF vars, history, CalmOK, AllIdle, Fits, AnswerOK, ErrorOK, Replies, Throws
<1> QED
  BY <1>1, <1>2, <1>3, <1>4 DEF Next

LEMMA Calmness == Spec => []CalmOK
<1>1. Init => CalmOK
  BY DEF Init, CalmOK, AllIdle
<1> QED
  BY <1>1, NextCalm, Invariance, PTL DEF Spec

\* toDaytonaResources gives at least what was asked for and less than one unit
\* more.
LEMMA WholeIsEnough ==
  ASSUME NEW ask \in Ask, NEW a \in Amount
  PROVE  /\ 2 * Whole(ask)[a] >= Wanted(ask, a)
         /\ 2 * Whole(ask)[a] < Wanted(ask, a) + 2 \/ Whole(ask)[a] = 1
<1>1. Wanted(ask, a) \in Nat
  BY WantedIsNat
<1> QED
  BY <1>1 DEF Whole, AtLeastOne

\* A create or resize of a client that is alone with the sandbox leaves it
\* running with the size that was asked for, for every amount and number of
\* faults: the shrink of a running sandbox, which Daytona refuses, is never
\* tried, and the resize of a stopped one starts it.
THEOREM SizesTake == Spec => SizeTakes
<1>1. ASSUME IInv, CalmOK, [Next]_vars, NEW p \in Handlers,
             Replies(p) /\ job[p].op \in {"create", "resize"} /\ calm
      PROVE  /\ box'.state = "started"
             /\ \A a \in Amount : LET ask == Wanted(job[p].ask, a) IN
                  /\ 2 * box.size[a] >= ask
                  /\ 2 * box.size[a] < ask + 2 \/ box.size[a] = 1
  <2>1. box'.state = "started" /\ box.size = Whole(job[p].ask) /\ job[p].ask \in Ask
    BY <1>1, NextCalm DEF AnswerOK
  <2> QED
    BY <2>1, WholeIsEnough
<1>2. IInv /\ CalmOK /\ [Next]_vars =>
        [\A p \in Handlers : Replies(p) /\ job[p].op \in {"create", "resize"} /\ calm =>
           /\ box'.state = "started"
           /\ \A a \in Amount : LET ask == Wanted(job[p].ask, a) IN
                /\ 2 * box.size[a] >= ask
                /\ 2 * box.size[a] < ask + 2 \/ box.size[a] = 1]_vars
  BY <1>1
<1> QED
  BY <1>2, Calmness, Invariance, PTL DEF Spec, SizeTakes

\* What a get, start, command or stop of such a client answers is the state
\* the sandbox is in.
THEOREM StatesAreLeft == Spec => LeavesState
<1>1. ASSUME IInv, CalmOK, [Next]_vars, NEW p \in Handlers, Replies(p) /\ calm
      PROVE  /\ job[p].op \in {"get", "start", "exec", "handle_exec", "handle_file"} => box'.state = "started"
             /\ job[p].op = "stop" => box'.state = "stopped"
  BY <1>1, NextCalm DEF AnswerOK
<1>2. IInv /\ CalmOK /\ [Next]_vars =>
        [\A p \in Handlers : Replies(p) /\ calm =>
           /\ job[p].op \in {"get", "start", "exec", "handle_exec", "handle_file"} => box'.state = "started"
           /\ job[p].op = "stop" => box'.state = "stopped"]_vars
  BY <1>1
<1> QED
  BY <1>2, Calmness, Invariance, PTL DEF Spec, LeavesState

\* Without faults such a client gets an error only when the sandbox is gone,
\* or stopped under a handle that does not look, or for a file of the handle or
\* the disk of a resize: CPU and memory are never the reason.
THEOREM ErrorsAreReal == Spec => NoSpuriousError
<1>1. ASSUME IInv, CalmOK, [Next]_vars, NEW p \in Handlers, Throws(p) /\ calm /\ faults' = 0
      PROVE  ~There \/ Excused(p)
  BY <1>1, NextCalm DEF ErrorOK
<1>2. IInv /\ CalmOK /\ [Next]_vars =>
        [\A p \in Handlers : Throws(p) /\ calm /\ faults' = 0 =>
           ~There \/ Excused(p)]_vars
  BY <1>1
<1> QED
  BY <1>2, Calmness, Invariance, PTL DEF Spec, NoSpuriousError

=============================================================================
