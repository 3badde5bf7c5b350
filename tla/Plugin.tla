------------------------------- MODULE Plugin -------------------------------
(***************************************************************************)
(* The OpenCode plugin (packages/opencode-plugin) on top of the broker:    *)
(* tool calls of a session get a handle on a sandbox, through a lease or   *)
(* from the map of an earlier call, and run commands in it; the events     *)
(* session.idle and session.deleted release the lease.                     *)
(*                                                                         *)
(* A plugin call is a worker w: it has at most one HTTP request at the     *)
(* broker, served by the handler of the same name (pc[w], job[w]), and     *)
(* calls the sandbox's runtime itself.                                     *)
(***************************************************************************)
EXTENDS Broker

CONSTANTS
  Overlap,   \* what may begin while a session is busy: "tools" during its tool
             \* calls, "release" tool calls during its release
  MaxCalls   \* bound: how many tool calls and events

ASSUME PluginAssumption == Overlap \subseteq {"tools", "release"} /\ MaxCalls \in Nat

VARIABLES
  handle,     \* sessions: session -> the sandbox of its handle
  step,       \* what a plugin call does
  seat,       \* its session, its sandbox, its ticket
  begun,
  \* history
  failed,     \* sessions whose last release was answered with an error
  abandoned,  \* sessions of which a tool call ended without its handle
  regranted   \* sessions whose lease was replaced by one on another sandbox

plugin  == <<handle, step, seat, begun, failed, abandoned>>
allVars == <<vars, plugin, regranted>>

Steps == {"free", "asking", "polling", "connect", "prepare",
          "reopen", "beat", "beating", "run", "again", "releasing"}
Seat == [s : Sessions \cup {None}, sb : SandboxIds \cup {None}, t : TicketIds \cup {None}]
NoSeat == [s |-> None, sb |-> None, t |-> None]

PluginInit ==
  /\ Init
  /\ handle = [s \in Sessions |-> None]
  /\ step = [w \in Workers |-> "free"] /\ seat = [w \in Workers |-> NoSeat]
  /\ begun = 0 /\ failed = {} /\ abandoned = {} /\ regranted = {}

-----------------------------------------------------------------------------
(* Idioms *)

Busy(s) == {w \in Workers : step[w] # "free" /\ seat[w].s = s}

\* What the history keeps of the step that the broker takes.
Replaced == {s \in Leased : leases'[s] # None /\ leases'[s].sb # leases[s].sb}
Noted == regranted' = regranted \cup Replaced

Turn(w, st, v) ==
  step' = [step EXCEPT ![w] = st] /\ seat' = [seat EXCEPT ![w] = v] /\ Noted
Go(w, st) == Turn(w, st, seat[w]) /\ UNCHANGED <<handle, begun, failed, abandoned>>
Use(w, st, sb) ==
  Turn(w, st, [seat[w] EXCEPT !.sb = sb]) /\ UNCHANGED <<handle, begun, failed, abandoned>>
Over(w) == Turn(w, "free", NoSeat) /\ UNCHANGED begun

\* The tool call throws; without a handle its ticket or lease is left behind.
GivesUp(w) ==
  Over(w) /\ abandoned' = abandoned \cup {seat[w].s} /\ UNCHANGED <<handle, failed>>
Ends(w) == Over(w) /\ UNCHANGED <<handle, failed, abandoned>>

\* A call to the runtime, which starts a sandbox that is stopped.
Calls(w, ok, error) ==
  /\ pc[w] = "idle" /\ UNCHANGED <<store, log, owner, pc, job, issued>>
  /\ \/ Provider(seat[w].sb, "started") /\ ok
     \/ ProviderFails(seat[w].sb, "started") /\ error

Begins(w, s) ==
  step[w] = "free" /\ pc[w] = "idle" /\ begun < MaxCalls /\ begun' = begun + 1

-----------------------------------------------------------------------------
(* getHandle *)

MayCall(s) ==
  \A w \in Busy(s) : IF step[w] = "releasing" THEN "release" \in Overlap ELSE "tools" \in Overlap

\* A session in the map: its sandbox is started and its lease renewed.
CallAgain(w, s) ==
  /\ Begins(w, s) /\ MayCall(s) /\ handle[s] # None
  /\ UNCHANGED <<vars, handle, failed, abandoned>>
  /\ Turn(w, "reopen", [s |-> s, sb |-> handle[s], t |-> None])

Reopen(w) == step[w] = "reopen" /\ Calls(w, Go(w, "beat"), Ends(w))

\* The answer of heartbeat is not looked at.
Beat(w) ==
  /\ step[w] = "beat" /\ Heartbeat(w, seat[w].s)
  /\ Go(w, IF leases[seat[w].s] = None THEN "run" ELSE "beating")

\* Otherwise a lease is acquired; an existing one is granted at once.
CallFirst(w, s) ==
  /\ Begins(w, s) /\ MayCall(s) /\ handle[s] = None
  /\ \E mode \in ModesOf[s] : Acquire(w, s, mode)
  /\ IF leases[s] = None
     THEN Turn(w, "asking", [NoSeat EXCEPT !.s = s])
     ELSE Turn(w, "connect", [NoSeat EXCEPT !.s = s, !.sb = leases[s].sb])
  /\ UNCHANGED <<handle, failed, abandoned>>

\* pollUntilReady: the polls that find the ticket queued change nothing.
IsReady(t) == tickets[t].status = "ready"
PollReady(w) ==
  /\ step[w] = "polling" /\ IsReady(seat[w].t) /\ UNCHANGED vars
  /\ Use(w, "connect", tickets[seat[w].t].sb)
PollTimeout(w) ==
  step[w] = "polling" /\ ~IsReady(seat[w].t) /\ UNCHANGED vars /\ GivesUp(w)

\* handle.start, the directories of the shared modes, sessions.set.
KeepForUser(w) ==  \* mutant: the map is keyed by the user
  /\ handle' = [s \in Sessions |-> IF UserOf[s] = UserOf[seat[w].s] THEN seat[w].sb ELSE handle[s]]
  /\ Turn(w, "run", seat[w]) /\ UNCHANGED <<begun, failed, abandoned>>
Keep(w) ==
  /\ handle' = [handle EXCEPT ![seat[w].s] = seat[w].sb]
  /\ Turn(w, "run", seat[w]) /\ UNCHANGED <<begun, failed, abandoned>>
Shared(w) == \A mode \in ModesOf[seat[w].s] : mode # "exclusive"
Connect(w) ==
  step[w] = "connect" /\ Calls(w, IF Shared(w) THEN Go(w, "prepare") ELSE Keep(w), GivesUp(w))
Prepare(w) == step[w] = "prepare" /\ Calls(w, Keep(w), GivesUp(w))

\* The tool's command; edit reads the file and writes it.
Run(w) ==
  /\ step[w] \in {"run", "again"}
  /\ \/ Calls(w, Ends(w), Ends(w))
     \/ step[w] = "run" /\ Calls(w, Go(w, "again"), Ends(w))

-----------------------------------------------------------------------------
(* releaseSandbox *)

\* A session is idle, or deleted, when none of its calls is at work.
Event(w, s, reason) ==
  /\ Begins(w, s) /\ Busy(s) = {}
  /\ Release(w, s, reason)
  /\ IF leases[s] = None
     THEN /\ handle' = [handle EXCEPT ![s] = None] /\ failed' = failed \ {s}
          /\ UNCHANGED <<step, seat, regranted>>
     ELSE Turn(w, "releasing", [NoSeat EXCEPT !.s = s]) /\ UNCHANGED <<handle, failed>>
  /\ UNCHANGED abandoned

\* Mutant: the map is not cleared.
ReleaseOkKeeps(w) ==
  failed' = failed \ {seat[w].s} /\ Over(w) /\ UNCHANGED <<handle, abandoned>>

ReleaseOk(w) ==
  /\ handle' = [handle EXCEPT ![seat[w].s] = None] /\ failed' = failed \ {seat[w].s}
  /\ Over(w) /\ UNCHANGED abandoned

\* The map keeps the session when the broker answers with an error.
ReleaseError(w) ==
  failed' = failed \cup {seat[w].s} /\ Over(w) /\ UNCHANGED <<handle, abandoned>>

-----------------------------------------------------------------------------
(* The broker's answers *)

Answered(w) ==
  CASE step[w] = "beating" -> Go(w, "run")
    [] step[w] = "asking" /\ pc[w] = "cl_save" -> Use(w, "connect", job[w].sb)
    [] step[w] = "asking" /\ pc[w] = "enq_publish" /\ faults' = faults ->
         /\ Turn(w, "polling", [seat[w] EXCEPT !.t = job[w].t])
         /\ UNCHANGED <<handle, begun, failed, abandoned>>
    [] step[w] = "asking" /\ pc[w] # "cl_save" /\ (pc[w] = "enq_publish" => faults' # faults) -> GivesUp(w)
    [] step[w] = "releasing" -> IF pc[w] \in {"rel_stop", "rel_kill"} THEN ReleaseError(w) ELSE ReleaseOk(w)

Serve(w) == Step(w) /\ IF pc'[w] = "idle" THEN Answered(w) ELSE UNCHANGED plugin /\ Noted

\* The requests in flight fail.
BrokerDies ==
  LET cut == {w \in Workers : pc[w] # "idle"} IN
  /\ Crash
  /\ step' = [w \in Workers |-> IF w \in cut THEN "free" ELSE step[w]]
  /\ seat' = [w \in Workers |-> IF w \in cut THEN NoSeat ELSE seat[w]]
  /\ failed' = failed \cup {seat[w].s : w \in {v \in cut : step[v] = "releasing"}}
  /\ abandoned' = abandoned \cup {seat[w].s : w \in {v \in cut : step[v] = "asking"}}
  /\ UNCHANGED <<handle, begun, regranted>>

-----------------------------------------------------------------------------
(* The specification *)

Tool(w) ==
  \/ Reopen(w) \/ Beat(w) \/ PollReady(w) \/ PollTimeout(w)
  \/ Connect(w) \/ Prepare(w) \/ Run(w)

AllQuiet == Quiet /\ \A w \in Workers : step[w] = "free"

PluginNext ==
  \/ \E w \in Workers, s \in Sessions :
       \/ CallAgain(w, s) \/ CallFirst(w, s)
       \/ \E reason \in Reasons : Event(w, s, reason)
  \/ \E w \in Workers : Tool(w) \/ Serve(w)
  \/ /\ \/ Consume \/ Step(Consumer)
        \/ \E p \in Sweepers : SwKeys(p) \/ Step(p)
        \/ \E s \in Sessions : Expire(s)
     /\ UNCHANGED plugin /\ Noted
  \/ BrokerDies
  \/ AllQuiet /\ UNCHANGED allVars

PluginSpec == PluginInit /\ [][PluginNext]_allVars
=============================================================================
