----------------------------- MODULE SandboxLife -----------------------------
(***************************************************************************)
(* What a provider promises to its clients about the life of a sandbox,    *)
(* without Docker, SDK, caches or handlers.                                *)
(***************************************************************************)
CONSTANTS
  Ids,
  Doubtful  \* the ids whose deletion may be confirmed although it failed

VARIABLES
  life,    \* id -> "absent", "started", "stopped" or "deleted"
  known,   \* the ids clients were given
  killed   \* the ids clients were told are deleted

vars == <<life, known, killed>>

TypeInv ==
  /\ life \in [Ids -> {"absent", "started", "stopped", "deleted"}]
  /\ known \subseteq Ids /\ killed \subseteq known

Init == life = [id \in Ids |-> "absent"] /\ known = {} /\ killed = {}

Turn(id, from, to) ==
  life[id] \in from /\ life' = [life EXCEPT ![id] = to] /\ UNCHANGED <<known, killed>>

Appear(id) == \E st \in {"started", "stopped"} : Turn(id, {"absent"}, st)
Resume(id) == Turn(id, {"stopped"}, "started")
Suspend(id) == Turn(id, {"started"}, "stopped")
Delete(id) == Turn(id, {"started", "stopped"}, "deleted")

\* A create is answered once, with a sandbox that is there; its start may be
\* the last thing before the answer.
Announce(id) ==
  /\ id \notin known /\ life[id] \in {"started", "stopped"}
  /\ life' \in {life, [life EXCEPT ![id] = "started"]}
  /\ known' = known \cup {id} /\ UNCHANGED killed

\* A kill is answered only when the sandbox is gone, at the latest now.
Confirm(id) ==
  /\ id \in known
  /\ \/ life' = [life EXCEPT ![id] = "deleted"]
     \/ id \in Doubtful /\ UNCHANGED life
  /\ killed' = killed \cup {id} /\ UNCHANGED known

Next == \E id \in Ids :
  Appear(id) \/ Resume(id) \/ Suspend(id) \/ Delete(id) \/ Announce(id) \/ Confirm(id)

Spec == Init /\ [][Next]_vars
=============================================================================
