---------------------------- MODULE RuntimeProofs ----------------------------
(***************************************************************************)
(* Proofs about the sandbox runtime, for every number of sandboxes,        *)
(* addresses, overlapping requests, faults and restarts: IInv is an        *)
(* invariant, and with it the record of a sandbox, where a command runs,   *)
(* what the answers tell, and the implementation of SandboxLife.           *)
(*                                                                         *)
(* A step touches one handler and one sandbox (Touches); StepKeeps says    *)
(* what such a step has to show for IInv to hold again, and one lemma per  *)
(* action shows it.                                                        *)
(***************************************************************************)
EXTENDS RuntimeInv, TLAPS

-----------------------------------------------------------------------------
(* A step of one handler on one sandbox *)

Sure(p) == Formed(p) /\ Resolved(p) /\ Creating(p) /\ (Id(p) \in calm => Knows(p))

\* What a step of handler p on the sandbox id leaves alone.
Touches(p, id) ==
  /\ pc' = [pc EXCEPT ![p] = pc'[p]] /\ job' = [job EXCEPT ![p] = job'[p]]
  /\ container' = [container EXCEPT ![id] = container'[id]]
  /\ label' = [label EXCEPT ![id] = label'[id]] /\ addr' = [addr EXCEPT ![id] = addr'[id]]
  /\ record' = [record EXCEPT ![id] = record'[id]]
  /\ \A c \in Ids : c # id => /\ c \in known' <=> c \in known
                              /\ c \in cached' <=> c \in cached
                              /\ c \in calm' <=> c \in calm
  /\ backend' = backend /\ late' = late

\* What stays so for the other handlers of that sandbox.
Lasts(id) ==
  /\ id \in known => id \in known'
  /\ record[id] # None => record'[id] # None
  /\ container[id] = "removed" => container'[id] = "removed"
  /\ label[id] # None => label'[id] = label[id]
  /\ id \in calm' => id \in calm
  /\ faults' >= faults

LEMMA OthersKeep ==
  ASSUME IInv, TypeOK', NEW p \in Handlers, NEW id \in Ids, Touches(p, id), Lasts(id),
         NEW q \in Handlers, q # p, pc[q] # "idle",
         Id(q) = id => ~Sub(q, "create") /\ id \notin calm'
  PROVE  /\ pc'[q] # "idle" /\ Sure(q)'
         /\ Id(p)' # Id(q) => Alone(q)'
<1>1. pc'[q] = pc[q] /\ job'[q] = job[q] /\ Id(q) \in Ids
  BY DEF Touches, IInv, TypeOK, Work, Formed
<1>2. Formed(q) /\ Resolved(q) /\ Creating(q) /\ Alone(q) /\ (Id(q) \in calm => Knows(q))
  BY DEF IInv, Work, Undisturbed
<1>3. Formed(q)'
  BY <1>1, <1>2 DEF Formed, PlanAt, Quotes404, Id
<1>4. backend' = backend /\ faults \in Nat /\ faults' \in Nat
  BY DEF Touches, IInv, TypeOK
<1>5. ASSUME Id(q) # id
      PROVE  /\ container'[Id(q)] = container[Id(q)] /\ label'[Id(q)] = label[Id(q)]
             /\ addr'[Id(q)] = addr[Id(q)] /\ record'[Id(q)] = record[Id(q)]
             /\ Id(q) \in known' <=> Id(q) \in known
             /\ Id(q) \in cached' <=> Id(q) \in cached
             /\ Id(q) \in calm' <=> Id(q) \in calm
  BY <1>1, <1>5 DEF Touches, IInv, TypeOK
<1>6. Resolved(q)'
  <2>1. CASE Id(q) # id
    BY <1>1, <1>2, <1>4, <1>5, <2>1 DEF Resolved, Sub, Id, BackendOf
  <2>2. CASE Id(q) = id
    <3>1. pc[q] = "fill" /\ ~Sub(q, "create") => label[id] # None
      BY <1>2, <2>2 DEF Resolved, IInv, Sandboxes, Sound
    <3> QED
      BY <1>1, <1>2, <1>4, <2>2, <3>1 DEF Resolved, Sub, Id, BackendOf, Lasts
  <2> QED
    BY <2>1, <2>2
<1>7. Creating(q)'
  <2>1. CASE Id(q) # id
    BY <1>1, <1>2, <1>4, <1>5, <2>1 DEF Creating, Sub, Id, Made, Exists, Lasts
  <2>2. CASE Id(q) = id
    BY <1>1, <2>2 DEF Creating, Sub, Id
  <2> QED
    BY <2>1, <2>2
<1>8. (Id(q) \in calm => Knows(q))'
  <2>1. CASE Id(q) # id
    BY <1>1, <1>2, <1>4, <1>5, <2>1 DEF Knows, UpAt, Sub, Id, Running, Exists, Lasts
  <2>2. CASE Id(q) = id
    BY <1>1, <2>2 DEF Id
  <2> QED
    BY <2>1, <2>2
<1>9. ASSUME Id(p)' # Id(q) PROVE Alone(q)'
  <2>1. \A r \in Handlers : r # p => job'[r] = job[r]
    BY DEF Touches, IInv, TypeOK
  <2>2. Id(q) \in calm' => Id(q) \in calm
    BY <1>5 DEF Lasts
  <2> QED
    BY <1>1, <1>2, <1>9, <2>1, <2>2 DEF Alone, Sub, Id
<1> QED
  BY <1>1, <1>3, <1>6, <1>7, <1>8, <1>9 DEF Sure

LEMMA SandboxesKeep ==
  ASSUME IInv, TypeOK', NEW p \in Handlers, NEW id \in Ids, Touches(p, id), Lasts(id), Sound(id)',
         addr'[id] \in {addr[id], None} \/ \A c \in Ids : addr[c] # addr'[id]
  PROVE  Sandboxes'
<1>1. ASSUME NEW c \in Ids, c # id
      PROVE  /\ container'[c] = container[c] /\ label'[c] = label[c]
             /\ addr'[c] = addr[c] /\ record'[c] = record[c]
             /\ c \in known' <=> c \in known
             /\ c \in calm' <=> c \in calm
  BY <1>1 DEF Touches, IInv, TypeOK
<1>2. ASSUME NEW c \in Ids PROVE Sound(c)'
  <2>1. CASE c # id
    <3>1. Sound(c) /\ backend' = backend /\ (faults' = 0 => faults = 0)
      BY DEF IInv, TypeOK, Sandboxes, Touches, Lasts
    <3> QED
      BY <1>1, <2>1, <3>1 DEF Sound, Running
  <2> QED
    BY <2>1
<1>3. Apart'
  BY <1>1 DEF Apart, IInv, Sandboxes
<1> QED
  BY <1>2, <1>3 DEF Sandboxes

\* A step of a handler at work that ends it, or leaves it at a call it is sure of.
LEMMA StepKeeps ==
  ASSUME IInv, TypeOK', NEW p \in Handlers, pc[p] # "idle", NEW id, id = Id(p),
         Touches(p, id), Lasts(id), calm' = calm, Sound(id)',
         addr'[id] \in {addr[id], None} \/ \A c \in Ids : addr[c] # addr'[id],
         \/ pc'[p] = "idle" /\ Id(p)' = None
         \/ /\ pc'[p] # "idle" /\ Id(p)' = id /\ Sure(p)'
            /\ Sub(p, "create")' <=> Sub(p, "create")
  PROVE  IInv'
<1>1. id \in Ids /\ Alone(p)
  BY DEF IInv, Work, Formed
<1>2. Sandboxes'
  BY <1>1, SandboxesKeep
<1>3. ASSUME NEW q \in Handlers, q # p
      PROVE  pc'[q] = pc[q] /\ job'[q] = job[q]
  BY <1>3 DEF Touches, IInv, TypeOK
<1>4. ASSUME NEW q \in Handlers, q # p, pc[q] # "idle"
      PROVE  pc'[q] # "idle" /\ Sure(q)' /\ Alone(q)'
  <2>1. Id(q) \in Ids /\ Alone(q)
    BY <1>4 DEF IInv, Work, Formed
  <2>2. Id(q) = id => ~Sub(q, "create") /\ id \notin calm'
    BY <1>4, <2>1 DEF Alone
  <2>3. Sure(q)' /\ (Id(p)' # Id(q) => Alone(q)')
    BY <1>1, <1>4, <2>2, OthersKeep
  <2>4. CASE Id(q) # id
    BY <1>3, <1>4, <2>1, <2>3, <2>4, NamesAssumption
  <2>5. CASE Id(q) = id
    BY <1>3, <1>4, <2>2, <2>3, <2>5 DEF Alone, Sub, Id
  <2> QED
    BY <1>3, <1>4, <2>3, <2>4, <2>5
<1>5. ASSUME pc'[p] # "idle" PROVE Alone(p)'
  <2>1. ASSUME NEW q \in Handlers, q # p, Id(q)' = id PROVE Id(q) = id
    BY <1>3, <2>1 DEF Id
  <2> QED
    BY <1>1, <1>5, <2>1 DEF Alone
<1>6. Work'
  <2>1. ASSUME NEW q \in Handlers, q # p, pc[q] = "idle" PROVE pc'[q] = "idle" /\ Id(q)' = None
    BY <1>3, <2>1 DEF Id, IInv, Work
  <2> QED
    BY <1>3, <1>4, <1>5, <2>1 DEF Work, Sure
<1>7. Undisturbed'
  BY <1>3, <1>4 DEF Undisturbed, Sure
<1>8. Leftovers'
  <2>1. \A c \in late : c.id \in Ids
    BY DEF IInv, TypeOK
  <2> QED
    BY <1>1, <2>1 DEF IInv, Leftovers, Touches, Lasts
<1> QED
  BY <1>2, <1>6, <1>7, <1>8 DEF IInv

-----------------------------------------------------------------------------
(* Steps that leave Docker alone: a handler goes on with an answer *)

Moves(p, w, j) == pc' = [pc EXCEPT ![p] = w] /\ job' = [job EXCEPT ![p] = j]

\* r may be the record of the sandbox id.
Fits(id, r) ==
  r # None => /\ r \in Record /\ container[id] # "absent"
              /\ label[id] = "aio" => r.backend = "aio"
              /\ faults = 0 => r.backend = label[id]

\* The record becomes r, the Map and the history may change for this id.
Writes(id, r) ==
  /\ record' = [record EXCEPT ![id] = r] /\ Fits(id, r) /\ (record[id] # None => r # None)
  /\ cached' \subseteq Ids /\ known' \subseteq Ids /\ killed' \subseteq known'
  /\ \A c \in Ids : c # id => (c \in cached' <=> c \in cached) /\ (c \in known' <=> c \in known)
  /\ id \in cached' => r # None
  /\ id \in known => id \in known'
  /\ id \in known' => container[id] # "absent"
  /\ UNCHANGED <<docker, backend, calm, bounds>>

LEMMA RecordFits ==
  ASSUME IInv, NEW id \in Ids
  PROVE  Fits(id, record[id])
BY DEF IInv, TypeOK, Sandboxes, Sound, Fits

LEMMA MemoryKeeps ==
  ASSUME IInv, NEW p \in Handlers, NEW id \in Ids, NEW w \in Waits \cup {"idle"}, NEW j \in Job,
         NEW r, Moves(p, w, j), Writes(id, r)
  PROVE  /\ TypeOK' /\ Touches(p, id) /\ Lasts(id) /\ Sound(id)'
         /\ pc'[p] = w /\ job'[p] = j /\ record'[id] = r
<1>1. pc'[p] = w /\ job'[p] = j /\ record'[id] = r
  BY DEF IInv, TypeOK, Moves, Writes
<1>2. UNCHANGED <<container, label, addr, late, backend, calm, issued, faults>>
  BY DEF Writes, docker, bounds
<1>3. Touches(p, id)
  BY <1>1, <1>2 DEF IInv, TypeOK, Moves, Writes, Touches
<1>4. Lasts(id)
  BY <1>1, <1>2 DEF IInv, TypeOK, Writes, Lasts
<1>5. Sound(id)'
  <2>1. Sound(id)
    BY DEF IInv, Sandboxes
  <2> QED
    BY <1>1, <1>2, <2>1 DEF Sound, Writes, Fits, Running
<1>6. \A c \in Ids : record'[c] \in Record \cup {None}
  BY <1>1 DEF IInv, TypeOK, Writes, Fits
<1>7. \A c \in cached' : record'[c] # None
  BY <1>1 DEF IInv, TypeOK, Writes
<1>8. TypeOK'
  BY <1>2, <1>6, <1>7 DEF IInv, TypeOK, Moves, Writes
<1> QED
  BY <1>1, <1>3, <1>4, <1>5, <1>8

LEMMA EndsKeeps ==
  ASSUME IInv, NEW p \in Handlers, pc[p] # "idle", NEW a \in {"ok", "error"},
         NEW r, Respond(p, a), Writes(Id(p), r)
  PROVE  IInv'
<1> DEFINE j == [NoJob EXCEPT !.ans = a]
           id == Id(p)
<1>1. j \in Job /\ id \in Ids /\ j.id = None
  BY DEF NoJob, Job, IInv, Work, Formed
<1>2. Moves(p, "idle", j)
  BY DEF Respond, Moves
<1>3. /\ TypeOK' /\ Touches(p, id) /\ Lasts(id)
      /\ pc'[p] = "idle" /\ job'[p] = j
  BY <1>1, <1>2, MemoryKeeps
<1>4. PICK i : i = id
  OBVIOUS
<1>5. Sound(i)'
  BY <1>1, <1>2, <1>4, MemoryKeeps
<1>6. Id(p)' = None /\ calm' = calm /\ addr'[i] = addr[i]
  BY <1>1, <1>3 DEF Id, Writes, docker
<1> QED
  BY <1>3, <1>4, <1>5, <1>6, StepKeeps

\* What a handler that goes on to a call brings along, if nobody disturbs its
\* sandbox.
Prepared(id, w, j, r) ==
  /\ w \in {"fill", "endpoint", "ready", "exec", "fetch", "stop"} \/ j.then = "send" => Running(id)
  /\ w \in {"create", "start"} => ~Running(id)
  /\ w = "start" => Exists(id)
  /\ w \in {"ready", "fetch"} => j.to = addr[id]
  /\ w \in {"endpoint", "ready"} /\ j.sub # "create" => r.state = "started"
  /\ w \in {"endpoint", "ready", "fetch"} /\ j.sub # "create" => r.backend = "aio"
  /\ j.then = "send" => w \in {"inspect", "endpoint", "fetch"} /\ r.backend = "aio"

LEMMA PreparedKnows ==
  ASSUME NEW p \in Handlers, NEW id, NEW w, NEW j, NEW r, w = pc'[p], j = job'[p], r = record'[id],
         Id(p)' = id, j.ans = None, UNCHANGED docker, Prepared(id, w, j, r)
  PROVE  Knows(p)'
<1>1. None \notin Status \cup Addrs \cup {"ok", "gone", "error"}
  BY NamesAssumption DEF Words
<1> QED
  BY <1>1 DEF Prepared, Knows, UpAt, Id, Sub, docker, Running, Exists

\* A method other than create goes on to the call w.
LEMMA MethodKeeps ==
  ASSUME IInv, NEW p \in Handlers, pc[p] # "idle", ~Sub(p, "create"),
         NEW w \in Waits, NEW j \in Job, NEW r, Wait(p, w, j),
         j.id = Id(p), PlanAt(w, j), j.sub # "create", w \in {"ready", "fetch"} => j.to \in Addrs,
         Writes(Id(p), r), known' = known,
         w \notin {"list", "fill"} => r # None,
         w = "fill" => BackendOf(Id(p)) = "aio",
         Id(p) \in calm => Prepared(Id(p), w, j, r)
  PROVE  IInv'
<1> DEFINE k == [j EXCEPT !.ans = None]
<1>1. PICK id : id = Id(p)
  OBVIOUS
<1>2. id \in Ids /\ id \in known /\ Formed(p)
  BY <1>1 DEF IInv, Work, Formed, Resolved
<1>3. k \in Job /\ k.id = id /\ k.op = j.op /\ k.sub = j.sub /\ k.then = j.then /\ k.to = j.to /\ k.ans = None
  BY <1>1 DEF Job
<1>4. Moves(p, w, k)
  BY DEF Wait, Moves
<1>5. /\ TypeOK' /\ Touches(p, id) /\ Lasts(id) /\ Sound(id)'
      /\ pc'[p] = w /\ job'[p] = k /\ record'[id] = r
  BY <1>1, <1>2, <1>3, <1>4, MemoryKeeps
<1>6. Id(p)' = id /\ calm' = calm /\ addr'[id] = addr[id] /\ ~Sub(p, "create")'
  BY <1>2, <1>3, <1>5 DEF Id, Writes, docker, Sub
<1>7. Formed(p)'
  BY <1>1, <1>2, <1>3, <1>5, <1>6, NamesAssumption DEF Formed, PlanAt, Plan, Id, Words
<1>8. Resolved(p)'
  <2>1. None \notin {"ok", "gone"}
    BY NamesAssumption DEF Words
  <2> QED
    BY <1>1, <1>2, <1>3, <1>5, <1>6, <2>1 DEF Resolved, Writes, BackendOf, Id, docker
<1>9. (Id(p) \in calm => Knows(p))'
  <2>1. id \in calm => Prepared(id, w, k, r)
    BY <1>1, <1>3 DEF Prepared
  <2>2. UNCHANGED docker
    BY DEF Writes
  <2> QED
    BY <1>3, <1>5, <1>6, <2>1, <2>2, PreparedKnows
<1>10. Sure(p)'
  BY <1>6, <1>7, <1>8, <1>9 DEF Sure, Creating
<1> QED
  BY <1>1, <1>5, <1>6, <1>10, StepKeeps DEF Waits
-----------------------------------------------------------------------------
(* A method returns and its caller goes on *)

\* What the caller of a method may count on, if nobody disturbs the sandbox.
Returned(id, then, r) ==
  /\ r.state = "started" <=> Running(id)
  /\ then \in {"again", "send"} => Running(id)
  /\ then = "send" => r.backend = "aio" /\ r.endpoint = addr[id]

LEMMA WritesRecord ==
  ASSUME IInv, NEW p \in Handlers, pc[p] # "idle", ~Sub(p, "create"), NEW r \in Record,
         record' = [record EXCEPT ![Id(p)] = r], Fits(Id(p), r),
         cached' \in {cached, cached \cup {Id(p)}}, UNCHANGED others
  PROVE  /\ Writes(Id(p), r) /\ known' = known
         /\ Id(p) \in Ids /\ record'[Id(p)] = r /\ r # None
<1>1. Id(p) \in Ids /\ Id(p) \in known
  BY DEF IInv, Work, Formed, Resolved
<1>2. r # None /\ container[Id(p)] # "absent"
  BY NamesAssumption DEF Fits
<1> QED
  BY <1>1, <1>2 DEF Writes, others, history, IInv, TypeOK

LEMMA ReturnKeeps ==
  ASSUME IInv, NEW p \in Handlers, pc[p] # "idle", ~Sub(p, "create"), NEW r \in Record,
         record' = [record EXCEPT ![Id(p)] = r], Fits(Id(p), r), UNCHANGED others, Return(p),
         Id(p) \in calm => Returned(Id(p), job[p].then, r)
  PROVE  IInv'
<1> DEFINE id == Id(p)
           then == job[p].then
<1>1. Writes(id, r) /\ known' = known /\ id \in Ids /\ id \in cached' /\ Now(p) = r /\ r # None
  BY WritesRecord DEF Return, Now
<1>2. job[p] \in Job /\ Plan(job[p]) /\ job[p].sub # "create"
  BY DEF IInv, TypeOK, Work, Formed, PlanAt, Sub
<1>3. ASSUME NEW sub \in {"get", "start"}, NEW th, NEW old \in Job, old = job[p], Begin(p, old, sub, th),
             <<sub, th>> \in {<<"get", "send">>, <<"start", "again">>, <<"get", "check">>},
             job[p].op \in {"exec", "file"}, th = "send" => r.backend = "aio",
             id \in calm /\ th = "send" => Running(id)
      PROVE  IInv'
  <2> DEFINE j == [old EXCEPT !.sub = sub, !.then = th]
  <2>1. j \in Job /\ j.id = id /\ j.op = job[p].op /\ j.sub = sub /\ j.then = th
    BY <1>2, <1>3 DEF Job, Id
  <2>2. Wait(p, "inspect", j)
    BY <1>1, <1>3, <2>1 DEF Begin
  <2>3. PlanAt("inspect", j) /\ j.sub # "create" /\ "inspect" \in Waits
    BY <1>3, <2>1 DEF PlanAt, Plan, SubsAt, Waits
  <2>4. id \in calm => Prepared(id, "inspect", j, r)
    BY <1>3, <2>1 DEF Prepared
  <2> QED
    BY <1>1, <2>1, <2>2, <2>3, <2>4, MethodKeeps
<1>4. ASSUME NEW w \in {"update", "exec", "fetch"}, NEW j \in Job, Wait(p, w, j),
             j.id = id, j.op = job[p].op, j.sub = job[p].sub, j.then = then,
             w = "update" => then = "update",
             w = "exec" => j.op \in {"exec", "file"} /\ then \in {"check", "again", "file"},
             w = "exec" /\ id \in calm => Running(id),
             w = "fetch" => then = "send" /\ j.to = r.endpoint /\ j.to # None
      PROVE  IInv'
  <2>1. Plan(j) /\ j.sub \in SubsAt(w)
    BY <1>2, <1>4 DEF Plan, SubsAt
  <2>2. PlanAt(w, j) /\ j.sub # "create" /\ w \in Waits
    BY <1>4, <2>1 DEF PlanAt, Plan, Sub, Waits
  <2>3. w = "fetch" => j.to \in Addrs
    BY <1>4 DEF Job
  <2>4. id \in calm => Prepared(id, w, j, r)
    BY <1>2, <1>4 DEF Prepared, Returned, Plan
  <2> QED
    BY <1>1, <1>4, <2>2, <2>3, <2>4, MethodKeeps
<1>5. ASSUME Proceed(p), job[p].op \in {"exec", "file"}, then \in {"check", "again", "file"},
             id \in calm => Running(id)
      PROVE  IInv'
  <2>1. CASE r.backend = "aio" /\ Begin(p, job[p], "get", "send")
    <3>1. PICK j \in Job : j = job[p]
      BY <1>2
    <3>2. Begin(p, j, "get", "send")
      BY <2>1, <3>1 DEF Begin, Wait
    <3> QED
      BY <1>3, <1>5, <2>1, <3>1, <3>2
  <2>2. CASE r.backend = "e2b" /\ Wait(p, "exec", job[p])
    <3>1. PICK j \in Job : j = job[p]
      BY <1>2
    <3>2. Wait(p, "exec", j)
      BY <2>2, <3>1 DEF Wait
    <3> QED
      BY <1>4, <1>5, <3>1, <3>2 DEF Id
  <2> QED
    BY <1>1, <1>5, <2>1, <2>2 DEF Proceed
<1>6. ASSUME Checked(p), job[p].op \in {"exec", "file"}, then \in {"check", "again", "file"}
      PROVE  IInv'
  <2>1. CASE r.state = "started" /\ Proceed(p)
    BY <1>5, <1>6, <2>1 DEF Returned
  <2>2. CASE Begin(p, job[p], "start", "again")
    <3>1. PICK j \in Job : j = job[p]
      BY <1>2
    <3>2. Begin(p, j, "start", "again")
      BY <2>2, <3>1 DEF Begin, Wait
    <3> QED
      BY <1>3, <1>6, <3>1, <3>2
  <2> QED
    BY <1>1, <1>6, <2>1, <2>2 DEF Checked
<1>7. CASE Reply(p) \/ Throw(p)
  BY <1>1, <1>7, EndsKeeps DEF Reply, Throw
<1>8. CASE then = "update" /\ Wait(p, "update", job[p])
  <2>1. PICK j \in Job : j = job[p]
    BY <1>2
  <2>2. Wait(p, "update", j)
    BY <1>8, <2>1 DEF Wait
  <2> QED
    BY <1>2, <1>4, <1>8, <2>1, <2>2 DEF Id
<1>9. CASE then = "check" /\ Checked(p)
  BY <1>2, <1>6, <1>9 DEF Plan
<1>10. CASE then = "again" /\ Proceed(p)
  BY <1>2, <1>5, <1>10 DEF Plan, Returned
<1>11. CASE then = "send" /\ r.endpoint # None /\ Wait(p, "fetch", [job[p] EXCEPT !.to = r.endpoint])
  <2> DEFINE j == [job[p] EXCEPT !.to = r.endpoint]
  <2>1. /\ j \in Job /\ j.id = id /\ j.op = job[p].op /\ j.sub = job[p].sub /\ j.then = then
        /\ j.to = r.endpoint
    BY <1>2, <1>11 DEF Job, Record, Id
  <2> QED
    BY <1>4, <1>11, <2>1
<1>12. CASE then = "file" /\ Checked(p)
  BY <1>2, <1>6, <1>12 DEF Plan
<1>13. CASE then = "file" /\ Begin(p, job[p], "get", "check")
  <2>1. PICK j \in Job : j = job[p]
    BY <1>2
  <2>2. Begin(p, j, "get", "check")
    BY <1>13, <2>1 DEF Begin, Wait
  <2> QED
    BY <1>2, <1>3, <1>13, <2>1, <2>2 DEF Plan
<1> QED
  BY <1>1, <1>7, <1>8, <1>9, <1>10, <1>11, <1>12, <1>13 DEF Return, Continue
-----------------------------------------------------------------------------
(* The methods: what goes on leaves the record alone or writes it *)

LEMMA WritesNothing ==
  ASSUME IInv, NEW p \in Handlers, pc[p] # "idle", UNCHANGED <<record, cached, others>>
  PROVE  Writes(Id(p), record[Id(p)]) /\ known' = known
<1>1. Id(p) \in Ids
  BY DEF IInv, Work, Formed
<1>2. Fits(Id(p), record[Id(p)]) /\ Sound(Id(p))
  BY <1>1, RecordFits DEF IInv, Sandboxes
<1> QED
  BY <1>1, <1>2 DEF Writes, Sound, others, history, docker, bounds, IInv, TypeOK

\* The handler waits for another call of the same method.
LEMMA GoesOn ==
  ASSUME IInv, NEW p \in Handlers, pc[p] # "idle", ~Sub(p, "create"),
         UNCHANGED <<record, cached, others>>, NEW w \in Waits, Wait(p, w, job[p]),
         w \notin {"ready", "fetch", "update", "exec"}, job[p].sub \in SubsAt(w),
         w \notin {"list", "fill"} => record[Id(p)] # None,
         w = "fill" => BackendOf(Id(p)) = "aio",
         Id(p) \in calm => Prepared(Id(p), w, job[p], record[Id(p)])
  PROVE  IInv'
<1>1. PICK j \in Job : j = job[p]
  BY DEF IInv, TypeOK
<1>2. Wait(p, w, j)
  BY <1>1 DEF Wait
<1>3. PlanAt(w, j) /\ j.id = Id(p) /\ j.sub # "create"
  BY <1>1 DEF IInv, Work, Formed, PlanAt, Sub, Id
<1>4. PICK r : r = record[Id(p)]
  OBVIOUS
<1>5. Writes(Id(p), r) /\ known' = known
  BY <1>4, WritesNothing
<1> QED
  BY <1>1, <1>2, <1>3, <1>4, <1>5, MethodKeeps

\* The same after a write of the record.
LEMMA WritesOn ==
  ASSUME IInv, NEW p \in Handlers, pc[p] # "idle", ~Sub(p, "create"), NEW r \in Record,
         record' = [record EXCEPT ![Id(p)] = r], Fits(Id(p), r), UNCHANGED others,
         cached' \in {cached, cached \cup {Id(p)}}, NEW w \in Waits, NEW j \in Job, Wait(p, w, j),
         j = job[p] \/ \E a \in Addrs : j = [job[p] EXCEPT !.to = a],
         w \notin {"fetch", "update", "exec", "list", "fill"}, job[p].sub \in SubsAt(w),
         w = "ready" => j.to \in Addrs,
         Id(p) \in calm => Prepared(Id(p), w, j, r)
  PROVE  IInv'
<1>1. job[p] \in Job /\ PlanAt(pc[p], job[p]) /\ job[p].sub # "create"
  BY DEF IInv, TypeOK, Work, Formed, Sub
<1>2. j.id = Id(p) /\ j.op = job[p].op /\ j.sub = job[p].sub /\ j.then = job[p].then
  BY <1>1 DEF Id, Job
<1>3. PlanAt(w, j) /\ j.sub # "create"
  BY <1>1, <1>2 DEF PlanAt, Plan
<1>4. Writes(Id(p), r) /\ known' = known /\ r # None
  BY WritesRecord
<1> QED
  BY <1>2, <1>3, <1>4, MethodKeeps

LEMMA CreateGoes ==
  ASSUME IInv, NEW p \in Handlers, pc[p] # "idle", Sub(p, "create"),
         UNCHANGED <<record, cached, others>>,
         NEW w \in {"create", "start", "endpoint", "ready", "remove"}, NEW j \in Job, Wait(p, w, j),
         j = job[p] \/ \E a \in Addrs : j = [job[p] EXCEPT !.to = a],
         w = "ready" => j.to \in Addrs,
         w = "create" => container[Id(p)] = "absent",
         w \in {"start", "endpoint", "ready"} => Exists(Id(p)) /\ label[Id(p)] = backend,
         w \in {"endpoint", "ready", "remove"} => backend = "aio",
         w = "remove" => faults > 0,
         Id(p) \in calm => Prepared(Id(p), w, j, record[Id(p)])
  PROVE  IInv'
<1> DEFINE k == [j EXCEPT !.ans = None]
<1>1. PICK id : id = Id(p)
  OBVIOUS
<1>2. PICK r : r = record[id]
  OBVIOUS
<1>3. job[p] \in Job /\ Plan(job[p]) /\ job[p].sub = "create" /\ id \in Ids /\ Creating(p)
  BY <1>1 DEF IInv, TypeOK, Work, Formed, PlanAt, Sub
<1>4. /\ k \in Job /\ k.id = id /\ k.op = "create" /\ k.sub = "create" /\ k.then = job[p].then
      /\ k.to = j.to /\ k.ans = None
  BY <1>1, <1>3 DEF Job, Id, Plan
<1>5. Writes(id, r) /\ known' = known
  BY <1>1, <1>2, WritesNothing
<1>6. Moves(p, w, k) /\ w \in Waits
  BY DEF Wait, Moves, Waits
<1>7. /\ TypeOK' /\ Touches(p, id) /\ Lasts(id) /\ Sound(id)'
      /\ pc'[p] = w /\ job'[p] = k /\ record'[id] = r
  BY <1>3, <1>4, <1>5, <1>6, MemoryKeeps
<1>8. /\ Id(p)' = id /\ calm' = calm /\ addr'[id] = addr[id] /\ Sub(p, "create")'
      /\ UNCHANGED <<container, label, addr, backend, cached, faults>>
  BY <1>3, <1>4, <1>5, <1>7 DEF Id, Writes, docker, Sub, bounds
<1>9. Formed(p)'
  BY <1>3, <1>4, <1>7, <1>8, NamesAssumption DEF Formed, PlanAt, Plan, SubsAt, Id, Words
<1>10. Creating(p)'
  <2>1. None # "ok"
    BY NamesAssumption DEF Words
  <2> QED
    BY <1>1, <1>2, <1>3, <1>4, <1>5, <1>7, <1>8, <2>1 DEF Creating, Made, Exists, Sub, Id
<1>11. (Id(p) \in calm => Knows(p))'
  <2>1. id \in calm => Prepared(id, w, k, r)
    BY <1>1, <1>2, <1>3, <1>4 DEF Prepared, Job
  <2>2. UNCHANGED docker
    BY <1>5 DEF Writes
  <2> QED
    BY <1>4, <1>7, <1>8, <2>1, <2>2, PreparedKnows
<1>12. Sure(p)'
  BY <1>8, <1>9, <1>10, <1>11 DEF Sure, Resolved
<1> QED
  BY <1>1, <1>3, <1>6, <1>7, <1>8, <1>12, StepKeeps DEF Waits
-----------------------------------------------------------------------------
(* One lemma for each answer a handler goes on with *)

\* What every method but create knows when it goes on.
LEMMA MethodFacts ==
  ASSUME IInv, NEW p \in Handlers, pc[p] # "idle", ~Sub(p, "create")
  PROVE  /\ Id(p) \in Ids /\ Id(p) \in known /\ job[p] \in Job
         /\ Plan(job[p]) /\ job[p].sub \in SubsAt(pc[p]) /\ job[p].ans \in AnswersAt(pc[p]) \cup {None}
         /\ container[Id(p)] # "absent" /\ label[Id(p)] # None
         /\ pc[p] \notin {"list", "fill"} => record[Id(p)] \in Record /\ record[Id(p)] # None
         /\ Fits(Id(p), record[Id(p)])
         /\ Id(p) \in calm => Knows(p)
<1>1. Formed(p) /\ Resolved(p) /\ job[p] \in Job
  BY DEF IInv, TypeOK, Work
<1>2. Sound(Id(p)) /\ record[Id(p)] \in Record \cup {None} /\ Fits(Id(p), record[Id(p)])
  BY <1>1, RecordFits DEF IInv, TypeOK, Sandboxes, Formed
<1> QED
  BY <1>1, <1>2 DEF Formed, Resolved, PlanAt, Sound, IInv, Undisturbed

LEMMA WritesState ==
  ASSUME NEW id, NEW r \in Record, Fits(id, r), NEW s \in {"started", "stopped"}
  PROVE  /\ [r EXCEPT !.state = s] \in Record /\ Fits(id, [r EXCEPT !.state = s])
         /\ [r EXCEPT !.state = s].state = s /\ [r EXCEPT !.state = s].backend = r.backend
<1>1. None \notin Record
  BY NamesAssumption
<1> QED
  BY <1>1 DEF Record, Fits

LEMMA WritesEndpoint ==
  ASSUME NEW id, NEW r \in Record, Fits(id, r), NEW e \in Addrs
  PROVE  /\ [r EXCEPT !.endpoint = e] \in Record /\ Fits(id, [r EXCEPT !.endpoint = e])
         /\ [r EXCEPT !.endpoint = e].endpoint = e /\ [r EXCEPT !.endpoint = e].backend = r.backend
         /\ [r EXCEPT !.endpoint = e].state = r.state
<1>1. None \notin Record
  BY NamesAssumption
<1> QED
  BY <1>1 DEF Record, Fits

LEMMA ListedKeeps ==
  ASSUME IInv, NEW p \in Handlers, Listed(p)
  PROVE  IInv'
<1> DEFINE id == Id(p)
           b  == BackendOf(id)
           st == MapState(job[p].ans)
           r  == [backend |-> b, state |-> st, endpoint |-> None]
<1>1. pc[p] = "list" /\ ~Sub(p, "create")
  BY DEF Listed, Got, IInv, Work, Formed, PlanAt, SubsAt, Sub
<1>2. /\ id \in Ids /\ container[id] # "absent" /\ label[id] # None /\ job[p] \in Job
      /\ job[p].sub \in {"get", "start", "stop", "kill"}
      /\ job[p].ans \in Status
      /\ id \in calm => Knows(p)
  BY <1>1, MethodFacts DEF SubsAt, AnswersAt, Listed, Got
<1>3. id \in calm => job[p].then # "send" /\ container[id] = job[p].ans
  BY <1>1, <1>2 DEF Knows
<1>4. CASE b = "aio" /\ st = "started" /\ Wait(p, "fill", job[p]) /\ UNCHANGED <<record, cached>>
  <2>1. id \in calm => Prepared(id, "fill", job[p], record[id])
    BY <1>3, <1>4 DEF Prepared, MapState, Running
  <2>2. "fill" \in Waits /\ job[p].sub \in SubsAt("fill") /\ UNCHANGED <<record, cached, others>>
    BY <1>2, <1>4 DEF Waits, SubsAt, Listed
  <2> QED
    BY <1>1, <1>4, <2>1, <2>2, GoesOn
<1>5. CASE /\ record' = [record EXCEPT ![id] = r]
           /\ cached' = cached \cup {id} /\ Wait(p, "inspect", job[p])
  <2>1. r \in Record
    BY DEF Record, BackendOf, MapState
  <2>2. Fits(id, r)
    <3>1. faults = 0 => label[id] = backend
      BY <1>2 DEF IInv, Sandboxes, Sound
    <3>2. backend \in {"e2b", "aio"}
      BY RuntimeAssumption DEF IInv, TypeOK
    <3> QED
      BY <1>2, <2>1, <3>1, <3>2 DEF Fits, BackendOf
  <2>3. id \in calm => Prepared(id, "inspect", job[p], r)
    BY <1>3 DEF Prepared
  <2>4. "inspect" \in Waits /\ job[p].sub \in SubsAt("inspect") /\ UNCHANGED others
    BY <1>2 DEF Waits, SubsAt, Listed
  <2> QED
    BY <1>1, <1>2, <1>5, <2>1, <2>2, <2>3, <2>4, WritesOn
<1> QED
  BY <1>4, <1>5 DEF Listed, SetRecord

LEMMA FilledKeeps ==
  ASSUME IInv, NEW p \in Handlers, Filled(p)
  PROVE  IInv'
<1> DEFINE id == Id(p)
           r  == [backend |-> "aio", state |-> "started",
                  endpoint |-> IF job[p].ans \in Addrs THEN job[p].ans ELSE None]
<1>1. pc[p] = "fill" /\ ~Sub(p, "create")
  BY DEF Filled, IInv, Work, Formed, PlanAt, SubsAt, Sub
<1>2. /\ id \in Ids /\ container[id] # "absent" /\ label[id] # None /\ job[p] \in Job
      /\ job[p].sub \in {"get", "start", "stop", "kill"}
      /\ id \in calm => Knows(p)
  BY <1>1, MethodFacts DEF SubsAt
<1>3. id \in calm => job[p].then # "send"
  BY <1>1, <1>2 DEF Knows
<1>4. r \in Record
  BY DEF Record
<1>5. Fits(id, r)
  <2>1. faults = 0 => label[id] = backend
    BY <1>2 DEF IInv, Sandboxes, Sound
  <2>2. backend \in {"e2b", "aio"} /\ BackendOf(id) = "aio"
    BY <1>1, RuntimeAssumption DEF IInv, TypeOK, Work, Resolved
  <2> QED
    BY <1>2, <1>4, <2>1, <2>2 DEF Fits, BackendOf
<1>6. id \in calm => Prepared(id, "inspect", job[p], r)
  BY <1>3 DEF Prepared
<1>7. "inspect" \in Waits /\ job[p].sub \in SubsAt("inspect")
  BY <1>2 DEF Waits, SubsAt
<1> QED
  BY <1>1, <1>2, <1>4, <1>5, <1>6, <1>7, WritesOn DEF Filled, SetRecord

LEMMA InspectedGetKeeps ==
  ASSUME IInv, NEW p \in Handlers, InspectedGet(p)
  PROVE  IInv'
<1> DEFINE id == Id(p)
           r  == [record[id] EXCEPT !.state = MapState(job[p].ans)]
<1>1. pc[p] = "inspect" /\ ~Sub(p, "create") /\ job[p].sub = "get"
  BY DEF InspectedGet, Got, Sub
<1>2. /\ id \in Ids /\ job[p] \in Job /\ Plan(job[p]) /\ job[p].ans \in Status
      /\ record[id] \in Record /\ Fits(id, record[id])
      /\ id \in calm => Knows(p)
  BY <1>1, MethodFacts DEF AnswersAt, InspectedGet, Got
<1>3. PICK s \in {"started", "stopped"} : s = MapState(job[p].ans)
  BY DEF MapState
<1>4. r \in Record /\ Fits(id, r) /\ r.state = MapState(job[p].ans) /\ r.backend = record[id].backend
  <2>1. r = [record[id] EXCEPT !.state = s]
    BY <1>3
  <2> QED
    BY <1>2, <1>3, <2>1, WritesState
<1>5. record' = [record EXCEPT ![id] = r] /\ record'[id] = r /\ UNCHANGED others
  BY <1>2 DEF InspectedGet, SetRecord, IInv, TypeOK
<1>6. id \in calm =>
        /\ container[id] = job[p].ans
        /\ job[p].then = "send" => job[p].ans = "running" /\ r.backend = "aio"
  BY <1>1, <1>2, <1>4 DEF Knows, UpAt, Running
<1>7. CASE r.backend = "aio" /\ job[p].ans = "running" /\ Wait(p, "endpoint", job[p]) /\ UNCHANGED cached
  <2>1. id \in calm => Prepared(id, "endpoint", job[p], r)
    BY <1>4, <1>6, <1>7 DEF Prepared, MapState, Running
  <2>2. "endpoint" \in Waits /\ job[p].sub \in SubsAt("endpoint")
    BY <1>1 DEF Waits, SubsAt
  <2> QED
    BY <1>1, <1>2, <1>4, <1>5, <1>7, <2>1, <2>2, WritesOn
<1>8. CASE ~(r.backend = "aio" /\ job[p].ans = "running") /\ Return(p)
  <2>1. id \in calm => Returned(id, job[p].then, r)
    <3>1. job[p].then # "again"
      BY <1>1, <1>2 DEF Plan
    <3> QED
      BY <1>4, <1>6, <1>8, <3>1 DEF Returned, MapState, Running
  <2> QED
    BY <1>1, <1>4, <1>5, <1>8, <2>1, ReturnKeeps
<1> QED
  BY <1>5, <1>7, <1>8 DEF InspectedGet, Now

LEMMA StartedKeeps ==
  ASSUME IInv, NEW p \in Handlers, pc[p] \in {"inspect", "start"}, Sub(p, "start"), Started(p),
         UNCHANGED others, Id(p) \in calm => Running(Id(p))
  PROVE  IInv'
<1> DEFINE id == Id(p)
           r  == [record[id] EXCEPT !.state = "started"]
<1>1. ~Sub(p, "create") /\ job[p].sub = "start"
  BY DEF Sub
<1>2. /\ id \in Ids /\ job[p] \in Job /\ Plan(job[p])
      /\ record[id] \in Record /\ Fits(id, record[id])
  BY <1>1, MethodFacts
<1>3. r \in Record /\ Fits(id, r) /\ r.state = "started" /\ r.backend = record[id].backend
  BY <1>2, WritesState
<1>4. record' = [record EXCEPT ![id] = r] /\ record'[id] = r
  BY <1>2 DEF Started, SetRecord, IInv, TypeOK
<1>5. job[p].then # "send"
  BY <1>1, <1>2 DEF Plan
<1>6. CASE r.backend = "aio" /\ Wait(p, "endpoint", job[p]) /\ UNCHANGED cached
  <2>1. id \in calm => Prepared(id, "endpoint", job[p], r)
    BY <1>3, <1>5, <1>6 DEF Prepared
  <2>2. "endpoint" \in Waits /\ job[p].sub \in SubsAt("endpoint")
    BY <1>1 DEF Waits, SubsAt
  <2> QED
    BY <1>1, <1>2, <1>3, <1>4, <1>6, <2>1, <2>2, WritesOn
<1>7. CASE Return(p)
  <2>1. id \in calm => Returned(id, job[p].then, r)
    BY <1>3, <1>5 DEF Returned
  <2> QED
    BY <1>1, <1>3, <1>4, <1>7, <2>1, ReturnKeeps
<1> QED
  BY <1>4, <1>6, <1>7 DEF Started, Now

LEMMA InspectedStartKeeps ==
  ASSUME IInv, NEW p \in Handlers, InspectedStart(p)
  PROVE  IInv'
<1>1. pc[p] = "inspect" /\ ~Sub(p, "create") /\ job[p].sub = "start" /\ UNCHANGED others
  BY DEF InspectedStart, Got, Sub
<1>2. /\ Id(p) \in Ids /\ job[p] \in Job /\ Plan(job[p]) /\ job[p].ans \in Status
      /\ record[Id(p)] # None
      /\ Id(p) \in calm => Knows(p)
  BY <1>1, MethodFacts DEF AnswersAt, InspectedStart, Got
<1>3. Id(p) \in calm => container[Id(p)] = job[p].ans /\ job[p].then # "send"
  BY <1>1, <1>2 DEF Knows, Plan
<1>4. CASE job[p].ans = "running" /\ Started(p)
  BY <1>1, <1>3, <1>4, StartedKeeps DEF Sub, Running
<1>5. CASE job[p].ans # "running" /\ Wait(p, "start", job[p]) /\ UNCHANGED <<record, cached>>
  <2>1. Id(p) \in calm => Prepared(Id(p), "start", job[p], record[Id(p)])
    BY <1>2, <1>3, <1>5 DEF Prepared, Exists, Running
  <2>2. "start" \in Waits /\ job[p].sub \in SubsAt("start") /\ UNCHANGED <<record, cached, others>>
    BY <1>1, <1>5 DEF Waits, SubsAt
  <2> QED
    BY <1>1, <1>2, <1>5, <2>1, <2>2, GoesOn
<1> QED
  BY <1>4, <1>5 DEF InspectedStart
LEMMA CreateFacts ==
  ASSUME IInv, NEW p \in Handlers, pc[p] # "idle", Sub(p, "create")
  PROVE  /\ Id(p) \in Ids /\ job[p] \in Job /\ job[p].sub = "create"
         /\ job[p].then # "send"
         /\ pc[p] \in {"image", "create", "start", "endpoint", "ready", "remove"}
         /\ job[p].ans \in AnswersAt(pc[p]) \cup {None}
         /\ Creating(p) /\ (Id(p) \in calm => Knows(p))
<1>1. Formed(p) /\ Creating(p) /\ job[p] \in Job /\ (Id(p) \in calm => Knows(p))
  BY DEF IInv, TypeOK, Work, Undisturbed
<1>2. pc[p] \in Waits
  BY DEF IInv, TypeOK
<1>3. pc[p] \in {"image", "create", "start", "endpoint", "ready", "remove"}
  BY <1>1, <1>2 DEF Formed, PlanAt, SubsAt, Waits, Sub
<1>4. job[p].then # "send"
  BY <1>1, NamesAssumption DEF Formed, PlanAt, Plan, Sub, Words
<1> QED
  BY <1>1, <1>3, <1>4 DEF Formed, Sub

LEMMA CreatedKeeps ==
  ASSUME IInv, NEW p \in Handlers, Sub(p, "create"), Made(p), Created(p)
  PROVE  IInv'
<1> DEFINE id == Id(p)
           r  == [backend |-> backend, state |-> "started", endpoint |-> job[p].to]
<1>1. pc[p] # "idle" /\ id \in Ids /\ job[p] \in Job /\ Creating(p)
  BY CreateFacts DEF Made
<1>2. r \in Record /\ r # None
  <2>1. job[p].to \in Addrs \cup {None} /\ backend \in {"e2b", "aio"}
    BY <1>1, RuntimeAssumption DEF Job, IInv, TypeOK
  <2>2. r \in Record
    BY <2>1 DEF Record
  <2> QED
    BY <2>2, NamesAssumption
<1>3. Fits(id, r)
  BY <1>1, <1>2 DEF Fits, Creating, Exists, Status
<1>4. Writes(id, r)
  BY <1>1, <1>2, <1>3 DEF Created, SetRecord, Writes, Fits, IInv, TypeOK
<1> QED
  BY <1>1, <1>4, EndsKeeps DEF Created, Reply

LEMMA PulledKeeps ==
  ASSUME IInv, NEW p \in Handlers, Pulled(p)
  PROVE  IInv'
<1>1. pc[p] = "image" /\ Sub(p, "create")
  BY DEF Pulled, Got, IInv, Work, Formed, PlanAt, SubsAt, Sub
<1>2. Id(p) \in calm => Prepared(Id(p), "create", job[p], record[Id(p)])
  BY <1>1, CreateFacts DEF Prepared, Creating, Running
<1>3. job[p] \in Job /\ container[Id(p)] = "absent"
  BY <1>1, CreateFacts DEF Creating
<1> QED
  BY <1>1, <1>2, <1>3, CreateGoes DEF Pulled

LEMMA MadeContainerKeeps ==
  ASSUME IInv, NEW p \in Handlers, MadeContainer(p)
  PROVE  IInv'
<1>1. pc[p] = "create" /\ Sub(p, "create") /\ job[p].ans = "ok"
  BY DEF MadeContainer, Got, IInv, Work, Formed, PlanAt, SubsAt, Sub, AnswersAt
<1>2. job[p] \in Job /\ Exists(Id(p)) /\ label[Id(p)] = backend
  BY <1>1, CreateFacts DEF Creating, Made
<1>3. Id(p) \in calm => ~Running(Id(p)) /\ job[p].then # "send"
  BY <1>1, CreateFacts DEF Knows
<1>4. Id(p) \in calm => Prepared(Id(p), "start", job[p], record[Id(p)])
  BY <1>2, <1>3 DEF Prepared
<1> QED
  BY <1>1, <1>2, <1>4, CreateGoes DEF MadeContainer

LEMMA StartedContainerKeeps ==
  ASSUME IInv, NEW p \in Handlers, StartedContainer(p)
  PROVE  IInv'
<1>1. pc[p] = "start" /\ job[p].ans = "ok" /\ job[p].sub \in {"create", "start"}
  BY DEF StartedContainer, Got, IInv, Work, Formed, PlanAt, SubsAt, AnswersAt
<1>2. Id(p) \in calm => Running(Id(p))
  BY <1>1 DEF IInv, Undisturbed, Knows, UpAt
<1>3. CASE Sub(p, "start") /\ Started(p) /\ UNCHANGED others
  BY <1>1, <1>2, <1>3, StartedKeeps
<1>4. CASE Sub(p, "create") /\ Created(p)
  BY <1>1, <1>4, CreatedKeeps DEF Made
<1>5. CASE /\ Sub(p, "create") /\ backend = "aio" /\ Wait(p, "endpoint", job[p])
           /\ UNCHANGED <<record, cached, others>>
  <2>1. job[p] \in Job /\ Exists(Id(p)) /\ label[Id(p)] = backend
    BY <1>1, <1>5, CreateFacts DEF Creating, Made
  <2>2. Id(p) \in calm => Prepared(Id(p), "endpoint", job[p], record[Id(p)])
    BY <1>1, <1>2, <1>5, CreateFacts DEF Prepared
  <2> QED
    BY <1>1, <1>5, <2>1, <2>2, CreateGoes
<1> QED
  BY <1>3, <1>4, <1>5 DEF StartedContainer

LEMMA GotEndpointKeeps ==
  ASSUME IInv, NEW p \in Handlers, GotEndpoint(p)
  PROVE  IInv'
<1> DEFINE id == Id(p)
<1>1. PICK a \in Addrs : a = job[p].ans
  BY DEF GotEndpoint, Got, IInv, Work, Formed, AnswersAt
<1>2. /\ pc[p] = "endpoint" /\ job[p].sub \in {"create", "get", "start"} /\ job[p] \in Job
      /\ id \in Ids /\ UNCHANGED others
  BY DEF GotEndpoint, Got, IInv, TypeOK, Work, Formed, PlanAt, SubsAt
<1>3. id \in calm => Running(id) /\ a = addr[id]
  BY <1>1, <1>2 DEF IInv, Undisturbed, Knows, UpAt
<1> DEFINE j == [job[p] EXCEPT !.to = a]
<1>4. j \in Job /\ j.id = id /\ j.sub = job[p].sub /\ j.then = job[p].then /\ j.to = a
  <2>1. job[p] \in Job
    BY <1>2
  <2> QED
    BY <2>1 DEF Job, Id
<1>5. CASE Sub(p, "create")
  <2>1. record' = record /\ Wait(p, "ready", j) /\ UNCHANGED <<record, cached, others>>
    BY <1>1, <1>2, <1>5 DEF GotEndpoint, SetRecord, Sub, IInv, TypeOK
  <2>2. Exists(id) /\ label[id] = backend /\ backend = "aio"
    BY <1>2, <1>5, CreateFacts DEF Creating, Made
  <2>3. id \in calm => Prepared(id, "ready", j, record[id])
    BY <1>2, <1>3, <1>4, <1>5, CreateFacts DEF Prepared
  <2> QED
    BY <1>2, <1>4, <1>5, <2>1, <2>2, <2>3, CreateGoes
<1>6. CASE ~Sub(p, "create")
  <2> DEFINE r == [record[id] EXCEPT !.endpoint = a]
  <2>1. /\ record[id] \in Record /\ Fits(id, record[id]) /\ Plan(job[p])
        /\ id \in calm => Knows(p)
    BY <1>2, <1>6, MethodFacts
  <2>2. /\ r \in Record /\ Fits(id, r) /\ r.endpoint = a
        /\ r.backend = record[id].backend /\ r.state = record[id].state
    BY <2>1, WritesEndpoint
  <2>3. record' = [record EXCEPT ![id] = r]
    BY <1>1, <1>6 DEF GotEndpoint, SetRecord, Endpoint
  <2>4. id \in calm => r.state = "started" /\ r.backend = "aio"
    BY <1>2, <1>6, <2>1, <2>2 DEF Knows
  <2>5. CASE Sub(p, "get") /\ Return(p)
    <3>1. job[p].then # "again"
      BY <2>1, <2>5 DEF Plan, Sub
    <3>2. id \in calm => Returned(id, job[p].then, r)
      BY <1>3, <2>2, <2>4, <3>1 DEF Returned
    <3> QED
      BY <1>2, <1>6, <2>2, <2>3, <2>5, <3>2, ReturnKeeps
  <2>6. CASE ~Sub(p, "get") /\ Wait(p, "ready", j) /\ UNCHANGED cached
    <3>1. job[p].sub = "start" /\ job[p].then # "send"
      BY <1>2, <1>6, <2>1, <2>6 DEF Plan, Sub
    <3>2. id \in calm => Prepared(id, "ready", j, r)
      BY <1>3, <1>4, <2>2, <2>4, <3>1 DEF Prepared
    <3>3. "ready" \in Waits /\ job[p].sub \in SubsAt("ready")
      BY <3>1 DEF Waits, SubsAt
    <3> QED
      BY <1>2, <1>4, <1>6, <2>2, <2>3, <2>6, <3>2, <3>3, WritesOn
  <2> QED
    BY <1>1, <2>5, <2>6 DEF GotEndpoint
<1> QED
  BY <1>5, <1>6
LEMMA ReadyKeeps ==
  ASSUME IInv, NEW p \in Handlers, Ready(p)
  PROVE  IInv'
<1> DEFINE id == Id(p)
<1>1. pc[p] = "ready" /\ job[p].sub \in {"create", "start"}
  BY DEF Ready, Got, IInv, Work, Formed, PlanAt, SubsAt
<1>2. CASE Sub(p, "create") /\ Created(p)
  BY <1>1, <1>2, CreatedKeeps DEF Made
<1>3. CASE Sub(p, "start") /\ UNCHANGED record /\ Return(p) /\ UNCHANGED others
  <2>1. ~Sub(p, "create")
    BY <1>3 DEF Sub
  <2>2. /\ record[id] \in Record /\ Fits(id, record[id]) /\ Plan(job[p]) /\ id \in Ids
        /\ id \in calm => Knows(p)
    BY <1>1, <2>1, MethodFacts
  <2>3. PICK r \in Record : r = record[id]
    BY <2>2
  <2>4. record' = [record EXCEPT ![id] = r]
    BY <1>3, <2>2, <2>3 DEF IInv, TypeOK
  <2>5. job[p].then # "send"
    BY <1>3, <2>2 DEF Plan, Sub
  <2>6. id \in calm => Returned(id, job[p].then, r)
    BY <1>1, <2>1, <2>2, <2>3, <2>5 DEF Knows, UpAt, Returned
  <2> QED
    BY <1>1, <1>3, <2>1, <2>2, <2>3, <2>4, <2>6, ReturnKeeps
<1> QED
  BY <1>1, <1>2, <1>3 DEF Ready

LEMMA StoppedKeeps ==
  ASSUME IInv, NEW p \in Handlers, pc[p] \in {"inspect", "stop"}, Sub(p, "stop"), Stopped(p),
         UNCHANGED others, Id(p) \in calm => ~Running(Id(p))
  PROVE  IInv'
<1> DEFINE id == Id(p)
           r  == [record[id] EXCEPT !.state = "stopped"]
<1>1. ~Sub(p, "create") /\ job[p].sub = "stop"
  BY DEF Sub
<1>2. Plan(job[p]) /\ record[id] \in Record /\ Fits(id, record[id])
  BY <1>1, MethodFacts
<1>3. r \in Record /\ Fits(id, r) /\ r.state = "stopped"
  BY <1>2, WritesState
<1>4. record' = [record EXCEPT ![id] = r] /\ Return(p)
  BY DEF Stopped, SetRecord
<1>5. job[p].then = "reply"
  BY <1>1, <1>2 DEF Plan
<1>6. id \in calm => Returned(id, job[p].then, r)
  BY <1>3, <1>5 DEF Returned
<1> QED
  BY <1>1, <1>3, <1>4, <1>6, ReturnKeeps

LEMMA InspectedStopKeeps ==
  ASSUME IInv, NEW p \in Handlers, InspectedStop(p)
  PROVE  IInv'
<1>1. pc[p] = "inspect" /\ ~Sub(p, "create") /\ job[p].sub = "stop" /\ UNCHANGED others
  BY DEF InspectedStop, Got, Sub
<1>2. /\ job[p] \in Job /\ Plan(job[p]) /\ job[p].ans \in Status /\ record[Id(p)] # None
      /\ Id(p) \in calm => Knows(p)
  BY <1>1, MethodFacts DEF AnswersAt, InspectedStop, Got
<1>3. Id(p) \in calm => container[Id(p)] = job[p].ans
  BY <1>1, <1>2 DEF Knows
<1>4. CASE job[p].ans # "running" /\ Stopped(p)
  BY <1>1, <1>3, <1>4, StoppedKeeps DEF Sub, Running
<1>5. CASE job[p].ans = "running" /\ Wait(p, "stop", job[p]) /\ UNCHANGED <<record, cached>>
  <2>1. Id(p) \in calm => Prepared(Id(p), "stop", job[p], record[Id(p)])
    BY <1>1, <1>2, <1>3, <1>5 DEF Prepared, Running, Plan
  <2>2. "stop" \in Waits /\ job[p].sub \in SubsAt("stop") /\ UNCHANGED <<record, cached, others>>
    BY <1>1, <1>5 DEF Waits, SubsAt
  <2> QED
    BY <1>1, <1>2, <1>5, <2>1, <2>2, GoesOn
<1> QED
  BY <1>4, <1>5 DEF InspectedStop

LEMMA InspectedKillKeeps ==
  ASSUME IInv, NEW p \in Handlers, InspectedKill(p)
  PROVE  IInv'
<1> DEFINE w == IF job[p].ans = "running" THEN "stop" ELSE "remove"
<1>1. /\ pc[p] = "inspect" /\ ~Sub(p, "create") /\ job[p].sub = "kill"
      /\ UNCHANGED <<record, cached, others>> /\ Wait(p, w, job[p])
  BY DEF InspectedKill, Got, Sub
<1>2. /\ job[p] \in Job /\ Plan(job[p]) /\ job[p].ans \in Status /\ record[Id(p)] # None
      /\ Id(p) \in calm => Knows(p)
  BY <1>1, MethodFacts DEF AnswersAt, InspectedKill, Got
<1>3. Id(p) \in calm => container[Id(p)] = job[p].ans
  BY <1>1, <1>2 DEF Knows
<1>4. job[p].then # "send" /\ w \in {"stop", "remove"}
  BY <1>1, <1>2 DEF Plan
<1>5. Id(p) \in calm => Prepared(Id(p), w, job[p], record[Id(p)])
  BY <1>3, <1>4 DEF Prepared, Running
<1>6. w \in Waits /\ job[p].sub \in SubsAt(w)
  BY <1>1 DEF Waits, SubsAt
<1> QED
  BY <1>1, <1>2, <1>4, <1>5, <1>6, GoesOn

LEMMA StoppedContainerKeeps ==
  ASSUME IInv, NEW p \in Handlers, StoppedContainer(p)
  PROVE  IInv'
<1>1. /\ pc[p] = "stop" /\ ~Sub(p, "create") /\ job[p].sub \in {"stop", "kill"} /\ UNCHANGED others
      /\ job[p].ans = "ok"
  BY DEF StoppedContainer, Got, IInv, Work, Formed, PlanAt, SubsAt, AnswersAt, Sub
<1>2. /\ job[p] \in Job /\ Plan(job[p]) /\ record[Id(p)] # None
      /\ Id(p) \in calm => Knows(p)
  BY <1>1, MethodFacts
<1>3. Id(p) \in calm => ~Running(Id(p))
  BY <1>1, <1>2 DEF Knows, Running
<1>4. CASE Sub(p, "stop") /\ Stopped(p)
  BY <1>1, <1>3, <1>4, StoppedKeeps
<1>5. CASE Sub(p, "kill") /\ Wait(p, "remove", job[p]) /\ UNCHANGED <<record, cached>>
  <2>1. Id(p) \in calm => Prepared(Id(p), "remove", job[p], record[Id(p)])
    BY <1>1, <1>2 DEF Prepared, Plan
  <2>2. "remove" \in Waits /\ job[p].sub \in SubsAt("remove") /\ UNCHANGED <<record, cached, others>>
    BY <1>1, <1>5 DEF Waits, SubsAt, Sub
  <2> QED
    BY <1>1, <1>2, <1>5, <2>1, <2>2, GoesOn
<1> QED
  BY <1>4, <1>5 DEF StoppedContainer

LEMMA KilledKeeps ==
  ASSUME IInv, NEW p \in Handlers, Killed(p)
  PROVE  IInv' /\ (container[Id(p)] = "removed" \/ Id(p) \in Has404) /\ Id(p) \in known
<1> DEFINE id == Id(p)
<1>1. pc[p] # "idle" /\ ~Sub(p, "create")
  BY DEF Killed, Got, Swallowed, Sub
<1>2. id \in Ids /\ id \in known /\ Fits(id, record[id]) /\ container[id] # "absent"
  BY <1>1, MethodFacts
<1>3. Writes(id, record[id])
  BY <1>2 DEF Killed, Writes, history, IInv, TypeOK
<1>4. IInv'
  BY <1>1, <1>3, EndsKeeps DEF Killed, Reply
<1>5. job[p].ans = "gone" \/ (pc[p] = "remove" /\ job[p].ans = "ok") \/ id \in Has404
  BY DEF Killed, Got, Swallowed, IInv, Work, Formed, AnswersAt, Quotes404
<1> QED
  BY <1>1, <1>2, <1>4, <1>5 DEF IInv, Work, Resolved

LEMMA UpdatedKeeps ==
  ASSUME IInv, NEW p \in Handlers, Updated(p)
  PROVE  IInv'
<1> DEFINE id == Id(p)
           j  == [job[p] EXCEPT !.sub = "get", !.then = "reply"]
<1>1. pc[p] = "update" /\ ~Sub(p, "create") /\ UNCHANGED others
  BY DEF Updated, Got, IInv, Work, Formed, PlanAt, SubsAt, Sub
<1>2. id \in Ids /\ job[p] \in Job /\ record[id] \in Record /\ Fits(id, record[id]) /\ job[p].op = "resize"
  BY <1>1, MethodFacts DEF IInv, Work, Formed, PlanAt
<1>3. j \in Job /\ j.id = id /\ j.op = "resize" /\ j.sub = "get" /\ j.then = "reply"
  BY <1>2 DEF Job, Id
<1>4. PICK r \in Record : r = record[id]
  BY <1>2
<1>5. record' = [record EXCEPT ![id] = r] /\ cached' = cached \cup {id} /\ Wait(p, "inspect", j)
  BY <1>2, <1>3, <1>4 DEF Updated, Begin, IInv, TypeOK
<1>6. PlanAt("inspect", j) /\ "inspect" \in Waits
  BY <1>3 DEF PlanAt, Plan, SubsAt, Waits
<1>7. Writes(id, r) /\ known' = known /\ r # None
  BY <1>1, <1>2, <1>4, <1>5, WritesRecord
<1>8. id \in calm => Prepared(id, "inspect", j, r)
  BY <1>3 DEF Prepared
<1> QED
  BY <1>1, <1>3, <1>5, <1>6, <1>7, <1>8, MethodKeeps

\* A request that ends and leaves everything else alone.
LEMMA QuietEnd ==
  ASSUME IInv, NEW p \in Handlers, pc[p] # "idle", UNCHANGED <<record, cached, others>>,
         Reply(p) \/ Throw(p)
  PROVE  IInv'
<1>1. PICK r : r = record[Id(p)]
  OBVIOUS
<1>2. Writes(Id(p), r)
  BY <1>1, WritesNothing
<1> QED
  BY <1>2, EndsKeeps DEF Reply, Throw

LEMMA CatchKeeps ==
  ASSUME IInv, NEW p \in Handlers, Catch(p)
  PROVE  IInv'
<1>1. pc[p] # "idle" /\ UNCHANGED <<record, cached, others>> /\ job[p].ans \in {"gone", "error"}
  BY DEF Catch
<1>2. CASE Throw(p)
  BY <1>1, <1>2, QuietEnd
<1>3. CASE Cleans(p) /\ Wait(p, "remove", job[p])
  <2>1. /\ Sub(p, "create") /\ backend = "aio" /\ pc[p] \in {"start", "endpoint", "ready"}
        /\ job[p] \in Job /\ job[p].then # "send" /\ Creating(p) /\ (Id(p) \in calm => Knows(p))
        /\ job[p].ans \in AnswersAt(pc[p]) \cup {None}
    BY <1>1, <1>3, CreateFacts DEF Cleans
  <2>2. job[p].ans = "gone" => pc[p] = "start"
    BY <2>1, NamesAssumption DEF AnswersAt, Words
  <2>3. faults > 0
    BY <1>1, <2>1, <2>2 DEF Knows, Creating
  <2>4. Id(p) \in calm => Prepared(Id(p), "remove", job[p], record[Id(p)])
    BY <2>1 DEF Prepared
  <2> QED
    BY <1>1, <1>3, <2>1, <2>3, <2>4, CreateGoes
<1> QED
  BY <1>2, <1>3 DEF Catch

LEMMA EndingsKeep ==
  ASSUME IInv, NEW p \in Handlers, Ran(p) \/ CatchRemove(p)
  PROVE  IInv'
BY QuietEnd DEF Ran, CatchRemove, Got
-----------------------------------------------------------------------------
(* The daemon answers *)

LEMMA AnswerFacts ==
  ASSUME IInv, NEW p \in Handlers, pc[p] # "idle", job[p].ans = None, NEW a, a \in AnswersAt(pc[p]),
         a = "error404" => Quotes404(p), Answer(p, a), UNCHANGED pc
  PROVE  /\ pc'[p] = pc[p] /\ pc[p] \in Waits /\ job'[p] = [job[p] EXCEPT !.ans = a] /\ job'[p] \in Job
         /\ job' = [job EXCEPT ![p] = job'[p]] /\ pc' = [pc EXCEPT ![p] = pc'[p]]
         /\ job'[p].ans = a /\ job'[p].id = Id(p) /\ job'[p].sub = job[p].sub
         /\ job'[p].op = job[p].op /\ job'[p].then = job[p].then /\ job'[p].to = job[p].to
         /\ Id(p) \in Ids /\ Formed(p) /\ Formed(p)' /\ Resolved(p) /\ Creating(p)
         /\ Id(p) \in calm => Knows(p)
<1>1. job[p] \in Job /\ Formed(p) /\ Resolved(p) /\ Creating(p) /\ (Id(p) \in calm => Knows(p))
  BY DEF IInv, TypeOK, Work, Undisturbed
<1>2. pc[p] \in Waits /\ pc'[p] = pc[p] /\ pc' = [pc EXCEPT ![p] = pc'[p]]
  BY DEF IInv, TypeOK
<1>3. a \in {"ok", "gone", "error", "error404", None} \cup Status \cup Addrs
  BY DEF AnswersAt
<1>4. [job[p] EXCEPT !.ans = a] \in Job
  BY <1>1, <1>3 DEF Job
<1>5. job'[p] = [job[p] EXCEPT !.ans = a] /\ job' = [job EXCEPT ![p] = job'[p]]
  BY DEF Answer, IInv, TypeOK
<1>6. /\ job'[p].ans = a /\ job'[p].id = Id(p) /\ job'[p].sub = job[p].sub
      /\ job'[p].op = job[p].op /\ job'[p].then = job[p].then /\ job'[p].to = job[p].to
  BY <1>1, <1>5 DEF Job, Id
<1>7. Id(p) \in Ids /\ Formed(p)'
  BY <1>1, <1>2, <1>6 DEF Formed, PlanAt, Plan, Quotes404, Id
<1> QED
  BY <1>1, <1>2, <1>4, <1>5, <1>6, <1>7

\* An answer that tells what is, or an error by a fault, and changes nothing.
Honest(p, a) ==
  /\ a = "gone" => ~Exists(Id(p))
  /\ a = "error404" => Quotes404(p)
  /\ a = "ok" => pc[p] \notin {"create", "start", "stop", "remove"}
  /\ pc[p] \in {"list", "inspect"} /\ a \in Status => container[Id(p)] = a
  /\ pc[p] \in {"fill", "endpoint"} /\ a \in Addrs => a = addr[Id(p)]
  /\ pc[p] = "remove" /\ Sub(p, "create") => a = "gone" \/ faults' > faults
  /\ Id(p) \in calm /\ (a = "error" \/ (a = "gone" /\ pc[p] \in {"start", "stop"})) => faults' > 0

LEMMA HonestKeeps ==
  ASSUME IInv, NEW p \in Handlers, pc[p] # "idle", job[p].ans = None, NEW a, a \in AnswersAt(pc[p]),
         Answer(p, a), UNCHANGED <<docker, memory, pc, history, issued>>,
         faults' \in {faults, faults + 1}, faults' \in 0..MaxFaults, Honest(p, a)
  PROVE  IInv'
<1>a. a = "error404" => Quotes404(p)
  BY DEF Honest
<1>1. PICK id \in Ids : id = Id(p)
  BY <1>a, AnswerFacts
<1>2. /\ pc'[p] = pc[p] /\ pc[p] \in Waits /\ job'[p] = [job[p] EXCEPT !.ans = a] /\ job'[p] \in Job
      /\ job' = [job EXCEPT ![p] = job'[p]] /\ pc' = [pc EXCEPT ![p] = pc'[p]]
      /\ job'[p].ans = a /\ job'[p].id = Id(p) /\ job'[p].sub = job[p].sub
      /\ job'[p].op = job[p].op /\ job'[p].then = job[p].then /\ job'[p].to = job[p].to
      /\ Formed(p)' /\ Resolved(p) /\ Creating(p)
      /\ Id(p) \in calm => Knows(p)
  BY <1>a, AnswerFacts
<1>3. /\ UNCHANGED <<container, label, addr, late, backend, record, cached, known, killed, calm, issued>>
      /\ faults \in Nat /\ faults' \in Nat /\ faults' >= faults
  BY DEF docker, memory, history, IInv, TypeOK
<1>4. TypeOK'
  BY <1>2, <1>3 DEF IInv, TypeOK
<1>5. Touches(p, id) /\ Lasts(id)
  BY <1>2, <1>3 DEF Touches, Lasts, IInv, TypeOK
<1>6. Sound(id)'
  BY <1>3 DEF Sound, Running, IInv, Sandboxes
<1>7. /\ Id(p)' = id /\ pc'[p] # "idle" /\ (Sub(p, "create")' <=> Sub(p, "create"))
  BY <1>1, <1>2 DEF Id, Sub
<1>8. Resolved(p)'
  <2>1. ASSUME ~Sub(p, "create"), a = "gone" \/ (pc[p] = "remove" /\ a = "ok")
        PROVE  container[id] = "removed"
    <3>1. container[id] \in Status \cup {"absent", "removed"} /\ container[id] # "absent"
      BY <1>1, <1>2, <2>1 DEF IInv, TypeOK, Sandboxes, Sound, Resolved
    <3> QED
      BY <1>1, <2>1, <3>1 DEF Honest, Exists
  <2> QED
    BY <1>1, <1>2, <1>3, <1>7, <2>1 DEF Resolved, BackendOf, Id
<1>9. Creating(p)'
  <2>1. a # None
    BY NamesAssumption DEF AnswersAt, Words
  <2>2. ~(pc[p] = "create" /\ a = "ok")
    BY DEF Honest
  <2>3. pc[p] = "remove" /\ Sub(p, "create") => faults > 0 /\ (faults' > 1 \/ ~Exists(id))
    BY <1>1, <1>2, <1>3 DEF Creating, Honest
  <2> QED
    BY <1>1, <1>2, <1>3, <1>7, <2>1, <2>2, <2>3 DEF Creating, Made, Exists, Id
<1>10. (Id(p) \in calm => Knows(p))'
  <2> SUFFICES ASSUME id \in calm PROVE Knows(p)'
    BY <1>3, <1>7
  <2>1. a # None /\ Knows(p)
    BY <1>1, <1>2, NamesAssumption DEF AnswersAt, Words
  <2>2. UpAt(p)' => UpAt(p)
    BY <1>1, <1>2, <2>1 DEF UpAt, Honest
  <2>3. a = "error" \/ (a = "gone" /\ pc[p] \in {"start", "stop"}) => faults' > 0
    BY <1>1 DEF Honest
  <2> QED
    BY <1>1, <1>2, <1>3, <1>7, <2>1, <2>2, <2>3 DEF Knows, Honest, Running, Exists
<1>11. Sure(p)'
  BY <1>2, <1>8, <1>9, <1>10 DEF Sure
<1> QED
  BY <1>1, <1>2, <1>3, <1>4, <1>5, <1>6, <1>7, <1>11, StepKeeps
LEMMA LookKeeps ==
  ASSUME IInv, NEW p \in Handlers, pc[p] # "idle", job[p].ans = None, NEW a \in AnswersAt(pc[p]),
         Look(p, a), Honest(p, a)
  PROVE  IInv'
<1>1. UNCHANGED issued /\ faults' = faults /\ faults' \in 0..MaxFaults
  BY DEF Look, bounds, IInv, TypeOK
<1> QED
  BY <1>1, HonestKeeps DEF Look

LEMMA LooksKeep ==
  ASSUME IInv, NEW p \in Handlers, DImage(p) \/ DInspect(p) \/ DUpdate(p)
  PROVE  IInv'
<1>1. CASE DImage(p)
  <2>1. "ok" \in AnswersAt(pc[p]) /\ pc[p] = "image" /\ job[p].ans = None
    BY <1>1 DEF DImage, Asked, AnswersAt
  <2>2. Honest(p, "ok")
    BY <2>1, NamesAssumption DEF Honest, Words
  <2> QED
    BY <1>1, <2>1, <2>2, LookKeeps DEF DImage
<1>2. CASE DInspect(p)
  <2> DEFINE a == IF Exists(Id(p)) THEN container[Id(p)] ELSE "gone"
  <2>1. pc[p] \in {"inspect", "list"} /\ job[p].ans = None /\ Look(p, a)
    BY <1>2 DEF DInspect, Asked
  <2>2. a \in AnswersAt(pc[p]) /\ a # "error"
    BY <2>1 DEF AnswersAt, Exists, Status
  <2>3. Honest(p, a)
    BY <2>1, <2>2 DEF Honest, Exists, Status
  <2> QED
    BY <2>1, <2>2, <2>3, LookKeeps
<1>3. CASE DUpdate(p)
  <2> DEFINE a == IF Exists(Id(p)) THEN "ok" ELSE "gone"
  <2>1. pc[p] = "update" /\ job[p].ans = None /\ Look(p, a)
    BY <1>3 DEF DUpdate, Asked
  <2>2. a \in AnswersAt(pc[p]) /\ Honest(p, a)
    BY <2>1 DEF AnswersAt, Honest
  <2> QED
    BY <2>1, <2>2, LookKeeps
<1> QED
  BY <1>1, <1>2, <1>3

\* What an undisturbed handler waits for is there.
LEMMA CalmFacts ==
  ASSUME IInv, NEW p \in Handlers, pc[p] # "idle", Id(p) \in calm
  PROVE  /\ Knows(p)
         /\ pc[p] \in {"fill", "endpoint", "ready", "exec", "fetch"} => Running(Id(p))
         /\ pc[p] \in {"ready", "fetch"} => job[p].to = addr[Id(p)] /\ (faults > 0 \/ label[Id(p)] = "aio")
<1>1. Knows(p) /\ Formed(p) /\ Creating(p) /\ Sound(Id(p)) /\ faults \in Nat
  BY DEF IInv, TypeOK, Undisturbed, Work, Sandboxes, Formed
<1>2. pc[p] \in {"fill", "endpoint", "ready", "exec", "fetch"} => Running(Id(p))
  BY <1>1 DEF Knows, UpAt
<1>3. ASSUME pc[p] \in {"ready", "fetch"}, faults = 0 PROVE label[Id(p)] = "aio"
  <2>1. CASE Sub(p, "create")
    <3>1. pc[p] = "ready"
      BY <1>1, <1>3, <2>1 DEF Formed, PlanAt, SubsAt, Sub
    <3> QED
      BY <1>1, <2>1, <3>1 DEF Creating, Made
  <2>2. CASE ~Sub(p, "create")
    <3>1. record[Id(p)] # None
      BY <1>3, <2>2, MethodFacts
    <3> QED
      BY <1>1, <1>3, <2>2, <3>1 DEF Knows, Sound
  <2> QED
    BY <2>1, <2>2
<1> QED
  BY <1>1, <1>2, <1>3 DEF Knows

LEMMA ReachesKeep ==
  ASSUME IInv, NEW p \in Handlers, DEndpoint(p) \/ DExec(p) \/ DAio(p)
  PROVE  IInv'
<1>1. CASE DEndpoint(p)
  <2> DEFINE a == IF Running(Id(p)) THEN addr[Id(p)] ELSE "error"
  <2>1. pc[p] \in {"endpoint", "fill"} /\ job[p].ans = None /\ Look(p, a)
    BY <1>1 DEF DEndpoint, Asked
  <2>2. Running(Id(p)) => addr[Id(p)] \in Addrs
    BY <2>1 DEF IInv, TypeOK, Work, Formed, Sandboxes, Sound
  <2>3. a \in AnswersAt(pc[p]) /\ (Running(Id(p)) => a \notin {"ok", "gone", "error", "error404"})
    BY <2>1, <2>2, NamesAssumption DEF AnswersAt, Words
  <2>4. Honest(p, a)
    BY <2>1, <2>3, CalmFacts, NamesAssumption DEF Honest, Words
  <2> QED
    BY <2>1, <2>3, <2>4, LookKeeps
<1>2. CASE DExec(p)
  <2> DEFINE a == IF Running(Id(p)) THEN "ok" ELSE "error"
  <2>1. pc[p] = "exec" /\ job[p].ans = None /\ Look(p, a)
    BY <1>2 DEF DExec, Asked
  <2>2. a \in AnswersAt(pc[p]) /\ Honest(p, a)
    BY <2>1, CalmFacts DEF AnswersAt, Honest
  <2> QED
    BY <2>1, <2>2, LookKeeps
<1>3. CASE DAio(p)
  <2> DEFINE a == IF Listener(job[p].to) = {} THEN "error" ELSE "ok"
  <2>1. pc[p] \in {"ready", "fetch"} /\ job[p].ans = None /\ Look(p, a)
    BY <1>3 DEF DAio, Asked
  <2>2. a \in AnswersAt(pc[p])
    BY <2>1 DEF AnswersAt
  <2>3. Id(p) \in calm /\ faults = 0 => Id(p) \in Listener(job[p].to)
    BY <2>1, CalmFacts DEF Listener, IInv, Work, Formed
  <2>4. faults' = faults /\ faults \in Nat
    BY <2>1 DEF Look, bounds, IInv, TypeOK
  <2>5. Honest(p, a)
    BY <2>1, <2>3, <2>4 DEF Honest
  <2> QED
    BY <2>1, <2>2, <2>5, LookKeeps
<1> QED
  BY <1>1, <1>2, <1>3

LEMMA DFailsKeeps ==
  ASSUME IInv, NEW p \in Handlers, DFails(p)
  PROVE  IInv'
<1>1. pc[p] \in Waits
  BY DEF DFails, IInv, TypeOK
<1>2. "error" \in AnswersAt(pc[p]) /\ (Quotes404(p) => "error404" \in AnswersAt(pc[p]))
  BY <1>1 DEF AnswersAt, Waits, Quotes404
<1>3. faults' = faults + 1 /\ faults' \in 0..MaxFaults /\ faults \in Nat
  BY RuntimeAssumption DEF DFails, Fault, IInv, TypeOK
<1>4. Honest(p, "error") /\ (Quotes404(p) => Honest(p, "error404"))
  BY <1>3, NamesAssumption DEF Honest, Words, Status
<1>5. CASE Answer(p, "error")
  BY <1>2, <1>3, <1>4, <1>5, HonestKeeps DEF DFails
<1>6. CASE Quotes404(p) /\ Answer(p, "error404")
  BY <1>2, <1>3, <1>4, <1>6, HonestKeeps DEF DFails
<1> QED
  BY <1>5, <1>6 DEF DFails
\* A call that changes the container, whether or not its answer is lost.
LEMMA ChangeKeeps ==
  ASSUME IInv, NEW p \in Handlers, job[p].ans = None, NEW st, NEW ad \in Addrs \cup {None},
         NEW l \in {"e2b", "aio"}, Change(p, st, ad), label' = [label EXCEPT ![Id(p)] = l],
         <<pc[p], st>> \in {<<"create", "created">>, <<"start", "running">>,
                            <<"stop", "exited">>, <<"remove", "removed">>},
         container[Id(p)] # "removed",
         pc[p] = "create" => container[Id(p)] = "absent" /\ l = backend,
         pc[p] # "create" => container[Id(p)] # "absent" /\ l = label[Id(p)],
         st = "running" <=> ad # None, ad # None => \A c \in Ids : addr[c] # ad
  PROVE  IInv'
<1>1. PICK a \in {"ok", "error"} :
        /\ Answer(p, a) /\ faults' \in {faults, faults + 1} /\ faults' \in 0..MaxFaults
        /\ a = "error" => faults' = faults + 1
  BY RuntimeAssumption DEF Change, Fault, IInv, TypeOK
<1>2. pc[p] # "idle" /\ a \in AnswersAt(pc[p]) /\ UNCHANGED pc /\ pc[p] \in {"create", "start", "stop", "remove"}
  BY DEF Change, AnswersAt
<1>3. PICK id \in Ids : id = Id(p)
  BY <1>1, <1>2, AnswerFacts
<1>4. /\ pc'[p] = pc[p] /\ pc[p] \in Waits /\ job'[p] \in Job
      /\ job' = [job EXCEPT ![p] = job'[p]] /\ pc' = [pc EXCEPT ![p] = pc'[p]]
      /\ job'[p].ans = a /\ job'[p].id = Id(p) /\ job'[p].sub = job[p].sub
      /\ job'[p].then = job[p].then
      /\ Formed(p) /\ Formed(p)' /\ Resolved(p) /\ Creating(p)
      /\ Id(p) \in calm => Knows(p)
  BY <1>1, <1>2, AnswerFacts
<1>5. /\ UNCHANGED <<late, backend, record, cached, known, killed, calm, issued>>
      /\ faults \in Nat /\ faults' \in Nat /\ faults' >= faults
  BY <1>1 DEF Change, memory, history, IInv, TypeOK
<1>6. container' = [container EXCEPT ![id] = st] /\ addr' = [addr EXCEPT ![id] = ad]
      /\ label' = [label EXCEPT ![id] = l]
  BY <1>3 DEF Change
<1>7. container'[id] = st /\ addr'[id] = ad /\ label'[id] = l
  BY <1>3, <1>6 DEF IInv, TypeOK
<1>8. st \in Status \cup {"removed"}
  BY DEF Status
<1>9. TypeOK'
  <2>1. container' \in [Ids -> Status \cup {"absent", "removed"}]
    BY <1>6, <1>8 DEF IInv, TypeOK
  <2>a. label \in [Ids -> {"e2b", "aio", None}] /\ addr \in [Ids -> Addrs \cup {None}]
    BY DEF IInv, TypeOK
  <2>2. label' \in [Ids -> {"e2b", "aio", None}] /\ addr' \in [Ids -> Addrs \cup {None}]
    BY <1>6, <2>a
  <2>3. pc' \in [Handlers -> Waits \cup {"idle"}] /\ job' \in [Handlers -> Job]
    BY <1>4 DEF IInv, TypeOK
  <2> QED
    BY <1>1, <1>5, <2>1, <2>2, <2>3 DEF IInv, TypeOK
<1>10. Sound(id) /\ None \notin {"e2b", "aio"}
  BY <1>3, NamesAssumption DEF IInv, Sandboxes, Words
<1>11. Touches(p, id)
  BY <1>4, <1>5, <1>6, <1>7 DEF Touches, IInv, TypeOK
<1>12. Lasts(id)
  BY <1>3, <1>5, <1>7, <1>10 DEF Lasts, Sound
<1>13. Sound(id)'
  <2>1. st # "absent" /\ (st = "running" <=> ad # None)
    OBVIOUS
  <2> QED
    BY <1>3, <1>5, <1>7, <1>10, <2>1 DEF Sound, Running
<1>14. /\ Id(p)' = id /\ pc'[p] # "idle" /\ (Sub(p, "create")' <=> Sub(p, "create"))
  BY <1>2, <1>3, <1>4 DEF Id, Sub
<1>15. pc[p] = "create" => Sub(p, "create")
  BY <1>4 DEF Formed, PlanAt, SubsAt, Sub
<1>16. Resolved(p)'
  BY <1>2, <1>3, <1>4, <1>5, <1>7, <1>14 DEF Resolved, Id
<1>17. Creating(p)'
  <2>1. Sub(p, "create") => pc[p] # "stop"
    BY <1>4 DEF Formed, PlanAt, SubsAt, Sub
  <2>2. a # None
    BY NamesAssumption DEF Words
  <2> QED
    BY <1>2, <1>3, <1>4, <1>5, <1>7, <1>14, <2>1, <2>2 DEF Creating, Made, Exists, Status, Id
<1>18. (Id(p) \in calm => Knows(p))'
  <2> SUFFICES ASSUME id \in calm PROVE Knows(p)'
    BY <1>5, <1>14
  <2>1. Knows(p) /\ a # None /\ a \notin Status \cup Addrs
    BY <1>3, <1>4, NamesAssumption DEF Words, Status
  <2>2. job[p].then # "send"
    BY <1>2, <2>1 DEF Knows
  <2>3. UpAt(p)' => st = "running"
    BY <1>2, <1>4, <2>1, <2>2 DEF UpAt
  <2> QED
    BY <1>1, <1>2, <1>4, <1>5, <1>7, <1>14, <2>1, <2>2, <2>3 DEF Knows, Running, Exists
<1>19. Sure(p)'
  BY <1>4, <1>16, <1>17, <1>18 DEF Sure
<1>20. addr'[id] = None \/ \A c \in Ids : addr[c] # addr'[id]
  BY <1>7
<1> QED
  BY <1>2, <1>3, <1>5, <1>9, <1>11, <1>12, <1>13, <1>14, <1>19, <1>20, StepKeeps

LEMMA ChangeFacts ==
  ASSUME IInv, NEW p \in Handlers, pc[p] # "idle", pc[p] # "create"
  PROVE  /\ Exists(Id(p)) => /\ container[Id(p)] \notin {"absent", "removed"}
                             /\ label[Id(p)] \in {"e2b", "aio"}
                             /\ label' = label => label' = [label EXCEPT ![Id(p)] = label[Id(p)]]
<1>1. Id(p) \in Ids /\ Sound(Id(p))
  BY DEF IInv, Work, Sandboxes, Formed
<1> QED
  BY <1>1 DEF Exists, Status, Sound, IInv, TypeOK

LEMMA DCreateKeeps ==
  ASSUME IInv, NEW p \in Handlers, DCreate(p)
  PROVE  IInv' /\ container[Id(p)] = "absent"
<1>1. pc[p] = "create" /\ job[p].ans = None /\ Sub(p, "create")
  BY DEF DCreate, Asked, IInv, Work, Formed, PlanAt, SubsAt, Sub
<1>2. container[Id(p)] = "absent" /\ backend \in {"e2b", "aio"}
  BY <1>1, CreateFacts, RuntimeAssumption DEF Creating, IInv, TypeOK
<1>3. IInv'
  BY <1>1, <1>2, ChangeKeeps DEF DCreate
<1> QED
  BY <1>2, <1>3

LEMMA DStartKeeps ==
  ASSUME IInv, NEW p \in Handlers, DStart(p)
  PROVE  IInv'
<1>1. pc[p] = "start" /\ job[p].ans = None
  BY DEF DStart, Asked
<1>2. CASE (~Exists(Id(p)) \/ Running(Id(p))) /\ Refuse(p, "error")
  <2> DEFINE a == IF Exists(Id(p)) THEN "error" ELSE "gone"
  <2>1. a \in AnswersAt(pc[p]) /\ Look(p, a)
    BY <1>1, <1>2 DEF AnswersAt, Refuse
  <2>2. Id(p) \notin calm
    BY <1>1, <1>2, CalmFacts DEF Knows
  <2>3. Honest(p, a)
    BY <1>1, <2>2 DEF Honest
  <2> QED
    BY <1>1, <2>1, <2>3, LookKeeps
<1>3. CASE /\ Exists(Id(p)) /\ ~Running(Id(p)) /\ UNCHANGED label
           /\ \E ad \in Addrs : (\A c \in Ids : addr[c] # ad) /\ Change(p, "running", ad)
  <2>1. PICK ad \in Addrs : (\A c \in Ids : addr[c] # ad) /\ Change(p, "running", ad)
    BY <1>3
  <2>2. ad # None
    BY NamesAssumption
  <2>3. PICK l : l = label[Id(p)]
    OBVIOUS
  <2>4. l \in {"e2b", "aio"} /\ label' = [label EXCEPT ![Id(p)] = l] /\ container[Id(p)] \notin {"absent", "removed"}
    BY <1>1, <1>3, <2>3, ChangeFacts
  <2> QED
    BY <1>1, <2>1, <2>2, <2>3, <2>4, ChangeKeeps
<1> QED
  BY <1>2, <1>3 DEF DStart

LEMMA DStopKeeps ==
  ASSUME IInv, NEW p \in Handlers, DStop(p)
  PROVE  IInv'
<1>1. pc[p] = "stop" /\ job[p].ans = None
  BY DEF DStop, Asked
<1>2. CASE ~Running(Id(p)) /\ Refuse(p, "error")
  <2> DEFINE a == IF Exists(Id(p)) THEN "error" ELSE "gone"
  <2>1. a \in AnswersAt(pc[p]) /\ Look(p, a)
    BY <1>1, <1>2 DEF AnswersAt, Refuse
  <2>2. Id(p) \notin calm
    BY <1>1, <1>2, CalmFacts DEF Knows, UpAt
  <2>3. Honest(p, a)
    BY <1>1, <2>2 DEF Honest
  <2> QED
    BY <1>1, <2>1, <2>3, LookKeeps
<1>3. CASE Running(Id(p)) /\ Change(p, "exited", None) /\ UNCHANGED label
  <2>1. PICK l : l = label[Id(p)]
    OBVIOUS
  <2>2. l \in {"e2b", "aio"} /\ label' = [label EXCEPT ![Id(p)] = l] /\ container[Id(p)] \notin {"absent", "removed"}
    BY <1>1, <1>3, <2>1, ChangeFacts DEF Exists, Running, Status
  <2> QED
    BY <1>1, <1>3, <2>1, <2>2, ChangeKeeps
<1> QED
  BY <1>2, <1>3 DEF DStop

LEMMA DRemoveKeeps ==
  ASSUME IInv, NEW p \in Handlers, DRemove(p)
  PROVE  IInv'
<1>1. pc[p] = "remove" /\ job[p].ans = None
  BY DEF DRemove, Asked
<1>2. CASE ~Exists(Id(p)) /\ Refuse(p, "gone")
  <2>1. "gone" \in AnswersAt(pc[p]) /\ Look(p, "gone")
    BY <1>1, <1>2 DEF AnswersAt, Refuse
  <2>2. Honest(p, "gone")
    BY <1>1, <1>2 DEF Honest
  <2> QED
    BY <1>1, <2>1, <2>2, LookKeeps
<1>3. CASE Exists(Id(p)) /\ Change(p, "removed", None) /\ UNCHANGED label
  <2>1. PICK l : l = label[Id(p)]
    OBVIOUS
  <2>2. l \in {"e2b", "aio"} /\ label' = [label EXCEPT ![Id(p)] = l] /\ container[Id(p)] \notin {"absent", "removed"}
    BY <1>1, <1>3, <2>1, ChangeFacts
  <2> QED
    BY <1>1, <1>3, <2>1, <2>2, ChangeKeeps
<1> QED
  BY <1>2, <1>3 DEF DRemove
-----------------------------------------------------------------------------
(* Requests and the environment *)

LEMMA RouteMethod ==
  ASSUME NEW op \in Ops \ {"create"}
  PROVE  \/ op \in {"get", "start", "stop", "kill"} /\ Method[op] = <<op, "reply">>
         \/ op = "resize" /\ Method[op] = <<"get", "update">>
         \/ op = "exec" /\ Method[op] = <<"get", "check">>
         \/ op = "file" /\ Method[op] = <<"get", "file">>
<1>1. op \in {"get", "start", "stop", "resize", "kill", "exec", "file"}
  BY RuntimeAssumption
<1> QED
  BY <1>1 DEF Method

\* A request enters an idle handler.
LEMMA EntersKeeps ==
  ASSUME IInv, TypeOK', NEW p \in Handlers, NEW id \in Ids, pc[p] = "idle",
         pc' = [pc EXCEPT ![p] = pc'[p]], job' = [job EXCEPT ![p] = job'[p]],
         UNCHANGED <<docker, memory, known, killed, faults>>,
         calm' = calm \/ (calm' = calm \ {id} /\ container[id] # "absent"),
         pc'[p] # "idle", Id(p)' = id, Sure(p)',
         id \in calm' \/ Sub(p, "create")' => \A q \in Handlers : Id(q) # id,
         \A q \in Handlers : pc[q] # "idle" /\ Id(q) = id => ~Sub(q, "create")
  PROVE  IInv'
<1>1. /\ UNCHANGED <<container, label, addr, late, backend, record, cached>>
      /\ faults \in Nat /\ faults' = faults
  BY DEF docker, memory, IInv, TypeOK
<1>2. Touches(p, id) /\ Lasts(id)
  BY <1>1 DEF Touches, Lasts, IInv, TypeOK
<1>3. Sound(id)'
  BY <1>1 DEF Sound, Running, IInv, Sandboxes
<1>4. Sandboxes'
  BY <1>1, <1>2, <1>3, SandboxesKeep
<1>5. ASSUME NEW q \in Handlers, q # p
      PROVE  pc'[q] = pc[q] /\ job'[q] = job[q]
  BY <1>5 DEF IInv, TypeOK
<1>6. ASSUME NEW q \in Handlers, q # p, pc[q] # "idle"
      PROVE  pc'[q] # "idle" /\ Sure(q)' /\ Alone(q)'
  <2>1. Id(q) = id => ~Sub(q, "create") /\ id \notin calm'
    BY <1>6
  <2>2. pc'[q] # "idle" /\ Sure(q)' /\ (Id(p)' # Id(q) => Alone(q)')
    BY <1>2, <1>6, <2>1, OthersKeep
  <2>3. CASE Id(q) # id
    BY <2>2, <2>3
  <2>4. CASE Id(q) = id
    BY <1>5, <1>6, <2>1, <2>2, <2>4 DEF Alone, Sub, Id
  <2> QED
    BY <2>3, <2>4
<1>7. Alone(p)'
  BY <1>5 DEF Alone, Id
<1>8. Work'
  <2>1. ASSUME NEW q \in Handlers, q # p, pc[q] = "idle" PROVE pc'[q] = "idle" /\ Id(q)' = None
    BY <1>5, <2>1 DEF Id, IInv, Work
  <2> QED
    BY <1>5, <1>6, <1>7, <2>1 DEF Work, Sure
<1>9. Undisturbed'
  BY <1>5, <1>6 DEF Undisturbed, Sure
<1>10. Leftovers'
  BY <1>1 DEF IInv, Leftovers
<1> QED
  BY <1>4, <1>8, <1>9, <1>10 DEF IInv

LEMMA CallKeeps ==
  ASSUME IInv, NEW p \in Handlers, NEW id \in Ids, NEW op \in Ops, Call(p, op, id)
  PROVE  IInv'
<1>1. /\ pc[p] = "idle" /\ op \in Ops \ {"create"} /\ id \in known /\ issued' = issued + 1 /\ issued < MaxCalls
      /\ UNCHANGED <<docker, memory, known, killed, faults>>
      /\ calm' = IF \E q \in Handlers : Id(q) = id THEN calm \ {id} ELSE calm
  BY DEF Call
<1>2. PICK sub \in {"get", "start", "stop", "kill"}, then \in {"reply", "update", "check", "file"} :
        /\ Method[op] = <<sub, then>>
        /\ Plan([op |-> op, sub |-> sub, then |-> then])
  BY <1>1, RouteMethod DEF Plan
<1> DEFINE j == [[[NoJob EXCEPT !.op = op, !.id = id] EXCEPT !.sub = sub, !.then = then] EXCEPT !.ans = None]
           w == IF id \in cached THEN "inspect" ELSE "list"
<1>3. pc' = [pc EXCEPT ![p] = w] /\ job' = [job EXCEPT ![p] = j]
  <2>1. cached' = cached
    BY <1>1 DEF memory
  <2> QED
    BY <1>2, <2>1 DEF Call, Begin, Wait, NoJob
<1>4. /\ j \in Job /\ w \in Waits
      /\ j.op = op /\ j.id = id /\ j.sub = sub /\ j.then = then /\ j.ans = None
  BY <1>1 DEF Job, Waits, NoJob
<1> HIDE DEF j
<1>5. pc'[p] = w /\ job'[p] = j
  BY <1>3 DEF IInv, TypeOK
<1>6. issued' \in 0..MaxCalls /\ calm' \subseteq Ids
  BY <1>1, RuntimeAssumption DEF IInv, TypeOK
<1>7. /\ UNCHANGED <<container, label, addr, late, backend, record, cached, known, killed, faults>>
  BY <1>1 DEF docker, memory
<1>8. TypeOK'
  BY <1>3, <1>4, <1>6, <1>7 DEF IInv, TypeOK
<1>9. Id(p)' = id /\ w # "idle" /\ ~Sub(p, "create")'
  BY <1>4, <1>5 DEF Id, Sub
<1>10. Formed(p)'
  BY <1>2, <1>4, <1>5, <1>9, NamesAssumption DEF Formed, PlanAt, Plan, SubsAt, Id, Words
<1>11. None \notin Status \cup Addrs \cup {"ok", "gone", "error"}
  BY NamesAssumption DEF Words
<1>12. Resolved(p)'
  BY <1>1, <1>4, <1>5, <1>7, <1>9, <1>11 DEF Resolved, Id, IInv, TypeOK
<1>13. Knows(p)'
  BY <1>4, <1>5, <1>11 DEF Knows, UpAt
<1>14. Sure(p)'
  BY <1>9, <1>10, <1>12, <1>13 DEF Sure, Creating
<1>15. \A q \in Handlers : pc[q] # "idle" /\ Id(q) = id => ~Sub(q, "create")
  BY <1>1 DEF IInv, Work, Creating
<1>16. container[id] # "absent"
  BY <1>1 DEF IInv, Sandboxes, Sound
<1> QED
  BY <1>1, <1>16, <1>3, <1>5, <1>8, <1>9, <1>14, <1>15, EntersKeeps

LEMMA CallCreateKeeps ==
  ASSUME IInv, NEW p \in Handlers, NEW id \in Ids, CallCreate(p, id)
  PROVE  IInv'
<1> DEFINE j == [[NoJob EXCEPT !.op = "create", !.id = id, !.sub = "create"] EXCEPT !.ans = None]
<1>1. /\ pc[p] = "idle" /\ "create" \in Ops /\ container[id] = "absent" /\ \A q \in Handlers : Id(q) # id
      /\ issued' = issued + 1 /\ issued < MaxCalls
      /\ UNCHANGED <<docker, memory, known, killed, faults>> /\ calm' = calm
  BY DEF CallCreate, history
<1>2. pc' = [pc EXCEPT ![p] = "image"] /\ job' = [job EXCEPT ![p] = j]
  BY DEF CallCreate, Wait
<1>3. /\ j \in Job /\ "image" \in Waits
      /\ j.op = "create" /\ j.id = id /\ j.sub = "create" /\ j.then = None /\ j.ans = None
  BY <1>1 DEF Job, Waits, NoJob
<1> HIDE DEF j
<1>4. pc'[p] = "image" /\ job'[p] = j
  BY <1>2 DEF IInv, TypeOK
<1>5. issued' \in 0..MaxCalls
  BY <1>1, RuntimeAssumption DEF IInv, TypeOK
<1>6. /\ UNCHANGED <<container, label, addr, late, backend, record, cached, known, killed, faults>>
  BY <1>1 DEF docker, memory
<1>7. TypeOK'
  BY <1>1, <1>2, <1>3, <1>5, <1>6 DEF IInv, TypeOK
<1>8. Id(p)' = id /\ Sub(p, "create")'
  BY <1>3, <1>4 DEF Id, Sub
<1>9. Formed(p)'
  BY <1>3, <1>4, <1>8, NamesAssumption DEF Formed, PlanAt, Plan, SubsAt, Id, Words
<1>10. None \notin Status \cup Addrs \cup {"ok", "gone", "error", "send"}
  BY NamesAssumption DEF Words
<1>11. Creating(p)'
  <2>1. id \notin known \cup cached /\ id \in calm /\ record[id] = None
    BY <1>1 DEF IInv, TypeOK, Sandboxes, Sound
  <2> QED
    BY <1>1, <1>3, <1>4, <1>6, <1>8, <1>10, <2>1 DEF Creating, Made, Id
<1>12. Knows(p)'
  BY <1>3, <1>4, <1>10 DEF Knows, UpAt
<1>13. Sure(p)'
  BY <1>8, <1>9, <1>11, <1>12 DEF Sure, Resolved
<1> QED
  BY <1>1, <1>2, <1>4, <1>7, <1>8, <1>13, EntersKeeps
LEMMA ExitKeeps ==
  ASSUME IInv, NEW id \in Ids, Exit(id)
  PROVE  IInv'
<1>1. /\ container[id] = "running" /\ container' = [container EXCEPT ![id] = "exited"]
      /\ addr' = [addr EXCEPT ![id] = None] /\ calm' = calm \ {id}
      /\ UNCHANGED <<label, late, backend, record, cached, pc, job, known, killed, issued>>
      /\ faults \in Nat /\ faults' = faults + 1 /\ faults' \in 0..MaxFaults
  BY RuntimeAssumption DEF Exit, Running, Fault, memory, IInv, TypeOK
<1>2. TypeOK'
  <2>1. container' \in [Ids -> Status \cup {"absent", "removed"}]
    BY <1>1 DEF IInv, TypeOK, Status
  <2>2. addr' \in [Ids -> Addrs \cup {None}] /\ calm' \subseteq Ids
    BY <1>1 DEF IInv, TypeOK
  <2> QED
    BY <1>1, <2>1, <2>2 DEF IInv, TypeOK
<1>3. /\ container'[id] = "exited" /\ addr'[id] = None
      /\ \A c \in Ids : c # id => container'[c] = container[c] /\ addr'[c] = addr[c]
  BY <1>1 DEF IInv, TypeOK
<1>4. Sandboxes'
  <2>1. ASSUME NEW c \in Ids PROVE Sound(c)'
    <3>1. Sound(c)
      BY DEF IInv, Sandboxes
    <3>2. CASE c # id
      BY <1>1, <1>3, <3>1, <3>2 DEF Sound, Running
    <3>3. CASE c = id
      BY <1>1, <1>3, <3>1, <3>3 DEF Sound, Running
    <3> QED
      BY <3>2, <3>3
  <2>2. Apart'
    BY <1>3 DEF Apart, IInv, Sandboxes
  <2> QED
    BY <2>1, <2>2 DEF Sandboxes
<1>5. ASSUME NEW q \in Handlers, pc[q] # "idle"
      PROVE  Formed(q)' /\ Resolved(q)' /\ Creating(q)' /\ Alone(q)'
  <2>1. Formed(q) /\ Resolved(q) /\ Creating(q) /\ Alone(q)
    BY <1>5 DEF IInv, Work
  <2>2. Formed(q)' /\ Alone(q)'
    BY <1>1, <2>1 DEF Formed, Alone, Quotes404, Id, PlanAt, Sub
  <2>3. Resolved(q)'
    BY <1>1, <1>3, <2>1 DEF Formed, Resolved, Id, Sub, BackendOf
  <2>4. Creating(q)'
    BY <1>1, <1>3, <2>1 DEF Formed, Creating, Made, Exists, Status, Id, Sub
  <2> QED
    BY <2>2, <2>3, <2>4
<1>6. Work'
  BY <1>1, <1>5 DEF Work, IInv, Id
<1>7. ASSUME NEW q \in Handlers, pc[q] # "idle", Id(q) \in calm, Id(q) # id
      PROVE  Knows(q)'
  <2>1. Knows(q) /\ Id(q) \in Ids
    BY <1>7 DEF IInv, Undisturbed, Work, Formed
  <2> QED
    BY <1>1, <1>3, <1>7, <2>1 DEF Knows, UpAt, Running, Exists, Id, Sub
<1>8. Undisturbed'
  BY <1>1, <1>7 DEF Undisturbed, Id
<1>9. Leftovers'
  BY <1>1 DEF IInv, Leftovers
<1> QED
  BY <1>2, <1>4, <1>6, <1>8, <1>9 DEF IInv

LEMMA FinishKeeps ==
  ASSUME IInv, NEW c \in late, Finish(c)
  PROVE  IInv'
<1>1. PICK id \in Ids : id = c.id /\ id \in known /\ id \notin calm
  BY DEF IInv, TypeOK, Leftovers
<1>2. /\ late' = late \ {c}
      /\ UNCHANGED <<label, backend, record, cached, pc, job, known, killed, calm, issued, faults>>
  BY DEF Finish, memory, history, bounds
<1>3. PICK st \in Status \cup {"absent", "removed"}, ad \in Addrs \cup {None} :
        /\ container' = [container EXCEPT ![id] = st] /\ addr' = [addr EXCEPT ![id] = ad]
        /\ st = "running" <=> ad # None
        /\ container[id] = "removed" => st = "removed"
        /\ container[id] = "absent" <=> st = "absent"
        /\ ad \in {addr[id], None} \/ \A d \in Ids : addr[d] # ad
  <2>1. CASE UNCHANGED <<container, addr>>
    <3>1. container[id] \in Status \cup {"absent", "removed"} /\ addr[id] \in Addrs \cup {None} /\ Sound(id)
      BY DEF IInv, TypeOK, Sandboxes
    <3>2. container' = [container EXCEPT ![id] = container[id]] /\ addr' = [addr EXCEPT ![id] = addr[id]]
      BY <2>1 DEF IInv, TypeOK
    <3> QED
      BY <3>1, <3>2 DEF Sound, Running
  <2>2. CASE c.call = "start" /\ Exists(id)
             /\ container' = [container EXCEPT ![id] = "running"]
             /\ \E a \in Addrs : (\A d \in Ids : addr[d] # a) /\ addr' = [addr EXCEPT ![id] = a]
    BY <2>2, NamesAssumption DEF Exists, Status
  <2>3. CASE Exists(id) /\ addr' = [addr EXCEPT ![id] = None]
             /\ \/ container' = [container EXCEPT ![id] = "exited"]
                \/ container' = [container EXCEPT ![id] = "removed"]
    BY <2>3 DEF Exists, Status
  <2>4. c.call \in {"start", "stop", "remove"}
    BY DEF IInv, TypeOK
  <2> QED
    BY <1>1, <2>1, <2>2, <2>3, <2>4 DEF Finish
<1>4. /\ container'[id] = st /\ addr'[id] = ad
      /\ \A d \in Ids : d # id => container'[d] = container[d] /\ addr'[d] = addr[d]
  BY <1>3 DEF IInv, TypeOK
<1>5. TypeOK'
  <2>1. container' \in [Ids -> Status \cup {"absent", "removed"}]
    BY <1>3 DEF IInv, TypeOK
  <2>2. addr' \in [Ids -> Addrs \cup {None}]
    BY <1>3 DEF IInv, TypeOK
  <2> QED
    BY <1>2, <2>1, <2>2 DEF IInv, TypeOK
<1>6. Sandboxes'
  <2>1. ASSUME NEW d \in Ids PROVE Sound(d)'
    <3>1. Sound(d)
      BY DEF IInv, Sandboxes
    <3> QED
      BY <1>1, <1>2, <1>3, <1>4, <3>1 DEF Sound, Running
  <2>2. Apart'
    BY <1>3, <1>4 DEF Apart, IInv, Sandboxes
  <2> QED
    BY <2>1, <2>2 DEF Sandboxes
<1>7. ASSUME NEW q \in Handlers, pc[q] # "idle"
      PROVE  Formed(q)' /\ Resolved(q)' /\ Creating(q)' /\ Alone(q)'
  <2>1. Formed(q) /\ Resolved(q) /\ Creating(q) /\ Alone(q)
    BY <1>7 DEF IInv, Work
  <2>2. Formed(q)' /\ Alone(q)'
    BY <1>2, <2>1 DEF Formed, Alone, Quotes404, Id, PlanAt, Sub
  <2>3. Resolved(q)'
    BY <1>2, <1>3, <1>4, <2>1 DEF Formed, Resolved, Id, Sub, BackendOf
  <2>4. Creating(q)'
    BY <1>1, <1>2, <1>4, <2>1 DEF Formed, Creating, Made, Exists, Id, Sub
  <2> QED
    BY <2>2, <2>3, <2>4
<1>8. Work'
  BY <1>2, <1>7 DEF Work, IInv, Id
<1>9. ASSUME NEW q \in Handlers, pc[q] # "idle", Id(q) \in calm
      PROVE  Knows(q)'
  <2>1. Knows(q) /\ Id(q) \in Ids /\ Id(q) # id
    BY <1>1, <1>9 DEF IInv, Undisturbed, Work, Formed
  <2> QED
    BY <1>2, <1>4, <2>1 DEF Knows, UpAt, Running, Exists, Id, Sub
<1>10. Undisturbed' /\ Leftovers'
  BY <1>2, <1>9 DEF Undisturbed, Leftovers, IInv, Id
<1> QED
  BY <1>5, <1>6, <1>8, <1>10 DEF IInv

LEMMA NoJobInJob == NoJob \in Job /\ NoJob.id = None
BY DEF NoJob, Job

LEMMA RestartKeeps ==
  ASSUME IInv, Restart
  PROVE  IInv'
<1> DEFINE calls == {[call |-> pc[p], id |-> Id(p)] : p \in {q \in Handlers : Underway(q)}}
<1>a. ASSUME NEW c \in calls
      PROVE  c \in [call : {"start", "stop", "remove"}, id : Ids] /\ c.id \in known
  <2>1. PICK p \in Handlers : Underway(p) /\ c = [call |-> pc[p], id |-> Id(p)]
    OBVIOUS
  <2>2. pc[p] \in {"start", "stop", "remove"} /\ pc[p] # "idle" /\ ~Sub(p, "create")
    BY <2>1 DEF Underway
  <2>3. Id(p) \in Ids /\ Id(p) \in known
    BY <2>2 DEF IInv, Work, Formed, Resolved
  <2> QED
    BY <2>1, <2>2, <2>3
<1>b. ASSUME NEW c \in late
      PROVE  c \in [call : {"start", "stop", "remove"}, id : Ids] /\ c.id \in known \ calm
  BY DEF IInv, TypeOK, Leftovers
<1>1. /\ UNCHANGED <<container, label, addr, known, killed, issued>> /\ backend' \in Backends
      /\ late' = late \cup calls /\ calm' = calm \ {c.id : c \in calls}
      /\ record' = [id \in Ids |-> None] /\ cached' = {}
      /\ pc' = [p \in Handlers |-> "idle"] /\ job' = [p \in Handlers |-> NoJob]
      /\ faults \in Nat /\ faults' = faults + 1 /\ faults' \in 0..MaxFaults
  BY RuntimeAssumption DEF Restart, Fault, docker, IInv, TypeOK
<1>2. TypeOK'
  <2>1. late' \subseteq [call : {"start", "stop", "remove"}, id : Ids]
    BY <1>1, <1>a, <1>b
  <2>2. calm' \subseteq Ids
    BY <1>1 DEF IInv, TypeOK
  <2> HIDE DEF calls
  <2> QED
    BY <1>1, <2>1, <2>2, NoJobInJob DEF IInv, TypeOK
<1>3. ASSUME NEW id \in Ids PROVE Sound(id)'
  <2>1. Sound(id)
    BY DEF IInv, Sandboxes
  <2>2. container[id] = "absent" => id \in calm'
    BY <1>1, <1>a, <2>1 DEF Sound
  <2> HIDE DEF calls
  <2> QED
    BY <1>1, <2>1, <2>2 DEF Sound, Running
<1>4. Sandboxes'
  BY <1>1, <1>3 DEF Sandboxes, Apart, IInv
<1>5. Work' /\ Undisturbed'
  BY <1>1, NoJobInJob DEF Work, Undisturbed, Id
<1>6. Leftovers'
  BY <1>1, <1>a, <1>b DEF Leftovers
<1> QED
  BY <1>2, <1>4, <1>5, <1>6 DEF IInv

LEMMA InitOK == Init => IInv
<1> SUFFICES ASSUME Init PROVE IInv
  OBVIOUS
<1>1. TypeOK
  BY RuntimeAssumption, NoJobInJob DEF Init, TypeOK
<1>2. Sandboxes
  BY NamesAssumption DEF Init, Sandboxes, Apart, Sound, Running, Words
<1>3. Work /\ Undisturbed /\ Leftovers
  BY NoJobInJob DEF Init, Work, Undisturbed, Leftovers, Id
<1> QED
  BY <1>1, <1>2, <1>3 DEF IInv

LEMMA SameKeeps ==
  ASSUME IInv, UNCHANGED vars
  PROVE  IInv'
<1>1. UNCHANGED <<container, label, addr, late, backend, record, cached, pc, job, known, killed, calm, issued, faults>>
  BY DEF vars, docker, memory, history, bounds
<1>2. TypeOK' /\ Sandboxes' /\ Leftovers'
  BY <1>1 DEF IInv, TypeOK, Sandboxes, Leftovers, Apart, Sound, Running
<1>3. ASSUME NEW p \in Handlers
      PROVE  /\ Formed(p)' <=> Formed(p) 
             /\ Resolved(p)' <=> Resolved(p)
             /\ Creating(p)' <=> Creating(p)
             /\ Alone(p)' <=> Alone(p)
             /\ Knows(p)' <=> Knows(p)
             /\ Id(p)' = Id(p)
  BY <1>1 DEF Formed, PlanAt, Plan, Quotes404, Resolved, BackendOf, Creating, Made, Alone, Knows, UpAt, Id, Sub, Exists, Running
<1>4. Work' /\ Undisturbed'
  BY <1>1, <1>3 DEF IInv, Work, Undisturbed
<1> QED
  BY <1>2, <1>4 DEF IInv

LEMMA HandleKeeps ==
  ASSUME IInv, NEW p \in Handlers, Handle(p)
  PROVE  IInv'
BY PulledKeeps, MadeContainerKeeps, ListedKeeps, FilledKeeps, InspectedGetKeeps, InspectedStartKeeps,
   InspectedStopKeeps, InspectedKillKeeps, StartedContainerKeeps, GotEndpointKeeps, ReadyKeeps,
   StoppedContainerKeeps, KilledKeeps, UpdatedKeeps, CatchKeeps, EndingsKeep DEF Handle

LEMMA NextKeeps == IInv /\ [Next]_vars => IInv'
<1> SUFFICES ASSUME IInv, [Next]_vars PROVE IInv'
  OBVIOUS
<1>1. CASE \E p \in Handlers, id \in Ids : CallCreate(p, id) \/ \E op \in Ops : Call(p, op, id)
  BY <1>1, CallCreateKeeps, CallKeeps
<1>2. CASE \E p \in Handlers : Daemon(p) \/ DFails(p) \/ Handle(p)
  BY <1>2, LooksKeep, ReachesKeep, DCreateKeeps, DStartKeeps, DStopKeeps, DRemoveKeeps,
     DFailsKeeps, HandleKeeps DEF Daemon
<1>3. CASE \E id \in Ids : Exit(id)
  BY <1>3, ExitKeeps
<1>4. CASE Restart
  BY <1>4, RestartKeeps
<1>5. CASE UNCHANGED vars
  BY <1>5, SameKeeps
<1>6. CASE \E c \in late : Finish(c)
  BY <1>6, FinishKeeps
<1> QED
  BY <1>1, <1>2, <1>3, <1>4, <1>5, <1>6 DEF Next, AwaitCalls

LEMMA Invariance == Spec => []IInv
BY InitOK, NextKeeps, PTL DEF Spec

\* For any number of sandboxes, addresses, requests at the same time and
\* faults, containers, records and the handlers' variables keep their types,
\* no id is in the Map without a record, and only what a create has answered
\* is ever confirmed as killed.
THEOREM TypeCorrect == Spec => []TypeOK
<1>1. IInv => TypeOK
  BY DEF IInv
<1> QED
  BY <1>1, Invariance, PTL

\* A container made for the AIO backend has a record for the AIO backend
\* whenever it is in the Map, whatever backend the process was started with.
THEOREM AioIsKept == Spec => []AioKept
<1>1. IInv => AioKept
  BY DEF IInv, TypeOK, Sandboxes, Sound, AioKept
<1> QED
  BY <1>1, Invariance, PTL

-----------------------------------------------------------------------------
(* Every step is a step of a sandbox's life *)

Legal ==
  \/ UNCHANGED <<container, known, killed>>
  \/ \E id \in Ids, st \in {"created", "running", "exited", "removed"} :
       /\ Exists(id) \/ (container[id] = "absent" /\ st = "created")
       /\ container' = [container EXCEPT ![id] = st]
       /\ UNCHANGED <<known, killed>>
  \/ \E id \in Ids :
       /\ id \notin known /\ Exists(id)
       /\ known' = known \cup {id} /\ UNCHANGED <<container, killed>>
  \/ \E id \in Ids :
       /\ id \in known /\ (container[id] = "removed" \/ id \in Has404)
       /\ killed' = killed \cup {id} /\ UNCHANGED <<container, known>>

LEMMA LegalLives ==
  ASSUME IInv, Legal
  PROVE  [Life!Next]_(Life!vars)
<1>1. container \in [Ids -> Status \cup {"absent", "removed"}]
  BY DEF IInv, TypeOK
<1>2. ASSUME NEW id \in Ids
      PROVE  /\ container[id] = "absent" => lifeOf[id] = "absent"
             /\ Exists(id) => lifeOf[id] \in {"started", "stopped"}
             /\ container[id] = "running" => lifeOf[id] = "started"
             /\ container[id] \in {"created", "exited"} => lifeOf[id] = "stopped"
             /\ container[id] = "removed" => lifeOf[id] = "deleted"
  BY DEF lifeOf, Exists, Status
<1>3. CASE UNCHANGED <<container, known, killed>>
  <2>1. lifeOf' = lifeOf
    BY <1>3 DEF lifeOf
  <2> QED
    BY <1>3, <2>1 DEF Life!vars
<1>4. ASSUME NEW id \in Ids, NEW st \in {"created", "running", "exited", "removed"},
             Exists(id) \/ (container[id] = "absent" /\ st = "created"),
             container' = [container EXCEPT ![id] = st], UNCHANGED <<known, killed>>
      PROVE  [Life!Next]_(Life!vars)
  <2> DEFINE to == CASE st = "running" -> "started" [] st = "removed" -> "deleted" [] OTHER -> "stopped"
  <2>1. lifeOf' = [lifeOf EXCEPT ![id] = to]
    <3>1. \A c \in Ids : lifeOf'[c] = IF c = id THEN to ELSE lifeOf[c]
      BY <1>1, <1>4 DEF lifeOf
    <3>2. lifeOf' = [c \in Ids |-> lifeOf'[c]] /\ lifeOf = [c \in Ids |-> lifeOf[c]]
      BY DEF lifeOf
    <3> QED
      BY <3>1, <3>2
  <2>2. CASE lifeOf[id] = to
    <3>1. lifeOf' = lifeOf
      BY <2>1, <2>2 DEF lifeOf
    <3> QED
      BY <1>4, <3>1 DEF Life!vars
  <2>3. CASE lifeOf[id] # to
    <3>1. Life!Appear(id) \/ Life!Resume(id) \/ Life!Suspend(id) \/ Life!Delete(id)
      BY <1>2, <1>4, <2>1, <2>3
         DEF Life!Appear, Life!Resume, Life!Suspend, Life!Delete, Life!Turn
    <3> QED
      BY <3>1 DEF Life!Next
  <2> QED
    BY <2>2, <2>3
<1>5. ASSUME NEW id \in Ids, id \notin known, Exists(id), known' = known \cup {id},
             UNCHANGED <<container, killed>>
      PROVE  Life!Next
  <2>1. lifeOf' = lifeOf
    BY <1>5 DEF lifeOf
  <2>2. Life!Announce(id)
    BY <1>2, <1>5, <2>1 DEF Life!Announce
  <2> QED
    BY <2>2 DEF Life!Next
<1>6. ASSUME NEW id \in Ids, id \in known, container[id] = "removed" \/ id \in Has404, killed' = killed \cup {id},
             UNCHANGED <<container, known>>
      PROVE  Life!Next
  <2>1. lifeOf' = lifeOf /\ (container[id] = "removed" => lifeOf = [lifeOf EXCEPT ![id] = "deleted"])
    BY <1>2, <1>6 DEF lifeOf
  <2>2. Life!Confirm(id)
    BY <1>6, <2>1 DEF Life!Confirm
  <2> QED
    BY <2>2 DEF Life!Next
<1> QED
  BY <1>3, <1>4, <1>5, <1>6 DEF Legal

LEMMA ChangeLegal ==
  ASSUME IInv, NEW p \in Handlers, pc[p] # "idle", NEW st \in {"created", "running", "exited", "removed"},
         NEW a, Change(p, st, a), Exists(Id(p)) \/ (container[Id(p)] = "absent" /\ st = "created")
  PROVE  Legal
<1>1. Id(p) \in Ids
  BY DEF IInv, Work, Formed
<1> QED
  BY <1>1 DEF Legal, Change, history

LEMMA DaemonLegal ==
  ASSUME IInv, NEW p \in Handlers, Daemon(p) \/ DFails(p)
  PROVE  Legal
<1>1. CASE DCreate(p)
  <2>1. container[Id(p)] = "absent" /\ pc[p] # "idle"
    BY <1>1, DCreateKeeps DEF DCreate, Asked
  <2> QED
    BY <1>1, <2>1, ChangeLegal DEF DCreate
<1>2. CASE DStart(p) \/ DStop(p) \/ DRemove(p)
  <2>1. pc[p] # "idle"
    BY <1>2 DEF DStart, DStop, DRemove, Asked
  <2>2. Running(Id(p)) => Exists(Id(p))
    BY DEF Running, Exists, Status
  <2>3. \A a : Refuse(p, a) => Legal
    BY DEF Refuse, Look, Legal, docker, history
  <2> QED
    BY <1>2, <2>1, <2>2, <2>3, ChangeLegal DEF DStart, DStop, DRemove
<1>3. CASE DImage(p) \/ DInspect(p) \/ DEndpoint(p) \/ DUpdate(p) \/ DExec(p) \/ DAio(p) \/ DFails(p)
  BY <1>3 DEF DImage, DInspect, DEndpoint, DUpdate, DExec, DAio, DFails, Look, Legal, docker, history
<1> QED
  BY <1>1, <1>2, <1>3 DEF Daemon

LEMMA CreatedLegal ==
  ASSUME IInv, NEW p \in Handlers, Sub(p, "create"), Made(p), Created(p)
  PROVE  Legal
<1>1. Id(p) \in Ids /\ Creating(p)
  BY CreateFacts DEF Made
<1> QED
  BY <1>1 DEF Created, Creating, Legal, docker

LEMMA HandleLegal ==
  ASSUME IInv, NEW p \in Handlers, Handle(p)
  PROVE  Legal
<1>1. UNCHANGED others => Legal
  BY DEF others, docker, history, Legal
<1>2. CASE StartedContainer(p) \/ Ready(p)
  <2>1. CASE Sub(p, "create") /\ Created(p)
    <3>1. Made(p)
      BY <1>2 DEF StartedContainer, Ready, Got, Made
    <3> QED
      BY <2>1, <3>1, CreatedLegal
  <2>2. CASE UNCHANGED others
    BY <1>1, <2>2
  <2> QED
    BY <1>2, <2>1, <2>2 DEF StartedContainer, Ready
<1>3. CASE Killed(p)
  <2>1. pc[p] # "idle"
    BY <1>3 DEF Killed, Got, Swallowed
  <2>2. Id(p) \in Ids /\ Id(p) \in known /\ (container[Id(p)] = "removed" \/ Id(p) \in Has404)
    BY <1>3, <2>1, KilledKeeps DEF IInv, Work, Formed
  <2> QED
    BY <1>3, <2>2 DEF Killed, Legal, docker
<1>4. CASE ~(StartedContainer(p) \/ Ready(p) \/ Killed(p))
  <2>1. UNCHANGED others
    BY <1>4 DEF Handle, Pulled, MadeContainer, Listed, Filled, InspectedGet, InspectedStart, InspectedStop,
       InspectedKill, GotEndpoint, StoppedContainer, Updated, Ran, Catch, CatchRemove
  <2> QED
    BY <1>1, <2>1
<1> QED
  BY <1>2, <1>3, <1>4

LEMMA NextLegal == IInv /\ [Next]_vars => Legal
<1> SUFFICES ASSUME IInv, [Next]_vars PROVE Legal
  OBVIOUS
<1>1. CASE \E p \in Handlers, id \in Ids : CallCreate(p, id) \/ \E op \in Ops : Call(p, op, id)
  BY <1>1 DEF CallCreate, Call, docker, history, Legal
<1>2. CASE \E p \in Handlers : Daemon(p) \/ DFails(p) \/ Handle(p)
  BY <1>2, DaemonLegal, HandleLegal
<1>3. CASE \E id \in Ids : Exit(id)
  BY <1>3 DEF Exit, Running, Exists, Status, Legal
<1>4. CASE Restart \/ UNCHANGED vars
  BY <1>4 DEF Restart, vars, docker, history, Legal
<1>5. CASE \E c \in late : Finish(c)
  <2>1. PICK c \in late : Finish(c)
    BY <1>5
  <2>2. c.id \in Ids /\ c.call \in {"start", "stop", "remove"} /\ UNCHANGED <<known, killed>>
    BY <2>1 DEF IInv, TypeOK, Finish, history
  <2>3. CASE UNCHANGED container
    BY <2>2, <2>3 DEF Legal
  <2>4. ASSUME NEW st \in {"running", "exited", "removed"}, Exists(c.id),
               container' = [container EXCEPT ![c.id] = st]
        PROVE  Legal
    BY <2>2, <2>4 DEF Legal
  <2> QED
    BY <2>1, <2>2, <2>3, <2>4 DEF Finish
<1> QED
  BY <1>1, <1>2, <1>3, <1>4, <1>5 DEF Next, AwaitCalls

LEMMA InitLives == Init => Life!Init
BY DEF Init, Life!Init, lifeOf

\* The runtime implements SandboxLife for any number of sandboxes, requests,
\* faults and restarts: no id is given out twice or without a container, and a
\* kill is answered well only when the container is gone.  Has404 is any set of
\* ids: of those in it, and of no other, a kill may be answered well by mistake.
THEOREM ImplementsLife == Spec => KeepsPromises
<1>1. IInv /\ [Next]_vars => [Life!Next]_(Life!vars)
  BY NextLegal, LegalLives
<1> QED
  BY <1>1, Invariance, InitLives, PTL DEF Spec, KeepsPromises, Life!Spec

-----------------------------------------------------------------------------
(* What the answers tell *)

Ends(p) == Replies(p) \/ Throws(p)

LEMMA WaitsOn ==
  ASSUME IInv, NEW p \in Handlers, NEW w \in Waits, NEW j, Wait(p, w, j)
  PROVE  ~Ends(p)
<1>1. pc'[p] = w /\ w # "idle"
  BY DEF Wait, IInv, TypeOK, Waits
<1> QED
  BY <1>1 DEF Ends, Replies, Throws

LEMMA Responds ==
  ASSUME IInv, NEW p \in Handlers
  PROVE  /\ Reply(p) => ~Throws(p)
         /\ Throw(p) => ~Replies(p)
BY DEF Reply, Throw, Respond, Replies, Throws, NoJob, IInv, TypeOK

\* A method that returns ends its request only when there is nothing left to
\* do, or when the AIO server it is to send to has no address.
LEMMA ReturnEnds ==
  ASSUME IInv, NEW p \in Handlers, Return(p)
  PROVE  /\ Replies(p) => job[p].then = "reply"
         /\ Throws(p) => job[p].then = "send" /\ Now(p).endpoint = None
<1>1. job[p].then = "reply" /\ Reply(p) => ~Throws(p)
  BY Responds
<1>2. Throw(p) => ~Replies(p)
  BY Responds
<1>3. \A w \in {"update", "exec", "fetch"} : w \in Waits
  BY DEF Waits
<1>4. Proceed(p) => ~Ends(p)
  <2>1. Begin(p, job[p], "get", "send") => ~Ends(p)
    BY DEF Begin, Wait, IInv, TypeOK, Ends, Replies, Throws
  <2>2. Wait(p, "exec", job[p]) => ~Ends(p)
    BY DEF Wait, IInv, TypeOK, Ends, Replies, Throws
  <2> QED
    BY <2>1, <2>2 DEF Proceed
<1>5. Checked(p) => ~Ends(p)
  <2>1. Begin(p, job[p], "start", "again") => ~Ends(p)
    BY DEF Begin, Wait, IInv, TypeOK, Ends, Replies, Throws
  <2> QED
    BY <1>4, <2>1 DEF Checked
<1>6. Begin(p, job[p], "get", "check") => ~Ends(p)
  BY DEF Begin, Wait, IInv, TypeOK, Ends, Replies, Throws
<1>7. Wait(p, "update", job[p]) => ~Ends(p)
  BY DEF Wait, IInv, TypeOK, Ends, Replies, Throws
<1>8. Wait(p, "fetch", [job[p] EXCEPT !.to = Now(p).endpoint]) => ~Ends(p)
  BY DEF Wait, IInv, TypeOK, Ends, Replies, Throws
<1> QED
  BY <1>1, <1>2, <1>4, <1>5, <1>6, <1>7, <1>8 DEF Return, Continue, Ends

\* The three promises about one request that ends.
Tells(p) ==
  LET st == container[Id(p)] IN
  /\ Replies(p) /\ Id(p) \in calm =>
       /\ job[p].op \in {"get", "start", "stop", "resize"} => record'[Id(p)].state = MapState(st)
       /\ job[p].op \in {"start", "create", "exec", "file"} => st = "running"
       /\ job[p].op = "stop" => st = "exited" \/ st = "created"
  /\ Throws(p) /\ Id(p) \in calm /\ faults = 0
       => ~Exists(Id(p)) \/ (OwnCommand(p) /\ Running(Id(p)))
  /\ Throws(p) /\ job[p].op = "create" /\ backend = "aio" /\ pc[p] # "create" /\ faults <= 1
       => ~Exists(Id(p))

LEMMA OnTells ==
  ASSUME NEW p \in Handlers, ~Ends(p)
  PROVE  Tells(p)
BY DEF Ends, Tells

\* A method that returns leaves in the record what Docker has.
LEMMA ReturnTells ==
  ASSUME IInv, NEW p \in Handlers, pc[p] # "idle", ~Sub(p, "create"), Return(p),
         NEW r, record'[Id(p)] = r,
         job[p].sub \in {"get", "start", "stop"},
         Id(p) \in calm =>
           /\ r.state = MapState(container[Id(p)])
           /\ job[p].sub = "start" => Running(Id(p))
           /\ job[p].sub = "stop" => container[Id(p)] \in {"exited", "created"}
           /\ job[p].then = "send" => r.endpoint # None
  PROVE  Tells(p)
<1>1. Plan(job[p])
  BY MethodFacts
<1>2. job[p].sub # "create" /\ Now(p) = r
  BY DEF Sub, Now
<1>3. Throws(p) => job[p].then = "send" /\ r.endpoint = None
  BY <1>2, ReturnEnds
<1>4. Throws(p) => job[p].op # "create" /\ Id(p) \notin calm
  BY <1>1, <1>2, <1>3 DEF Plan
<1>5. Replies(p) => job[p].then = "reply"
  BY ReturnEnds
<1>6. Replies(p) => \/ job[p].op \in {"get", "start", "stop", "kill"} /\ job[p].sub = job[p].op
                    \/ job[p].op = "resize" /\ job[p].sub = "get"
  BY <1>1, <1>2, <1>5 DEF Plan
<1> QED
  BY <1>4, <1>6 DEF Tells, Running
LEMMA WaitingTells ==
  ASSUME IInv, NEW p \in Handlers,
         \/ Pulled(p) \/ MadeContainer(p) \/ Listed(p) \/ Filled(p)
         \/ InspectedKill(p) \/ Updated(p)
  PROVE  Tells(p)
<1>1. pc'[p] # "idle"
  BY DEF Pulled, MadeContainer, Listed, Filled, InspectedKill, Updated, Begin, Wait, IInv, TypeOK
<1> QED
  BY <1>1, OnTells DEF Ends, Replies, Throws

LEMMA InspectedGetTells ==
  ASSUME IInv, NEW p \in Handlers, InspectedGet(p)
  PROVE  Tells(p)
<1> DEFINE id == Id(p)
           r  == [record[id] EXCEPT !.state = MapState(job[p].ans)]
<1>1. pc[p] = "inspect" /\ ~Sub(p, "create") /\ job[p].sub = "get"
  BY DEF InspectedGet, Got, Sub
<1>2. /\ id \in Ids /\ job[p].ans \in Status /\ record[id] \in Record
      /\ id \in calm => Knows(p)
  BY <1>1, MethodFacts DEF AnswersAt, InspectedGet, Got
<1>3. record'[id] = r /\ r.state = MapState(job[p].ans) /\ r.backend = record[id].backend
  BY <1>2 DEF InspectedGet, SetRecord, IInv, TypeOK, Record
<1>4. CASE Wait(p, "endpoint", job[p])
  BY <1>4, OnTells, WaitsOn DEF Waits
<1>5. CASE ~(r.backend = "aio" /\ job[p].ans = "running") /\ Return(p)
  <2>1. id \in calm => job[p].ans = container[id] /\ job[p].then # "send"
    BY <1>1, <1>2, <1>3, <1>5 DEF Knows, UpAt, Running
  <2>2. id \in calm => r.state = MapState(container[id])
    BY <1>3, <2>1
  <2> HIDE DEF r
  <2> QED
    BY <1>1, <1>3, <1>5, <2>1, <2>2, ReturnTells
<1> QED
  BY <1>3, <1>4, <1>5 DEF InspectedGet, Now

LEMMA StartedTells ==
  ASSUME IInv, NEW p \in Handlers, pc[p] \in {"inspect", "start"}, Sub(p, "start"), Started(p),
         Id(p) \in calm => Running(Id(p))
  PROVE  Tells(p)
<1> DEFINE id == Id(p)
           r  == [record[id] EXCEPT !.state = "started"]
<1>1. ~Sub(p, "create") /\ job[p].sub = "start"
  BY DEF Sub
<1>2. id \in Ids /\ record[id] \in Record /\ Plan(job[p])
  BY <1>1, MethodFacts
<1>3. record'[id] = r /\ r.state = "started"
  BY <1>2 DEF Started, SetRecord, IInv, TypeOK, Record
<1>4. CASE Wait(p, "endpoint", job[p])
  BY <1>4, OnTells, WaitsOn DEF Waits
<1>5. CASE Return(p)
  <2>1. job[p].then # "send"
    BY <1>1, <1>2 DEF Plan
  <2>2. id \in calm => r.state = MapState(container[id])
    BY <1>3 DEF MapState, Running
  <2> HIDE DEF r
  <2> QED
    BY <1>1, <1>3, <1>5, <2>1, <2>2, ReturnTells
<1> QED
  BY <1>4, <1>5 DEF Started

LEMMA InspectedStartTells ==
  ASSUME IInv, NEW p \in Handlers, InspectedStart(p)
  PROVE  Tells(p)
<1>1. pc[p] = "inspect" /\ Sub(p, "start") /\ ~Sub(p, "create")
  BY DEF InspectedStart, Got, Sub
<1>2. job[p].ans \in Status /\ (Id(p) \in calm => container[Id(p)] = job[p].ans)
  BY <1>1, MethodFacts DEF AnswersAt, InspectedStart, Got, Knows
<1>3. CASE job[p].ans = "running" /\ Started(p)
  BY <1>1, <1>2, <1>3, StartedTells DEF Running
<1>4. CASE Wait(p, "start", job[p])
  BY <1>4, OnTells, WaitsOn DEF Waits
<1> QED
  BY <1>3, <1>4 DEF InspectedStart

LEMMA CreatedTells ==
  ASSUME IInv, NEW p \in Handlers, Sub(p, "create"), pc[p] \in {"start", "ready"}, job[p].ans = "ok", Created(p)
  PROVE  Tells(p)
<1>1. ~Throws(p)
  BY Responds DEF Created
<1>2. Id(p) \in calm => Running(Id(p))
  BY DEF IInv, Undisturbed, Knows, UpAt
<1>3. job[p].op = "create"
  BY DEF IInv, Work, Formed, PlanAt, Plan, Sub
<1> QED
  BY <1>1, <1>2, <1>3 DEF Tells, Running

LEMMA StartedContainerTells ==
  ASSUME IInv, NEW p \in Handlers, StartedContainer(p)
  PROVE  Tells(p)
<1>1. pc[p] = "start" /\ job[p].ans = "ok"
  BY DEF StartedContainer, Got, IInv, Work, Formed, AnswersAt
<1>2. Id(p) \in calm => Running(Id(p))
  BY <1>1 DEF IInv, Undisturbed, Knows, UpAt
<1>3. CASE Sub(p, "start") /\ Started(p)
  BY <1>1, <1>2, <1>3, StartedTells
<1>4. CASE Sub(p, "create") /\ Created(p)
  BY <1>1, <1>4, CreatedTells
<1>5. CASE Wait(p, "endpoint", job[p])
  BY <1>5, OnTells, WaitsOn DEF Waits
<1> QED
  BY <1>3, <1>4, <1>5 DEF StartedContainer

LEMMA GotEndpointTells ==
  ASSUME IInv, NEW p \in Handlers, GotEndpoint(p)
  PROVE  Tells(p)
<1> DEFINE id == Id(p)
<1>1. PICK a \in Addrs : a = job[p].ans
  BY DEF GotEndpoint, Got, IInv, Work, Formed, AnswersAt
<1> DEFINE r == [record[id] EXCEPT !.endpoint = a]
<1>2. CASE Sub(p, "get") /\ Return(p)
  <2>1. pc[p] = "endpoint" /\ ~Sub(p, "create") /\ job[p].sub = "get"
    BY <1>2 DEF GotEndpoint, Got, Sub
  <2>2. id \in Ids /\ record[id] \in Record /\ (id \in calm => Knows(p))
    BY <2>1, MethodFacts
  <2>3. record'[id] = r /\ r.endpoint = a /\ r.state = record[id].state
    BY <1>1, <2>1, <2>2 DEF GotEndpoint, SetRecord, Sub, Endpoint, IInv, TypeOK, Record
  <2>4. id \in calm => r.state = MapState(container[id])
    BY <2>1, <2>2, <2>3 DEF Knows, UpAt, Running, MapState
  <2>5. r.endpoint # None
    BY <2>3, NamesAssumption
  <2> HIDE DEF r
  <2> QED
    BY <1>2, <2>1, <2>3, <2>4, <2>5, ReturnTells
<1>3. CASE Wait(p, "ready", [job[p] EXCEPT !.to = job[p].ans])
  BY <1>3, OnTells, WaitsOn DEF Waits
<1> QED
  BY <1>2, <1>3 DEF GotEndpoint

LEMMA ReadyTells ==
  ASSUME IInv, NEW p \in Handlers, Ready(p)
  PROVE  Tells(p)
<1> DEFINE id == Id(p)
<1>1. pc[p] = "ready" /\ job[p].ans = "ok"
  BY DEF Ready, Got, IInv, Work, Formed, AnswersAt
<1>2. CASE Sub(p, "create") /\ Created(p)
  BY <1>1, <1>2, CreatedTells
<1>3. CASE Sub(p, "start") /\ UNCHANGED record /\ Return(p)
  <2>1. ~Sub(p, "create") /\ job[p].sub = "start"
    BY <1>3 DEF Sub
  <2>2. Plan(job[p]) /\ (id \in calm => Knows(p))
    BY <1>1, <2>1, MethodFacts
  <2>3. PICK r : r = record[id]
    OBVIOUS
  <2>4. record'[id] = r
    BY <1>3, <2>3 DEF Id
  <2>5. id \in calm => Running(id) /\ r.state = MapState(container[id])
    BY <1>1, <2>1, <2>2, <2>3 DEF Knows, UpAt, Running, MapState
  <2>6. job[p].then # "send"
    BY <2>1, <2>2 DEF Plan
  <2> QED
    BY <1>1, <1>3, <2>1, <2>4, <2>5, <2>6, ReturnTells
<1> QED
  BY <1>2, <1>3 DEF Ready

LEMMA StoppedTells ==
  ASSUME IInv, NEW p \in Handlers, pc[p] \in {"inspect", "stop"}, Sub(p, "stop"), Stopped(p),
         Id(p) \in calm => container[Id(p)] \in {"exited", "created"}
  PROVE  Tells(p)
<1> DEFINE id == Id(p)
           r  == [record[id] EXCEPT !.state = "stopped"]
<1>1. ~Sub(p, "create") /\ job[p].sub = "stop"
  BY DEF Sub
<1>2. id \in Ids /\ record[id] \in Record /\ Plan(job[p])
  BY <1>1, MethodFacts
<1>3. record'[id] = r /\ r.state = "stopped" /\ Return(p)
  BY <1>2 DEF Stopped, SetRecord, IInv, TypeOK, Record
<1>4. job[p].then # "send"
  BY <1>1, <1>2 DEF Plan
<1>5. id \in calm => r.state = MapState(container[id])
  BY <1>3 DEF MapState
<1> HIDE DEF r
<1> QED
  BY <1>1, <1>3, <1>4, <1>5, ReturnTells

LEMMA StoppingTells ==
  ASSUME IInv, NEW p \in Handlers, InspectedStop(p) \/ StoppedContainer(p)
  PROVE  Tells(p)
<1>1. CASE Stopped(p) /\ Sub(p, "stop") /\ pc[p] = "inspect" /\ Got(p, "inspect") /\ job[p].ans # "running"
  <2>1. ~Sub(p, "create")
    BY <1>1 DEF Sub
  <2>2. job[p].ans \in {"created", "exited"} /\ (Id(p) \in calm => container[Id(p)] = job[p].ans)
    BY <1>1, <2>1, MethodFacts DEF AnswersAt, Got, Knows, Status
  <2> QED
    BY <1>1, <2>2, StoppedTells
<1>2. CASE Stopped(p) /\ Sub(p, "stop") /\ Got(p, "stop")
  <2>1. pc[p] = "stop" /\ job[p].ans = "ok"
    BY <1>2 DEF Got, IInv, Work, Formed, AnswersAt
  <2>2. Id(p) \in calm => container[Id(p)] = "exited"
    BY <2>1 DEF IInv, Undisturbed, Knows
  <2> QED
    BY <1>2, <2>1, <2>2, StoppedTells
<1>3. CASE Wait(p, "stop", job[p]) \/ Wait(p, "remove", job[p])
  BY <1>3, OnTells, WaitsOn DEF Waits
<1> QED
  BY <1>1, <1>2, <1>3 DEF InspectedStop, StoppedContainer, Got

LEMMA EndingTells ==
  ASSUME IInv, NEW p \in Handlers, Killed(p) \/ Ran(p)
  PROVE  Tells(p)
<1>1. pc[p] # "idle" /\ PlanAt(pc[p], job[p]) /\ (Id(p) \in calm => Knows(p))
  BY DEF Killed, Ran, Got, Swallowed, IInv, Work, Undisturbed, Formed
<1>2. CASE Killed(p)
  <2>1. job[p].op = "kill"
    BY <1>1, <1>2 DEF Killed, Sub, PlanAt, Plan
  <2>2. ~Throws(p)
    BY <1>2, Responds DEF Killed
  <2> QED
    BY <1>1, <2>1, <2>2 DEF Tells
<1>3. CASE Ran(p)
  <2>1. pc[p] \in {"exec", "fetch"} /\ (Got(p, "exec") \/ Got(p, "fetch"))
    BY <1>3 DEF Ran, Got
  <2>2. job[p].op \in {"exec", "file"}
    BY <1>1, <2>1 DEF PlanAt, Plan, SubsAt
  <2>3. Id(p) \in calm => Running(Id(p))
    BY <1>1, <2>1 DEF Knows, UpAt
  <2>4. Throws(p) => OwnCommand(p)
    BY <1>3, <2>1, Responds DEF Ran, OwnCommand
  <2>5. Throws(p) => job[p].op # "create"
    BY <2>2
  <2> QED
    BY <1>1, <2>2, <2>3, <2>4, <2>5 DEF Tells, Running
<1> QED
  BY <1>2, <1>3

LEMMA CatchTells ==
  ASSUME IInv, NEW p \in Handlers, Catch(p) \/ CatchRemove(p)
  PROVE  Tells(p)
<1>1. pc[p] # "idle" /\ Formed(p) /\ faults \in Nat /\ (Id(p) \in calm => Knows(p))
  BY DEF Catch, CatchRemove, IInv, TypeOK, Work, Undisturbed
<1>2. CASE Sub(p, "create") /\ pc[p] \in {"start", "endpoint", "ready"} /\ backend = "aio"
  <2>1. Wait(p, "remove", job[p])
    BY <1>2 DEF Catch, CatchRemove, Cleans
  <2> QED
    BY <2>1, OnTells, WaitsOn DEF Waits
<1>3. CASE ~(Sub(p, "create") /\ pc[p] \in {"start", "endpoint", "ready"} /\ backend = "aio")
  <2>1. Throw(p) /\ ~Replies(p)
    BY <1>3, Responds DEF Catch, CatchRemove, Cleans
  <2>2. ASSUME Sub(p, "create"), backend = "aio", pc[p] # "create", faults <= 1
        PROVE  ~Exists(Id(p))
    <3>1. Creating(p) /\ pc[p] \in {"image", "remove"}
      BY <1>1, <1>3, <2>2, CreateFacts
    <3>2. pc[p] = "remove" => job[p].ans # None
      BY DEF Catch, CatchRemove
    <3> QED
      BY <1>1, <2>2, <3>1, <3>2 DEF Creating, Exists, Status
  <2>3. ASSUME Id(p) \in calm, faults = 0
        PROVE  ~Exists(Id(p))
    <3>1. Knows(p) /\ job[p].ans # "error"
      BY <1>1, <2>3 DEF Knows
    <3>2. CASE Sub(p, "create")
      <4>1. Creating(p) /\ pc[p] \in {"image", "create", "start", "endpoint", "ready"}
        BY <1>1, <2>3, <3>2, CreateFacts DEF Creating
      <4>2. job[p].ans = "gone" /\ job[p].ans \in AnswersAt(pc[p]) \cup {None}
        BY <1>1, <3>1, <4>1 DEF Catch, CatchRemove, Formed
      <4>3. pc[p] = "start"
        BY <4>1, <4>2, NamesAssumption DEF AnswersAt, Words
      <4> QED
        BY <1>1, <2>3, <3>1, <4>2, <4>3 DEF Knows
    <3>3. CASE ~Sub(p, "create")
      <4>1. job[p].ans = "gone" /\ Resolved(p)
        BY <1>1, <3>1, <3>3 DEF Catch, CatchRemove, IInv, Work
      <4>2. container[Id(p)] = "removed"
        BY <3>3, <4>1 DEF Resolved
      <4> QED
        BY <4>2 DEF Exists, Status
    <3> QED
      BY <3>2, <3>3
  <2>4. job[p].op = "create" => Sub(p, "create")
    BY <1>1 DEF Formed, PlanAt, Plan, Sub
  <2> QED
    BY <2>1, <2>2, <2>3, <2>4 DEF Tells
<1> QED
  BY <1>2, <1>3

LEMMA HandleTells ==
  ASSUME IInv, NEW p \in Handlers, Handle(p)
  PROVE  Tells(p)
BY WaitingTells, InspectedGetTells, InspectedStartTells, StartedContainerTells, GotEndpointTells,
   ReadyTells, StoppingTells, EndingTells, CatchTells DEF Handle

\* A handler's local variables are its own.
LEMMA WaitsOwn ==
  ASSUME IInv, NEW p \in Handlers, NEW q \in Handlers, p # q, NEW w, NEW j
  PROVE  /\ Wait(q, w, j) => pc'[p] = pc[p] /\ job'[p] = job[p]
         /\ Respond(q, w) => pc'[p] = pc[p] /\ job'[p] = job[p]
         /\ Answer(q, w) => job'[p] = job[p]
BY DEF Wait, Respond, Answer, IInv, TypeOK

Leaves(p) == pc'[p] = pc[p] /\ job'[p] = job[p]

LEMMA ReturnLeaves ==
  ASSUME IInv, NEW p \in Handlers, NEW q \in Handlers, p # q, Return(q)
  PROVE  Leaves(p)
<1>1. ASSUME NEW w, NEW j, Wait(q, w, j) PROVE Leaves(p)
  BY <1>1, WaitsOwn DEF Leaves
<1>2. ASSUME NEW j, NEW sub, NEW then, Begin(q, j, sub, then) PROVE Leaves(p)
  BY <1>2, <1>1 DEF Begin
<1>3. Reply(q) \/ Throw(q) => Leaves(p)
  BY WaitsOwn DEF Reply, Throw, Leaves
<1>4. Proceed(q) => Leaves(p)
  BY <1>1, <1>2 DEF Proceed
<1>5. Checked(q) => Leaves(p)
  BY <1>2, <1>4 DEF Checked
<1> QED
  BY <1>1, <1>2, <1>3, <1>4, <1>5 DEF Return, Continue

LEMMA HandleLeaves ==
  ASSUME IInv, NEW p \in Handlers, NEW q \in Handlers, p # q, Handle(q)
  PROVE  Leaves(p)
<1>1. ASSUME NEW w, NEW j, Wait(q, w, j) PROVE Leaves(p)
  BY <1>1, WaitsOwn DEF Leaves
<1>2. ASSUME NEW j, NEW sub, NEW then, Begin(q, j, sub, then) PROVE Leaves(p)
  BY <1>2, <1>1 DEF Begin
<1>3. Reply(q) \/ Throw(q) => Leaves(p)
  BY WaitsOwn DEF Reply, Throw, Leaves
<1>4. Return(q) => Leaves(p)
  BY ReturnLeaves
<1>5. Started(q) \/ Stopped(q) \/ Created(q) => Leaves(p)
  BY <1>1, <1>3, <1>4 DEF Started, Stopped, Created
<1>6. Pulled(q) \/ MadeContainer(q) \/ Listed(q) \/ Filled(q) \/ InspectedGet(q) \/ InspectedStart(q) => Leaves(p)
  BY <1>1, <1>4, <1>5 DEF Pulled, MadeContainer, Listed, Filled, InspectedGet, InspectedStart
<1>7. InspectedStop(q) \/ InspectedKill(q) \/ StartedContainer(q) \/ GotEndpoint(q) \/ Ready(q) => Leaves(p)
  BY <1>1, <1>4, <1>5 DEF InspectedStop, InspectedKill, StartedContainer, GotEndpoint, Ready
<1>8. StoppedContainer(q) \/ Killed(q) \/ Updated(q) \/ Ran(q) \/ Catch(q) \/ CatchRemove(q) => Leaves(p)
  BY <1>1, <1>2, <1>3, <1>5 DEF StoppedContainer, Killed, Updated, Ran, Catch, CatchRemove
<1> QED
  BY <1>6, <1>7, <1>8 DEF Handle

LEMMA DaemonAnswers ==
  ASSUME IInv, NEW q \in Handlers, Daemon(q) \/ DFails(q)
  PROVE  pc' = pc /\ pc[q] # "idle" /\ \A p \in Handlers : p # q => job'[p] = job[p]
<1>1. ASSUME NEW p \in Handlers, p # q, NEW a, Answer(q, a) PROVE job'[p] = job[p]
  BY <1>1, WaitsOwn
<1>2. pc' = pc /\ pc[q] # "idle"
  BY DEF Daemon, DImage, DCreate, DStart, DStop, DRemove, DInspect, DEndpoint, DUpdate, DExec, DAio, DFails,
     Asked, Refuse, Look, Change
<1>3. ASSUME NEW p \in Handlers, p # q PROVE job'[p] = job[p]
  BY <1>1, <1>3 DEF Daemon, DImage, DCreate, DStart, DStop, DRemove, DInspect, DEndpoint, DUpdate, DExec, DAio,
     DFails, Refuse, Look, Change
<1> QED
  BY <1>2, <1>3

LEMMA CallsLeave ==
  ASSUME IInv, NEW p \in Handlers, NEW q \in Handlers, NEW id \in Ids,
         CallCreate(q, id) \/ \E op \in Ops : Call(q, op, id)
  PROVE  /\ pc[q] = "idle"
         /\ p # q => Leaves(p)
<1>1. ASSUME NEW w, NEW j, Wait(q, w, j), p # q PROVE Leaves(p)
  BY <1>1, WaitsOwn DEF Leaves
<1>2. ASSUME NEW j, NEW sub, NEW then, Begin(q, j, sub, then), p # q PROVE Leaves(p)
  BY <1>2, <1>1 DEF Begin
<1> QED
  BY <1>1, <1>2 DEF CallCreate, Call

\* Only its own handler answers a request.
LEMMA NextTells ==
  ASSUME IInv, [Next]_vars, NEW p \in Handlers
  PROVE  Tells(p)
<1>1. CASE \E q \in Handlers, id \in Ids : CallCreate(q, id) \/ \E op \in Ops : Call(q, op, id)
  <2>1. pc[p] = "idle" \/ Leaves(p)
    BY <1>1, CallsLeave
  <2> QED
    BY <2>1, OnTells DEF Ends, Replies, Throws, Leaves
<1>2. CASE \E q \in Handlers : Daemon(q) \/ DFails(q)
  BY <1>2, DaemonAnswers, OnTells DEF Ends, Replies, Throws
<1>3. CASE \E q \in Handlers : Handle(q)
  <2>1. Handle(p) \/ Leaves(p)
    BY <1>3, HandleLeaves
  <2> QED
    BY <2>1, HandleTells, OnTells DEF Ends, Replies, Throws, Leaves
<1>4. CASE Restart
  <2>1. job'[p].ans = None
    BY <1>4 DEF Restart, NoJob
  <2> QED
    BY <2>1, NamesAssumption, OnTells DEF Ends, Replies, Throws, Words
<1>5. CASE UNCHANGED vars \/ (\E id \in Ids : Exit(id)) \/ (\E c \in late : Finish(c))
  <2>1. pc' = pc
    BY <1>5 DEF vars, Exit, Finish
  <2> QED
    BY <2>1, OnTells DEF Ends, Replies, Throws
<1> QED
  BY <1>1, <1>2, <1>3, <1>4, <1>5 DEF Next, AwaitCalls

\* The address a calm handler sends to is that of its own sandbox alone.
LEMMA NextRunsInOwn ==
  ASSUME IInv, [Next]_vars, NEW p \in Handlers,
         Asked(p, "fetch"), job'[p].ans = "ok", Id(p) \in calm
  PROVE  Listener(job[p].to) = {Id(p)}
<1>1. pc[p] = "fetch" /\ pc[p] # "idle" /\ job[p].ans # job'[p].ans
  BY NamesAssumption DEF Asked, Words
<1>2. job'[p] # job[p]
  BY <1>1
<1>3. Running(Id(p)) /\ job[p].to = addr[Id(p)] /\ Id(p) \in Ids /\ Sound(Id(p)) /\ Apart
  BY <1>1, CalmFacts DEF IInv, Work, Formed, Sandboxes
<1>4. DAio(p)
  <2>1. ~ \E q \in Handlers, id \in Ids : CallCreate(q, id) \/ \E op \in Ops : Call(q, op, id)
    BY <1>1, <1>2, CallsLeave DEF Leaves
  <2>2. ~ \E q \in Handlers : Handle(q)
    <3>1. ~Handle(p)
      BY NamesAssumption DEF Asked, Handle, Pulled, MadeContainer, Listed, Filled, InspectedGet, InspectedStart,
         InspectedStop, InspectedKill, StartedContainer, GotEndpoint, Ready, StoppedContainer, Killed, Updated,
         Ran, Catch, CatchRemove, Got, Swallowed, Words
    <3> QED
      BY <1>2, <3>1, HandleLeaves DEF Leaves
  <2>3. ~Restart /\ ~UNCHANGED vars /\ (~ \E id \in Ids : Exit(id)) /\ ~ \E c \in late : Finish(c)
    BY <1>1, <1>2, NamesAssumption DEF Restart, vars, Exit, Finish, NoJob, Words
  <2>4. Daemon(p) \/ DFails(p)
    BY <1>2, <2>1, <2>2, <2>3, DaemonAnswers DEF Next, AwaitCalls
  <2>5. ~DFails(p)
    <3>1. job[p] \in Job
      BY DEF IInv, TypeOK
    <3>2. \A a \in {"error", "error404"} : Answer(p, a) => job'[p].ans = a
      BY <3>1 DEF Answer, IInv, TypeOK, Job
    <3> QED
      BY <3>2 DEF DFails
  <2> QED
    BY <1>1, <2>4, <2>5 DEF Daemon, DImage, DCreate, DStart, DStop, DRemove, DInspect, DEndpoint, DUpdate,
       DExec, Asked
<1>5. Listener(job[p].to) # {}
  BY <1>4 DEF DAio, Look, Answer, IInv, TypeOK
<1> QED
  BY <1>3, <1>5 DEF Listener, Apart, Sound

\* A command reaches the sandbox it names and no other (exec, readFile and
\* writeFile of docker-manager.ts), for any number of sandboxes that stop,
\* start and take over each other's addresses.
THEOREM CommandsRunInTheirOwn == Spec => RunsInOwn
<1>1. IInv /\ [Next]_vars => [\A p \in Handlers : Asked(p, "fetch") /\ job'[p].ans = "ok" /\ Id(p) \in calm
                               => Listener(job[p].to) = {Id(p)}]_vars
  BY NextRunsInOwn
<1> QED
  BY <1>1, Invariance, PTL DEF Spec, RunsInOwn

\* What get, start, stop, create, exec and the file calls tell their caller
\* about the sandbox is so, and stands in the shared record.
THEOREM AnswersAreTrue == Spec => AnswersTrue
<1>1. IInv /\ [Next]_vars =>
        [\A p \in Handlers : Replies(p) /\ Id(p) \in calm =>
           LET st == container[Id(p)] IN
           /\ job[p].op \in {"get", "start", "stop", "resize"} => record'[Id(p)].state = MapState(st)
           /\ job[p].op \in {"start", "create", "exec", "file"} => st = "running"
           /\ job[p].op = "stop" => st = "exited" \/ st = "created"]_vars
  BY NextTells DEF Tells
<1> QED
  BY <1>1, Invariance, PTL DEF Spec, AnswersTrue

\* Without faults no caller sees Docker's 304 or another error of a container
\* that is there, except the error of a file call's own command, which ran.
THEOREM ErrorsAreReal == Spec => NoSpuriousError
<1>1. IInv /\ [Next]_vars =>
        [\A p \in Handlers : Throws(p) /\ Id(p) \in calm /\ faults = 0
           => ~Exists(Id(p)) \/ (OwnCommand(p) /\ Running(Id(p)))]_vars
  BY NextTells DEF Tells
<1> QED
  BY <1>1, Invariance, PTL DEF Spec, NoSpuriousError

\* createAio leaves no container behind when one of its later calls fails.
THEOREM FailedCreatesClean == Spec => FailedCreateCleans
<1>1. IInv /\ [Next]_vars =>
        [\A p \in Handlers :
           /\ Throws(p) /\ job[p].op = "create" /\ backend = "aio" /\ pc[p] # "create"
           /\ faults <= 1
           => ~Exists(Id(p))]_vars
  BY NextTells DEF Tells
<1> QED
  BY <1>1, Invariance, PTL DEF Spec, FailedCreateCleans
=============================================================================
