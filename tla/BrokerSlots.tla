---------------------------- MODULE BrokerSlots ----------------------------
(***************************************************************************)
(* Proof that slots cover leases: with sessions that have sandboxes of     *)
(* their own, send one request at a time and are not swept, every lease    *)
(* has a slot of its own, and Redis holds a pool of at most                *)
(* MaxConcurrency leases, for any number of sessions, handlers, failed     *)
(* calls and restarts.  And that those who find no slot wait for one: a    *)
(* broker which deletes no sandbox loses no ticket, as long as no call     *)
(* fails: every ticket that waits is in the list, in the part of the topic *)
(* not yet consumed, or with a handler.                                    *)
(***************************************************************************)
EXTENDS BrokerProofs, FiniteSetTheorems

-----------------------------------------------------------------------------
(* A step that goes on with a request, or ends it *)

HoldLabels == SlotLabels \cup ReleaseLabels

\* Handler p, of no new client, goes to a label where it has what that needs.
Goes(p) ==
  /\ \A q \in Proc \ {p} : pc'[q] = pc[q] /\ job'[q] = job[q]
  /\ job'[p].client \in {job[p].client, None} /\ job'[p].todo = {}
  /\ pc'[p] \notin {"acq_attach", "sw_mget", "sw_next"} \cup LeaseLabels
  /\ pc'[p] = "idle" => job'[p].client = None
  /\ pc'[p] \in SlotLabels => job'[p].slot

Onward(l) == l \notin {"acq_attach", "sw_mget", "sw_next", "idle"} \cup LeaseLabels

LEMMA GotoGoes ==
  ASSUME IInv, SInv, NEW p \in Proc, NEW l, Goto(p, l), UNCHANGED job, Onward(l),
         l \in SlotLabels => job[p].slot
  PROVE  Goes(p) /\ pc'[p] = l
BY DEF IInv, TypeOK, SInv, SlotWorkOK, Goes, Goto, Onward

LEMMA SetGoes ==
  ASSUME IInv, SInv, NEW p \in Proc, NEW l, NEW j, Goto(p, l), Set(p, j), Onward(l),
         j.client = job[p].client, j.todo = {}, l \in SlotLabels => j.slot
  PROVE  Goes(p) /\ pc'[p] = l
BY DEF IInv, TypeOK, Goes, Goto, Set, Onward

LEMMA ReplyGoes ==
  ASSUME IInv, SInv, NEW p \in Proc, Reply(p)
  PROVE  Goes(p) /\ pc'[p] = "idle"
BY DEF IInv, TypeOK, Goes, Reply, Goto, Set, NoJob, SlotLabels, CreateLabels, LeaseLabels

LEMMA ReleasedGoes ==
  ASSUME IInv, SInv, NEW p \in Proc, Released(p)
  PROVE  Goes(p) /\ pc'[p] = "idle"
BY ReplyGoes DEF Released, SInv, SlotWorkOK

LEMMA LeaseFailedGoes ==
  ASSUME IInv, SInv, NEW p \in Proc, pc[p] \in SlotLabels, LeaseFailed(p)
  PROVE  Goes(p) /\ pc'[p] \in HoldLabels
<1>1. job[p].slot
  BY DEF SInv, SlotWorkOK
<1> QED
  BY <1>1, GotoGoes DEF LeaseFailed, Onward, LeaseLabels, HoldLabels, SlotLabels

LEMMA JobFields ==
  ASSUME IInv, SInv, NEW p \in Proc
  PROVE  /\ job[p] \in Job /\ job[p].todo = {}
         /\ pc[p] \in SlotLabels => job[p].slot
BY DEF IInv, TypeOK, SInv, SlotWorkOK

LEMMA GoesSerial ==
  ASSUME IInv, SInv, NEW p \in Proc, Goes(p),
         \A s \in Sessions : leases[s] # None =>
           leases'[s] # None \/ (pc[p] = "rel_delete" /\ s = job[p].s)
  PROVE  SerialOK' /\ SlotWorkOK'
<1>1. SerialOK'
  BY DEF Goes, SInv, SerialOK, Proc
<1>2. ASSUME NEW q \in Proc, q # p, pc[q] \in LeaseLabels
      PROVE  leases'[job[q].s] # None
  <2>1. job[q].s \in Sessions /\ job[q].s # None
    BY <1>2, NamesAssumption DEF IInv, HandlersOK, JobInv, LeaseLabels, SessionLabels, Labels, Keys
  <2>2. pc[p] = "rel_delete" => job[q].s # job[p].s
    BY <1>2, <2>1 DEF SInv, SerialOK, SlotWorkOK, LeaseLabels
  <2> QED
    BY <1>2, <2>1, <2>2 DEF SInv, SlotWorkOK
<1>3. SlotWorkOK'
  BY <1>2 DEF Goes, SInv, SlotWorkOK
<1> QED
  BY <1>1, <1>3

-----------------------------------------------------------------------------
(* What a step does to the leases, their holders and the counter *)

LEMMA HoldersAre ==
  ASSUME SlotWorkOK
  PROVE  Holders = {p \in Proc : pc[p] \in HoldLabels}
BY DEF SlotWorkOK, Holders, HoldLabels, SlotLabels

LEMMA HoldersMove ==
  ASSUME SInv, SlotWorkOK', NEW p \in Proc, Goes(p)
  PROVE  Holders' = IF pc'[p] \in HoldLabels THEN Holders \cup {p} ELSE Holders \ {p}
<1>1. Holders = {q \in Proc : pc[q] \in HoldLabels}
  BY HoldersAre DEF SInv
<1>2. Holders' = {q \in Proc : pc'[q] \in HoldLabels}
  BY DEF SlotWorkOK, Holders, HoldLabels, SlotLabels
<1> QED
  BY <1>1, <1>2 DEF Goes

LEMMA HoldersCount ==
  ASSUME SInv, SlotWorkOK', NEW p \in Proc, Goes(p)
  PROVE  /\ IsFiniteSet(Holders) /\ IsFiniteSet(Holders') /\ IsFiniteSet(Leased)
         /\ Cardinality(Holders) \in Nat /\ Cardinality(Leased) \in Nat
         /\ Cardinality(Holders') =
              Cardinality(Holders) + (IF pc'[p] \in HoldLabels THEN 1 ELSE 0)
                                   - (IF pc[p] \in HoldLabels THEN 1 ELSE 0)
         /\ pc[p] \in HoldLabels => Cardinality(Holders) > 0
<1>1. IsFiniteSet(Holders) /\ IsFiniteSet(Leased)
  BY DEF SInv
<1>2. Cardinality(Holders) \in Nat /\ Cardinality(Leased) \in Nat
  BY <1>1, FS_CardinalityType
<1>3. p \in Holders <=> pc[p] \in HoldLabels
  BY HoldersAre DEF SInv
<1>4. pc[p] \in HoldLabels => Cardinality(Holders) > 0
  <2>1. Cardinality(Holders) = 0 => Holders = {}
    BY <1>1, FS_EmptySet
  <2> QED
    BY <1>2, <1>3, <2>1
<1>5. /\ IsFiniteSet(Holders \cup {p}) /\ IsFiniteSet(Holders \ {p})
      /\ Cardinality(Holders \cup {p}) = IF p \in Holders THEN Cardinality(Holders) ELSE Cardinality(Holders) + 1
      /\ Cardinality(Holders \ {p}) = IF p \in Holders THEN Cardinality(Holders) - 1 ELSE Cardinality(Holders)
  BY <1>1, FS_AddElement, FS_RemoveElement
<1>6. CASE pc'[p] \in HoldLabels
  <2>1. Holders' = Holders \cup {p}
    BY <1>6, HoldersMove
  <2> QED
    BY <1>1, <1>2, <1>3, <1>4, <1>5, <1>6, <2>1
<1>7. CASE pc'[p] \notin HoldLabels
  <2>1. Holders' = Holders \ {p}
    BY <1>7, HoldersMove
  <2> QED
    BY <1>1, <1>2, <1>3, <1>4, <1>5, <1>7, <2>1
<1> QED
  BY <1>6, <1>7

\* The leases stay: nobody becomes a holder without a slot, and a slot that is
\* given back was the holder's own.
LEMMA CountKeeps ==
  ASSUME IInv, SInv, NEW p \in Proc, Goes(p),
         \A s \in Sessions : leases'[s] = None <=> leases[s] = None,
         \/ activeCount' = activeCount /\ (pc'[p] \in HoldLabels => pc[p] \in HoldLabels)
         \/ activeCount' = activeCount + 1
         \/ GiveSlot /\ pc[p] \in HoldLabels /\ pc'[p] \notin HoldLabels
  PROVE  SInv' /\ Leased' = Leased
<1>1. SerialOK' /\ SlotWorkOK'
  BY GoesSerial
<1>2. Leased' = Leased
  BY DEF Leased
<1>3. activeCount \in Nat
  BY ConfigAssumption DEF IInv, SlotBound
<1>4. SlotsCover'
  BY <1>1, <1>2, <1>3, HoldersCount DEF SlotsCover, SInv, GiveSlot
<1>5. IsFiniteSet(Leased') /\ IsFiniteSet(Holders')
  BY <1>1, <1>2, HoldersCount
<1> QED
  BY <1>1, <1>2, <1>4, <1>5 DEF SInv

LEMMA PlainKeeps ==
  ASSUME IInv, SInv, NEW p \in Proc, Goes(p), UNCHANGED <<leases, activeCount>>,
         pc'[p] \in HoldLabels => pc[p] \in HoldLabels
  PROVE  SInv' /\ Leased' = Leased
BY CountKeeps

-----------------------------------------------------------------------------
(* Steps that leave leases and slots alone *)

LEMMA EnqSetCovers ==
  ASSUME IInv, SInv, NEW p \in Proc, EnqSet(p)
  PROVE  SInv' /\ Leased' = Leased
<1>1. Goes(p) /\ (pc'[p] \in HoldLabels => pc[p] \in HoldLabels)
  BY JobFields, SetGoes DEF EnqSet, At, AnyOf, Job, SlotLabels, HoldLabels, CreateLabels, ReleaseLabels, LeaseLabels, Onward
<1> QED
  BY <1>1, PlainKeeps DEF EnqSet, store

LEMMA EnqPushCovers ==
  ASSUME IInv, SInv, NEW p \in Proc, EnqPush(p)
  PROVE  SInv' /\ Leased' = Leased
<1>1. Goes(p) /\ (pc'[p] \in HoldLabels => pc[p] \in HoldLabels)
  BY JobFields, GotoGoes DEF EnqPush, At, SlotLabels, HoldLabels, CreateLabels, ReleaseLabels, LeaseLabels, Onward
<1> QED
  BY <1>1, PlainKeeps DEF EnqPush, store

LEMMA EnqPublishCovers ==
  ASSUME IInv, SInv, NEW p \in Proc, EnqPublish(p)
  PROVE  SInv' /\ Leased' = Leased
<1>1. Goes(p) /\ (pc'[p] \in HoldLabels => pc[p] \in HoldLabels)
  BY JobFields, ReplyGoes DEF EnqPublish, SlotLabels, HoldLabels, CreateLabels, ReleaseLabels, LeaseLabels, Onward
<1> QED
  BY <1>1, PlainKeeps DEF EnqPublish, store

LEMMA ClLookupCovers ==
  ASSUME IInv, SInv, NEW p \in Proc, ClLookup(p)
  PROVE  SInv' /\ Leased' = Leased
<1>1. Goes(p) /\ (pc'[p] \in HoldLabels => pc[p] \in HoldLabels)
  BY JobFields, SetGoes DEF ClLookup, At, Job, SlotLabels, HoldLabels, CreateLabels, ReleaseLabels, LeaseLabels, Onward
<1> QED
  BY <1>1, PlainKeeps DEF ClLookup, store

LEMMA ClStartCovers ==
  ASSUME IInv, SInv, NEW p \in Proc, ClStart(p)
  PROVE  SInv' /\ Leased' = Leased
<1>1. Goes(p) /\ (pc'[p] \in HoldLabels => pc[p] \in HoldLabels)
  BY JobFields, SetGoes, GotoGoes DEF ClStart, At, Job, SlotLabels, HoldLabels, CreateLabels, ReleaseLabels, LeaseLabels, Onward
<1> QED
  BY <1>1, PlainKeeps DEF ClStart, store

LEMMA ClForgetCovers ==
  ASSUME IInv, SInv, NEW p \in Proc, ClForget(p)
  PROVE  SInv' /\ Leased' = Leased
<1>1. Goes(p) /\ (pc'[p] \in HoldLabels => pc[p] \in HoldLabels)
  BY JobFields, GotoGoes DEF ClForget, At, SlotLabels, HoldLabels, CreateLabels, ReleaseLabels, LeaseLabels, Onward
<1> QED
  BY <1>1, PlainKeeps DEF ClForget, store

LEMMA ClForgetOwnerCovers ==
  ASSUME IInv, SInv, NEW p \in Proc, ClForgetOwner(p)
  PROVE  SInv' /\ Leased' = Leased
<1>1. Goes(p) /\ (pc'[p] \in HoldLabels => pc[p] \in HoldLabels)
  BY JobFields, GotoGoes DEF ClForgetOwner, At, SlotLabels, HoldLabels, CreateLabels, ReleaseLabels, LeaseLabels, Onward
<1> QED
  BY <1>1, PlainKeeps DEF ClForgetOwner, store

LEMMA ClCreateCovers ==
  ASSUME IInv, SInv, NEW p \in Proc, ClCreate(p)
  PROVE  SInv' /\ Leased' = Leased
<1>1. pc[p] = "cl_create" /\ pc[p] \in SlotLabels /\ pc[p] \in HoldLabels /\ "cl_bind" \in SlotLabels /\ Onward("cl_bind")
  BY DEF ClCreate, SlotLabels, HoldLabels, CreateLabels, LeaseLabels, Onward
<1>2. LeaseFailed(p) => Goes(p)
  BY <1>1, LeaseFailedGoes
<1>3. ASSUME NEW id, Goto(p, "cl_bind"), Set(p, [job[p] EXCEPT !.sb = id])
      PROVE  Goes(p)
  BY <1>1, <1>3, JobFields, SetGoes DEF Job
<1>4. Goes(p)
  BY <1>2, <1>3 DEF ClCreate
<1> QED
  BY <1>1, <1>4, PlainKeeps DEF ClCreate, store

LEMMA ClBindCovers ==
  ASSUME IInv, SInv, NEW p \in Proc, ClBind(p)
  PROVE  SInv' /\ Leased' = Leased
<1>1. Goes(p) /\ (pc'[p] \in HoldLabels => pc[p] \in HoldLabels)
  BY JobFields, GotoGoes DEF ClBind, At, SlotLabels, HoldLabels, CreateLabels, ReleaseLabels, LeaseLabels, Onward
<1> QED
  BY <1>1, PlainKeeps DEF ClBind, store

LEMMA ClWorkDirCovers ==
  ASSUME IInv, SInv, NEW p \in Proc, ClWorkDir(p)
  PROVE  SInv' /\ Leased' = Leased
<1>1. Goes(p) /\ (pc'[p] \in HoldLabels => pc[p] \in HoldLabels)
  BY JobFields, GotoGoes, LeaseFailedGoes DEF ClWorkDir, MakeDir, SlotLabels, HoldLabels, CreateLabels, ReleaseLabels, LeaseLabels, Onward
<1> QED
  BY <1>1, PlainKeeps DEF ClWorkDir, MakeDir, store

LEMMA ClUserDirCovers ==
  ASSUME IInv, SInv, NEW p \in Proc, ClUserDir(p)
  PROVE  SInv' /\ Leased' = Leased
<1>1. Goes(p) /\ (pc'[p] \in HoldLabels => pc[p] \in HoldLabels)
  BY JobFields, GotoGoes, LeaseFailedGoes DEF ClUserDir, MakeDir, SlotLabels, HoldLabels, CreateLabels, ReleaseLabels, LeaseLabels, Onward
<1> QED
  BY <1>1, PlainKeeps DEF ClUserDir, MakeDir, store

LEMMA RelKeysCovers ==
  ASSUME IInv, SInv, NEW p \in Proc, RelKeys(p)
  PROVE  SInv' /\ Leased' = Leased
<1>1. Goes(p) /\ (pc'[p] \in HoldLabels => pc[p] \in HoldLabels)
  BY JobFields, SetGoes DEF RelKeys, At, Job, Disposal, SlotLabels, HoldLabels, CreateLabels, ReleaseLabels, LeaseLabels, Onward
<1> QED
  BY <1>1, PlainKeeps DEF RelKeys, store

LEMMA RelMgetCovers ==
  ASSUME IInv, SInv, NEW p \in Proc, RelMget(p)
  PROVE  SInv' /\ Leased' = Leased
<1>1. Goes(p) /\ (pc'[p] \in HoldLabels => pc[p] \in HoldLabels)
  BY JobFields, SetGoes DEF RelMget, At, Job, Disposal, SlotLabels, HoldLabels, CreateLabels, ReleaseLabels, LeaseLabels, Onward
<1> QED
  BY <1>1, PlainKeeps DEF RelMget, store

LEMMA RelStopCovers ==
  ASSUME IInv, SInv, NEW p \in Proc, RelStop(p)
  PROVE  SInv' /\ Leased' = Leased
<1>1. Goes(p) /\ (pc'[p] \in HoldLabels => pc[p] \in HoldLabels)
  BY JobFields, GotoGoes, ReplyGoes DEF RelStop, Dispose, SlotLabels, HoldLabels, CreateLabels, ReleaseLabels, LeaseLabels, Onward
<1> QED
  BY <1>1, PlainKeeps DEF RelStop, Dispose, store

LEMMA RelKeepCovers ==
  ASSUME IInv, SInv, NEW p \in Proc, RelKeep(p)
  PROVE  SInv' /\ Leased' = Leased
<1>1. Goes(p) /\ (pc'[p] \in HoldLabels => pc[p] \in HoldLabels)
  BY JobFields, GotoGoes DEF RelKeep, At, SlotLabels, HoldLabels, CreateLabels, ReleaseLabels, LeaseLabels, Onward
<1> QED
  BY <1>1, PlainKeeps DEF RelKeep, store

LEMMA RelKillCovers ==
  ASSUME IInv, SInv, NEW p \in Proc, RelKill(p)
  PROVE  SInv' /\ Leased' = Leased
<1>1. Goes(p) /\ (pc'[p] \in HoldLabels => pc[p] \in HoldLabels)
  BY JobFields, GotoGoes, ReplyGoes DEF RelKill, At, Dispose, SlotLabels, HoldLabels, CreateLabels, ReleaseLabels, LeaseLabels, Onward
<1> QED
  BY <1>1, PlainKeeps DEF RelKill, Dispose, store

LEMMA RelUnbindCovers ==
  ASSUME IInv, SInv, NEW p \in Proc, RelUnbind(p)
  PROVE  SInv' /\ Leased' = Leased
<1>1. Goes(p) /\ (pc'[p] \in HoldLabels => pc[p] \in HoldLabels)
  BY JobFields, GotoGoes DEF RelUnbind, At, AfterUnbind, SlotLabels, HoldLabels, CreateLabels, ReleaseLabels, LeaseLabels, Onward
<1> QED
  BY <1>1, PlainKeeps DEF RelUnbind, store

LEMMA RelOwnerCovers ==
  ASSUME IInv, SInv, NEW p \in Proc, RelOwner(p)
  PROVE  SInv' /\ Leased' = Leased
<1>1. Goes(p) /\ (pc'[p] \in HoldLabels => pc[p] \in HoldLabels)
  BY JobFields, GotoGoes DEF RelOwner, At, AfterUnbind, SlotLabels, HoldLabels, CreateLabels, ReleaseLabels, LeaseLabels, Onward
<1> QED
  BY <1>1, PlainKeeps DEF RelOwner, store

LEMMA RelUnbindOwnerCovers ==
  ASSUME IInv, SInv, NEW p \in Proc, RelUnbindOwner(p)
  PROVE  SInv' /\ Leased' = Leased
<1>1. Goes(p) /\ (pc'[p] \in HoldLabels => pc[p] \in HoldLabels)
  BY JobFields, GotoGoes DEF RelUnbindOwner, At, AfterUnbind, SlotLabels, HoldLabels, CreateLabels, ReleaseLabels, LeaseLabels, Onward
<1> QED
  BY <1>1, PlainKeeps DEF RelUnbindOwner, store

LEMMA RelClearCovers ==
  ASSUME IInv, SInv, NEW p \in Proc, RelClear(p)
  PROVE  SInv' /\ Leased' = Leased
<1>1. Goes(p) /\ (pc'[p] \in HoldLabels => pc[p] \in HoldLabels)
  BY JobFields, GotoGoes DEF RelClear, At, SlotLabels, HoldLabels, CreateLabels, ReleaseLabels, LeaseLabels, Onward
<1> QED
  BY <1>1, PlainKeeps DEF RelClear, store

LEMMA PqPopCovers ==
  ASSUME IInv, SInv, NEW p \in Proc, PqPop(p)
  PROVE  SInv' /\ Leased' = Leased
<1>1. Goes(p) /\ (pc'[p] \in HoldLabels => pc[p] \in HoldLabels)
  BY JobFields, SetGoes, ReleasedGoes DEF PqPop, Job, SlotLabels, HoldLabels, CreateLabels, ReleaseLabels, LeaseLabels, Onward
<1> QED
  BY <1>1, PlainKeeps DEF PqPop, store

LEMMA PqMoreCovers ==
  ASSUME IInv, SInv, NEW p \in Proc, PqMore(p)
  PROVE  SInv' /\ Leased' = Leased
<1>1. Goes(p) /\ (pc'[p] \in HoldLabels => pc[p] \in HoldLabels)
  BY JobFields, GotoGoes, ReleasedGoes DEF PqMore, SlotLabels, HoldLabels, CreateLabels, ReleaseLabels, LeaseLabels, Onward
<1> QED
  BY <1>1, PlainKeeps DEF PqMore, store

LEMMA FtClaimCovers ==
  ASSUME IInv, SInv, NEW p \in Proc, FtClaim(p)
  PROVE  SInv' /\ Leased' = Leased
<1> DEFINE t == job[p].t
           j == [job[p] EXCEPT !.s = tickets[t].session, !.mode = tickets[t].mode, !.sb = None]
<1>1. CASE Goto(p, "ft_slot") /\ Set(p, j)
  <2>1. j.client = job[p].client /\ j.todo = {}
    BY JobFields DEF Job
  <2> HIDE DEF j
  <2>2. Goes(p) /\ pc'[p] = "ft_slot"
    BY <1>1, <2>1, SetGoes DEF SlotLabels, HoldLabels, CreateLabels, ReleaseLabels, LeaseLabels, Onward
  <2> QED
    BY <2>2, PlainKeeps DEF FtClaim, SlotLabels, HoldLabels, CreateLabels, ReleaseLabels, LeaseLabels, Onward
<1>2. CASE Fulfilled(p)
  <2>1. Goes(p) /\ pc'[p] \notin HoldLabels
    BY <1>2, GotoGoes, ReplyGoes DEF Fulfilled, SlotLabels, HoldLabels, CreateLabels, ReleaseLabels, LeaseLabels, Onward
  <2> QED
    BY <2>1, PlainKeeps DEF FtClaim
<1> QED
  BY <1>1, <1>2 DEF FtClaim

LEMMA FtResetCovers ==
  ASSUME IInv, SInv, NEW p \in Proc, FtReset(p)
  PROVE  SInv' /\ Leased' = Leased
<1>1. Goes(p) /\ (pc'[p] \in HoldLabels => pc[p] \in HoldLabels)
  BY JobFields, GotoGoes DEF FtReset, At, SlotLabels, HoldLabels, CreateLabels, ReleaseLabels, LeaseLabels, Onward
<1> QED
  BY <1>1, PlainKeeps DEF FtReset, store

LEMMA FtRequeueCovers ==
  ASSUME IInv, SInv, NEW p \in Proc, FtRequeue(p)
  PROVE  SInv' /\ Leased' = Leased
<1>1. Goes(p) /\ (pc'[p] \in HoldLabels => pc[p] \in HoldLabels)
  BY JobFields, GotoGoes DEF FtRequeue, At, SlotLabels, HoldLabels, CreateLabels, ReleaseLabels, LeaseLabels, Onward
<1> QED
  BY <1>1, PlainKeeps DEF FtRequeue, store

LEMMA FtPushCovers ==
  ASSUME IInv, SInv, NEW p \in Proc, FtPush(p)
  PROVE  SInv' /\ Leased' = Leased
<1>1. Goes(p) /\ (pc'[p] \in HoldLabels => pc[p] \in HoldLabels)
  BY JobFields, GotoGoes, ReplyGoes DEF FtPush, Fulfilled, SlotLabels, HoldLabels, CreateLabels, ReleaseLabels, LeaseLabels, Onward
<1> QED
  BY <1>1, PlainKeeps DEF FtPush, store

LEMMA FtReadyCovers ==
  ASSUME IInv, SInv, NEW p \in Proc, FtReady(p)
  PROVE  SInv' /\ Leased' = Leased
<1>1. Goes(p) /\ (pc'[p] \in HoldLabels => pc[p] \in HoldLabels)
  BY JobFields, GotoGoes, ReplyGoes DEF FtReady, Fulfilled, SlotLabels, HoldLabels, CreateLabels, ReleaseLabels, LeaseLabels, Onward
<1> QED
  BY <1>1, PlainKeeps DEF FtReady, store

LEMMA FtFailCovers ==
  ASSUME IInv, SInv, NEW p \in Proc, FtFail(p)
  PROVE  SInv' /\ Leased' = Leased
<1>1. Goes(p) /\ (pc'[p] \in HoldLabels => pc[p] \in HoldLabels)
  BY JobFields, GotoGoes, ReplyGoes DEF FtFail, FulfilThrows, SlotLabels, HoldLabels, CreateLabels, ReleaseLabels, LeaseLabels, Onward
<1> QED
  BY <1>1, PlainKeeps DEF FtFail, store

-----------------------------------------------------------------------------
(* Steps that take a slot or give it back *)

LEMMA AcqSlotCovers ==
  ASSUME IInv, SInv, NEW p \in Proc, AcqSlot(p)
  PROVE  SInv' /\ Leased' = Leased
<1>1. Goes(p) /\ (activeCount' = activeCount + 1 \/ (UNCHANGED activeCount /\ pc'[p] \notin HoldLabels))
  BY JobFields, SetGoes, GotoGoes DEF AcqSlot, At, Job, TakeSlot, SlotLabels, HoldLabels, CreateLabels, ReleaseLabels, LeaseLabels, Onward
<1> QED
  BY <1>1, CountKeeps DEF AcqSlot

LEMMA AcqUndoCovers ==
  ASSUME IInv, SInv, NEW p \in Proc, AcqUndo(p)
  PROVE  SInv' /\ Leased' = Leased
<1>1. Goes(p) /\ pc[p] \in HoldLabels /\ pc'[p] \notin HoldLabels
  BY JobFields, ReplyGoes DEF AcqUndo, SlotLabels, HoldLabels, CreateLabels, ReleaseLabels, LeaseLabels, Onward
<1> QED
  BY <1>1, CountKeeps DEF AcqUndo

LEMMA RelSlotCovers ==
  ASSUME IInv, SInv, NEW p \in Proc, RelSlot(p)
  PROVE  SInv' /\ Leased' = Leased
<1>1. Goes(p) /\ pc[p] \in HoldLabels /\ pc'[p] \notin HoldLabels
  BY JobFields, GotoGoes DEF RelSlot, At, SlotLabels, HoldLabels, CreateLabels, ReleaseLabels, LeaseLabels, Onward
<1> QED
  BY <1>1, CountKeeps DEF RelSlot

LEMMA FtSlotCovers ==
  ASSUME IInv, SInv, NEW p \in Proc, FtSlot(p)
  PROVE  SInv' /\ Leased' = Leased
<1>1. Goes(p) /\ (activeCount' = activeCount + 1 \/ (UNCHANGED activeCount /\ pc'[p] \notin HoldLabels))
  BY JobFields, SetGoes, GotoGoes DEF FtSlot, At, Job, TakeSlot, SlotLabels, HoldLabels, CreateLabels, ReleaseLabels, LeaseLabels, Onward
<1> QED
  BY <1>1, CountKeeps DEF FtSlot

LEMMA FtUndoCovers ==
  ASSUME IInv, SInv, NEW p \in Proc, FtUndo(p)
  PROVE  SInv' /\ Leased' = Leased
<1>1. Goes(p) /\ pc[p] \in HoldLabels /\ pc'[p] \notin HoldLabels
  BY JobFields, GotoGoes DEF FtUndo, At, SlotLabels, HoldLabels, CreateLabels, ReleaseLabels, LeaseLabels, Onward
<1> QED
  BY <1>1, CountKeeps DEF FtUndo

-----------------------------------------------------------------------------
(* Steps that write leases *)

LEMMA LeaseIsThere == \A j : LeaseOf(j) \in Lease => LeaseOf(j) # None
BY RecordsAssumption

LEMMA ClSaveCovers ==
  ASSUME IInv, SInv, NEW p \in Proc, ClSave(p)
  PROVE  /\ SInv'
         /\ \/ Leased' = Leased
            \/ \E s \in Sessions : /\ s \notin Leased /\ Leased' = Leased \cup {s}
                                   /\ Cardinality(Leased) < MaxConcurrency
<1> DEFINE s == job[p].s
<1>1. pc[p] = "cl_save" /\ pc[p] \in HoldLabels
  BY DEF ClSave, HoldLabels, SlotLabels, CreateLabels
<1>2. s \in Sessions /\ LeaseOf(job[p]) # None
  BY <1>1, LeaseIsThere DEF IInv, HandlersOK, JobInv, SessionLabels, SandboxLabels, Labels, LeaseOf, Lease
<1>3. Goes(p) /\ pc'[p] \notin HoldLabels
  BY GotoGoes, ReplyGoes DEF ClSave, LeaseMade, HoldLabels, SlotLabels, CreateLabels, ReleaseLabels, LeaseLabels, Onward
<1>4. leases' = [leases EXCEPT ![s] = LeaseOf(job[p])] /\ UNCHANGED activeCount
  BY DEF ClSave
<1>5. Leased' = Leased \cup {s}
  BY <1>2, <1>4 DEF Leased, IInv, TypeOK
<1>6. SerialOK' /\ SlotWorkOK'
  BY <1>2, <1>3, <1>4, GoesSerial DEF IInv, TypeOK
<1>7. /\ IsFiniteSet(Leased')
      /\ Cardinality(Leased') = IF s \in Leased THEN Cardinality(Leased) ELSE Cardinality(Leased) + 1
  BY <1>5, FS_AddElement DEF SInv
<1>8. SlotsCover' /\ IsFiniteSet(Holders')
  BY <1>1, <1>3, <1>4, <1>6, <1>7, HoldersCount DEF SlotsCover, SInv, IInv, TypeOK
<1>9. Cardinality(Leased) < MaxConcurrency
  BY <1>1, <1>3, <1>6, HoldersCount, ConfigAssumption DEF SlotsCover, SInv, IInv, SlotBound
<1> QED
  BY <1>2, <1>5, <1>6, <1>7, <1>8, <1>9 DEF SInv

LEMMA RelDeleteCovers ==
  ASSUME IInv, SInv, NEW p \in Proc, RelDelete(p)
  PROVE  SInv' /\ \E s \in Leased : Leased' = Leased \ {s}
<1> DEFINE s == job[p].s
<1>1. pc[p] = "rel_delete" /\ pc[p] \notin HoldLabels
  BY DEF RelDelete, At, HoldLabels, SlotLabels, CreateLabels, ReleaseLabels
<1>2. s \in Leased
  BY <1>1 DEF IInv, HandlersOK, JobInv, SessionLabels, Labels, SInv, SlotWorkOK, LeaseLabels, Leased
<1>3. Goes(p) /\ pc'[p] = "rel_keys"
  BY JobFields, GotoGoes DEF RelDelete, At, SlotLabels, CreateLabels, LeaseLabels, Onward
<1>4. leases' = [leases EXCEPT ![s] = None] /\ UNCHANGED activeCount
  BY DEF RelDelete
<1>5. Leased' = Leased \ {s}
  BY <1>4 DEF Leased, IInv, TypeOK
<1>6. SerialOK' /\ SlotWorkOK'
  BY <1>1, <1>3, <1>4, GoesSerial DEF IInv, TypeOK
<1>7. IsFiniteSet(Leased') /\ Cardinality(Leased') = Cardinality(Leased) - 1
  BY <1>2, <1>5, FS_RemoveElement DEF SInv
<1>a. pc'[p] \in HoldLabels /\ activeCount \in Nat
  BY <1>3, ConfigAssumption DEF HoldLabels, ReleaseLabels, IInv, SlotBound
<1>b. /\ IsFiniteSet(Holders') /\ Cardinality(Holders) \in Nat /\ Cardinality(Leased) \in Nat
      /\ Cardinality(Holders') = Cardinality(Holders) + 1
  BY <1>1, <1>3, <1>6, <1>a, HoldersCount
<1>8. SlotsCover' /\ IsFiniteSet(Holders')
  BY <1>4, <1>7, <1>a, <1>b DEF SlotsCover, SInv
<1> QED
  BY <1>2, <1>5, <1>6, <1>7, <1>8 DEF SInv

LEMMA HbSaveCovers ==
  ASSUME IInv, SInv, NEW p \in Proc, HbSave(p)
  PROVE  SInv' /\ Leased' = Leased
<1>1. pc[p] = "hb_save"
  BY DEF HbSave
<1>2. Goes(p) /\ pc'[p] \notin HoldLabels
  BY ReplyGoes DEF HbSave, HoldLabels, SlotLabels, CreateLabels, ReleaseLabels
<1>3. leases[job[p].s] # None /\ LeaseOf(job[p]) # None
  BY <1>1, LeaseIsThere
     DEF IInv, HandlersOK, JobInv, SessionLabels, SandboxLabels, Labels, LeaseOf, Lease, SInv, SlotWorkOK, LeaseLabels
<1>4. \A s \in Sessions : leases'[s] = None <=> leases[s] = None
  BY <1>3 DEF HbSave, IInv, TypeOK
<1> QED
  BY <1>2, <1>4, CountKeeps DEF HbSave

-----------------------------------------------------------------------------
(* Requests of clients and the environment *)

\* A session with no request in flight sends one.
LEMMA EntersCovers ==
  ASSUME IInv, SInv, NEW p \in Workers, NEW s \in Sessions, \A w \in Workers : job[w].client # s,
         NEW l \in {"acq_slot"} \cup LeaseLabels, NEW j, Goto(p, l), Set(p, j), pc[p] = "idle",
         j.client = s, j.s = s, j.todo = {}, l \in LeaseLabels => leases[s] # None,
         UNCHANGED <<leases, activeCount>>
  PROVE  SInv' /\ Leased' = Leased
<1>1. p \in Proc /\ l \notin {"acq_attach", "sw_mget", "sw_next", "idle"} \cup HoldLabels
  BY DEF Proc, HoldLabels, SlotLabels, CreateLabels, ReleaseLabels, LeaseLabels
<1>2. /\ \A q \in Proc \ {p} : pc'[q] = pc[q] /\ job'[q] = job[q]
      /\ pc'[p] = l /\ job'[p] = j
  BY <1>1 DEF Goto, Set, IInv, TypeOK
<1>3. SerialOK'
  BY <1>1, <1>2 DEF SInv, SerialOK, Proc
<1>4. SlotWorkOK'
  BY <1>1, <1>2 DEF SInv, SlotWorkOK, HoldLabels
<1>5. Holders' = Holders
  <2>1. Holders = {q \in Proc : pc[q] \in HoldLabels} /\ pc[p] \notin HoldLabels
    BY HoldersAre DEF SInv, HoldLabels, SlotLabels, CreateLabels, ReleaseLabels
  <2>2. Holders' = {q \in Proc : pc'[q] \in HoldLabels}
    BY <1>4 DEF SlotWorkOK, Holders, HoldLabels, SlotLabels
  <2> QED
    BY <1>1, <1>2, <2>1, <2>2
<1>6. Leased' = Leased
  BY DEF Leased
<1> QED
  BY <1>3, <1>4, <1>5, <1>6 DEF SInv, SlotsCover

LEMMA SameCovers ==
  ASSUME IInv, SInv, UNCHANGED <<pc, job, activeCount>>, \A s \in Sessions : leases'[s] = None <=> leases[s] = None
  PROVE  SInv' /\ Leased' = Leased
<1>1. Leased' = Leased /\ Holders' = Holders
  BY DEF Leased, Holders
<1>2. SlotWorkOK'
  <2>1. ASSUME NEW p \in Proc, pc[p] \in LeaseLabels PROVE leases'[job[p].s] # None
    <3>1. job[p].s \in Sessions /\ leases[job[p].s] # None
      BY <2>1 DEF IInv, HandlersOK, JobInv, LeaseLabels, SessionLabels, Labels, SInv, SlotWorkOK
    <3> QED
      BY <3>1
  <2> QED
    BY <2>1 DEF SInv, SlotWorkOK
<1> QED
  BY <1>1, <1>2 DEF SInv, SerialOK, SlotsCover

LEMMA ClientCallCovers ==
  ASSUME OwnLeases, IInv, SInv, NEW p \in Workers, NEW s \in Sessions, ClientCall(p, s),
         \A w \in Workers : job[w].client # s
  PROVE  SInv' /\ Leased' = Leased
<1>1. pc[p] = "idle" /\ UNCHANGED <<leases, activeCount>>
  BY DEF ClientCall, Acquire, Release, Heartbeat, Request, store
<1>2. CASE UNCHANGED <<pc, job>>
  BY <1>1, <1>2, SameCovers
<1>3. ASSUME NEW mode \in ModesOf[s], Acquire(p, s, mode), leases[s] = None
      PROVE  SInv' /\ Leased' = Leased
  <2>1. mode = "exclusive"
    BY DEF OwnLeases
  <2>2. Goto(p, "acq_slot") /\ Set(p, [NoJob EXCEPT !.client = s, !.s = s, !.mode = mode])
    BY <1>3, <2>1 DEF Acquire
  <2> QED
    BY <1>1, <2>2, EntersCovers DEF NoJob, LeaseLabels
<1>4. ASSUME NEW reason, leases[s] # None, BeginRelease(p, s, reason, [NoJob EXCEPT !.client = s])
      PROVE  SInv' /\ Leased' = Leased
  <2> DEFINE j == [[NoJob EXCEPT !.client = s] EXCEPT !.s = s, !.mode = leases[s].mode,
                                                     !.sb = leases[s].sb, !.reason = reason]
  <2>1. Goto(p, "rel_delete") /\ Set(p, j)
    BY <1>4 DEF BeginRelease
  <2>2. j.client = s /\ j.s = s /\ j.todo = {}
    BY DEF NoJob
  <2> HIDE DEF j
  <2> QED
    BY <1>1, <1>4, <2>1, <2>2, EntersCovers DEF LeaseLabels
<1>5. ASSUME Heartbeat(p, s), leases[s] # None
      PROVE  SInv' /\ Leased' = Leased
  <2> DEFINE j == [NoJob EXCEPT !.client = s, !.s = s, !.mode = leases[s].mode, !.sb = leases[s].sb]
  <2>1. Goto(p, "hb_save") /\ Set(p, j)
    BY <1>5 DEF Heartbeat
  <2>2. j.client = s /\ j.s = s /\ j.todo = {}
    BY DEF NoJob
  <2> HIDE DEF j
  <2> QED
    BY <1>1, <1>5, <2>1, <2>2, EntersCovers DEF LeaseLabels
<1> QED
  BY <1>2, <1>3, <1>4, <1>5 DEF ClientCall, Acquire, Release, Heartbeat, BeginRelease

LEMMA ExpireCovers ==
  ASSUME IInv, SInv, NEW s \in Sessions, Expire(s)
  PROVE  SInv' /\ Leased' = Leased
<1>1. [leases[s] EXCEPT !.fresh = FALSE] \in Lease
  BY DEF Expire, IInv, TypeOK, Lease
<1>2. \A r \in Sessions : leases'[r] = None <=> leases[r] = None
  BY <1>1, RecordsAssumption DEF Expire, IInv, TypeOK
<1> QED
  BY <1>2, SameCovers DEF Expire

LEMMA ConsumeCovers ==
  ASSUME IInv, SInv, Consume
  PROVE  SInv' /\ Leased' = Leased
<1>1. Consumer \in Proc /\ pc[Consumer] = "idle" /\ job[Consumer].client = None
  BY DEF Proc, Consume, At, SInv, SerialOK
<1>2. Goes(Consumer) /\ pc'[Consumer] \notin HoldLabels
  BY <1>1, SetGoes DEF Consume, At, NoJob, HoldLabels, SlotLabels, CreateLabels, ReleaseLabels, LeaseLabels, Onward
<1> QED
  BY <1>1, <1>2, PlainKeeps DEF Consume, store

LEMMA CrashCovers ==
  ASSUME IInv, SInv, Crash
  PROVE  SInv' /\ Leased' = Leased
<1>1. /\ \A p \in Proc : pc'[p] = "idle" /\ job'[p] = NoJob
      /\ Leased' = Leased /\ UNCHANGED activeCount
  BY DEF Crash, store, Leased
<1>2. Holders' = {}
  BY <1>1 DEF Holders, CreateLabels, ReleaseLabels
<1>3. SerialOK' /\ SlotWorkOK'
  BY <1>1 DEF SerialOK, SlotWorkOK, NoJob, SlotLabels, CreateLabels, LeaseLabels, Proc
<1>4. IsFiniteSet(Holders') /\ Cardinality(Holders') = 0 /\ Cardinality(Holders) \in Nat /\ Cardinality(Leased) \in Nat
  BY <1>2, FS_EmptySet, FS_CardinalityType DEF SInv
<1>5. SlotsCover'
  BY <1>1, <1>4 DEF SInv, SlotsCover, IInv, TypeOK
<1> QED
  BY <1>1, <1>3, <1>4, <1>5 DEF SInv

-----------------------------------------------------------------------------
(* Every step of a handler, and of the broker *)

PoolStep ==
  \/ Leased' = Leased
  \/ \E s \in Sessions : /\ s \notin Leased /\ Leased' = Leased \cup {s}
                         /\ Cardinality(Leased) < MaxConcurrency
  \/ \E s \in Leased : Leased' = Leased \ {s}

LEMMA StepCovers ==
  ASSUME IInv, SInv, NEW p \in Proc, Step(p)
  PROVE  SInv' /\ PoolStep
<1>1. pc[p] \notin {"acq_attach", "sw_mget", "sw_next"}
  BY DEF SInv, SlotWorkOK
<1>2. ~(AcqAttach(p) \/ SwMget(p) \/ SwNext(p))
  BY <1>1 DEF AcqAttach, SwMget, SwNext, At
<1>3. CASE AcqSlot(p) \/ AcqUndo(p) \/ EnqSet(p) \/ EnqPush(p) \/ EnqPublish(p)
  BY <1>3, AcqSlotCovers, AcqUndoCovers, EnqSetCovers, EnqPushCovers, EnqPublishCovers DEF PoolStep
<1>4. CASE \/ ClLookup(p) \/ ClStart(p) \/ ClForget(p) \/ ClForgetOwner(p) \/ ClCreate(p)
           \/ ClBind(p) \/ ClWorkDir(p) \/ ClUserDir(p) \/ ClSave(p)
  BY <1>4, ClLookupCovers, ClStartCovers, ClForgetCovers, ClForgetOwnerCovers, ClCreateCovers,
     ClBindCovers, ClWorkDirCovers, ClUserDirCovers, ClSaveCovers DEF PoolStep
<1>5. CASE \/ RelDelete(p) \/ RelKeys(p) \/ RelMget(p) \/ RelStop(p) \/ RelKeep(p) \/ RelKill(p)
           \/ RelUnbind(p) \/ RelOwner(p) \/ RelUnbindOwner(p) \/ RelClear(p) \/ RelSlot(p)
  BY <1>5, RelDeleteCovers, RelKeysCovers, RelMgetCovers, RelStopCovers, RelKeepCovers, RelKillCovers,
     RelUnbindCovers, RelOwnerCovers, RelUnbindOwnerCovers, RelClearCovers, RelSlotCovers DEF PoolStep
<1>6. CASE \/ PqPop(p) \/ PqMore(p) \/ FtClaim(p) \/ FtSlot(p) \/ FtReset(p) \/ FtRequeue(p)
           \/ FtPush(p) \/ FtReady(p) \/ FtUndo(p) \/ FtFail(p) \/ HbSave(p)
  BY <1>6, PqPopCovers, PqMoreCovers, FtClaimCovers, FtSlotCovers, FtResetCovers, FtRequeueCovers,
     FtPushCovers, FtReadyCovers, FtUndoCovers, FtFailCovers, HbSaveCovers DEF PoolStep
<1> QED
  BY <1>2, <1>3, <1>4, <1>5, <1>6 DEF Step

LEMMA NextCovers ==
  ASSUME OwnLeases, SerialClients, IInv, SInv, [Next]_vars
  PROVE  SInv' /\ PoolStep
<1>1. ASSUME NEW p \in Workers, NEW s \in Sessions, ClientCall(p, s) PROVE SInv' /\ PoolStep
  <2>1. \A w \in Workers : job[w].client # s
    BY <1>1 DEF ClientCall, Acquire, Release, Heartbeat, Request
  <2> QED
    BY <1>1, <2>1, ClientCallCovers DEF PoolStep
<1>2. ASSUME NEW p \in Workers, SandboxCall(p) PROVE SInv' /\ PoolStep
  BY <1>2, SameCovers DEF SandboxCall, Exec, store, PoolStep
<1>3. ~ \E p \in Sweepers : SwKeys(p)
  BY DEF OwnLeases
<1>4. CASE Consume \/ Crash \/ \E s \in Sessions : Expire(s)
  BY <1>4, ConsumeCovers, CrashCovers, ExpireCovers DEF PoolStep
<1>5. CASE UNCHANGED vars
  BY <1>5, SameCovers DEF vars, store, PoolStep
<1> QED
  BY <1>1, <1>2, <1>3, <1>4, <1>5, StepCovers DEF Next, AwaitCalls

LEMMA InitCovers ==
  ASSUME Init
  PROVE  SInv /\ Leased = {}
<1>1. Leased = {} /\ Holders = {}
  BY DEF Init, Leased, Holders, CreateLabels, ReleaseLabels
<1>2. SerialOK /\ SlotWorkOK
  BY DEF Init, SerialOK, SlotWorkOK, NoJob, SlotLabels, CreateLabels, LeaseLabels, Proc
<1>3. SlotsCover
  BY <1>1, FS_EmptySet DEF Init, SlotsCover
<1> QED
  BY <1>1, <1>2, <1>3, FS_EmptySet DEF SInv

LEMMA Coverage ==
  ASSUME OwnLeases, SerialClients
  PROVE  Spec => []SInv
<1>1. Init => SInv
  BY InitCovers
<1>2. IInv /\ SInv /\ [Next]_vars => SInv'
  BY NextCovers
<1> QED
  BY <1>1, <1>2, Invariance, PTL DEF Spec

\* Every lease, every handler on its way to one and every release that has not
\* given its slot back has a slot of its own, whatever tickets, heartbeats,
\* redelivered messages, failed provider calls and restarts interleave.
THEOREM SlotsCovered ==
  ASSUME OwnLeases, SerialClients
  PROVE  Spec => []SlotsCover
<1>1. SInv => SlotsCover
  BY DEF SInv
<1> QED
  BY <1>1, Coverage, PTL

LEMMA PoolStepIsNext ==
  ASSUME PoolStep
  PROVE  [Pool!Next]_Leased
<1>1. Pool!Cardinality(Leased) = Cardinality(Leased)
  BY DEF Pool!Cardinality, Cardinality
<1> QED
  BY <1>1 DEF PoolStep, Pool!Next, Pool!Admit, Pool!Leave, Leased

\* The lease keys in Redis implement the abstract pool: a lease appears only
\* when fewer than MaxConcurrency are out.
THEOREM ImplementsPool ==
  ASSUME OwnLeases, SerialClients
  PROVE  Spec => IsLeasePool
<1>1. Init => Pool!Init
  BY InitCovers DEF Pool!Init
<1>2. IInv /\ SInv /\ [Next]_vars => [Pool!Next]_Leased
  BY NextCovers, PoolStepIsNext
<1> QED
  BY <1>1, <1>2, Coverage, Invariance, PTL DEF Spec, IsLeasePool, Pool!Spec

-----------------------------------------------------------------------------
(* Nothing is deleted *)

LEMMA StepReason ==
  ASSUME IInv, AliveOK, NEW p \in Proc, Step(p), pc'[p] \in {"rel_delete", "rel_keys", "rel_mget"}
  PROVE  job'[p].reason # "deleted"
<1>1. CASE RelDelete(p)
  BY <1>1 DEF RelDelete, At, AliveOK
<1>2. CASE RelKeys(p)
  BY <1>2 DEF RelKeys, At, Goto, Set, AliveOK, IInv, TypeOK, Job
<1>3. CASE RelMget(p)
  BY <1>3 DEF RelMget, At, Goto, Disposal, IInv, TypeOK
<1>4. CASE SwNext(p)
  <2>1. PICK s \in job[p].todo :
          \/ BeginRelease(p, s, "idle", [NoJob EXCEPT !.todo = job[p].todo \ {s}])
          \/ Goto(p, "idle") \/ UNCHANGED pc
    BY <1>4 DEF SwNext, Reply
  <2>2. BeginRelease(p, s, "idle", [NoJob EXCEPT !.todo = job[p].todo \ {s}])
    BY <1>4, <2>1 DEF SwNext, Goto, IInv, TypeOK
  <2> QED
    BY <2>2 DEF BeginRelease, Set, NoJob, IInv, TypeOK
<1>5. CASE ~(RelDelete(p) \/ RelKeys(p) \/ RelMget(p) \/ SwNext(p))
  BY <1>5 DEF Step, AcqAttach, AcqSlot, AcqUndo, EnqSet, EnqPush, EnqPublish, ClLookup, ClStart, ClForget,
     ClForgetOwner, ClCreate, ClBind, ClWorkDir, ClUserDir, ClSave, MakeDir, RelStop, RelKeep, RelKill,
     Dispose, RelUnbind, RelOwner, RelUnbindOwner, RelClear, RelSlot, PqPop, PqMore, FtClaim, FtSlot, FtReset,
     FtRequeue, FtPush, FtReady, FtUndo, FtFail, HbSave, SwMget, At, Goto, Reply, LeaseFailed, LeaseMade,
     Released, Fulfilled, FulfilThrows, AfterUnbind, IInv, TypeOK
<1> QED
  BY <1>1, <1>2, <1>3, <1>4, <1>5

LEMMA StepKills ==
  ASSUME NothingDeleted, IInv, AliveOK, NEW p \in Proc, Step(p)
  PROVE  \A q \in Proc : pc'[q] # "rel_kill"
<1>1. pc[p] \in {"rel_keys", "rel_mget"} => Disposal(p) # "rel_kill"
  BY DEF Disposal, AliveOK, NothingDeleted
<1>2. CASE RelKeys(p) \/ RelMget(p)
  BY <1>1, <1>2 DEF RelKeys, RelMget, At, Goto, AliveOK, IInv, TypeOK
<1>3. CASE ~(RelKeys(p) \/ RelMget(p))
  <2>1. pc'[p] # "rel_kill"
    BY <1>3 DEF Step, AcqAttach, AcqSlot, AcqUndo, EnqSet, EnqPush, EnqPublish, ClLookup, ClStart, ClForget,
       ClForgetOwner, ClCreate, ClBind, ClWorkDir, ClUserDir, ClSave, MakeDir, RelDelete, RelStop, RelKeep, RelKill,
       Dispose, RelUnbind, RelOwner, RelUnbindOwner, RelClear, RelSlot, PqPop, PqMore, FtClaim, FtSlot, FtReset,
       FtRequeue, FtPush, FtReady, FtUndo, FtFail, HbSave, SwMget, SwNext, At, Goto, Reply, LeaseFailed, LeaseMade,
       Released, Fulfilled, FulfilThrows, AfterUnbind, BeginRelease, AliveOK, IInv, TypeOK
  <2> QED
    BY <2>1, StepOwn DEF Own, AliveOK
<1> QED
  BY <1>2, <1>3

LEMMA StepAlive ==
  ASSUME NothingDeleted, IInv, AliveOK, NEW p \in Proc, Step(p)
  PROVE  AliveOK'
<1>1. ~RelKill(p)
  BY DEF RelKill, Dispose, At, AliveOK
<1>2. \A id \in SandboxIds : sandbox'[id] # "deleted"
  BY <1>1 DEF Step, AcqAttach, AcqSlot, AcqUndo, EnqSet, EnqPush, EnqPublish, ClLookup, ClStart, ClForget,
     ClForgetOwner, ClCreate, ClBind, ClWorkDir, ClUserDir, ClSave, MakeDir, RelDelete, RelKeys, RelMget, RelStop,
     RelKeep, Dispose, RelUnbind, RelOwner, RelUnbindOwner, RelClear, RelSlot, PqPop, PqMore, FtClaim, FtSlot, FtReset,
     FtRequeue, FtPush, FtReady, FtUndo, FtFail, HbSave, SwMget, SwNext, Provider, ProviderFails, world,
     AliveOK, IInv, TypeOK
<1> QED
  BY <1>2, StepReason, StepKills, StepOwn DEF AliveOK, Own

\* No step takes a fault back.
LEMMA StepFaults ==
  ASSUME IInv, NEW p \in Proc, Step(p), faults' = 0
  PROVE  faults = 0
<1>1. faults' \in {faults, faults + 1}
  BY DEF Step, AcqAttach, AcqSlot, AcqUndo, EnqSet, EnqPush, EnqPublish, ClLookup, ClStart, ClForget,
     ClForgetOwner, ClCreate, ClBind, ClWorkDir, ClUserDir, ClSave, MakeDir, RelDelete, RelKeys, RelMget, RelStop,
     RelKeep, RelKill, Dispose, RelUnbind, RelOwner, RelUnbindOwner, RelClear, RelSlot, PqPop, PqMore, FtClaim, FtSlot,
     FtReset, FtRequeue, FtPush, FtReady, FtUndo, FtFail, HbSave, SwMget, SwNext, Provider, ProviderFails, Fault, bounds
<1> QED
  BY <1>1 DEF IInv, TypeOK

-----------------------------------------------------------------------------
(* Who knows a ticket *)

\* Without the guard on faults.
Waits(t) == InQueue(t) \/ InTopic(t) \/ Works(t, WaitLabels)
TicketOK(t) ==
  tickets[t] # None =>
    /\ tickets[t].status = "queued" => Waits(t)
    /\ tickets[t].status = "claiming" => Works(t, ClaimLabels)
Kept == WorkAtOffset /\ \A t \in TicketIds : TicketOK(t)

LEMMA KeptIs ==
  /\ TInv <=> AliveOK /\ (faults = 0 => Kept)
  /\ TInv' <=> AliveOK' /\ (faults' = 0 => Kept')
BY DEF TInv, Kept, TicketOK, Waits, NoLostTicket, WaitLabels, ClaimLabels

LEMMA WorksOn ==
  ASSUME IInv, NEW p \in Proc, Own(p), NEW L, NEW t, Works(t, L)
  PROVE  Works(t, L)' \/ (pc[p] \in L /\ job[p].t = t)
BY DEF Works, Own

LEMMA QueueGrows ==
  ASSUME IInv, NEW u \in TicketIds, queue' = Append(queue, u)
  PROVE  InQueue(u)' /\ \A t \in TicketIds : InQueue(t) => InQueue(t)'
<1>1. queue \in Seq(TicketIds)
  BY DEF IInv, TypeOK
<1>2. Len(queue') = Len(queue) + 1 /\ DOMAIN queue' = 1..(Len(queue) + 1) /\ DOMAIN queue = 1..Len(queue)
      /\ queue'[Len(queue) + 1] = u /\ \A i \in 1..Len(queue) : queue'[i] = queue[i]
  BY <1>1
<1> QED
  BY <1>1, <1>2 DEF InQueue

LEMMA QueueShrinks ==
  ASSUME IInv, queue # <<>>, queue' = Tail(queue)
  PROVE  Head(queue) \in TicketIds /\ \A t \in TicketIds : InQueue(t) => InQueue(t)' \/ t = Head(queue)
<1>1. queue \in Seq(TicketIds) /\ Len(queue) > 0
  BY DEF IInv, TypeOK
<1>2. DOMAIN queue' = 1..(Len(queue) - 1) /\ DOMAIN queue = 1..Len(queue)
      /\ \A i \in 1..(Len(queue) - 1) : queue'[i] = queue[i + 1]
  BY <1>1
<1>3. Head(queue) = queue[1] /\ Head(queue) \in TicketIds
  BY <1>1
<1>4. ASSUME NEW t \in TicketIds, NEW i \in 1..Len(queue), queue[i] = t, i # 1
      PROVE  InQueue(t)'
  <2>1. i - 1 \in DOMAIN queue' /\ queue'[i - 1] = t
    BY <1>1, <1>2, <1>4
  <2> QED
    BY <2>1 DEF InQueue
<1> QED
  BY <1>1, <1>2, <1>3, <1>4 DEF InQueue

LEMMA TopicGrows ==
  ASSUME IInv, NEW u \in TicketIds, topic' = Append(topic, u), UNCHANGED offset
  PROVE  /\ InTopic(u)' /\ \A t \in TicketIds : InTopic(t) => InTopic(t)'
         /\ offset < Len(topic) => topic'[offset + 1] = topic[offset + 1]
<1>1. topic \in Seq(TicketIds) /\ offset \in 0..Len(topic)
  BY DEF IInv, TypeOK
<1>2. Len(topic') = Len(topic) + 1 /\ topic'[Len(topic) + 1] = u
      /\ \A i \in 1..Len(topic) : topic'[i] = topic[i]
  BY <1>1
<1> QED
  BY <1>1, <1>2 DEF InTopic

LEMMA TopicShrinks ==
  ASSUME IInv, UNCHANGED topic, offset' = offset + 1
  PROVE  \A t \in TicketIds : InTopic(t) => InTopic(t)' \/ t = topic[offset + 1]
<1>1. topic \in Seq(TicketIds) /\ offset \in 0..Len(topic)
  BY DEF IInv, TypeOK
<1> QED
  BY <1>1 DEF InTopic

-----------------------------------------------------------------------------
(* A step of a handler *)

\* The labels and the ticket of a handler that a ticket may depend on.
Stands(p) ==
  /\ pc[p] \in WaitLabels => pc'[p] \in WaitLabels /\ job'[p].t = job[p].t
  /\ pc[p] \in ClaimLabels /\ job[p].t # None => pc'[p] \in ClaimLabels /\ job'[p].t = job[p].t
  /\ pc'[p] \notin {"ft_undo", "ft_fail"}

LEMMA StandsAtOffset ==
  ASSUME IInv, Kept, NEW p \in Proc, Own(p), pc'[p] \notin {"ft_undo", "ft_fail"}, UNCHANGED <<topic, offset>>,
         \/ p # Consumer
         \/ pc'[p] = "idle"
         \/ pc'[p] \in WaitLabels \cup ClaimLabels /\ job'[p].t = job[p].t
  PROVE  WorkAtOffset'
BY DEF Kept, WorkAtOffset, Own, Proc

\* Tickets, list and topic stay, and p stands where it is needed.
LEMMA StandsKeeps ==
  ASSUME IInv, Kept, NEW p \in Proc, Own(p), Stands(p), UNCHANGED <<tickets, queue, topic, offset>>
  PROVE  Kept'
<1>1. p = Consumer => job[p].t = topic[offset + 1] /\ job[p].t # None /\ pc[p] \in WaitLabels \cup ClaimLabels
  BY NamesAssumption DEF Kept, WorkAtOffset, Own, IInv, TypeOK, ConsumerOK
<1>2. WorkAtOffset'
  BY <1>1, StandsAtOffset DEF Stands
<1>3. ASSUME NEW t \in TicketIds
      PROVE  TicketOK(t)'
  <2>1. t # None
    BY NamesAssumption
  <2>2. Works(t, WaitLabels) => Works(t, WaitLabels)'
    BY WorksOn DEF Stands, Works
  <2>3. Works(t, ClaimLabels) => Works(t, ClaimLabels)'
    BY <2>1, WorksOn DEF Stands, Works
  <2> QED
    BY <2>2, <2>3 DEF Kept, TicketOK, Waits, InQueue, InTopic
<1> QED
  BY <1>2, <1>3 DEF Kept
\* p works on ticket u: the others stand as they did.
LEMMA OthersKept ==
  ASSUME IInv, Kept, NEW p \in Proc, Own(p), NEW u \in TicketIds,
         pc[p] \in WaitLabels \cup ClaimLabels => job[p].t = u,
         \A t \in TicketIds \ {u} :
           tickets'[t] = tickets[t] /\ (InQueue(t) => InQueue(t)') /\ (InTopic(t) => InTopic(t)'),
         TicketOK(u)'
  PROVE  \A t \in TicketIds : TicketOK(t)'
<1>1. ASSUME NEW t \in TicketIds \ {u}
      PROVE  TicketOK(t)'
  <2>1. Works(t, WaitLabels) => Works(t, WaitLabels)'
    BY WorksOn
  <2>2. Works(t, ClaimLabels) => Works(t, ClaimLabels)'
    BY WorksOn
  <2> QED
    BY <2>1, <2>2 DEF Kept, TicketOK, Waits
<1> QED
  BY <1>1

\* Without a fault every call succeeds.
LEMMA NoFailure ==
  ASSUME AliveOK, IInv, faults' = 0, NEW id \in SandboxIds, NEW st
  PROVE  ~ProviderFails(id, st)
<1>1. ~Fault("provider")
  BY DEF Fault, IInv, TypeOK
<1> QED
  BY <1>1 DEF ProviderFails, AliveOK

LEMMA AcquireTickets ==
  ASSUME IInv, AliveOK, Kept, NEW p \in Proc, Own(p), faults' = 0,
         AcqAttach(p) \/ AcqSlot(p) \/ AcqUndo(p) \/ EnqPush(p)
  PROVE  Kept'
<1>1. ASSUME AcqAttach(p) \/ AcqSlot(p) \/ AcqUndo(p)
      PROVE  Kept'
  <2>1. Stands(p)
    BY <1>1 DEF Stands, AcqAttach, AcqSlot, AcqUndo, At, Goto, Set, Reply, WaitLabels, ClaimLabels, FulfilLabels,
       CreateLabels, IInv, TypeOK, Job
  <2> QED
    BY <1>1, <2>1, StandsKeeps DEF AcqAttach, AcqSlot, AcqUndo, store, log
<1>2. ASSUME EnqPush(p)
      PROVE  Kept'
  <2>1. PICK u \in TicketIds : u = job[p].t
    BY <1>2 DEF EnqPush, At, IInv, HandlersOK, JobInv, TicketLabels
  <2>2. InQueue(u)' /\ \A t \in TicketIds : InQueue(t) => InQueue(t)'
    BY <1>2, <2>1, QueueGrows DEF EnqPush
  <2>3. UNCHANGED <<tickets, topic, offset>> /\ pc[p] = "enq_push" /\ pc'[p] = "enq_publish" /\ job' = job
    BY <1>2 DEF EnqPush, At, Goto, log, IInv, TypeOK
  <2>4. TicketOK(u)'
    BY <2>1, <2>2, <2>3, WorksOn, NamesAssumption DEF Kept, TicketOK, Waits, ClaimLabels, FulfilLabels, CreateLabels
  <2>5. \A t \in TicketIds : TicketOK(t)'
    BY <2>1, <2>2, <2>3, <2>4, OthersKept DEF InTopic
  <2>6. WorkAtOffset'
    BY <2>3, StandsAtOffset DEF WaitLabels
  <2> QED
    BY <2>5, <2>6 DEF Kept
<1> QED
  BY <1>1, <1>2

LEMMA EnqueueTickets ==
  ASSUME IInv, AliveOK, Kept, NEW p \in Proc, Own(p), faults' = 0, EnqSet(p) \/ EnqPublish(p)
  PROVE  Kept'
<1>1. ASSUME EnqSet(p)
      PROVE  Kept'
  <2>1. PICK u \in TicketIds :
          /\ tickets[u] = None /\ tickets' = [tickets EXCEPT ![u] = NewTicket(job[p])]
          /\ Set(p, [job[p] EXCEPT !.t = u])
    BY <1>1, AnyOfIn DEF EnqSet
  <2>2. UNCHANGED <<queue, topic, offset>> /\ pc[p] = "enq_set" /\ pc'[p] = "enq_push"
    BY <1>1 DEF EnqSet, At, Goto, log, IInv, TypeOK
  <2>3. job'[p].t = u /\ tickets'[u].status = "queued" /\ \A t \in TicketIds \ {u} : tickets'[t] = tickets[t]
    BY <2>1 DEF Set, NewTicket, IInv, TypeOK, Job
  <2>4. TicketOK(u)'
    BY <2>2, <2>3 DEF TicketOK, Waits, Works, WaitLabels
  <2>5. pc[p] \notin WaitLabels \cup ClaimLabels
    BY <2>2 DEF WaitLabels, ClaimLabels, FulfilLabels, CreateLabels
  <2>6. \A t \in TicketIds : TicketOK(t)'
    BY <2>2, <2>3, <2>4, <2>5, OthersKept DEF InTopic, InQueue
  <2>7. p # Consumer
    BY <2>2, <2>5 DEF Kept, WorkAtOffset
  <2>8. WorkAtOffset'
    BY <2>2, <2>7, StandsAtOffset
  <2> QED
    BY <2>6, <2>8 DEF Kept
<1>2. ASSUME EnqPublish(p)
      PROVE  Kept'
  <2>1. PICK u \in TicketIds : u = job[p].t
    BY <1>2 DEF EnqPublish, IInv, HandlersOK, JobInv, TicketLabels
  <2>2. ~Fault("publish")
    BY DEF Fault, IInv, TypeOK
  <2>3. topic' = Append(topic, u) /\ UNCHANGED <<tickets, queue, offset>>
    BY <1>2, <2>1, <2>2 DEF EnqPublish, store
  <2>4. pc[p] = "enq_publish" /\ pc'[p] = "idle"
    BY <1>2 DEF EnqPublish, Reply, Goto, IInv, TypeOK
  <2>5. /\ InTopic(u)' /\ \A t \in TicketIds : InTopic(t) => InTopic(t)'
        /\ offset < Len(topic) => topic'[offset + 1] = topic[offset + 1]
    BY <2>3, TopicGrows
  <2>6. TicketOK(u)'
    BY <2>1, <2>3, <2>4, <2>5, WorksOn DEF Kept, TicketOK, Waits, ClaimLabels, FulfilLabels, CreateLabels
  <2>7. \A t \in TicketIds : TicketOK(t)'
    BY <2>1, <2>3, <2>4, <2>5, <2>6, OthersKept DEF InQueue
  <2>8. WorkAtOffset'
    <3>1. pc[Consumer] # "idle" => topic'[offset + 1] = topic[offset + 1]
      BY <2>5 DEF IInv, ConsumerOK
    <3>2. Consumer # p => pc'[Consumer] = pc[Consumer] /\ job'[Consumer] = job[Consumer]
      BY DEF Own, Proc
    <3>3. \A q \in Proc : pc'[q] \notin {"ft_undo", "ft_fail"}
      BY <2>4 DEF Own, Kept, WorkAtOffset
    <3> QED
      BY <2>3, <2>4, <3>1, <3>2, <3>3 DEF Kept, WorkAtOffset
  <2> QED
    BY <2>7, <2>8 DEF Kept
<1> QED
  BY <1>1, <1>2

LEMMA CreateTickets ==
  ASSUME IInv, AliveOK, Kept, NEW p \in Proc, Own(p), faults' = 0,
         \/ ClLookup(p) \/ ClStart(p) \/ ClForget(p) \/ ClForgetOwner(p) \/ ClCreate(p)
         \/ ClBind(p) \/ ClWorkDir(p) \/ ClUserDir(p) \/ ClSave(p)
  PROVE  Kept'
<1>1. CASE ClLookup(p) \/ ClStart(p)
  <2>1. Stands(p)
    BY <1>1 DEF Stands, ClLookup, ClStart, At, Goto, Set, WaitLabels, ClaimLabels, FulfilLabels, CreateLabels,
       IInv, TypeOK, Job
  <2> QED
    BY <1>1, <2>1, StandsKeeps DEF ClLookup, ClStart, store, log
<1>2. CASE ClForget(p) \/ ClForgetOwner(p) \/ ClBind(p)
  <2>1. Stands(p)
    BY <1>2 DEF Stands, ClForget, ClForgetOwner, ClBind, At, Goto, WaitLabels, ClaimLabels, FulfilLabels, CreateLabels,
       IInv, TypeOK
  <2> QED
    BY <1>2, <2>1, StandsKeeps DEF ClForget, ClForgetOwner, ClBind, log
<1>3. CASE ClCreate(p)
  <2>1. ~Fault("provider")
    BY DEF Fault, IInv, TypeOK
  <2>2. PICK id : pc[p] = "cl_create" /\ Goto(p, "cl_bind") /\ Set(p, [job[p] EXCEPT !.sb = id])
    BY <1>3, <2>1 DEF ClCreate
  <2>3. Stands(p)
    BY <2>2 DEF Stands, Goto, Set, WaitLabels, ClaimLabels, FulfilLabels, CreateLabels, IInv, TypeOK, Job
  <2> QED
    BY <1>3, <2>3, StandsKeeps DEF ClCreate, store, log
<1>4. CASE ClWorkDir(p) \/ ClUserDir(p)
  <2>1. job[p].sb \in SandboxIds
    BY <1>4 DEF ClWorkDir, ClUserDir, MakeDir, IInv, HandlersOK, JobInv, SandboxLabels
  <2>2. ~ProviderFails(job[p].sb, "started")
    BY <2>1, NoFailure
  <2>3. Stands(p)
    BY <1>4, <2>2 DEF Stands, ClWorkDir, ClUserDir, MakeDir, Goto, WaitLabels, ClaimLabels, FulfilLabels, CreateLabels,
       IInv, TypeOK
  <2> QED
    BY <1>4, <2>3, StandsKeeps DEF ClWorkDir, ClUserDir, MakeDir, store, log
<1>5. CASE ClSave(p)
  <2>1. Stands(p)
    BY <1>5 DEF Stands, ClSave, LeaseMade, Goto, Reply, WaitLabels, ClaimLabels, FulfilLabels, CreateLabels, IInv, TypeOK
  <2> QED
    BY <1>5, <2>1, StandsKeeps DEF ClSave, log
<1> QED
  BY <1>1, <1>2, <1>3, <1>4, <1>5

LEMMA ReleaseTickets ==
  ASSUME IInv, AliveOK, Kept, NEW p \in Proc, Own(p), faults' = 0,
         \/ RelDelete(p) \/ RelKeys(p) \/ RelMget(p) \/ RelStop(p) \/ RelKeep(p) \/ RelKill(p)
         \/ RelUnbind(p) \/ RelOwner(p) \/ RelUnbindOwner(p) \/ RelClear(p) \/ RelSlot(p)
         \/ PqMore(p) \/ HbSave(p) \/ SwMget(p) \/ SwNext(p)
  PROVE  Kept'
<1>1. pc[p] \notin WaitLabels \cup ClaimLabels
  BY DEF RelDelete, RelKeys, RelMget, RelStop, RelKeep, RelKill, Dispose, RelUnbind, RelOwner, RelUnbindOwner,
     RelClear, RelSlot, PqMore, HbSave, SwMget, SwNext, At, WaitLabels, ClaimLabels, FulfilLabels, CreateLabels
<1>2. pc'[p] \notin {"ft_undo", "ft_fail"}
  BY DEF RelDelete, RelKeys, RelMget, RelStop, RelKeep, RelKill, Dispose, RelUnbind, RelOwner, RelUnbindOwner,
     RelClear, RelSlot, PqMore, HbSave, SwMget, SwNext, At, Goto, Reply, Released, BeginRelease, Disposal, AfterUnbind,
     IInv, TypeOK
<1>3. UNCHANGED <<tickets, queue, topic, offset>>
  BY DEF RelDelete, RelKeys, RelMget, RelStop, RelKeep, RelKill, Dispose, RelUnbind, RelOwner, RelUnbindOwner,
     RelClear, RelSlot, PqMore, HbSave, SwMget, SwNext, At, store, log
<1> QED
  BY <1>1, <1>2, <1>3, StandsKeeps DEF Stands
-----------------------------------------------------------------------------
(* processQueue and fulfillTicket *)

LEMMA PopTickets ==
  ASSUME IInv, Kept, NEW p \in Proc, Own(p), PqPop(p)
  PROVE  Kept'
<1>1. pc[p] = "pq_pop" /\ pc[p] \notin WaitLabels \cup ClaimLabels
  BY DEF PqPop, WaitLabels, ClaimLabels, FulfilLabels, CreateLabels
<1>2. CASE queue = <<>>
  <2>1. pc'[p] \notin {"ft_undo", "ft_fail"} /\ UNCHANGED <<tickets, queue, topic, offset>>
    BY <1>2 DEF PqPop, Released, Goto, Reply, log, IInv, TypeOK
  <2> QED
    BY <1>1, <2>1, StandsKeeps DEF Stands
<1>3. CASE queue # <<>>
  <2>1. UNCHANGED <<tickets, topic, offset>> /\ queue' = Tail(queue) /\ pc'[p] = "ft_claim" /\ job'[p].t = Head(queue)
    BY <1>3 DEF PqPop, Goto, Set, log, IInv, TypeOK, Job
  <2>2. PICK u \in TicketIds : u = Head(queue) /\ \A t \in TicketIds : InQueue(t) => InQueue(t)' \/ t = u
    BY <1>3, <2>1, QueueShrinks
  <2>3. Works(u, WaitLabels)'
    BY <2>1, <2>2 DEF Works, WaitLabels
  <2>4. Works(u, ClaimLabels) => Works(u, ClaimLabels)'
    BY <1>1, WorksOn
  <2>5. TicketOK(u)'
    BY <2>1, <2>3, <2>4 DEF Kept, TicketOK, Waits
  <2>6. \A t \in TicketIds : TicketOK(t)'
    BY <1>1, <2>1, <2>2, <2>5, OthersKept DEF InTopic
  <2>7. p # Consumer
    BY <1>1 DEF Kept, WorkAtOffset
  <2>8. WorkAtOffset'
    BY <2>1, <2>7, StandsAtOffset
  <2> QED
    BY <2>6, <2>8 DEF Kept
<1> QED
  BY <1>2, <1>3

\* The consumer is done with the message it worked on.
LEMMA DoneAtOffset ==
  ASSUME IInv, Kept, NEW p \in Proc, Own(p), pc[p] \in WaitLabels \cup ClaimLabels,
         NEW u \in TicketIds, job[p].t = u, UNCHANGED topic, Fulfilled(p)
  PROVE  WorkAtOffset' /\ \A t \in TicketIds \ {u} : InTopic(t) => InTopic(t)'
<1>1. CASE p = Consumer
  <2>1. offset' = offset + 1 /\ pc'[p] = "idle"
    BY <1>1 DEF Fulfilled, Reply, Goto, IInv, TypeOK
  <2>2. topic[offset + 1] = u
    BY <1>1 DEF Kept, WorkAtOffset, WaitLabels, ClaimLabels, FulfilLabels, CreateLabels
  <2>3. WorkAtOffset'
    BY <1>1, <2>1 DEF Kept, WorkAtOffset, Own
  <2> QED
    BY <2>1, <2>2, <2>3, TopicShrinks
<1>2. CASE p # Consumer
  <2>1. UNCHANGED offset /\ pc'[p] = "pq_more"
    BY <1>2 DEF Fulfilled, Goto, IInv, TypeOK
  <2> QED
    BY <1>2, <2>1, StandsAtOffset DEF InTopic
<1> QED
  BY <1>1, <1>2

LEMMA ClaimTickets ==
  ASSUME IInv, Kept, NEW p \in Proc, Own(p), FtClaim(p)
  PROVE  Kept'
<1>1. pc[p] = "ft_claim" /\ UNCHANGED <<queue, topic>>
  BY DEF FtClaim
<1>2. PICK u \in TicketIds : u = job[p].t
  BY <1>1 DEF IInv, HandlersOK, JobInv, TicketLabels
<1>3. pc[p] \in WaitLabels /\ pc[p] \notin ClaimLabels
  BY <1>1 DEF WaitLabels, ClaimLabels, FulfilLabels, CreateLabels
<1>4. CASE Claimable(u)
  <2> DEFINE j == [job[p] EXCEPT !.s = tickets[u].session, !.mode = tickets[u].mode, !.sb = None]
  <2>1. j.t = u
    BY <1>2 DEF IInv, TypeOK, Job
  <2>2. Set(p, j) /\ UNCHANGED offset /\ Goto(p, "ft_slot") /\ tickets' = [tickets EXCEPT ![u].status = "claiming"]
    BY <1>2, <1>4 DEF FtClaim
  <2> HIDE DEF j
  <2>3. pc'[p] = "ft_slot" /\ job'[p].t = u
    BY <2>1, <2>2 DEF Goto, Set, IInv, TypeOK
  <2>4. tickets[u] \in Ticket /\ tickets \in [TicketIds -> Ticket \cup {None}]
    BY <1>4 DEF Claimable, IInv, TypeOK
  <2>5. tickets'[u].status = "claiming" /\ \A t \in TicketIds \ {u} : tickets'[t] = tickets[t]
    BY <2>2, <2>4 DEF Ticket
  <2>6. TicketOK(u)'
    BY <2>3, <2>5 DEF TicketOK, Works, ClaimLabels, FulfilLabels
  <2>7. \A t \in TicketIds : TicketOK(t)'
    BY <1>1, <1>2, <2>2, <2>5, <2>6, OthersKept DEF InQueue, InTopic
  <2>8. WorkAtOffset'
    BY <1>1, <1>2, <2>2, <2>3, StandsAtOffset DEF ClaimLabels, FulfilLabels
  <2> QED
    BY <2>7, <2>8 DEF Kept
<1>5. CASE ~Claimable(u)
  <2>1. Fulfilled(p) /\ UNCHANGED tickets
    BY <1>2, <1>5 DEF FtClaim
  <2>2. WorkAtOffset' /\ \A t \in TicketIds \ {u} : InTopic(t) => InTopic(t)'
    BY <1>1, <1>2, <1>3, <2>1, DoneAtOffset
  <2>3. Works(u, ClaimLabels) => Works(u, ClaimLabels)'
    BY <1>3, WorksOn
  <2>4. TicketOK(u)'
    BY <1>5, <2>1, <2>3 DEF Kept, TicketOK, Claimable
  <2>5. \A t \in TicketIds : TicketOK(t)'
    BY <1>1, <1>2, <2>1, <2>2, <2>4, OthersKept DEF InQueue
  <2> QED
    BY <2>2, <2>5 DEF Kept
<1> QED
  BY <1>4, <1>5

\* The record a handler writes is the one it had read.
LEMMA Written ==
  ASSUME IInv, NEW p \in Proc, NEW u \in TicketIds, job[p].t = u, NEW status, NEW sb, WriteTicket(p, status, sb)
  PROVE  tickets'[u].status = status /\ \A t \in TicketIds \ {u} : tickets'[t] = tickets[t]
BY DEF WriteTicket, IInv, TypeOK

LEMMA RequeueTickets ==
  ASSUME IInv, Kept, NEW p \in Proc, Own(p), FtSlot(p) \/ FtReset(p) \/ FtRequeue(p)
  PROVE  Kept'
<1>1. CASE FtSlot(p)
  <2>1. Stands(p)
    BY <1>1 DEF Stands, FtSlot, At, Goto, Set, WaitLabels, ClaimLabels, FulfilLabels, CreateLabels, IInv, TypeOK, Job
  <2> QED
    BY <1>1, <2>1, StandsKeeps DEF FtSlot, log
<1>2. CASE FtReset(p) \/ FtRequeue(p)
  <2>1. PICK u \in TicketIds : u = job[p].t
    BY <1>2 DEF FtReset, FtRequeue, At, IInv, HandlersOK, JobInv, TicketLabels
  <2>2. pc'[p] \in {"ft_requeue", "ft_push"} /\ job' = job /\ UNCHANGED <<queue, topic, offset>>
    BY <1>2 DEF FtReset, FtRequeue, At, Goto, log, IInv, TypeOK
  <2>3. tickets'[u].status = "queued" /\ \A t \in TicketIds \ {u} : tickets'[t] = tickets[t]
    BY <1>2, <2>1, Written DEF FtReset, FtRequeue
  <2>4. TicketOK(u)'
    BY <2>1, <2>2, <2>3 DEF TicketOK, Waits, Works, WaitLabels
  <2>5. \A t \in TicketIds : TicketOK(t)'
    BY <2>1, <2>2, <2>3, <2>4, OthersKept DEF InQueue, InTopic
  <2>6. WorkAtOffset'
    BY <2>2, StandsAtOffset DEF WaitLabels
  <2> QED
    BY <2>5, <2>6 DEF Kept
<1> QED
  BY <1>1, <1>2

LEMMA FulfilTickets ==
  ASSUME IInv, Kept, NEW p \in Proc, Own(p), FtPush(p) \/ FtReady(p)
  PROVE  Kept'
<1>1. PICK u \in TicketIds : u = job[p].t
  BY DEF FtPush, FtReady, IInv, HandlersOK, JobInv, TicketLabels
<1>2. pc[p] \in {"ft_push", "ft_ready"} /\ Fulfilled(p) /\ UNCHANGED topic
  BY DEF FtPush, FtReady
<1>3. pc[p] \in WaitLabels \cup ClaimLabels
  BY <1>2 DEF WaitLabels, ClaimLabels, FulfilLabels
<1>4. WorkAtOffset' /\ \A t \in TicketIds \ {u} : InTopic(t) => InTopic(t)'
  BY <1>1, <1>2, <1>3, DoneAtOffset
<1>5. CASE FtPush(p)
  <2>1. tickets' = tickets /\ queue' = Append(queue, u) /\ pc[p] = "ft_push"
    BY <1>1, <1>5 DEF FtPush
  <2>2. InQueue(u)' /\ \A t \in TicketIds : InQueue(t) => InQueue(t)'
    BY <2>1, QueueGrows
  <2>3. Works(u, ClaimLabels) => Works(u, ClaimLabels)'
    BY <2>1, WorksOn DEF ClaimLabels, FulfilLabels, CreateLabels
  <2>4. TicketOK(u)'
    BY <2>1, <2>2, <2>3 DEF Kept, TicketOK, Waits
  <2>5. \A t \in TicketIds : TicketOK(t)'
    BY <1>1, <1>4, <2>1, <2>2, <2>4, OthersKept
  <2> QED
    BY <1>4, <2>5 DEF Kept
<1>6. CASE FtReady(p)
  <2>1. tickets'[u].status = "ready" /\ (\A t \in TicketIds \ {u} : tickets'[t] = tickets[t]) /\ queue' = queue
    BY <1>1, <1>6, Written DEF FtReady
  <2>2. TicketOK(u)'
    BY <2>1 DEF TicketOK
  <2>3. \A t \in TicketIds : TicketOK(t)'
    BY <1>1, <1>4, <2>1, <2>2, OthersKept DEF InQueue
  <2> QED
    BY <1>4, <2>3 DEF Kept
<1> QED
  BY <1>5, <1>6

LEMMA StepTickets ==
  ASSUME IInv, AliveOK, Kept, NEW p \in Proc, Step(p), faults' = 0
  PROVE  Kept'
<1>1. Own(p)
  BY StepOwn
<1>2. ~FtUndo(p) /\ ~FtFail(p)
  BY DEF FtUndo, FtFail, At, Kept, WorkAtOffset
<1> QED
  BY <1>1, <1>2, AcquireTickets, EnqueueTickets, CreateTickets, ReleaseTickets, PopTickets, ClaimTickets,
     RequeueTickets, FulfilTickets DEF Step

-----------------------------------------------------------------------------
(* The other steps *)

\* Nothing a ticket depends on changes.
LEMMA SameTickets ==
  ASSUME IInv, Kept, UNCHANGED <<tickets, queue, topic, offset>>,
         \A q \in Proc : \/ pc'[q] = pc[q] /\ job'[q] = job[q]
                         \/ /\ pc[q] \notin WaitLabels \cup ClaimLabels /\ q # Consumer
                            /\ pc'[q] \notin {"ft_undo", "ft_fail"}
  PROVE  Kept'
<1>1. \A t : (Works(t, WaitLabels) => Works(t, WaitLabels)') /\ (Works(t, ClaimLabels) => Works(t, ClaimLabels)')
  BY DEF Works
<1>2. WorkAtOffset'
  BY DEF Kept, WorkAtOffset, Proc
<1> QED
  BY <1>1, <1>2 DEF Kept, TicketOK, Waits, InQueue, InTopic

\* A request that starts, or a sweep.
LEMMA StartTickets ==
  ASSUME IInv, TInv, NEW p \in Proc, pc[p] = "idle", p # Consumer, NEW l, NEW j, Goto(p, l), Set(p, j),
         l \notin {"rel_kill", "ft_undo", "ft_fail"}, l = "rel_delete" => j.reason # "deleted",
         l \notin {"rel_keys", "rel_mget"}, UNCHANGED <<tickets, queue, topic, offset, sandbox, faults>>
  PROVE  TInv'
<1>1. pc'[p] = l /\ job'[p] = j /\ \A q \in Proc \ {p} : pc'[q] = pc[q] /\ job'[q] = job[q]
  BY DEF Goto, Set, IInv, TypeOK
<1>2. AliveOK'
  BY <1>1 DEF TInv, AliveOK
<1>3. Kept => Kept'
  BY <1>1, SameTickets DEF WaitLabels, ClaimLabels, FulfilLabels, CreateLabels
<1> QED
  BY <1>2, <1>3, KeptIs
LEMMA ClientTickets ==
  ASSUME IInv, TInv, NothingDeleted, NEW p \in Workers, NEW s \in Sessions, ClientCall(p, s)
  PROVE  TInv'
<1>1. p \in Proc /\ p # Consumer
  BY NamesAssumption DEF Proc
<1>2. pc[p] = "idle" /\ UNCHANGED <<tickets, queue, topic, offset, sandbox, faults>>
  BY DEF ClientCall, Acquire, Release, Heartbeat, Request, store, log, world
<1>3. CASE UNCHANGED <<pc, job>>
  BY <1>2, <1>3, SameTickets, KeptIs DEF AliveOK
<1>4. ASSUME NEW mode \in ModesOf[s], Acquire(p, s, mode), ~UNCHANGED <<pc, job>>
      PROVE  TInv'
  BY <1>1, <1>2, <1>4, StartTickets DEF Acquire
<1>5. ASSUME NEW reason \in Reasons, Release(p, s, reason), ~UNCHANGED <<pc, job>>
      PROVE  TInv'
  <2> DEFINE j == [[NoJob EXCEPT !.client = s] EXCEPT
                     !.s = s, !.mode = leases[s].mode, !.sb = leases[s].sb, !.reason = reason]
  <2>1. Goto(p, "rel_delete") /\ Set(p, j)
    BY <1>5 DEF Release, BeginRelease
  <2>2. j.reason # "deleted"
    BY DEF NoJob, NothingDeleted
  <2> HIDE DEF j
  <2> QED
    BY <1>1, <1>2, <2>1, <2>2, StartTickets
<1>6. ASSUME Heartbeat(p, s), ~UNCHANGED <<pc, job>>
      PROVE  TInv'
  BY <1>1, <1>2, <1>6, StartTickets DEF Heartbeat
<1> QED
  BY <1>3, <1>4, <1>5, <1>6 DEF ClientCall

LEMMA ConsumeTickets ==
  ASSUME IInv, TInv, Consume
  PROVE  TInv'
<1>1. /\ pc[Consumer] = "idle" /\ Consumer \in Proc /\ offset < Len(topic)
      /\ UNCHANGED <<tickets, queue, topic, offset, sandbox, faults>>
  BY DEF Consume, At, Proc, store, log, world, bounds
<1>2. pc'[Consumer] = "ft_claim" /\ job'[Consumer].t = topic[offset + 1]
      /\ \A q \in Proc \ {Consumer} : pc'[q] = pc[q] /\ job'[q] = job[q]
  BY <1>1 DEF Consume, At, Goto, Set, NoJob, IInv, TypeOK
<1>3. AliveOK'
  BY <1>1, <1>2, KeptIs DEF AliveOK
<1>4. \A t : (Works(t, WaitLabels) => Works(t, WaitLabels)') /\ (Works(t, ClaimLabels) => Works(t, ClaimLabels)')
  BY <1>1, <1>2 DEF Works, WaitLabels, ClaimLabels, FulfilLabels, CreateLabels
<1>5. Kept => WorkAtOffset'
  BY <1>1, <1>2 DEF Kept, WorkAtOffset, WaitLabels
<1>6. Kept => Kept'
  BY <1>1, <1>4, <1>5 DEF Kept, TicketOK, Waits, InQueue, InTopic
<1> QED
  BY <1>1, <1>3, <1>6, KeptIs

LEMMA InitTickets == Init => TInv
<1> SUFFICES ASSUME Init
             PROVE  TInv
  OBVIOUS
<1>1. AliveOK
  BY DEF Init, AliveOK
<1>2. Kept
  BY DEF Init, Kept, WorkAtOffset, TicketOK, Proc
<1> QED
  BY <1>1, <1>2, KeptIs

LEMMA NextTInv == NothingDeleted /\ IInv /\ TInv /\ [Next]_vars => TInv'
<1> SUFFICES ASSUME NothingDeleted, IInv, TInv, [Next]_vars
             PROVE  TInv'
  OBVIOUS
<1>1. ASSUME NEW p \in Workers, NEW s \in Sessions, ClientCall(p, s)
      PROVE  TInv'
  BY <1>1, ClientTickets
<1>2. ASSUME NEW p \in Workers, SandboxCall(p)
      PROVE  TInv'
  <2>1. UNCHANGED <<pc, job, tickets, queue, topic, offset>> /\ (faults' = 0 => faults = 0)
    BY <1>2 DEF SandboxCall, Exec, Provider, ProviderFails, Fault, store, log, IInv, TypeOK
  <2>2. AliveOK'
    BY <1>2, KeptIs DEF SandboxCall, Exec, Provider, ProviderFails, AliveOK, IInv, TypeOK
  <2> QED
    BY <2>1, <2>2, SameTickets, KeptIs
<1>3. ASSUME NEW p \in Sweepers, SwKeys(p)
      PROVE  TInv'
  <2>1. p \in Proc /\ p # Consumer
    BY NamesAssumption DEF Proc
  <2> QED
    BY <1>3, <2>1, StartTickets DEF SwKeys, At, store, log, world, bounds
<1>4. ASSUME Consume
      PROVE  TInv'
  BY <1>4, ConsumeTickets
<1>5. ASSUME NEW p \in Proc, Step(p)
      PROVE  TInv'
  BY <1>5, StepAlive, StepFaults, StepTickets, KeptIs
<1>6. ASSUME NEW s \in Sessions, Expire(s)
      PROVE  TInv'
  BY <1>6, SameTickets, KeptIs DEF Expire, AliveOK, log, world, bounds
<1>7. ASSUME Crash
      PROVE  TInv'
  <2>1. AliveOK'
    BY <1>7, KeptIs DEF Crash, AliveOK, world
  <2>2. faults' # 0
    BY <1>7 DEF Crash, Fault, IInv, TypeOK
  <2> QED
    BY <2>1, <2>2, KeptIs
<1>8. ASSUME UNCHANGED vars
      PROVE  TInv'
  BY <1>8, SameTickets, KeptIs DEF AliveOK, vars, store, log, world, bounds
<1> QED
  BY <1>1, <1>2, <1>3, <1>4, <1>5, <1>6, <1>7, <1>8 DEF Next, AwaitCalls

\* A broker whose idle policy and whose clients delete no sandbox loses no
\* ticket: while nothing has failed, a ticket that waits is in the list, in the
\* part of the topic not yet consumed or with a handler about to push or claim
\* it, and a claimed one has a handler that fulfils it or puts it back.
THEOREM TicketsKept ==
  ASSUME NothingDeleted
  PROVE  Spec => []NoLostTicket
<1>1. TInv => NoLostTicket
  BY DEF TInv
<1> QED
  BY <1>1, InitTickets, NextTInv, Invariance, PTL DEF Spec

-----------------------------------------------------------------------------
(* A ticket belongs to its session *)

\* No ticket is taken away or given to another session.
SessionsStay ==
  \A t \in TicketIds : tickets[t] # None => tickets'[t] # None /\ tickets'[t].session = tickets[t].session

\* The ticket of p's work, if any, and its session are those it had before.
Carries(p) ==
  /\ job'[p].t \in {job[p].t, None}
  /\ job'[p].t # None /\ pc'[p] \in TicketWork => pc[p] \in TicketWork /\ job'[p].s = job[p].s

LEMMA GotoCarries ==
  ASSUME IInv, NEW p \in Proc, NEW l, Goto(p, l), UNCHANGED job,
         l \in TicketWork /\ job[p].t # None => pc[p] \in TicketWork
  PROVE  Carries(p)
BY DEF IInv, TypeOK, Carries, Goto

LEMMA SetCarries ==
  ASSUME IInv, NEW p \in Proc, NEW l, NEW j, Goto(p, l), Set(p, j), j.t \in {job[p].t, None},
         l \in TicketWork /\ j.t # None => pc[p] \in TicketWork /\ j.s = job[p].s
  PROVE  Carries(p)
BY DEF IInv, TypeOK, Carries, Goto, Set

LEMMA ReplyCarries ==
  ASSUME IInv, NEW p \in Proc, Reply(p)
  PROVE  Carries(p)
BY SetCarries DEF Reply, NoJob

LEMMA EndsCarries ==
  ASSUME IInv, NEW p \in Proc, Released(p) \/ Fulfilled(p) \/ FulfilThrows(p)
  PROVE  Carries(p)
<1>1. Released(p) => Carries(p)
  BY ReplyCarries, SetCarries DEF Released, NoJob
<1>2. "pq_more" \notin TicketWork
  BY DEF TicketWork, CreateLabels
<1> QED
  BY <1>1, <1>2, ReplyCarries, GotoCarries DEF Fulfilled, FulfilThrows

LEMMA LeaseCarries ==
  ASSUME IInv, NEW p \in Proc, pc[p] \in CreateLabels, LeaseFailed(p) \/ LeaseMade(p)
  PROVE  Carries(p)
BY ReplyCarries, GotoCarries DEF LeaseFailed, LeaseMade, TicketWork, CreateLabels

\* The steps that take up no ticket.
LEMMA StepCarries ==
  ASSUME IInv, NEW p \in Proc, Step(p), ~(EnqSet(p) \/ PqPop(p) \/ FtClaim(p))
  PROVE  Carries(p)
<1>1. job[p] \in Job
  BY DEF IInv, TypeOK
<1>2. CASE AcqAttach(p) \/ AcqSlot(p) \/ AcqUndo(p) \/ EnqPush(p) \/ EnqPublish(p)
  BY <1>1, <1>2, GotoCarries, SetCarries, ReplyCarries
  DEF AcqAttach, AcqSlot, AcqUndo, EnqPush, EnqPublish, At, Job, TicketWork, CreateLabels
<1>3. CASE ClLookup(p) \/ ClStart(p) \/ ClForget(p) \/ ClForgetOwner(p) \/ ClBind(p)
  BY <1>1, <1>3, GotoCarries, SetCarries
  DEF ClLookup, ClStart, ClForget, ClForgetOwner, ClBind, At, Job, TicketWork, CreateLabels
<1>4. CASE ClCreate(p) \/ ClWorkDir(p) \/ ClUserDir(p) \/ ClSave(p)
  BY <1>1, <1>4, GotoCarries, SetCarries, LeaseCarries
  DEF ClCreate, ClWorkDir, ClUserDir, ClSave, MakeDir, Job, TicketWork, CreateLabels
<1>5. CASE RelDelete(p) \/ RelKeys(p) \/ RelMget(p) \/ RelStop(p) \/ RelKeep(p) \/ RelKill(p)
  BY <1>1, <1>5, GotoCarries, SetCarries, ReplyCarries
  DEF RelDelete, RelKeys, RelMget, RelStop, RelKeep, RelKill, Dispose, Disposal, At, Job, TicketWork, CreateLabels
<1>6. CASE RelUnbind(p) \/ RelOwner(p) \/ RelUnbindOwner(p) \/ RelClear(p) \/ RelSlot(p)
  BY <1>6, GotoCarries
  DEF RelUnbind, RelOwner, RelUnbindOwner, RelClear, RelSlot, AfterUnbind, At, TicketWork, CreateLabels
<1>7. CASE PqMore(p)
  BY <1>7, GotoCarries, EndsCarries DEF PqMore, TicketWork, CreateLabels
<1>8. CASE FtSlot(p) \/ FtReset(p) \/ FtRequeue(p) \/ FtPush(p) \/ FtReady(p) \/ FtUndo(p) \/ FtFail(p)
  BY <1>1, <1>8, GotoCarries, SetCarries, EndsCarries
  DEF FtSlot, FtReset, FtRequeue, FtPush, FtReady, FtUndo, FtFail, At, Job, TicketWork, CreateLabels
<1>9. CASE HbSave(p) \/ SwMget(p)
  BY <1>9, SetCarries, ReplyCarries DEF HbSave, SwMget, NoJob
<1>10. CASE SwNext(p)
  <2>1. PICK s \in job[p].todo :
          \/ BeginRelease(p, s, "idle", [NoJob EXCEPT !.todo = job[p].todo \ {s}])
          \/ Reply(p)
          \/ Set(p, [NoJob EXCEPT !.todo = job[p].todo \ {s}]) /\ UNCHANGED pc
    BY <1>10 DEF SwNext
  <2> DEFINE r == [NoJob EXCEPT !.todo = job[p].todo \ {s}]
             j == [r EXCEPT !.s = s, !.mode = leases[s].mode, !.sb = leases[s].sb, !.reason = "idle"]
  <2>2. j.t = None /\ r.t = None
    BY DEF NoJob
  <2>3. BeginRelease(p, s, "idle", r) => Goto(p, "rel_delete") /\ Set(p, j)
    BY DEF BeginRelease
  <2> HIDE DEF j, r
  <2>4. CASE Set(p, r) /\ UNCHANGED pc
    BY <2>2, <2>4 DEF Set, Carries, IInv, TypeOK
  <2> QED
    BY <2>1, <2>2, <2>3, <2>4, SetCarries, ReplyCarries DEF r
<1> QED
  BY <1>2, <1>3, <1>4, <1>5, <1>6, <1>7, <1>8, <1>9, <1>10 DEF Step

LEMMA StepSessions ==
  ASSUME IInv, KInv, NEW p \in Proc, Step(p)
  PROVE  SessionsStay
<1>1. CASE EnqSet(p)
  <2>1. PICK u \in TicketIds : tickets[u] = None /\ tickets' = [tickets EXCEPT ![u] = NewTicket(job[p])]
    BY <1>1, AnyOfIn DEF EnqSet
  <2> QED
    BY <2>1 DEF SessionsStay, IInv, TypeOK
<1>2. CASE FtClaim(p)
  <2>1. job[p].t \in TicketIds
    BY <1>2 DEF FtClaim, IInv, HandlersOK, JobInv, TicketLabels
  <2> DEFINE r == [tickets[job[p].t] EXCEPT !.status = "claiming"]
  <2>2. ASSUME Claimable(job[p].t) PROVE r # None /\ r.session = tickets[job[p].t].session
    <3>1. tickets[job[p].t] \in Ticket
      BY <2>1, <2>2 DEF Claimable, IInv, TypeOK
    <3>2. r \in Ticket
      BY <3>1 DEF Ticket
    <3> QED
      BY <3>1, <3>2, RecordsAssumption DEF Ticket
  <2>3. (Claimable(job[p].t) /\ tickets' = [tickets EXCEPT ![job[p].t] = r]) \/ UNCHANGED tickets
    BY <1>2 DEF FtClaim
  <2> HIDE DEF r
  <2> QED
    BY <2>1, <2>2, <2>3 DEF SessionsStay, IInv, TypeOK
<1>3. CASE FtReset(p) \/ FtRequeue(p) \/ FtFail(p) \/ FtReady(p)
  <2>1. pc[p] \in TicketWork /\ job[p].t \in TicketIds /\ job[p].s \in Sessions /\ job[p].mode \in Modes
    BY <1>3 DEF FtReset, FtRequeue, FtFail, FtReady, At, TicketWork, IInv, HandlersOK, JobInv, TicketLabels,
       SessionLabels, Labels
  <2>2. PICK status \in {"queued", "ready"}, sb \in SandboxIds \cup {None} : WriteTicket(p, status, sb)
    <3>1. FtReady(p) => job[p].sb \in SandboxIds
      BY DEF FtReady, IInv, HandlersOK, JobInv, SandboxLabels
    <3> QED
      BY <1>3, <3>1 DEF FtReset, FtRequeue, FtFail, FtReady
  <2> DEFINE r == [session |-> job[p].s, mode |-> job[p].mode, status |-> status, sb |-> sb]
  <2>3. r \in Ticket /\ r.session = job[p].s
    BY <2>1 DEF Ticket
  <2>4. tickets' = [tickets EXCEPT ![job[p].t] = r]
    BY <2>2 DEF WriteTicket
  <2> HIDE DEF r
  <2>5. tickets[job[p].t].session = job[p].s
    BY <2>1, NamesAssumption DEF KInv
  <2> QED
    BY <2>1, <2>3, <2>4, <2>5, RecordsAssumption DEF SessionsStay, IInv, TypeOK
<1>4. CASE ~(EnqSet(p) \/ FtClaim(p) \/ FtReset(p) \/ FtRequeue(p) \/ FtFail(p) \/ FtReady(p))
  <2>1. UNCHANGED tickets
    BY <1>4 DEF Step, AcqAttach, AcqSlot, AcqUndo, EnqPush, EnqPublish, ClLookup, ClStart, ClForget, ClForgetOwner,
       ClCreate, ClBind, ClWorkDir, ClUserDir, ClSave, MakeDir, RelDelete, RelKeys, RelMget, RelStop, RelKeep, RelKill,
       Dispose, RelUnbind, RelOwner, RelUnbindOwner, RelClear, RelSlot, PqPop, PqMore, FtSlot, FtPush, FtUndo,
       HbSave, SwMget, SwNext, store
  <2> QED
    BY <2>1 DEF SessionsStay
<1> QED
  BY <1>1, <1>2, <1>3, <1>4

\* The tickets in a list that grows by one known ticket, or shrinks, are known.
LEMMA KnownGrows ==
  ASSUME SessionsStay, NEW q \in Seq(TicketIds), NEW r \in Seq(TicketIds),
         \A i \in DOMAIN q : tickets[q[i]] # None,
         \/ r = q
         \/ q # <<>> /\ r = Tail(q)
         \/ \E u \in TicketIds : tickets[u] # None /\ r = Append(q, u)
  PROVE  \A i \in DOMAIN r : tickets'[r[i]] # None
<1>1. \A i \in DOMAIN r : r[i] \in TicketIds /\ tickets[r[i]] # None
  <2>1. CASE r = q
    BY <2>1
  <2>2. CASE q # <<>> /\ r = Tail(q)
    BY <2>2
  <2>3. ASSUME NEW u \in TicketIds, tickets[u] # None, r = Append(q, u)
        PROVE  \A i \in DOMAIN r : r[i] \in TicketIds /\ tickets[r[i]] # None
    BY <2>3
  <2> QED
    BY <2>1, <2>2, <2>3
<1> QED
  BY <1>1 DEF SessionsStay

LEMMA StepLists ==
  ASSUME IInv, KInv, NEW p \in Proc, Step(p)
  PROVE  /\ \A i \in DOMAIN queue' : tickets'[queue'[i]] # None
         /\ \A i \in DOMAIN topic' : tickets'[topic'[i]] # None
<1>1. SessionsStay /\ IInv'
  BY StepSessions, StepKeeps
<1>2. queue \in Seq(TicketIds) /\ queue' \in Seq(TicketIds) /\ topic \in Seq(TicketIds) /\ topic' \in Seq(TicketIds)
  BY <1>1 DEF IInv, TypeOK
<1>3. pc[p] \in TicketLabels => job[p].t \in TicketIds /\ tickets[job[p].t] # None
  BY NamesAssumption DEF IInv, HandlersOK, JobInv, KInv
<1>4. \/ UNCHANGED <<queue, topic>>
      \/ queue' = queue /\ topic' = Append(topic, job[p].t) /\ pc[p] \in TicketLabels
      \/ topic' = topic /\ queue' = Append(queue, job[p].t) /\ pc[p] \in TicketLabels
      \/ topic' = topic /\ queue # <<>> /\ queue' = Tail(queue)
  BY DEF Step, AcqAttach, AcqSlot, AcqUndo, EnqSet, EnqPush, EnqPublish, ClLookup, ClStart, ClForget,
     ClForgetOwner, ClCreate, ClBind, ClWorkDir, ClUserDir, ClSave, MakeDir, RelDelete, RelKeys, RelMget, RelStop,
     RelKeep, RelKill, Dispose, RelUnbind, RelOwner, RelUnbindOwner, RelClear, RelSlot, PqPop, PqMore, FtClaim, FtSlot,
     FtReset, FtRequeue, FtPush, FtReady, FtUndo, FtFail, HbSave, SwMget, SwNext, At, store, log, TicketLabels
<1> QED
  BY <1>1, <1>2, <1>3, <1>4, KnownGrows DEF KInv

LEMMA StepKnown ==
  ASSUME IInv, KInv, NEW p \in Proc, Step(p)
  PROVE  KInv'
<1>1. SessionsStay /\ Own(p)
  BY StepSessions, StepOwn
<1>2. \A q \in Proc : job[q].t \in TicketIds \cup {None}
  BY DEF IInv, TypeOK, Job
<1>3. ASSUME NEW q \in Proc \ {p}, job'[q].t # None
      PROVE  /\ tickets'[job'[q].t] # None
             /\ pc'[q] \in TicketWork => tickets'[job'[q].t].session = job'[q].s
  BY <1>1, <1>2, <1>3 DEF Own, KInv, SessionsStay
<1>4. ASSUME job'[p].t # None
      PROVE  /\ tickets'[job'[p].t] # None
             /\ pc'[p] \in TicketWork => tickets'[job'[p].t].session = job'[p].s
  <2>1. CASE EnqSet(p)
    <3>1. PICK u \in TicketIds : tickets' = [tickets EXCEPT ![u] = NewTicket(job[p])] /\ Set(p, [job[p] EXCEPT !.t = u])
      BY <2>1 DEF EnqSet, AnyOf
    <3>2. job'[p].t = u /\ job'[p].s = job[p].s
      BY <3>1 DEF Set, IInv, TypeOK, Job
    <3>3. NewTicket(job[p]) \in Ticket /\ NewTicket(job[p]).session = job[p].s
      BY <2>1 DEF EnqSet, At, NewTicket, Ticket, IInv, HandlersOK, JobInv, SessionLabels, Labels
    <3> QED
      BY <3>1, <3>2, <3>3, RecordsAssumption DEF IInv, TypeOK
  <2>2. CASE PqPop(p) /\ queue # <<>>
    <3>1. pc'[p] = "ft_claim" /\ job'[p].t = Head(queue)
      BY <2>2 DEF PqPop, Goto, Set, IInv, TypeOK, Job
    <3>2. queue \in Seq(TicketIds) /\ 1 \in DOMAIN queue /\ Head(queue) = queue[1] /\ queue[1] \in TicketIds
      BY <2>2 DEF IInv, TypeOK
    <3> QED
      BY <1>1, <3>1, <3>2 DEF KInv, SessionsStay, TicketWork, CreateLabels
  <2>3. CASE FtClaim(p) /\ Claimable(job[p].t)
    <3>1. job[p].t \in TicketIds
      BY <2>3 DEF FtClaim, IInv, HandlersOK, JobInv, TicketLabels
    <3> DEFINE j == [job[p] EXCEPT !.s = tickets[job[p].t].session, !.mode = tickets[job[p].t].mode, !.sb = None]
    <3>2. Set(p, j)
      BY <2>3 DEF FtClaim
    <3>3. j.t = job[p].t /\ j.s = tickets[job[p].t].session
      BY DEF IInv, TypeOK, Job
    <3> HIDE DEF j
    <3>4. job'[p] = j
      BY <3>2 DEF Set, IInv, TypeOK
    <3> QED
      BY <1>1, <2>3, <3>1, <3>3, <3>4 DEF SessionsStay, Claimable
  <2>4. ASSUME Carries(p)
        PROVE  /\ tickets'[job'[p].t] # None
               /\ pc'[p] \in TicketWork => tickets'[job'[p].t].session = job'[p].s
    BY <1>1, <1>2, <1>4, <2>4 DEF Carries, KInv, SessionsStay
  <2>5. PqPop(p) /\ queue = <<>> => Carries(p)
    BY EndsCarries DEF PqPop
  <2>6. FtClaim(p) /\ ~Claimable(job[p].t) => Carries(p)
    BY EndsCarries DEF FtClaim
  <2> QED
    BY <2>1, <2>2, <2>3, <2>4, <2>5, <2>6, StepCarries
<1> QED
  BY <1>3, <1>4, StepLists DEF KInv

\* A request begins, a sweep or a restart: only the consumer takes up a ticket.
LEMMA StartsKnown ==
  ASSUME IInv, KInv, UNCHANGED <<tickets, queue, topic>>,
         \A q \in Proc : \/ pc'[q] = pc[q] /\ job'[q] = job[q]
                         \/ job'[q].t = None
                         \/ pc'[q] = "ft_claim" /\ job'[q].t \in TicketIds /\ tickets[job'[q].t] # None
  PROVE  KInv'
BY DEF KInv, TicketWork, CreateLabels

LEMMA ClientKnown ==
  ASSUME IInv, KInv, NEW p \in Workers, NEW s \in Sessions, ClientCall(p, s)
  PROVE  KInv'
<1>1. UNCHANGED <<tickets, queue, topic>>
  BY DEF ClientCall, Acquire, Release, Heartbeat, store, log
<1>2. ASSUME NEW l, NEW j, Goto(p, l), Set(p, j), j.t = None PROVE KInv'
  BY <1>1, <1>2, StartsKnown DEF Goto, Set, IInv, TypeOK, Proc
<1>3. CASE UNCHANGED <<pc, job>>
  BY <1>1, <1>3, StartsKnown
<1>4. ASSUME NEW mode, Acquire(p, s, mode), leases[s] = None PROVE KInv'
  BY <1>2, <1>4 DEF Acquire, NoJob
<1>5. ASSUME NEW reason, BeginRelease(p, s, reason, [NoJob EXCEPT !.client = s]) PROVE KInv'
  <2> DEFINE j == [[NoJob EXCEPT !.client = s] EXCEPT !.s = s, !.mode = leases[s].mode,
                                                     !.sb = leases[s].sb, !.reason = reason]
  <2>1. Goto(p, "rel_delete") /\ Set(p, j) /\ j.t = None
    BY <1>5 DEF BeginRelease, NoJob
  <2> HIDE DEF j
  <2> QED
    BY <1>2, <2>1
<1>6. CASE Heartbeat(p, s) /\ leases[s] # None
  BY <1>2, <1>6 DEF Heartbeat, NoJob
<1> QED
  BY <1>3, <1>4, <1>5, <1>6 DEF ClientCall, Acquire, Release, Heartbeat

LEMMA ConsumeKnown ==
  ASSUME IInv, KInv, Consume
  PROVE  KInv'
<1>1. UNCHANGED <<tickets, queue, topic>>
  BY DEF Consume, store, log
<1>2. pc'[Consumer] = "ft_claim" /\ job'[Consumer].t = topic[offset + 1]
      /\ \A q \in Proc \ {Consumer} : pc'[q] = pc[q] /\ job'[q] = job[q]
  BY DEF Consume, At, Goto, Set, NoJob, IInv, TypeOK, Proc
<1>3. topic[offset + 1] \in TicketIds /\ offset + 1 \in DOMAIN topic
  BY DEF Consume, IInv, TypeOK
<1>4. tickets[topic[offset + 1]] # None
  BY <1>3 DEF KInv
<1> QED
  BY <1>1, <1>2, <1>3, <1>4, StartsKnown

LEMMA OtherKnown ==
  ASSUME IInv, KInv, Crash \/ (\E s \in Sessions : Expire(s)) \/ (\E p \in Sweepers : SwKeys(p))
  PROVE  KInv'
<1>1. UNCHANGED <<tickets, queue, topic>>
  BY DEF Crash, Expire, SwKeys, store, log
<1>2. \/ UNCHANGED <<pc, job>>
      \/ job' = [p \in Proc |-> NoJob]
      \/ \E p \in Sweepers : Goto(p, "sw_mget") /\ Set(p, [NoJob EXCEPT !.seen = Leased])
  BY DEF Crash, Expire, SwKeys, At
<1>3. NoJob.t = None /\ [NoJob EXCEPT !.seen = Leased].t = None
  BY DEF NoJob
<1> QED
  BY <1>1, <1>2, <1>3, StartsKnown DEF Goto, Set, IInv, TypeOK, Proc

LEMMA InitKnown == Init => KInv
BY DEF Init, KInv, NoJob

LEMMA NextKnown ==
  ASSUME IInv, KInv, [Next]_vars
  PROVE  KInv'
<1>1. CASE UNCHANGED vars
  BY <1>1, StartsKnown DEF vars, store, log
<1>2. ASSUME NEW p \in Workers, SandboxCall(p) PROVE KInv'
  BY <1>2, StartsKnown DEF SandboxCall, Exec, store, log
<1> QED
  BY <1>1, <1>2, ClientKnown, ConsumeKnown, OtherKnown, StepKnown DEF Next, AwaitCalls

\* Whoever serves a ticket, the drain of a release, the consumer or the request
\* that wrote it, works for the session that asked for it, whatever is put
\* back, claimed twice, redelivered or cut off by a restart; and the list and
\* the topic name only tickets that are in Redis.
THEOREM TicketsBelong == Spec => []KInv
BY InitKnown, NextKnown, Invariance, PTL DEF Spec
=============================================================================
