----------------------------- MODULE Service_proofs -----------------------------
(***************************************************************************)
(* Theorems about Service, for every value of its constants.                *)
(***************************************************************************)
EXTENDS Service, FiniteSetTheorems, TLAPS

(***************************************************************************)
(* The inductive invariant. A store's count of active jobs is what the caps   *)
(* bound, and a run counts as active for as long as its process() is at work: *)
(* so its slot is held until its suite has ended. What one stage hands to the  *)
(* next is written before it is promised, and is never taken back; and who     *)
(* works has found it in the directory of the tenant that both belong to.      *)
(***************************************************************************)
Tenants == {"none"} \cup {Tenant(key) : key \in Keys}
Busy(Kind) == Active(stored \cap Kind)
Share(t) == {k \in Busy(Runs) : tenantId[k] = t}

Counted ==
    /\ gauge = Cardinality(Busy(Jobs)) /\ Cardinality(Busy(Jobs)) <= MaxActive
    /\ Cardinality(Busy(Runs)) <= MaxActive
    /\ \A t \in Tenants : Cardinality(Share(t)) <= MaxRuns

Begun(i) == phase[i] = "none" <=> status[i] = "none"
Slotted(i) ==
    i \in Runs /\ phase[i] \notin {"none", "over"} => i \in stored /\ status[i] = "active"
Handed(i) ==
    /\ i \in Jobs \cup Suites /\ disk[i] # "none" => status[i] # "none"
    /\ i \in promised => disk[i] = "full" /\ phase[i] = "over"
Fed(i) ==
    i \in Suites \cup Runs /\ phase[i] = "working" =>
        tenantId[Source[i]] = tenantId[i] /\ disk[Source[i]] # "none"

ItemInv(i) == Begun(i) /\ Slotted(i) /\ Handed(i) /\ Fed(i)
Inv == TypeOK /\ Counted /\ \A i \in Ids : ItemInv(i)

-----------------------------------------------------------------------------
(* The kinds are apart, and what they count is finite.                         *)
LEMMA Kinds ==
    /\ \A i \in Jobs : KindOf(i) = Jobs /\ i \notin Suites \cup Runs
    /\ \A i \in Suites : KindOf(i) = Suites /\ i \notin Jobs \cup Runs
    /\ \A i \in Runs : KindOf(i) = Runs /\ i \notin Jobs \cup Suites
<1>1. /\ \A i \in Jobs : i \notin Suites \cup Runs
      /\ \A i \in Suites : i \notin Jobs \cup Runs
      /\ \A i \in Runs : i \notin Jobs \cup Suites
  BY ServiceConstants DEF ServiceConstants
<1>2. \A Kind \in {Jobs, Suites, Runs} : \A i \in Kind : KindOf(i) = Kind
  <2> SUFFICES ASSUME NEW Kind \in {Jobs, Suites, Runs}, NEW i \in Kind
               PROVE  KindOf(i) = Kind
    OBVIOUS
  <2>1. \E K \in {Jobs, Suites, Runs} : i \in K
    OBVIOUS
  <2>2. KindOf(i) \in {Jobs, Suites, Runs} /\ i \in KindOf(i)
    BY <2>1, Zenon DEF KindOf
  <2> QED
    BY <1>1, <2>2
<1> QED
  BY <1>1, <1>2

(* Every set of records is finite. *)
LEMMA Finite ==
  ASSUME NEW S \in SUBSET Ids
  PROVE  IsFiniteSet(S) /\ Cardinality(S) \in Nat
BY FS_Subset, FS_CardinalityType, ServiceConstants DEF ServiceConstants

(* What the constants say of sources, keys and caps. *)
LEMMA Sources ==
    /\ \A i \in Suites \cup Runs : Source[i] \in Jobs \cup Suites /\ Source[i] \in Ids
    /\ \A i \in Suites : Source[i] \in Jobs
    /\ \A i \in Ids : KeysOf[i] \subseteq Keys
    /\ MaxActive \in Nat \ {0} /\ MaxRuns \in Nat \ {0} /\ MaxCrashes \in Nat
BY ServiceConstants DEF ServiceConstants, Ids

(* The gauge counts jobs. *)
LEMMA GaugeType ==
  ASSUME NEW S \in SUBSET Ids, NEW st
  PROVE  ActiveJobs(S, st) \in 0..Cardinality(Jobs)
<1> DEFINE T == {i \in S \cap Jobs : st[i] = "active"}
<1>1. Jobs \in SUBSET Ids /\ T \in SUBSET Jobs
  BY DEF Ids
<1>2. IsFiniteSet(Jobs) /\ Cardinality(Jobs) \in Nat /\ Cardinality(T) \in Nat
  BY <1>1, Finite
<1>3. Cardinality(T) <= Cardinality(Jobs)
  BY <1>1, <1>2, FS_Subset
<1> QED
  BY <1>2, <1>3 DEF ActiveJobs

-----------------------------------------------------------------------------
(* Types.                                                                     *)
LEMMA EvictsType ==
  ASSUME TypeOK, NEW expired
  PROVE  Evicts(expired) \in [Ids -> {"none", "active", "lost"} \cup Finals]
BY DEF TypeOK, Evicts

(* An accepted submission keeps the types. *)
LEMMA AcceptedType ==
  ASSUME TypeOK, NEW i \in Ids, NEW key \in KeysOf[i], NEW start \in {"reading", "working"},
         Accepted(i, key, start), gauge' \in 0..Cardinality(Jobs),
         i \notin children
  PROVE  TypeOK'
<1>1. Tenant(key) \in Tenants
  BY Sources DEF Tenants
<1>2. /\ stored' \subseteq Ids
      /\ status' \in [Ids -> {"none", "active", "lost"} \cup Finals]
  BY EvictsType DEF Accepted, TypeOK
<1> QED
  BY <1>1, <1>2 DEF Accepted, TypeOK, Tenants

(* The steps, by what they do to an item.                                      *)
Asks(i, key) ==
    \/ Refused(i, key)
    \/ i \in Jobs /\ SubmitJob(i, key)
    \/ i \in Suites /\ SubmitSuite(i, key)
    \/ i \in Runs /\ SubmitRun(i, key)
GoesOn(i) ==
    \/ i \in Jobs /\ JobDecides(i)
    \/ i \in Suites /\ (SuiteStarves(i) \/ SuiteDecides(i))
    \/ i \in Runs /\ RunStarves(i)
    \/ FlushFails(i)
Cancels(i, key) ==
    \/ i \in Jobs /\ CancelJob(i, key)
    \/ i \in Suites /\ CancelSuite(i, key)
    \/ i \in Runs /\ CancelRun(i, key)
ItemStep(i) ==
    \/ \E key \in KeysOf[i] : Asks(i, key)
    \/ GoesOn(i)
    \/ i \in Suites /\ SuiteLoads(i)
    \/ i \in Runs /\ (RunStarts(i) \/ RunDecides(i) \/ OrphanEnds(i))
    \/ Flushed(i) \/ Ends(i)
    \/ \E key \in Keys : Cancels(i, key)

(* A step is about one record, or it is a restart. *)
LEMMA NextCases ==
    [Next]_vars => (\E i \in Ids : ItemStep(i)) \/ Restart \/ UNCHANGED vars
<1> SUFFICES ASSUME Next PROVE (\E i \in Ids : ItemStep(i)) \/ Restart \/ UNCHANGED vars
  OBVIOUS
<1>1. ASSUME NEW i \in Jobs, JobDecides(i) \/ \E key \in KeysOf[i] : SubmitJob(i, key)
      PROVE  i \in Ids /\ ItemStep(i)
  BY <1>1 DEF ItemStep, GoesOn, Asks, Ids
<1>2. ASSUME NEW i \in Suites, \/ SuiteLoads(i) \/ SuiteStarves(i) \/ SuiteDecides(i)
                               \/ \E key \in KeysOf[i] : SubmitSuite(i, key)
      PROVE  i \in Ids /\ ItemStep(i)
  BY <1>2 DEF ItemStep, GoesOn, Asks, Ids
<1>3. ASSUME NEW i \in Runs, \/ RunStarts(i) \/ RunStarves(i) \/ RunDecides(i) \/ OrphanEnds(i)
                             \/ \E key \in KeysOf[i] : SubmitRun(i, key)
      PROVE  i \in Ids /\ ItemStep(i)
  BY <1>3 DEF ItemStep, GoesOn, Asks, Ids
<1>4. ASSUME NEW i \in Ids, \/ Flushed(i) \/ FlushFails(i) \/ Ends(i)
                            \/ \E key \in KeysOf[i] : Refused(i, key)
      PROVE  ItemStep(i)
  BY <1>4 DEF ItemStep, GoesOn, Asks
<1>5. ASSUME NEW key \in Keys, \/ \E i \in Jobs : CancelJob(i, key)
                               \/ \E i \in Suites : CancelSuite(i, key)
                               \/ \E i \in Runs : CancelRun(i, key)
      PROVE  \E i \in Ids : ItemStep(i)
  BY <1>5 DEF ItemStep, Cancels, Ids
<1> QED
  BY <1>1, <1>2, <1>3, <1>4, <1>5 DEF Next, Rest

(* The steps with which a job that is at work goes on and nothing else happens. *)
Leaves(i) ==
    /\ phase[i] \notin {"none", "over"} /\ i \notin children
    /\ \E p \in {"flushing", "ending", "over"} : phase' = [phase EXCEPT ![i] = p]
    /\ outcome' \in [Ids -> Finals] /\ aborted' \subseteq aborted
    /\ UNCHANGED <<store, disk, children, orphans, promised, crashes>>

(* What ends a step of a record leaves its place to the next await. *)
LEMMA Leaving ==
  ASSUME TypeOK, NEW i \in Ids, GoesOn(i)
  PROVE  Leaves(i)
<1>1. i \in Ids /\ outcome \in [Ids -> Finals] /\ {"done", "failed", "cancelled"} \subseteq Finals
  BY DEF TypeOK, Finals
<1>2. /\ \A o : Flushes(i, o) =>
            /\ phase' = [phase EXCEPT ![i] = "flushing"] /\ aborted' = aborted
            /\ o \in Finals => outcome' \in [Ids -> Finals]
      /\ Returns(i) => /\ phase' = [phase EXCEPT ![i] = "over"] /\ aborted' \subseteq aborted
                       /\ outcome' \in [Ids -> Finals]
      /\ \A q : To(i, q) => phase' = [phase EXCEPT ![i] = q]
  BY <1>1 DEF Flushes, Returns, Over, To
<1>3. phase[i] = "flushing" \/ phase[i] = "reading" \/ i \notin Runs => i \notin children
  BY DEF TypeOK
<1>4. CASE i \in Jobs /\ JobDecides(i)
  BY <1>1, <1>2, <1>3, <1>4, Kinds DEF JobDecides, Leaves
<1>5. CASE i \in Suites /\ SuiteStarves(i)
  BY <1>1, <1>2, <1>3, <1>5, Kinds DEF SuiteStarves, Leaves
<1>6. CASE i \in Suites /\ SuiteDecides(i)
  <2>1. Returns(i) \/ \E o \in {"done", "failed"} : Flushes(i, o)
    BY <1>6 DEF SuiteDecides
  <2> QED
    BY <1>1, <1>2, <1>3, <1>6, <2>1, Kinds DEF SuiteDecides, Leaves
<1>7. CASE i \in Runs /\ RunStarves(i)
  BY <1>1, <1>2, <1>3, <1>7 DEF RunStarves, Leaves
<1>8. CASE FlushFails(i)
  <2>1. phase[i] = "flushing" /\ UNCHANGED <<store, disk, children, orphans, promised, crashes>>
    BY <1>8 DEF FlushFails
  <2>2. CASE i \in Jobs
    BY <1>1, <1>2, <1>3, <1>8, <2>1, <2>2, Kinds DEF FlushFails, Leaves
  <2>3. CASE i \in Runs
    <3>1. /\ To(i, "ending") /\ UNCHANGED aborted
          /\ \E o \in {"failed", "cancelled"} : outcome' = [outcome EXCEPT ![i] = o]
      BY <1>8, <2>3, Kinds DEF FlushFails
    <3> QED
      BY <1>1, <1>2, <1>3, <2>1, <3>1 DEF Leaves
  <2>4. CASE i \in Suites
    <3>1. \/ To(i, "ending") /\ UNCHANGED <<aborted, outcome>>
          \/ Returns(i) \/ Flushes(i, "failed")
      BY <1>8, <2>4, Kinds DEF FlushFails
    <3> QED
      BY <1>1, <1>2, <1>3, <2>1, <3>1 DEF Leaves
  <2> QED
    BY <2>2, <2>3, <2>4 DEF Ids
<1> QED
  BY <1>4, <1>5, <1>6, <1>7, <1>8 DEF GoesOn

(* A record that goes on keeps the types. *)
LEMMA LeavesType ==
  ASSUME TypeOK, NEW i \in Ids, Leaves(i)
  PROVE  TypeOK'
<1>1. PICK p \in {"flushing", "ending", "over"} : phase' = [phase EXCEPT ![i] = p]
  BY DEF Leaves
<1>2. phase' \in [Ids -> {"none", "reading", "working", "flushing", "ending", "over"}]
  BY <1>1 DEF TypeOK
<1>3. children' \subseteq {r \in Runs : phase'[r] = "working"}
  BY <1>1 DEF TypeOK, Leaves, Ids
<1> QED
  BY <1>2, <1>3 DEF Leaves, TypeOK, store

(* Every step keeps the types. *)
LEMMA TypeStep == TypeOK /\ (\A i \in Ids : Begun(i)) /\ [Next]_vars => TypeOK'
<1> SUFFICES ASSUME TypeOK, \A i \in Ids : Begun(i), [Next]_vars PROVE TypeOK'
  OBVIOUS
<1> USE DEF Flushes, Returns, Over, To, store
<1>1. ASSUME NEW i \in Jobs, NEW key \in KeysOf[i], SubmitJob(i, key) PROVE TypeOK'
  <2>1. i \in Ids /\ stored' \in SUBSET Ids /\ i \notin children
    BY <1>1, Kinds DEF SubmitJob, Accepted, TypeOK, Ids
  <2> QED
    BY <1>1, <2>1, AcceptedType, GaugeType DEF SubmitJob
<1>2. ASSUME NEW i \in Suites \cup Runs, NEW key \in KeysOf[i],
             SubmitSuite(i, key) \/ SubmitRun(i, key)
      PROVE  TypeOK'
  <2>1. i \in Ids /\ i \notin children
    BY <1>2 DEF SubmitSuite, SubmitRun, Accepted, TypeOK, Ids, Begun
  <2> QED
    BY <1>2, <2>1, AcceptedType DEF SubmitSuite, SubmitRun, TypeOK
<1>3. ASSUME NEW i \in Ids, NEW key \in KeysOf[i], Refused(i, key) PROVE TypeOK'
  BY <1>3, EvictsType DEF Refused, TypeOK
<1>4. ASSUME NEW i \in Suites, SuiteLoads(i) PROVE TypeOK'
  <2>1. i \in Ids /\ i \notin Runs
    BY Kinds DEF Ids
  <2>2. status' \in [Ids -> {"none", "active", "lost"} \cup Finals]
    BY <1>4, <2>1 DEF SuiteLoads, TypeOK
  <2>3. \E p \in {"working", "flushing"} : phase' = [phase EXCEPT ![i] = p]
    BY <1>4 DEF SuiteLoads
  <2>4. outcome' \in [Ids -> Finals] /\ aborted' = aborted
    BY <1>4 DEF SuiteLoads, TypeOK, Finals
  <2>5. UNCHANGED <<stored, tenantId, gauge, disk, children, orphans, promised, crashes>>
    BY <1>4 DEF SuiteLoads
  <2>6. phase' \in [Ids -> {"none", "reading", "working", "flushing", "ending", "over"}]
    BY <2>1, <2>3 DEF TypeOK
  <2>7. children' \subseteq {r \in Runs : phase'[r] = "working"}
    BY <2>1, <2>3, <2>5 DEF TypeOK, Ids
  <2> QED
    BY <2>2, <2>4, <2>5, <2>6, <2>7 DEF TypeOK
<1>5. ASSUME NEW i \in Runs, RunStarts(i) PROVE TypeOK'
  <2>1. i \in Ids /\ i \notin children
    BY <1>5 DEF Ids, RunStarts, TypeOK
  <2>2. outcome' \in [Ids -> Finals] /\ aborted' = aborted
    BY <1>5 DEF RunStarts, TypeOK, Finals
  <2>3. \/ phase' = [phase EXCEPT ![i] = "flushing"] /\ children' = children
        \/ phase' = [phase EXCEPT ![i] = "working"] /\ children' = children \cup {i}
    BY <1>5 DEF RunStarts
  <2>4. UNCHANGED <<stored, tenantId, status, gauge, disk, orphans, promised, crashes>>
    BY <1>5 DEF RunStarts
  <2>5. phase' \in [Ids -> {"none", "reading", "working", "flushing", "ending", "over"}]
    BY <2>1, <2>3 DEF TypeOK
  <2>6. children' \subseteq {r \in Runs : phase'[r] = "working"}
    BY <2>1, <2>3 DEF TypeOK, Ids
  <2> QED
    BY <2>2, <2>4, <2>5, <2>6 DEF TypeOK
<1>6. ASSUME NEW i \in Ids, GoesOn(i) PROVE TypeOK'
  BY <1>6, Leaving, LeavesType
<1>7. ASSUME NEW i \in Runs, RunDecides(i) PROVE TypeOK'
  <2>1. i \in Ids
    BY DEF Ids
  <2>2. PICK o \in RunOutcome(i) : Flushes(i, o)
    BY <1>7 DEF RunDecides
  <2>3. o \in Finals
    BY DEF RunOutcome, Finals
  <2>4. outcome' \in [Ids -> Finals] /\ phase' = [phase EXCEPT ![i] = "flushing"]
        /\ aborted' = aborted
    BY <2>2, <2>3 DEF TypeOK
  <2> QED
    BY <1>7, <2>1, <2>4 DEF RunDecides, TypeOK
<1>8. ASSUME NEW i \in Ids, Flushed(i) PROVE TypeOK'
  BY <1>8 DEF Flushed, Written, TypeOK, Ids
<1>9. ASSUME NEW i \in Ids, Ends(i) PROVE TypeOK'
  <2>1. gauge' \in 0..Cardinality(Jobs)
    BY <1>9, GaugeType DEF Ends, TypeOK
  <2> QED
    BY <1>9, <2>1 DEF Ends, TypeOK, Finals, Ids
<1>10. ASSUME NEW i \in Ids, NEW key \in Keys, Cancels(i, key) PROVE TypeOK'
  <2>1. gauge' \in 0..Cardinality(Jobs)
    <3>1. gauge' = gauge \/ gauge' = ActiveJobs(stored, status')
      BY <1>10 DEF Cancels, CancelJob, CancelSuite, CancelRun
    <3> QED
      BY <3>1, GaugeType DEF TypeOK
  <2>2. status' \in [Ids -> {"none", "active", "lost"} \cup Finals]
    BY <1>10 DEF Cancels, CancelJob, CancelSuite, CancelRun, TypeOK, Finals
  <2>3. aborted' \subseteq Ids
        /\ UNCHANGED <<stored, tenantId, phase, outcome, disk, children, orphans, promised, crashes>>
    BY <1>10 DEF Cancels, CancelJob, CancelSuite, CancelRun, Stops, TypeOK
  <2> QED
    BY <2>1, <2>2, <2>3 DEF TypeOK
<1>11. CASE Restart
  <2>1. gauge' \in 0..Cardinality(Jobs)
    <3>1. Cardinality(Jobs) \in Nat
      BY Finite DEF Ids
    <3> QED
      BY <1>11, <3>1 DEF Restart
  <2>2. crashes' \in 0..MaxCrashes
    BY <1>11, Sources DEF Restart, TypeOK
  <2>3. /\ status' \in [Ids -> {"none", "active", "lost"} \cup Finals]
        /\ phase' \in [Ids -> {"none", "reading", "working", "flushing", "ending", "over"}]
        /\ outcome' \in [Ids -> Finals]
    BY <1>11 DEF Restart, Finals
  <2>4. /\ stored' = {} /\ aborted' = {} /\ children' = {} /\ orphans' \subseteq Runs
        /\ UNCHANGED <<tenantId, disk, promised>>
    BY <1>11 DEF Restart, TypeOK
  <2> QED
    BY <2>1, <2>2, <2>3, <2>4 DEF TypeOK
<1>12. ASSUME NEW i \in Runs, OrphanEnds(i) PROVE TypeOK'
  BY <1>12 DEF OrphanEnds, TypeOK
<1>13. CASE UNCHANGED vars
  BY <1>13 DEF vars, TypeOK
<1> QED
  BY <1>1, <1>2, <1>3, <1>4, <1>5, <1>6, <1>7, <1>8, <1>9, <1>10, <1>11, <1>12, <1>13,
     NextCases DEF ItemStep, Asks

-----------------------------------------------------------------------------
(* The caps.                                                                  *)
LEMMA CountsShrink ==
  ASSUME TypeOK, TypeOK', Counted, Busy(Jobs)' \subseteq Busy(Jobs), Busy(Runs)' \subseteq Busy(Runs),
         \A k \in Busy(Runs)' : tenantId'[k] = tenantId[k],
         gauge' = Cardinality(Busy(Jobs)')
  PROVE  Counted'
<1>1. Busy(Jobs) \in SUBSET Ids /\ Busy(Runs) \in SUBSET Ids
  BY DEF Busy, Active, TypeOK
<1>2. /\ IsFiniteSet(Busy(Jobs)) /\ Cardinality(Busy(Jobs)) \in Nat
      /\ IsFiniteSet(Busy(Runs)) /\ Cardinality(Busy(Runs)) \in Nat
      /\ Cardinality(Busy(Jobs)') \in Nat /\ Cardinality(Busy(Runs)') \in Nat
  BY <1>1, Finite
<1>3. /\ Cardinality(Busy(Jobs)') <= Cardinality(Busy(Jobs))
      /\ Cardinality(Busy(Runs)') <= Cardinality(Busy(Runs))
  BY <1>2, FS_Subset
<1>4. MaxActive \in Nat /\ MaxRuns \in Nat
  BY Sources
<1>5. ASSUME NEW t \in Tenants PROVE Cardinality(Share(t)') <= MaxRuns
  <2>1. Share(t)' \subseteq Share(t) /\ Share(t) \in SUBSET Ids
    BY <1>1 DEF Share
  <2>2. IsFiniteSet(Share(t)) /\ Cardinality(Share(t)) \in Nat /\ Cardinality(Share(t)') \in Nat
    BY <2>1, Finite
  <2>3. Cardinality(Share(t)') <= Cardinality(Share(t)) /\ Cardinality(Share(t)) <= MaxRuns
    BY <2>1, <2>2, FS_Subset DEF Counted
  <2> QED
    BY <1>4, <2>2, <2>3
<1>6. Cardinality(Busy(Jobs)) <= MaxActive /\ Cardinality(Busy(Runs)) <= MaxActive
  BY DEF Counted
<1>7. Cardinality(Busy(Jobs)') <= MaxActive /\ Cardinality(Busy(Runs)') <= MaxActive
  BY <1>2, <1>3, <1>4, <1>6
<1>8. Tenants' = Tenants
  BY DEF Tenants, Tenant
<1> QED
  BY <1>5, <1>7, <1>8 DEF Counted

(* Who is evicted was not active.                                             *)
LEMMA EvictedWereIdle ==
  ASSUME TypeOK, NEW Kind \in {Jobs, Suites, Runs}, NEW expired \in SUBSET Expirable(Kind),
         NEW K \in {Jobs, Suites, Runs}
  PROVE  /\ Active((stored \ expired) \cap K) = Busy(K)
         /\ Busy(K) \subseteq (stored \ expired) \cap K
         /\ \A i \in (stored \ expired) \cap K : Evicts(expired)[i] = "active" <=> i \in Busy(K)
         /\ \A i \in Ids : Evicts(expired)[i] = "none" <=> status[i] = "none"
<1>1. \A i \in expired : i \in stored /\ status[i] # "active" /\ status[i] # "none"
  BY DEF Expirable, Finals
<1>2. stored \subseteq Ids
  BY DEF TypeOK
<1>3. \A i \in Ids \ expired : Evicts(expired)[i] = status[i]
  BY DEF Evicts
<1>4. \A i \in expired \cap Ids : Evicts(expired)[i] \in {"lost", status[i]}
  BY DEF Evicts
<1> QED
  BY <1>1, <1>2, <1>3, <1>4 DEF Busy, Active

(* A refused submission evicts finished records only, and the counts stay. *)
LEMMA RefusedCounts ==
  ASSUME TypeOK, TypeOK', Counted, NEW i \in Ids, NEW key \in KeysOf[i], Refused(i, key)
  PROVE  Counted'
<1>1. KindOf(i) \in {Jobs, Suites, Runs}
  BY Kinds DEF Ids
<1>2. PICK expired \in SUBSET Expirable(KindOf(i)) :
        stored' = stored \ expired /\ status' = Evicts(expired)
  BY DEF Refused
<1>3. \A K \in {Jobs, Suites, Runs} : Busy(K)' = Busy(K)
  BY <1>1, <1>2, EvictedWereIdle DEF Busy, Active
<1>4. tenantId' = tenantId /\ gauge' = gauge
  BY DEF Refused
<1> QED
  BY <1>3, <1>4, CountsShrink DEF Counted

(* An admission adds one to a count that was under its cap.                    *)
LEMMA AcceptedCounts ==
  ASSUME TypeOK, NEW i \in Ids, NEW key \in KeysOf[i], NEW start,
         Accepted(i, key, start)
  PROVE  /\ Busy(KindOf(i))' = Busy(KindOf(i)) \cup {i} /\ i \notin Busy(KindOf(i))
         /\ \A K \in {Jobs, Suites, Runs} \ {KindOf(i)} : Busy(K)' = Busy(K)
         /\ Cardinality(Busy(KindOf(i))) < MaxActive
         /\ KindOf(i) = Runs => Cardinality(Share(Tenant(key))) < MaxRuns
<1>1. KindOf(i) \in {Jobs, Suites, Runs} /\ i \in KindOf(i) /\ status[i] = "none"
  BY Kinds DEF Ids, Accepted
<1>2. PICK expired \in SUBSET Expirable(KindOf(i)) :
        /\ ~Full(KindOf(i), Tenant(key), stored \ expired)
        /\ stored' = (stored \ expired) \cup {i}
        /\ status' = [Evicts(expired) EXCEPT ![i] = "active"]
  BY DEF Accepted
<1>3. \A K \in {Jobs, Suites, Runs} :
        /\ Active((stored \ expired) \cap K) = Busy(K)
        /\ Busy(K) \subseteq (stored \ expired) \cap K
        /\ \A k \in (stored \ expired) \cap K : Evicts(expired)[k] = "active" <=> k \in Busy(K)
  <2>1. KindOf(i) \in {Jobs, Suites, Runs} /\ expired \in SUBSET Expirable(KindOf(i))
    BY <1>1
  <2>2. ASSUME NEW Kind, NEW K \in {Jobs, Suites, Runs},
               Kind \in {Jobs, Suites, Runs}, expired \in SUBSET Expirable(Kind)
        PROVE  /\ Active((stored \ expired) \cap K) = Busy(K)
               /\ Busy(K) \subseteq (stored \ expired) \cap K
               /\ \A k \in (stored \ expired) \cap K :
                    Evicts(expired)[k] = "active" <=> k \in Busy(K)
    BY <2>2, EvictedWereIdle DEF Busy, Active
  <2> QED
    BY <2>1, <2>2
<1>4. \A K \in {Jobs, Suites, Runs} :
        Busy(K)' = IF i \in K THEN Busy(K) \cup {i} ELSE Busy(K)
  <2> SUFFICES ASSUME NEW K \in {Jobs, Suites, Runs}
               PROVE  Busy(K)' = IF i \in K THEN Busy(K) \cup {i} ELSE Busy(K)
    OBVIOUS
  <2>1. status'[i] = "active" /\ \A k \in Ids \ {i} : status'[k] = Evicts(expired)[k]
    BY <1>2 DEF Evicts
  <2>2. Busy(K)' = {k \in ((stored \ expired) \cup {i}) \cap K : status'[k] = "active"}
    BY <1>2 DEF Busy, Active
  <2>3. stored \subseteq Ids
    BY DEF TypeOK
  <2> QED
    BY <1>3, <2>1, <2>2, <2>3
<1>5. i \notin Busy(KindOf(i))
  BY <1>1 DEF Busy, Active
<1>6. \A K \in {Jobs, Suites, Runs} : i \in K => K = KindOf(i)
  BY Kinds
<1>7. ~(Cardinality(Busy(KindOf(i))) >= MaxActive)
  BY <1>1, <1>2, <1>3 DEF Full
<1>8. Cardinality(Busy(KindOf(i))) < MaxActive
  <2>1. Busy(KindOf(i)) \in SUBSET Ids
    BY DEF Busy, Active, TypeOK
  <2> QED
    BY <1>7, <2>1, Finite, Sources
<1>9. ASSUME KindOf(i) = Runs PROVE Cardinality(Share(Tenant(key))) < MaxRuns
  <2>1. Runs # Jobs /\ Runs # Suites
    BY <1>1, <1>9, Kinds
  <2>2. Cap(Runs) = MaxRuns
    BY <2>1 DEF Cap
  <2>3. ~(Cardinality(Share(Tenant(key))) >= MaxRuns)
    BY <1>1, <1>2, <1>3, <1>9, <2>1, <2>2 DEF Full, Share
  <2>4. Share(Tenant(key)) \in SUBSET Ids
    BY DEF Share, Busy, Active, TypeOK
  <2> QED
    BY <2>3, <2>4, Finite, Sources
<1> QED
  BY <1>1, <1>4, <1>5, <1>6, <1>8, <1>9

(* An accepted submission stays within the caps: the store looks at what is *)
(* active before it stores the record (runner/store.ts:23-33).              *)
LEMMA AcceptedShares ==
  ASSUME TypeOK, TypeOK', Counted, NEW i \in Ids, NEW key \in KeysOf[i], NEW start,
         Accepted(i, key, start),
         gauge' = IF i \in Jobs THEN ActiveJobs(stored', status') ELSE gauge
  PROVE  Counted'
<1> DEFINE K == KindOf(i)
<1>1. K \in {Jobs, Suites, Runs} /\ i \in K
  BY Kinds DEF Ids
<1>2. /\ Busy(K)' = Busy(K) \cup {i} /\ i \notin Busy(K)
      /\ \A L \in {Jobs, Suites, Runs} \ {K} : Busy(L)' = Busy(L)
      /\ Cardinality(Busy(K)) < MaxActive
      /\ K = Runs => Cardinality(Share(Tenant(key))) < MaxRuns
  BY AcceptedCounts
<1>3. \A L \in {Jobs, Suites, Runs} : IsFiniteSet(Busy(L)) /\ Cardinality(Busy(L)) \in Nat
  BY Finite DEF Busy, Active, TypeOK
<1>4. tenantId' = [tenantId EXCEPT ![i] = Tenant(key)]
  BY DEF Accepted
<1>5. MaxActive \in Nat /\ MaxRuns \in Nat
  BY Sources
<1>6. Cardinality(Busy(K)') = Cardinality(Busy(K)) + 1
  <2> HIDE DEF K
  <2> QED
    BY <1>1, <1>2, <1>3, FS_AddElement
<1>8. Cardinality(Busy(Jobs)') <= MaxActive /\ Cardinality(Busy(Runs)') <= MaxActive
  <2> HIDE DEF K
  <2>1. Cardinality(Busy(K)') <= MaxActive
    BY <1>1, <1>2, <1>3, <1>5, <1>6
  <2> QED
    BY <1>2, <2>1 DEF Counted
<1>9. gauge' = Cardinality(Busy(Jobs)')
  <2>1. CASE i \in Jobs
    BY <2>1 DEF ActiveJobs, Busy, Active
  <2>2. CASE i \notin Jobs
    <3>1. Busy(Jobs)' = Busy(Jobs)
      BY <1>1, <1>2, <2>2
    <3> QED
      BY <2>2, <3>1 DEF Counted
  <2> QED
    BY <2>1, <2>2
<1>10. ASSUME NEW t \in Tenants PROVE Cardinality(Share(t)') <= MaxRuns
  <2>1. Share(t) \in SUBSET Ids
    BY DEF Share, Busy, Active, TypeOK
  <2>2. IsFiniteSet(Share(t)) /\ Cardinality(Share(t)) \in Nat /\ Cardinality(Share(t)) <= MaxRuns
    BY <2>1, Finite DEF Counted
  <2>3. CASE K = Runs
    <3>1. /\ Busy(Runs)' = Busy(Runs) \cup {i} /\ i \notin Busy(Runs)
          /\ tenantId'[i] = Tenant(key)
          /\ \A k \in Busy(Runs) : tenantId'[k] = tenantId[k]
      BY <1>2, <1>4, <2>3 DEF Busy, Active, TypeOK
    <3>2. CASE t = Tenant(key)
      <4>1. Share(t)' = Share(t) \cup {i} /\ i \notin Share(t)
        BY <3>1, <3>2 DEF Share
      <4>2. Cardinality(Share(t)') = Cardinality(Share(t)) + 1
        BY <2>2, <4>1, FS_AddElement
      <4> QED
        BY <1>2, <1>5, <2>2, <2>3, <3>2, <4>2
    <3>3. CASE t # Tenant(key)
      <4>1. Share(t)' = Share(t)
        BY <3>1, <3>3 DEF Share
      <4> QED
        BY <2>2, <4>1
    <3> QED
      BY <3>2, <3>3
  <2>4. CASE K # Runs
    <3>1. Busy(Runs)' = Busy(Runs) /\ i \notin Busy(Runs)
      BY <1>1, <1>2, <2>4, Kinds DEF Busy, Active
    <3>2. Share(t)' = Share(t)
      BY <1>4, <3>1 DEF Share, Busy, Active, TypeOK
    <3> QED
      BY <2>2, <3>2
  <2> QED
    BY <2>3, <2>4
<1>11. Tenants' = Tenants
  BY DEF Tenants, Tenant
<1> QED
  BY <1>8, <1>9, <1>10, <1>11 DEF Counted

(* The steps that move one item.                                              *)
LEMMA StepCounts ==
  ASSUME TypeOK, TypeOK', Counted, NEW i \in Ids, ItemStep(i)
  PROVE  Counted'
<1> USE DEF store
<1>1. ASSUME NEW key \in KeysOf[i], Asks(i, key) PROVE Counted'
  <2>1. CASE Refused(i, key)
    BY <2>1, RefusedCounts
  <2>2. CASE i \in Jobs /\ SubmitJob(i, key)
    BY <2>2, AcceptedShares DEF SubmitJob
  <2>3. CASE i \in Suites /\ SubmitSuite(i, key)
    BY <2>3, AcceptedShares, Kinds DEF SubmitSuite
  <2>4. CASE i \in Runs /\ SubmitRun(i, key)
    BY <2>4, AcceptedShares, Kinds DEF SubmitRun
  <2> QED
    BY <1>1, <2>1, <2>2, <2>3, <2>4 DEF Asks
<1>2. ASSUME UNCHANGED store PROVE Counted'
  BY <1>2 DEF Counted, Share, Busy, Active, Tenants, Tenant
<1>3. ASSUME stored' = stored, tenantId' = tenantId,
             \A k \in Ids \ {i} : status'[k] = status[k],
             i \in Jobs \cup Runs => status'[i] # "active",
             i \notin Jobs \cup Runs => gauge' = gauge,
             i \in Jobs => gauge' = ActiveJobs(stored, status'),
             i \in Runs => gauge' = gauge
      PROVE  Counted'
  <2>1. stored \subseteq Ids
    BY DEF TypeOK
  <2>2. Busy(Jobs)' \subseteq Busy(Jobs) /\ Busy(Runs)' \subseteq Busy(Runs)
    BY <1>3, <2>1, Kinds DEF Busy, Active
  <2>3. gauge' = Cardinality(Busy(Jobs)')
    <3>1. CASE i \in Jobs
      BY <1>3, <3>1 DEF ActiveJobs, Busy, Active
    <3>2. CASE i \notin Jobs
      <4>1. Busy(Jobs)' = Busy(Jobs)
        BY <1>3, <2>1, <3>2 DEF Busy, Active
      <4>2. gauge' = gauge
        BY <1>3, <3>2
      <4> QED
        BY <4>1, <4>2 DEF Counted
    <3> QED
      BY <3>1, <3>2
  <2> QED
    BY <1>3, <2>2, <2>3, CountsShrink
<1>4. CASE GoesOn(i)
  BY <1>2, <1>4, Leaving DEF Leaves
<1>5. CASE i \in Suites /\ SuiteLoads(i)
  BY <1>3, <1>5, Kinds DEF SuiteLoads, TypeOK
<1>6. CASE i \in Runs /\ (RunStarts(i) \/ RunDecides(i) \/ OrphanEnds(i))
  BY <1>2, <1>6 DEF RunStarts, RunDecides, OrphanEnds
<1>7. CASE Flushed(i)
  BY <1>2, <1>7 DEF Flushed
<1>8. CASE Ends(i)
  <2>1. /\ stored' = stored /\ tenantId' = tenantId
        /\ status' = [status EXCEPT ![i] = outcome[i]]
        /\ gauge' = IF i \in Jobs THEN ActiveJobs(stored, status') ELSE gauge
    BY <1>8 DEF Ends
  <2>2. status'[i] # "active" /\ \A k \in Ids \ {i} : status'[k] = status[k]
    BY <2>1 DEF TypeOK, Finals
  <2> QED
    BY <1>3, <2>1, <2>2, Kinds
<1>9. ASSUME NEW key \in Keys, Cancels(i, key) PROVE Counted'
  <2>1. CASE i \in Runs /\ CancelRun(i, key)
    BY <1>2, <2>1 DEF CancelRun
  <2>2. CASE i \in Jobs /\ CancelJob(i, key)
    BY <1>3, <2>2, Kinds DEF CancelJob, TypeOK
  <2>3. CASE i \in Suites /\ CancelSuite(i, key)
    BY <1>3, <2>3, Kinds DEF CancelSuite, TypeOK
  <2> QED
    BY <1>9, <2>1, <2>2, <2>3 DEF Cancels
<1> QED
  BY <1>1, <1>4, <1>5, <1>6, <1>7, <1>8, <1>9 DEF ItemStep

-----------------------------------------------------------------------------
(* The items. A step keeps what was handed on and who owns it; of an item that *)
(* it is not about it also leaves the phase alone, and a run's slot.            *)
Keeps ==
    /\ \A k \in Ids : status[k] # "none" => status'[k] # "none" /\ tenantId'[k] = tenantId[k]
    /\ \A k \in Jobs \cup Suites : disk[k] # "none" => disk'[k] # "none"

Aside(k) ==
    /\ phase'[k] = phase[k] /\ (status'[k] = "none" <=> status[k] = "none")
    /\ k \in Runs /\ phase[k] \notin {"none", "over"} =>
          status'[k] = status[k] /\ (k \in stored => k \in stored')
    /\ k \in Jobs \cup Suites => disk'[k] = disk[k]
    /\ k \in promised' => k \in promised

(* What a step leaves alone keeps what is known of it, for the disk only *)
(* gains.                                                                *)
LEMMA AsideInv ==
  ASSUME Inv, NEW k \in Ids, Keeps, Aside(k)
  PROVE  ItemInv(k)'
<1>1. ItemInv(k)
  BY DEF Inv
<1>2. Begun(k)' /\ Slotted(k)'
  BY <1>1 DEF ItemInv, Begun, Slotted, Aside
<1>3. Handed(k)'
  BY <1>1, Kinds DEF ItemInv, Handed, Aside, Inv, TypeOK
<1>4. Fed(k)'
  <2> SUFFICES ASSUME k \in Suites \cup Runs, phase[k] = "working"
               PROVE  tenantId'[Source[k]] = tenantId'[k] /\ disk'[Source[k]] # "none"
    BY DEF Fed, Aside
  <2>1. /\ tenantId[Source[k]] = tenantId[k] /\ disk[Source[k]] # "none"
        /\ status[k] # "none" /\ Source[k] \in Jobs \cup Suites /\ Source[k] \in Ids
    BY <1>1, Sources DEF ItemInv, Fed, Begun
  <2>2. status[Source[k]] # "none"
    BY <2>1 DEF Inv, ItemInv, Handed
  <2> QED
    BY <2>1, <2>2 DEF Keeps
<1> QED
  BY <1>2, <1>3, <1>4 DEF ItemInv

(* A submission starts a fresh record and takes no artifact from another. *)
LEMMA AsksInv ==
  ASSUME Inv, NEW i \in Ids, NEW key \in KeysOf[i], Asks(i, key)
  PROVE  Keeps /\ ItemInv(i)' /\ \A k \in Ids \ {i} : Aside(k)
<1>1. TypeOK /\ ItemInv(i)
  BY DEF Inv
<1>2. ASSUME NEW expired \in SUBSET Expirable(KindOf(i))
      PROVE  \A k \in Ids : /\ Evicts(expired)[k] = "none" <=> status[k] = "none"
                            /\ k \in Runs /\ phase[k] \notin {"none", "over"} =>
                                  Evicts(expired)[k] = status[k] /\ k \notin expired
  <2>1. KindOf(i) \in {Jobs, Suites, Runs}
    BY Kinds DEF Ids
  <2>2. \A k \in expired : status[k] \in Finals
    BY DEF Expirable
  <2>3. \A k \in Ids : Slotted(k)
    BY DEF Inv, ItemInv
  <2> QED
    BY <1>1, <2>2, <2>3 DEF Evicts, Slotted, Finals
<1>3. CASE Refused(i, key)
  <2>1. PICK expired \in SUBSET Expirable(KindOf(i)) :
          stored' = stored \ expired /\ status' = Evicts(expired)
    BY <1>3 DEF Refused
  <2>2. UNCHANGED <<tenantId, phase, disk, promised>>
    BY <1>3 DEF Refused
  <2>3. Keeps /\ \A k \in Ids : Aside(k)
    BY <1>2, <2>1, <2>2 DEF Keeps, Aside
  <2> QED
    BY <2>3, AsideInv
<1>4. ASSUME NEW start, Accepted(i, key, start), start \in {"reading", "working"},
             start = "working" => i \in Jobs
      PROVE  Keeps /\ ItemInv(i)' /\ \A k \in Ids \ {i} : Aside(k)
  <2>1. PICK expired \in SUBSET Expirable(KindOf(i)) :
          /\ stored' = (stored \ expired) \cup {i}
          /\ status' = [Evicts(expired) EXCEPT ![i] = "active"]
    BY <1>4 DEF Accepted
  <2>2. /\ tenantId' = [tenantId EXCEPT ![i] = Tenant(key)]
        /\ phase' = [phase EXCEPT ![i] = start] /\ status[i] = "none"
        /\ UNCHANGED <<disk, promised>>
    BY <1>4 DEF Accepted
  <2>3. /\ status'[i] = "active" /\ phase'[i] = start /\ i \in stored'
        /\ \A k \in Ids \ {i} : /\ status'[k] = Evicts(expired)[k]
                                /\ phase'[k] = phase[k] /\ tenantId'[k] = tenantId[k]
    BY <1>1, <2>1, <2>2 DEF Evicts, TypeOK
  <2>4. Keeps /\ \A k \in Ids \ {i} : Aside(k)
    BY <1>2, <2>1, <2>2, <2>3 DEF Keeps, Aside
  <2>5. i \notin promised
    BY <1>1, <2>2 DEF ItemInv, Handed, Begun
  <2>6. ItemInv(i)'
    BY <1>4, <2>2, <2>3, <2>5, Kinds DEF ItemInv, Begun, Slotted, Handed, Fed
  <2> QED
    BY <2>4, <2>6
<1> QED
  BY <1>3, <1>4 DEF Asks, SubmitJob, SubmitSuite, SubmitRun

(* A record that moves on has read its source in the directory of its own *)
(* tenant.                                                                *)
LEMMA MovesInv ==
  ASSUME Inv, NEW i \in Ids,
         \/ GoesOn(i) \/ Flushed(i)
         \/ i \in Suites /\ SuiteLoads(i)
         \/ i \in Runs /\ (RunStarts(i) \/ RunDecides(i) \/ OrphanEnds(i))
  PROVE  Keeps /\ ItemInv(i)' /\ \A k \in Ids \ {i} : Aside(k)
<1> USE DEF store
<1>1. TypeOK /\ ItemInv(i)
  BY DEF Inv
<1>2. ASSUME UNCHANGED <<store, disk, promised>>, phase[i] \notin {"none", "over"},
             NEW p \in {"flushing", "ending", "over"}, phase' = [phase EXCEPT ![i] = p]
      PROVE  Keeps /\ ItemInv(i)' /\ \A k \in Ids \ {i} : Aside(k)
  BY <1>1, <1>2 DEF Keeps, Aside, TypeOK, ItemInv, Begun, Slotted, Handed, Fed
<1>3. ASSUME UNCHANGED <<stored, tenantId, disk, promised>>, i \in Suites \cup Runs,
             phase[i] = "reading", Feeds(i),
             \/ phase' = [phase EXCEPT ![i] = "working"]
             \/ phase' = [phase EXCEPT ![i] = "flushing"],
             status' = status \/ (i \in Suites /\ status' = [status EXCEPT ![i] = "active"])
      PROVE  Keeps /\ ItemInv(i)' /\ \A k \in Ids \ {i} : Aside(k)
  <2>1. tenantId[Source[i]] = tenantId[i] /\ disk[Source[i]] # "none"
    BY <1>3 DEF Feeds
  <2>2. status[i] # "none" /\ status'[i] # "none" /\ phase'[i] \in {"working", "flushing"}
        /\ \A k \in Ids \ {i} : status'[k] = status[k] /\ phase'[k] = phase[k]
    BY <1>1, <1>3 DEF ItemInv, Begun, TypeOK
  <2>3. i \in Runs => status' = status
    BY <1>3, Kinds
  <2>4. Keeps /\ \A k \in Ids \ {i} : Aside(k)
    BY <1>3, <2>2 DEF Keeps, Aside
  <2>5. ItemInv(i)'
    BY <1>1, <1>3, <2>1, <2>2, <2>3 DEF ItemInv, Begun, Slotted, Handed, Fed
  <2> QED
    BY <2>4, <2>5
<1>4. CASE GoesOn(i)
  BY <1>1, <1>2, <1>4, Leaving DEF Leaves
<1>5. CASE i \in Suites /\ SuiteLoads(i)
  BY <1>3, <1>5 DEF SuiteLoads, Flushes, To
<1>6. CASE i \in Runs /\ RunStarts(i)
  <2>1. \/ phase' = [phase EXCEPT ![i] = "working"]
        \/ phase' = [phase EXCEPT ![i] = "flushing"]
    BY <1>6 DEF RunStarts, Flushes, To
  <2>2. /\ UNCHANGED <<stored, tenantId, disk, promised>> /\ status' = status
        /\ phase[i] = "reading" /\ Feeds(i) /\ i \in Suites \cup Runs
    BY <1>6 DEF RunStarts
  <2> QED
    BY <1>3, <2>1, <2>2
<1>7. CASE i \in Runs /\ RunDecides(i)
  BY <1>2, <1>7 DEF RunDecides, Flushes, To
<1>8. CASE i \in Runs /\ OrphanEnds(i)
  <2>1. Keeps /\ \A k \in Ids : Aside(k)
    BY <1>8 DEF OrphanEnds, Keeps, Aside
  <2> QED
    BY <2>1, AsideInv
<1>9. CASE Flushed(i)
  <2>1. phase[i] = "flushing" /\ phase' = [phase EXCEPT ![i] = "ending"]
        /\ UNCHANGED <<store, promised>>
    BY <1>9 DEF Flushed, To
  <2>2. i \notin promised /\ status[i] # "none"
    BY <1>1, <2>1 DEF ItemInv, Handed, Begun
  <2>3. CASE i \in Runs
    BY <1>2, <1>9, <2>1, <2>3 DEF Flushed
  <2>4. CASE i \notin Runs
    <3>1. PICK w \in {"full", "empty"} : disk' = [disk EXCEPT ![i] = w]
      BY <1>9, <2>4 DEF Flushed, Written
    <3>2. i \in Jobs \cup Suites
      BY <2>4 DEF Ids
    <3>3. disk'[i] # "none" /\ \A k \in (Jobs \cup Suites) \ {i} : disk'[k] = disk[k]
      BY <1>1, <3>1, <3>2 DEF TypeOK
    <3>4. phase'[i] = "ending" /\ \A k \in Ids \ {i} : phase'[k] = phase[k]
      BY <1>1, <2>1 DEF TypeOK
    <3>5. Keeps /\ \A k \in Ids \ {i} : Aside(k)
      BY <2>1, <3>3, <3>4 DEF Keeps, Aside
    <3>6. ItemInv(i)'
      BY <2>1, <2>2, <2>4, <3>4 DEF ItemInv, Begun, Slotted, Handed, Fed
    <3> QED
      BY <3>5, <3>6
  <2> QED
    BY <2>3, <2>4
<1> QED
  BY <1>4, <1>5, <1>6, <1>7, <1>8, <1>9

(* A record that ends is promised only with its artifacts on disk. *)
LEMMA EndsInv ==
  ASSUME Inv, NEW i \in Ids, Ends(i)
  PROVE  Keeps /\ ItemInv(i)' /\ \A k \in Ids \ {i} : Aside(k)
<1>1. TypeOK /\ ItemInv(i)
  BY DEF Inv
<1>2. /\ phase' = [phase EXCEPT ![i] = "over"] /\ status' = [status EXCEPT ![i] = outcome[i]]
      /\ UNCHANGED <<stored, tenantId, disk>>
      /\ promised' = promised \/ (promised' = promised \cup {i} /\ disk[i] = "full")
  BY DEF Ends, Returns, Over, To
<1>3. outcome[i] # "none"
  BY <1>1 DEF TypeOK, Finals
<1>4. /\ phase'[i] = "over" /\ status'[i] # "none"
      /\ \A k \in Ids \ {i} : phase'[k] = phase[k] /\ status'[k] = status[k]
  BY <1>1, <1>2, <1>3 DEF TypeOK
<1>5. Keeps /\ \A k \in Ids \ {i} : Aside(k)
  BY <1>2, <1>4 DEF Keeps, Aside
<1>6. ItemInv(i)'
  BY <1>1, <1>2, <1>4 DEF ItemInv, Begun, Slotted, Handed, Fed
<1> QED
  BY <1>5, <1>6

(* A cancellation takes nothing from the disk. *)
LEMMA CancelsInv ==
  ASSUME Inv, NEW i \in Ids, NEW key \in Keys, Cancels(i, key)
  PROVE  Keeps /\ \A k \in Ids : Aside(k)
<1>1. /\ status' = status \/ (status' = [status EXCEPT ![i] = "cancelled"] /\ i \notin Runs)
      /\ status[i] = "active" /\ UNCHANGED <<stored, tenantId, phase, disk, promised>>
  BY Kinds DEF Cancels, CancelJob, CancelSuite, CancelRun, Stops, store
<1>2. /\ status'[i] # "none" /\ (i \in Runs => status' = status)
      /\ \A k \in Ids \ {i} : status'[k] = status[k]
  BY <1>1 DEF Inv, TypeOK
<1> QED
  BY <1>1, <1>2 DEF Keeps, Aside

(* A restart loses the stores and keeps the disk and what was promised of *)
(* it.                                                                    *)
LEMMA RestartInv ==
  ASSUME Inv, TypeOK', Restart
  PROVE  Inv'
<1>1. /\ stored' = {} /\ gauge' = 0 /\ UNCHANGED <<tenantId, disk, promised>>
      /\ status' = [i \in Ids |-> IF status[i] = "none" THEN "none" ELSE "lost"]
      /\ phase' = [i \in Ids |-> IF status[i] = "none" THEN "none" ELSE "over"]
  BY DEF Restart
<1>2. Counted'
  <2>1. Busy(Jobs)' = {} /\ Busy(Runs)' = {}
    BY <1>1 DEF Busy, Active
  <2>2. gauge' = Cardinality(Busy(Jobs)')
    BY <1>1, <2>1, FS_EmptySet
  <2> QED
    BY <2>1, <2>2, CountsShrink DEF Inv
<1>3. ASSUME NEW i \in Ids PROVE ItemInv(i)'
  <2>1. ItemInv(i)
    BY DEF Inv
  <2>2. /\ status'[i] = IF status[i] = "none" THEN "none" ELSE "lost"
        /\ phase'[i] = IF status[i] = "none" THEN "none" ELSE "over"
    BY <1>1
  <2> QED
    BY <1>1, <2>1, <2>2 DEF ItemInv, Begun, Slotted, Handed, Fed
<1> QED
  BY <1>2, <1>3 DEF Inv

-----------------------------------------------------------------------------
(* The invariant holds at the start. *)
LEMMA InitInv == Init => Inv
<1> SUFFICES ASSUME Init PROVE Inv
  OBVIOUS
<1>1. Busy(Jobs) = {} /\ Busy(Runs) = {} /\ \A t : Share(t) = {}
  BY DEF Init, Busy, Active, Share
<1>2. Cardinality({}) = 0 /\ MaxActive \in Nat /\ MaxRuns \in Nat /\ MaxCrashes \in Nat
      /\ Cardinality(Jobs) \in Nat
  BY FS_EmptySet, Sources, Finite DEF Ids
<1>3. Counted
  BY <1>1, <1>2 DEF Init, Counted
<1>4. TypeOK
  BY <1>2 DEF Init, TypeOK, Finals
<1>5. \A i \in Ids : ItemInv(i)
  BY DEF Init, ItemInv, Begun, Slotted, Handed, Fed
<1> QED
  BY <1>3, <1>4, <1>5 DEF Inv

(* Every step keeps the invariant. *)
LEMMA NextInv == Inv /\ [Next]_vars => Inv'
<1> SUFFICES ASSUME Inv, [Next]_vars PROVE Inv'
  OBVIOUS
<1>1. TypeOK'
  BY TypeStep DEF Inv, ItemInv
<1>2. ASSUME NEW i \in Ids, ItemStep(i) PROVE Inv'
  <2>1. Counted'
    BY <1>1, <1>2, StepCounts DEF Inv
  <2>2. Keeps /\ ItemInv(i)' /\ \A k \in Ids \ {i} : Aside(k)
    BY <1>2, AsksInv, MovesInv, EndsInv, CancelsInv, AsideInv DEF ItemStep
  <2>3. \A k \in Ids : ItemInv(k)'
    BY <2>2, AsideInv
  <2> QED
    BY <1>1, <2>1, <2>3 DEF Inv
<1>3. CASE UNCHANGED vars
  <2>1. Counted'
    BY <1>3 DEF vars, store, Inv, Counted, Share, Busy, Active, Tenants, Tenant
  <2>2. Keeps /\ \A k \in Ids : Aside(k)
    BY <1>3 DEF vars, store, Keeps, Aside
  <2> QED
    BY <1>1, <2>1, <2>2, AsideInv DEF Inv
<1> QED
  BY <1>1, <1>2, <1>3, RestartInv, NextCases

(* The inductive invariant holds at every state.                              *)
THEOREM Invariance == Spec => []Inv
  BY InitInv, NextInv, PTL DEF Spec

(* Every value keeps its type, and the suites this process has started and not   *)
(* seen end are those of runs at work, whatever was lost before.                 *)
THEOREM TypeCorrect == Spec => []TypeOK
<1>1. Inv => TypeOK
  BY DEF Inv
<1> QED
  BY <1>1, Invariance, PTL

(* The caps bound what they are for, over submissions, evictions, cancellations   *)
(* and restarts in any order: the jobs that are not cancelled, and the suites      *)
(* that run, in all and for each tenant; and the gauge is true                     *)
(* (jobs/store.ts:20-28, 59-64; runner/store.ts:6, 23-33).                         *)
THEOREM Caps == Spec => []CapsHold
<1>1. Inv => CapsHold
  <2> SUFFICES ASSUME Inv PROVE CapsHold
    OBVIOUS
  <2>1. children \subseteq Busy(Runs) /\ Busy(Runs) \in SUBSET Ids
    <3>1. \A r \in children : r \in Ids /\ r \in Runs /\ phase[r] = "working"
      BY DEF Inv, TypeOK, Ids
    <3>2. \A r \in children : r \in stored /\ status[r] = "active"
      BY <3>1 DEF Inv, ItemInv, Slotted
    <3> QED
      BY <3>1, <3>2 DEF Busy, Active, Inv, TypeOK
  <2>2. IsFiniteSet(Busy(Runs)) /\ Cardinality(Busy(Runs)) \in Nat
        /\ Cardinality(children) \in Nat /\ MaxActive \in Nat /\ MaxRuns \in Nat
    BY <2>1, Finite, Sources
  <2>3. Cardinality(children) <= MaxActive
    <3>1. Cardinality(children) <= Cardinality(Busy(Runs))
      BY <2>1, <2>2, FS_Subset
    <3> QED
      BY <2>2, <3>1 DEF Inv, Counted
  <2>4. ASSUME NEW r \in children
        PROVE  Cardinality({k \in children : tenantId[k] = tenantId[r]}) <= MaxRuns
    <3> DEFINE t == tenantId[r]
               S == {k \in children : tenantId[k] = t}
    <3>1. t \in Tenants
      BY <2>1 DEF Inv, TypeOK, Tenants
    <3>2. S \subseteq Share(t) /\ Share(t) \in SUBSET Ids
      BY <2>1 DEF Share
    <3> HIDE DEF t, S
    <3>3. IsFiniteSet(Share(t)) /\ Cardinality(Share(t)) \in Nat /\ Cardinality(S) \in Nat
      BY <3>2, Finite
    <3>4. Cardinality(S) <= Cardinality(Share(t)) /\ Cardinality(Share(t)) <= MaxRuns
      BY <3>1, <3>2, <3>3, FS_Subset DEF Inv, Counted
    <3>5. Cardinality(S) <= MaxRuns
      BY <2>2, <3>3, <3>4
    <3> QED
      BY <3>5 DEF S, t
  <2>5. ActiveJobs(stored, status) = Cardinality(Busy(Jobs))
    BY DEF ActiveJobs, Busy, Active
  <2> QED
    BY <2>3, <2>4, <2>5 DEF CapsHold, Inv, Counted
<1> QED
  BY <1>1, Invariance, PTL

(* What was seen completed feeds the next stage for good, and a stage works only   *)
(* on what its own tenant owns (jobs/persist.ts:10-11, auth.ts:20-21).              *)
THEOREM Pipeline == Spec => []PipelineHolds
<1>1. Inv => PipelineHolds
  <2> SUFFICES ASSUME Inv, NEW i \in Suites \cup Runs
               PROVE  /\ phase[i] = "reading" /\ Source[i] \in promised
                            /\ tenantId[Source[i]] = tenantId[i] => Feeds(i)
                      /\ phase[i] = "working" => tenantId[Source[i]] = tenantId[i]
    BY DEF PipelineHolds
  <2>1. i \in Ids /\ Source[i] \in Ids
    BY Sources DEF Ids
  <2>2. Source[i] \in promised => disk[Source[i]] = "full"
    BY <2>1 DEF Inv, ItemInv, Handed
  <2> QED
    BY <2>1, <2>2 DEF Inv, ItemInv, Fed, Feeds
<1> QED
  BY <1>1, Invariance, PTL
=============================================================================
