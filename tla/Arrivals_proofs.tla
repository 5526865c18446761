--------------------------- MODULE Arrivals_proofs ---------------------------
(***************************************************************************)
(* What brings meetings in, proved for every constant: the drops that      *)
(* `mint-drop` and `youtube-drop` make, the upload sessions, and the       *)
(* anchors of what came before them.  A behaviour of Keeping is of one     *)
(* component, so each invariant below is of that component's variables,    *)
(* whenever the behaviour is of it.                                        *)
(***************************************************************************)
EXTENDS Keeping, FiniteSetTheorems, TLAPS

-----------------------------------------------------------------------------
(* Producing drops: the lock on a source, and what stands beside it.       *)

MintFields == {"at", "entries", "pos", "root", "title", "source", "sha", "existed", "found",
           "outcome", "failed", "posted"}
MintListed == Listings \union {<<OwnFile>>}
MintShapes ==
  /\ DOMAIN run = Runs /\ \A r \in Runs : DOMAIN run[r] = MintFields
  /\ DOMAIN staged = Runs /\ \A r \in Runs : DOMAIN staged[r] = {"root", "bytes"}
  /\ DOMAIN lock = Mint!Range(Shard)
  /\ file \in Contents

\* The entry a run stands at is one it was given.
MintEntries ==
  \A r \in Runs :
    /\ run[r].at \notin {"rest", "ended"} => run[r].entries \in MintListed
    /\ run[r].pos \in Nat
    /\ run[r].at = "entry" => run[r].pos < Len(run[r].entries)
    /\ run[r].at \in {"root", "unprobe", "digest"} /\ ~Mint!IsMint(r) => run[r].source \in Videos

MintCritical == {"mkroot", "mkstage", "copy", "rename", "clean"}
MintIdentified ==
  \A r \in Runs : run[r].at \in MintCritical \union {"lock"} => run[r].source \in Mint!Sources
MintLockHeld ==
  \A r \in Runs : run[r].at \in MintCritical => lock[Shard[run[r].source]] = r
MintNoneBeside ==
  \A r \in Runs : run[r].at \in MintCritical \ {"clean"} => Mint!Matching(run[r].source) = {}
MintHashed ==
  \A r \in Runs : run[r].at = "rename" => staged[r].bytes = run[r].sha

MintAtMostOne == \A s \in Mint!Sources : \A t, u \in Mint!Matching(s) : t = u
MintDescribed == \A t \in DOMAIN drops : drops[t].bytes = drops[t].sha

MintDropInv == MintShapes /\ MintEntries /\ MintIdentified /\ MintLockHeld /\ MintNoneBeside /\ MintHashed /\ MintAtMostOne /\ MintDescribed

LEMMA MintInitInv == Mint!Configured /\ Mint!Init => MintDropInv
<1> SUFFICES ASSUME Mint!Configured, Mint!Init PROVE MintDropInv
  OBVIOUS
<1> USE DEF Mint!Init
<1>1. MintShapes /\ MintEntries /\ MintIdentified /\ MintLockHeld /\ MintNoneBeside /\ MintHashed
  BY DEF MintShapes, MintEntries, MintIdentified, MintLockHeld, MintNoneBeside, MintHashed, MintCritical,
     Mint!Unstarted, Mint!NotStaged, MintFields
<1>2. CASE drops = <<>>
  <2>1. DOMAIN drops = {}
    BY <1>2
  <2>2. QED
    BY <1>1, <2>1 DEF MintDropInv, MintAtMostOne, MintDescribed, Mint!Matching, Mint!Standing
<1>3. ASSUME NEW t \in Mint!Targets, drops \in [{t} -> [kind : Mint!Legacy, sha : {t.source}, bytes : {t.source}]]
      PROVE  MintDropInv
  <2>1. DOMAIN drops = {t} /\ drops[t].bytes = drops[t].sha
    BY <1>3
  <2>2. QED
    BY <1>1, <2>1 DEF MintDropInv, MintAtMostOne, MintDescribed, Mint!Matching, Mint!Standing
<1>4. QED
  BY <1>2, <1>3

\* A run outside its critical section, before and after: only its own fields and
\* nothing it shares with the others.
MintOutside(r) ==
  /\ DOMAIN run' = Runs /\ DOMAIN run'[r] = MintFields
  /\ \A o \in Runs \ {r} : run'[o] = run[o]
  /\ run'[r].at \notin MintCritical
  /\ run'[r].at = "lock" => run'[r].source \in Mint!Sources
  /\ run'[r].at \notin {"rest", "ended"} => run'[r].entries \in MintListed
  /\ run'[r].pos \in Nat
  /\ run'[r].at = "entry" => run'[r].pos < Len(run'[r].entries)
  /\ run'[r].at \in {"root", "unprobe", "digest"} /\ run'[r].entries # <<OwnFile>> => run'[r].source \in Videos

LEMMA MintOutsideStep ==
  ASSUME Mint!Configured, MintDropInv, NEW r \in Runs, MintOutside(r), UNCHANGED <<file, drops, staged, lock>>
  PROVE  MintDropInv'
<1> USE DEF MintDropInv, MintOutside
<1>1. MintShapes'
  BY DEF MintShapes
<1>2. MintEntries'
  BY DEF MintEntries, Mint!IsMint
<1>3. MintIdentified' /\ MintLockHeld' /\ MintHashed'
  BY DEF MintIdentified, MintLockHeld, MintHashed, MintCritical
<1>4. MintNoneBeside' /\ MintAtMostOne' /\ MintDescribed'
  BY DEF MintNoneBeside, MintAtMostOne, MintDescribed, Mint!Matching, Mint!Standing
<1>5. QED
  BY <1>1, <1>2, <1>3, <1>4

LEMMA MintStartStep ==
  ASSUME Mint!Configured, MintDropInv, NEW r \in Runs, Mint!StartMint(r) \/ Mint!StartYoutube(r)
  PROVE  MintDropInv'
<1> USE DEF MintDropInv
<1>1. PICK listing \in MintListed, root \in Roots, title \in Titles :
        run' = [run EXCEPT ![r] = [Mint!Unstarted EXCEPT !.at = "entry", !.entries = listing,
                                                    !.root = root, !.title = title]]
  BY DEF Mint!StartMint, Mint!StartYoutube, Mint!Starts, MintListed
<1>2. Len(listing) > 0
  BY <1>1 DEF MintListed, Mint!Configured
<1>3. MintOutside(r)
  BY <1>1, <1>2 DEF MintOutside, MintShapes, Mint!Unstarted, MintFields, MintCritical
<1>4. QED
  BY <1>3, MintOutsideStep DEF Mint!StartMint, Mint!StartYoutube, Mint!shared

LEMMA MintTakeEntryStep ==
  ASSUME Mint!Configured, MintDropInv, NEW r \in Runs, Mint!TakeEntry(r)
  PROVE  MintDropInv'
<1> USE DEF MintDropInv
<1> DEFINE entry == run[r].entries[run[r].pos + 1]
<1>1. /\ run[r].at = "entry" /\ run[r].entries \in MintListed /\ run[r].pos \in Nat
      /\ run[r].pos < Len(run[r].entries) /\ DOMAIN run = Runs /\ DOMAIN run[r] = MintFields
  BY DEF Mint!TakeEntry, MintEntries, MintShapes
<1>2. run[r].entries # <<OwnFile>> => entry \in Videos \union {NotVideo} /\ entry # OwnFile
  BY <1>1 DEF MintListed, Mint!Configured
<1>3. CASE Mint!Standing(entry) # {}
  <2>1. PICK t \in Mint!Standing(entry) : run' = [run EXCEPT ![r].pos = @ + 1, ![r].source = t.source, ![r].at = "outcome",
         ![r].found = IF drops[t].kind = "whole" THEN t ELSE Free,
         ![r].outcome = IF drops[t].kind = "whole" THEN "exists" ELSE "refused"]
    BY <1>3 DEF Mint!TakeEntry, Mint!Look
  <2>2. MintOutside(r)
    BY <1>1, <2>1 DEF MintOutside, MintFields, MintCritical
  <2>3. QED
    BY <2>2, MintOutsideStep DEF Mint!TakeEntry, Mint!shared
<1>4. CASE Mint!Standing(entry) = {}
  <2>1. Mint!Download(r, entry)
    BY <1>4 DEF Mint!TakeEntry
  <2>2. MintOutside(r)
    <3>1. CASE /\ entry \in Videos \/ entry = OwnFile
               /\ run' = [run EXCEPT ![r].pos = @ + 1, ![r].source = entry, ![r].at = "root"]
      BY <1>1, <1>2, <3>1 DEF MintOutside, MintFields, MintCritical
    <3>2. CASE run' = [Mint!Ends(r, "refused", "outcome") EXCEPT ![r].pos = @ + 1]
      BY <1>1, <3>2 DEF MintOutside, MintFields, MintCritical, Mint!Ends
    <3>3. QED
      BY <2>1, <3>1, <3>2 DEF Mint!Download
  <2>3. QED
    BY <2>2, MintOutsideStep DEF Mint!TakeEntry, Mint!shared
<1>5. QED
  BY <1>3, <1>4

\* What the end of an entry leaves of the run's record.
LEMMA MintNextEntryFields ==
  ASSUME MintShapes, NEW r \in Runs, NEW failed \in BOOLEAN, NEW posted \in BOOLEAN, Mint!NextEntry(r, failed, posted)
  PROVE  /\ DOMAIN run' = Runs /\ DOMAIN run'[r] = MintFields /\ \A o \in Runs \ {r} : run'[o] = run[o]
         /\ run'[r].root = run[r].root /\ run'[r].source = run[r].source
         /\ run'[r].entries = run[r].entries /\ run'[r].pos = run[r].pos
         /\ ~run'[r].failed => ~run[r].failed /\ ~failed
         /\ run'[r].posted => run[r].posted /\ posted
         /\ run'[r].at = IF run[r].pos < Len(run[r].entries) THEN "entry" ELSE "ended"
         /\ run'[r].outcome = "none"
<1>1. DOMAIN run = Runs /\ DOMAIN run[r] = MintFields
  BY DEF MintShapes
<1>2. /\ DOMAIN run' = Runs /\ DOMAIN run'[r] = MintFields /\ \A o \in Runs \ {r} : run'[o] = run[o]
      /\ run'[r].root = run[r].root /\ run'[r].source = run[r].source
      /\ run'[r].entries = run[r].entries /\ run'[r].pos = run[r].pos
      /\ run'[r].at = IF run[r].pos < Len(run[r].entries) THEN "entry" ELSE "ended"
      /\ run'[r].outcome = "none"
  BY <1>1, ZenonT(60) DEF Mint!NextEntry, MintFields
<1>3. ~run'[r].failed => ~run[r].failed /\ ~failed
  BY <1>1, ZenonT(60) DEF Mint!NextEntry, MintFields
<1>4. run'[r].posted => run[r].posted /\ posted
  BY <1>1, ZenonT(60) DEF Mint!NextEntry, MintFields
<1>5. QED
  BY <1>2, <1>3, <1>4

\* The root's probe, the digest, the wait for the lock and the delivery.
LEMMA MintPlainSteps ==
  ASSUME Mint!Configured, MintDropInv, NEW r \in Runs,
         \/ Mint!ProbeRoot(r) \/ Mint!UnprobeRoot(r) \/ Mint!Digest(r) \/ Mint!LockTimeout(r)
         \/ Mint!StopEntry(r) \/ Mint!PostAccepted(r) \/ Mint!PostFails(r)
  PROVE  MintDropInv'
<1> USE DEF MintDropInv, MintShapes, MintEntries, Mint!IsMint
<1>1. MintOutside(r)
  <2> USE DEF MintOutside, MintFields, MintCritical, Mint!Refuse, Mint!Ends
  <2>1. CASE Mint!ProbeRoot(r)
    BY <2>1 DEF Mint!ProbeRoot
  <2>2. CASE Mint!UnprobeRoot(r)
    BY <2>2 DEF Mint!UnprobeRoot
  <2>3. CASE Mint!Digest(r)
    <3> DEFINE sha == IF Mint!IsMint(r) THEN file ELSE run[r].source
    <3>1. run[r].at = "digest" /\ sha \in Mint!Sources
      BY <2>3 DEF Mint!Digest, Mint!Sources
    <3>2. \/ run' = [run EXCEPT ![r].source = sha, ![r].sha = sha, ![r].at = "lock"]
          \/ run' = [run EXCEPT ![r].outcome = "refused", ![r].at = "outcome"]
      BY <2>3, Zenon DEF Mint!Digest, Mint!Refuse, Mint!Ends
    <3> HIDE DEF sha
    <3>3. QED
      BY <3>1, <3>2
  <2>4. CASE Mint!LockTimeout(r)
    BY <2>4 DEF Mint!LockTimeout
  <2>5. CASE Mint!StopEntry(r) \/ Mint!PostAccepted(r) \/ Mint!PostFails(r)
    <3>1. PICK failed \in BOOLEAN, posted \in BOOLEAN : Mint!NextEntry(r, failed, posted)
      BY <2>5 DEF Mint!StopEntry, Mint!PostAccepted, Mint!PostFails, Mint!FailedPost, Mint!Delivers
    <3>2. run[r].at = "outcome"
      BY <2>5 DEF Mint!StopEntry, Mint!PostAccepted, Mint!PostFails
    <3>3. QED
      BY <3>1, <3>2, MintNextEntryFields
  <2>6. QED
    BY <2>1, <2>2, <2>3, <2>4, <2>5
<1>2. UNCHANGED <<file, drops, staged, lock>>
  BY DEF Mint!ProbeRoot, Mint!UnprobeRoot, Mint!Digest, Mint!LockTimeout, Mint!StopEntry,
     Mint!PostAccepted, Mint!PostFails, Mint!shared
<1>3. QED
  BY <1>1, <1>2, MintOutsideStep

-----------------------------------------------------------------------------
(* The critical section.                                                   *)

\* A run that stays in it with its source, or leaves it; no drop is made.
MintInside(r) ==
  /\ DOMAIN run' = Runs /\ DOMAIN run'[r] = MintFields
  /\ \A o \in Runs \ {r} : run'[o] = run[o] /\ staged'[o] = staged[o]
  /\ DOMAIN staged' = Runs /\ DOMAIN staged'[r] = {"root", "bytes"}
  /\ run[r].at \in MintCritical /\ run'[r].at \in MintCritical /\ run[r].at # "clean"
  /\ run'[r].source = run[r].source /\ run'[r].entries = run[r].entries /\ run'[r].pos = run[r].pos
  /\ run'[r].at = "rename" => staged'[r].bytes = run'[r].sha

LEMMA MintInsideStep ==
  ASSUME Mint!Configured, MintDropInv, NEW r \in Runs, MintInside(r), UNCHANGED <<file, drops, lock>>
  PROVE  MintDropInv'
<1> USE DEF MintDropInv, MintInside
<1>1. MintShapes' /\ MintEntries'
  BY DEF MintShapes, MintEntries, Mint!IsMint, MintCritical
<1>2. MintIdentified' /\ MintLockHeld' /\ MintHashed'
  BY DEF MintIdentified, MintLockHeld, MintHashed
<1>3. MintNoneBeside' /\ MintAtMostOne' /\ MintDescribed'
  BY DEF MintNoneBeside, MintAtMostOne, MintDescribed, Mint!Matching, Mint!Standing
<1>4. QED
  BY <1>1, <1>2, <1>3

LEMMA MintAssemblySteps ==
  ASSUME Mint!Configured, MintDropInv, NEW r \in Runs,
         Mint!MakeStagingRoot(r) \/ Mint!MakeStaging(r) \/ Mint!CopyVerified(r) \/ Mint!ExistingTarget(r)
  PROVE  MintDropInv'
<1> USE DEF MintDropInv, MintShapes
<1>1. MintInside(r)
  <2> USE DEF MintInside, MintFields, MintCritical, Mint!Goto, Mint!Ends
  <2>1. CASE Mint!MakeStagingRoot(r)
    BY <2>1 DEF Mint!MakeStagingRoot
  <2>2. CASE Mint!MakeStaging(r)
    BY <2>2 DEF Mint!MakeStaging
  <2>3. CASE Mint!CopyVerified(r)
    BY <2>3 DEF Mint!CopyVerified, Mint!Verified
  <2>4. CASE Mint!ExistingTarget(r)
    BY <2>4 DEF Mint!ExistingTarget, MintHashed, Mint!shared
  <2>5. QED
    BY <2>1, <2>2, <2>3, <2>4
<1>2. UNCHANGED <<file, drops, lock>>
  BY DEF Mint!MakeStagingRoot, Mint!MakeStaging, Mint!CopyVerified, Mint!ExistingTarget, Mint!shared
<1>3. QED
  BY <1>1, <1>2, MintInsideStep

\* Taken only by a run that found no drop of its source.
LEMMA MintTakeLockStep ==
  ASSUME Mint!Configured, MintDropInv, NEW r \in Runs, Mint!TakeLock(r)
  PROVE  MintDropInv'
<1> USE DEF MintDropInv
<1>1. run[r].at = "lock" /\ run[r].source \in Mint!Sources /\ UNCHANGED <<file, drops, staged>>
  BY DEF Mint!TakeLock, MintIdentified
<1>2. CASE UNCHANGED lock /\ run'[r].at # "mkroot"
  <2>1. MintOutside(r)
    BY <1>1, <1>2 DEF Mint!TakeLock, MintOutside, MintShapes, MintEntries, MintFields, MintCritical,
       Mint!Ends, Mint!Refuse, Mint!Goto
  <2>2. QED
    BY <1>1, <1>2, <2>1, MintOutsideStep
<1>3. CASE /\ Mint!Found(r) = {} /\ lock' = [lock EXCEPT ![Shard[run[r].source]] = r]
           /\ run' = [run EXCEPT ![r].at = "mkroot"]
  <2>1. MintShapes' /\ MintEntries'
    BY <1>1, <1>3 DEF MintShapes, MintEntries, Mint!IsMint, MintFields
  <2>2. MintIdentified' /\ MintHashed'
    BY <1>1, <1>3 DEF MintShapes, MintFields, MintIdentified, MintHashed
  <2>3. MintLockHeld'
    <3>1. Shard[run[r].source] \in DOMAIN lock /\ lock[Shard[run[r].source]] = Free
      BY <1>1 DEF Mint!TakeLock, MintShapes, Mint!Configured, Mint!Range
    <3>2. \A o \in Runs \ {r} : run[o].at \in MintCritical => Shard[run[o].source] # Shard[run[r].source]
      BY <3>1 DEF MintLockHeld, Mint!Configured
    <3>3. QED
      BY <1>1, <1>3, <3>1, <3>2 DEF MintLockHeld, MintShapes, MintFields
  <2>4. MintNoneBeside'
    BY <1>1, <1>3 DEF MintNoneBeside, Mint!Found, Mint!Matching, Mint!Standing, MintShapes, MintFields
  <2>5. MintAtMostOne' /\ MintDescribed'
    BY <1>1 DEF MintAtMostOne, MintDescribed, Mint!Matching, Mint!Standing
  <2>6. QED
    BY <2>1, <2>2, <2>3, <2>4, <2>5
<1>4. QED
  BY <1>2, <1>3 DEF Mint!TakeLock, MintShapes, MintFields, Mint!Ends, Mint!Refuse, Mint!Goto

\* The one rename: no other run has this source's lock, so none is let down.
LEMMA MintFinalizeStep ==
  ASSUME Mint!Configured, MintDropInv, NEW r \in Runs, Mint!Finalize(r)
  PROVE  MintDropInv'
<1> USE DEF MintDropInv
<1> DEFINE s == run[r].source
           made == [kind |-> "whole", sha |-> run[r].sha, bytes |-> staged[r].bytes]
<1>1. /\ run[r].at = "rename" /\ s \in Mint!Sources /\ Mint!Matching(s) = {} /\ lock[Shard[s]] = r
      /\ staged[r].bytes = run[r].sha /\ Mint!Target(r).source = s /\ Mint!Target(r) \notin DOMAIN drops
  BY DEF Mint!Finalize, MintIdentified, MintNoneBeside, MintLockHeld, MintHashed, MintCritical,
     Mint!Target
<1>2. /\ DOMAIN drops' = DOMAIN drops \union {Mint!Target(r)} /\ drops'[Mint!Target(r)] = made
      /\ \A t \in DOMAIN drops : drops'[t] = drops[t]
  BY <1>1 DEF Mint!Finalize
<1>3. UNCHANGED <<file, lock>> /\ staged' = [staged EXCEPT ![r] = Mint!NotStaged]
  BY DEF Mint!Finalize
<1>4. /\ DOMAIN run' = Runs /\ DOMAIN run'[r] = MintFields /\ \A o \in Runs \ {r} : run'[o] = run[o]
      /\ run'[r].at = "clean" /\ run'[r].source = s /\ run'[r].entries = run[r].entries /\ run'[r].pos = run[r].pos
  BY DEF Mint!Finalize, Mint!Ends, MintShapes, MintFields
<1>5. MintShapes' /\ MintEntries'
  BY <1>1, <1>3, <1>4 DEF MintShapes, MintEntries, Mint!IsMint, Mint!NotStaged
<1>6. MintIdentified' /\ MintLockHeld' /\ MintHashed'
  BY <1>1, <1>3, <1>4 DEF MintIdentified, MintLockHeld, MintHashed, MintShapes, MintCritical
<1>7. Mint!Matching(s)' \subseteq {Mint!Target(r)} /\ \A z \in Mint!Sources \ {s} : Mint!Matching(z)' = Mint!Matching(z)
  <2> DEFINE M(z, t) == t \in DOMAIN drops /\ t.source = z /\ drops[t].kind \in {"whole", "incomplete"}
             N(z, t) == t \in DOMAIN drops' /\ t.source = z /\ drops'[t].kind \in {"whole", "incomplete"}
  <2>1. \A z, t : (t \in Mint!Matching(z) <=> M(z, t)) /\ (t \in Mint!Matching(z)' <=> N(z, t))
    BY DEF Mint!Matching, Mint!Standing
  <2>2. \A z, t : N(z, t) => M(z, t) \/ (t = Mint!Target(r) /\ z = s)
    BY <1>1, <1>2
  <2>3. \A z, t : M(z, t) => N(z, t)
    BY <1>2
  <2>4. Mint!Matching(s)' \subseteq {Mint!Target(r)}
    BY <1>1, <1>4, <2>1, <2>2
  <2>5. ASSUME NEW z \in Mint!Sources \ {s} PROVE Mint!Matching(z)' = Mint!Matching(z)
    BY <2>1, <2>2, <2>3
  <2>6. QED
    BY <2>4, <2>5
<1>8. MintNoneBeside'
  <2>1. \A o \in Runs \ {r} : run[o].at \in MintCritical => run[o].source # s
    BY <1>1 DEF MintLockHeld
  <2>2. QED
    BY <1>4, <1>7, <2>1 DEF MintNoneBeside, MintIdentified, Mint!Matching, Mint!Standing
<1>9. MintAtMostOne' /\ MintDescribed'
  <2>1. ASSUME NEW z \in Mint!Sources, NEW t \in Mint!Matching(z)', NEW u \in Mint!Matching(z)' PROVE t = u
    BY <1>4, <1>7 DEF MintAtMostOne
  <2>2. MintAtMostOne'
    BY <2>1 DEF MintAtMostOne
  <2>3. MintDescribed'
    BY <1>1, <1>2 DEF MintDescribed
  <2>4. QED
    BY <2>2, <2>3
<1>10. QED
  BY <1>5, <1>6, <1>8, <1>9

\* The lock goes with the run that held it.
LEMMA MintReleaseSteps ==
  ASSUME Mint!Configured, MintDropInv, NEW r \in Runs, Mint!CleanUp(r) \/ Mint!Killed(r)
  PROVE  MintDropInv'
<1> USE DEF MintDropInv
<1>1. /\ DOMAIN run' = Runs /\ DOMAIN run'[r] = MintFields /\ \A o \in Runs \ {r} : run'[o] = run[o]
      /\ run'[r].at \in {"outcome", "ended"} /\ run'[r].pos \in Nat
      /\ run'[r].at = "outcome" => run'[r].entries \in MintListed
  <2>1. CASE Mint!CleanUp(r)
    BY <2>1 DEF Mint!CleanUp, Mint!Goto, MintShapes, MintEntries, MintFields
  <2>2. CASE Mint!Killed(r)
    BY <2>2 DEF Mint!Killed, Mint!Unstarted, MintShapes, MintFields
  <2>3. QED
    BY <2>1, <2>2
<1>2. UNCHANGED <<file, drops>> /\ staged' = [staged EXCEPT ![r] = Mint!NotStaged]
  BY DEF Mint!CleanUp, Mint!Killed
<1>3. DOMAIN lock' = DOMAIN lock /\ \A k \in DOMAIN lock : lock'[k] = lock[k] \/ lock[k] = r
  <2>1. CASE Mint!CleanUp(r)
    <3>1. lock[Shard[run[r].source]] = r
      BY <2>1 DEF Mint!CleanUp, MintLockHeld, MintCritical
    <3>2. QED
      BY <2>1, <3>1 DEF Mint!CleanUp
  <2>2. CASE Mint!Killed(r)
    BY <2>2 DEF Mint!Killed
  <2>3. QED
    BY <2>1, <2>2
<1>4. MintShapes' /\ MintEntries'
  BY <1>1, <1>2, <1>3 DEF MintShapes, MintEntries, Mint!IsMint, Mint!NotStaged
<1>5. MintIdentified' /\ MintHashed'
  BY <1>1, <1>2 DEF MintIdentified, MintHashed, MintCritical, MintShapes
<1>6. MintLockHeld'
  <2>1. \A o \in Runs \ {r} : run[o].at \in MintCritical => Shard[run[o].source] \in DOMAIN lock
    BY DEF MintIdentified, MintShapes, Mint!Configured, Mint!Range
  <2>2. QED
    BY <1>1, <1>3, <2>1 DEF MintLockHeld, MintCritical
<1>7. MintNoneBeside' /\ MintAtMostOne' /\ MintDescribed'
  BY <1>1, <1>2 DEF MintNoneBeside, MintAtMostOne, MintDescribed, Mint!Matching, Mint!Standing,
     MintCritical
<1>8. QED
  BY <1>4, <1>5, <1>6, <1>7

LEMMA MintNextInv ==
  ASSUME Mint!Configured, MintDropInv, Mint!Next \/ UNCHANGED mintVars
  PROVE  MintDropInv'
<1>1. ASSUME NEW r \in Runs, Mint!Producing(r) PROVE MintDropInv'
  BY <1>1, MintStartStep, MintTakeEntryStep, MintPlainSteps, MintTakeLockStep, MintAssemblySteps,
     MintFinalizeStep, MintReleaseSteps
     DEF Mint!Producing
<1>2. ASSUME NEW r \in Runs, Mint!Killed(r) PROVE MintDropInv'
  BY <1>2, MintReleaseSteps
<1>3. CASE Mint!EditFile
  BY <1>3 DEF Mint!EditFile, Mint!shared, MintDropInv, MintShapes, MintEntries, Mint!IsMint,
     MintIdentified, MintLockHeld, MintNoneBeside, MintHashed,
              MintAtMostOne, MintDescribed, Mint!Matching, Mint!Standing
<1>4. CASE Mint!Ended \/ UNCHANGED mintVars
  BY <1>4 DEF Mint!Ended, Mint!vars, mintVars, MintDropInv, MintShapes, MintEntries, Mint!IsMint,
     MintIdentified, MintLockHeld, MintNoneBeside, MintHashed,
              MintAtMostOne, MintDescribed, Mint!Matching, Mint!Standing
<1>5. QED
  BY <1>1, <1>2, <1>3, <1>4 DEF Mint!Next

-----------------------------------------------------------------------------
(* Nothing staged is left: whoever made a staging area is there to take it *)
(* away, until a run is killed.                                            *)

MintHolds(r, root) ==
  /\ run[r].root = root
  /\ run[r].at \in {"mkstage", "copy", "rename", "clean"} \/ (run[r].at = "unprobe" /\ ~run[r].existed)
MintStagingInv ==
  /\ deaths \in Nat
  /\ \A r \in Runs : staged[r].root # Free => run[r].at \in {"copy", "rename", "clean"} /\ run[r].root = staged[r].root
  /\ \A r \in Runs : run[r].at \notin {"rest", "ended"} => run[r].root \in Roots
  /\ deaths = 0 => litter = {} /\ \A root \in stagingDirs : \E r \in Runs : MintHolds(r, root)

LEMMA MintStagingInit == Mint!Init => MintStagingInv
BY DEF Mint!Init, Mint!NotStaged, Mint!Unstarted, MintStagingInv

\* A run that is at none of those places, before and after.
LEMMA MintStagingElsewhere ==
  ASSUME MintShapes, MintStagingInv, NEW r \in Runs, run[r].at \notin {"unprobe", "mkstage", "copy", "rename", "clean"},
         \A o \in Runs \ {r} : run'[o] = run[o], run'[r].at \notin {"rest", "ended"} => run'[r].root \in Roots,
         UNCHANGED <<stagingDirs, staged, litter, deaths>>
  PROVE  MintStagingInv'
BY DEF MintStagingInv, MintHolds

LEMMA MintStagingQuiet ==
  ASSUME MintShapes, MintStagingInv, NEW r \in Runs,
         \/ Mint!StartMint(r) \/ Mint!StartYoutube(r) \/ Mint!TakeEntry(r) \/ Mint!Digest(r) \/ Mint!TakeLock(r)
         \/ Mint!LockTimeout(r) \/ Mint!StopEntry(r) \/ Mint!PostAccepted(r) \/ Mint!PostFails(r)
  PROVE  MintStagingInv'
<1>1. UNCHANGED <<stagingDirs, staged, litter, deaths>> /\ run[r].at \notin {"unprobe", "mkstage", "copy", "rename", "clean"}
  BY DEF Mint!StartMint, Mint!StartYoutube, Mint!TakeEntry, Mint!Digest, Mint!TakeLock, Mint!LockTimeout,
     Mint!StopEntry,
         Mint!PostAccepted, Mint!PostFails, Mint!shared
<1>2. (\A o \in Runs \ {r} : run'[o] = run[o]) /\ (run'[r].at \notin {"rest", "ended"} => run'[r].root \in Roots)
  <2> USE DEF MintStagingInv, Mint!Unstarted, MintFields, MintShapes, Mint!Refuse, Mint!Ends, Mint!Goto,
     Mint!NextEntry
  <2>1. CASE Mint!StartMint(r) \/ Mint!StartYoutube(r)
    BY <2>1, ZenonT(60) DEF Mint!StartMint, Mint!StartYoutube, Mint!Starts
  <2>2. CASE Mint!TakeEntry(r)
    <3> DEFINE entry == run[r].entries[run[r].pos + 1]
    <3>1. CASE Mint!Standing(entry) # {}
      <4>1. PICK t \in Mint!Standing(entry) : run' = [run EXCEPT ![r].pos = @ + 1, ![r].source = t.source, ![r].at = "outcome",
             ![r].found = IF drops[t].kind = "whole" THEN t ELSE Free,
             ![r].outcome = IF drops[t].kind = "whole" THEN "exists" ELSE "refused"]
        BY <2>2, <3>1 DEF Mint!TakeEntry, Mint!Look
      <4>2. run'[r].root = run[r].root /\ (\A o \in Runs \ {r} : run'[o] = run[o]) /\ run[r].at = "entry"
        BY <2>2, <4>1 DEF Mint!TakeEntry
      <4>3. QED
        BY <4>2
    <3>2. CASE Mint!Standing(entry) = {}
      <4>1. \/ run' = [run EXCEPT ![r].pos = @ + 1, ![r].source = entry, ![r].at = "root"]
            \/ run' = [Mint!Ends(r, "refused", "outcome") EXCEPT ![r].pos = @ + 1]
        BY <2>2, <3>2 DEF Mint!TakeEntry, Mint!Download
      <4>2. run'[r].root = run[r].root /\ (\A o \in Runs \ {r} : run'[o] = run[o]) /\ run[r].at = "entry"
        BY <2>2, <4>1 DEF Mint!TakeEntry
      <4>3. QED
        BY <4>2
    <3>3. QED
      BY <3>1, <3>2
  <2>3. CASE Mint!Digest(r) \/ Mint!TakeLock(r) \/ Mint!LockTimeout(r)
    BY <2>3 DEF Mint!Digest, Mint!TakeLock, Mint!LockTimeout
  <2>4. CASE Mint!StopEntry(r) \/ Mint!PostAccepted(r) \/ Mint!PostFails(r)
    <3>1. PICK failed \in BOOLEAN, posted \in BOOLEAN : Mint!NextEntry(r, failed, posted)
      BY <2>4 DEF Mint!StopEntry, Mint!PostAccepted, Mint!PostFails, Mint!FailedPost, Mint!Delivers
    <3>2. run[r].at = "outcome"
      BY <2>4 DEF Mint!StopEntry, Mint!PostAccepted, Mint!PostFails
    <3>3. QED
      BY <3>1, <3>2, MintNextEntryFields DEF MintStagingInv
  <2>5. QED
    BY <2>1, <2>2, <2>3, <2>4
<1>3. QED
  BY <1>1, <1>2, MintStagingElsewhere

\* The steps that make staging areas, and those that take them away.
LEMMA MintStagingMakes ==
  ASSUME Mint!Configured, MintShapes, MintStagingInv, NEW r \in Runs,
         Mint!ProbeRoot(r) \/ Mint!MakeStagingRoot(r) \/ Mint!MakeStaging(r) \/ Mint!CopyVerified(r) \/ Mint!ExistingTarget(r)
  PROVE  MintStagingInv'
<1> USE DEF MintStagingInv, MintHolds, MintShapes, MintFields, Mint!Goto, Mint!Ends, Mint!shared
<1>1. CASE Mint!ProbeRoot(r)
  BY <1>1 DEF Mint!ProbeRoot
<1>2. CASE Mint!MakeStagingRoot(r)
  BY <1>2 DEF Mint!MakeStagingRoot
<1>3. CASE Mint!MakeStaging(r)
  BY <1>3 DEF Mint!MakeStaging
<1>4. CASE Mint!CopyVerified(r)
  BY <1>4 DEF Mint!CopyVerified
<1>5. CASE Mint!ExistingTarget(r)
  BY <1>5 DEF Mint!ExistingTarget
<1>6. QED
  BY <1>1, <1>2, <1>3, <1>4, <1>5

LEMMA MintStagingTakes ==
  ASSUME Mint!Configured, MintShapes, MintStagingInv, NEW r \in Runs,
         Mint!UnprobeRoot(r) \/ Mint!Finalize(r) \/ Mint!CleanUp(r) \/ Mint!Killed(r)
  PROVE  MintStagingInv'
<1> USE DEF MintStagingInv, MintHolds, MintShapes, MintFields, Mint!Goto, Mint!Ends, Mint!shared,
   Mint!NotStaged
<1>1. CASE Mint!UnprobeRoot(r)
  BY <1>1 DEF Mint!UnprobeRoot, Mint!Empty, Mint!Configured
<1>2. CASE Mint!Finalize(r)
  BY <1>2 DEF Mint!Finalize
<1>3. CASE Mint!CleanUp(r)
  BY <1>3 DEF Mint!CleanUp, Mint!Configured
<1>4. CASE Mint!Killed(r)
  BY <1>4 DEF Mint!Killed, Mint!Unstarted
<1>5. QED
  BY <1>1, <1>2, <1>3, <1>4

-----------------------------------------------------------------------------
(* A run that exits zero has earned it: what it handed on for every entry   *)
(* behind it stands, and intake knows of it.                                *)

MintStands(s) == \E t \in DOMAIN drops : t.source = s /\ drops[t].kind \in {"whole", "incomplete"}
MintStandsWhole(s) == \E t \in DOMAIN drops : t.source = s /\ drops[t].kind = "whole"

\* A playlist's run works at the row it counted last, and no drop of that video
\* stands that this release would not have made.
MintAtEntry(r) ==
  /\ \/ run[r].at \in {"root", "unprobe", "digest", "lock", "mkroot", "mkstage", "copy", "rename"}
     \/ run[r].at \in {"clean", "outcome"} /\ Mint!Delivers(r)
     => run[r].pos > 0 /\ run[r].source = run[r].entries[run[r].pos]
  /\ run[r].at \in {"root", "unprobe", "digest", "lock"} =>
       \A t \in DOMAIN drops : t.source = run[r].source => drops[t].kind = "whole"
MintFoundIt(r) ==
  run[r].at \in {"clean", "outcome"} /\ Mint!Delivers(r) =>
    /\ run[r].found \in DOMAIN drops /\ run[r].found.source = run[r].source
    /\ drops[run[r].found].kind \in IF Mint!IsMint(r) THEN {"whole", "incomplete"} ELSE {"whole"}
MintDone(r) == IF run[r].at \in {"entry", "ended"} THEN 1 .. run[r].pos ELSE 1 .. (run[r].pos - 1)
MintEarned(r) ==
  run[r].at # "rest" /\ run[r].posted /\ ~run[r].failed =>
    /\ run[r].entries \in MintListed
    /\ run[r].at = "ended" => run[r].pos >= Len(run[r].entries)
    /\ Mint!IsMint(r) /\ run[r].at = "ended" => run[r].source \in jobs /\ MintStands(run[r].source)
    /\ ~Mint!IsMint(r) => \A i \in MintDone(r) : run[r].entries[i] \in jobs /\ MintStandsWhole(run[r].entries[i])
MintWorth(r) == (~Mint!IsMint(r) => MintAtEntry(r)) /\ MintFoundIt(r) /\ MintEarned(r)
MintEarnedInv == \A r \in Runs : MintWorth(r)

LEMMA MintEarnedInit == Mint!Init => MintEarnedInv
BY DEF Mint!Init, Mint!Unstarted, MintEarnedInv, MintWorth, MintAtEntry, MintFoundIt, MintEarned

\* Drops stay and are joined only by whole ones; jobs stay.
MintGrows ==
  /\ \A t \in DOMAIN drops : t \in DOMAIN drops' /\ drops'[t] = drops[t]
  /\ \A t \in DOMAIN drops' \ DOMAIN drops : drops'[t].kind = "whole"
  /\ jobs \subseteq jobs'

LEMMA MintWorthKept ==
  ASSUME MintGrows, NEW r \in Runs, MintWorth(r), run'[r] = run[r]
  PROVE  MintWorth(r)'
<1> USE DEF MintWorth, MintGrows
<1>1. \A s : (MintStands(s) => MintStands(s)') /\ (MintStandsWhole(s) => MintStandsWhole(s)')
  BY DEF MintStands, MintStandsWhole
<1>2. (~Mint!IsMint(r) => MintAtEntry(r))'
  BY DEF MintAtEntry, Mint!IsMint, Mint!Delivers
<1>3. MintFoundIt(r)'
  BY DEF MintFoundIt, Mint!IsMint, Mint!Delivers
<1>4. MintEarned(r)'
  BY <1>1 DEF MintEarned, MintDone, Mint!IsMint
<1>5. QED
  BY <1>2, <1>3, <1>4

LEMMA MintWorthStep ==
  ASSUME MintEarnedInv, MintGrows, NEW r \in Runs, \A o \in Runs \ {r} : run'[o] = run[o], MintWorth(r)'
  PROVE  MintEarnedInv'
BY MintWorthKept DEF MintEarnedInv

\* Between two entries nothing is claimed that was not before.
LEMMA MintWorthMoves ==
  ASSUME MintShapes, MintEarnedInv, NEW r \in Runs, MintGrows, \A o \in Runs \ {r} : run'[o] = run[o],
         run[r].at \notin {"rest", "entry", "ended"}, run'[r].at \notin {"rest", "entry", "ended"},
         run'[r].pos = run[r].pos, run'[r].entries = run[r].entries, run'[r].posted = run[r].posted, run'[r].failed = run[r].failed,
         ~Mint!IsMint(r) => MintAtEntry(r)', MintFoundIt(r)'
  PROVE  MintEarnedInv'
<1>1. \A s : MintStandsWhole(s) => MintStandsWhole(s)'
  BY DEF MintStandsWhole, MintGrows
<1>2. MintEarned(r)'
  BY <1>1 DEF MintEarnedInv, MintWorth, MintEarned, MintDone, Mint!IsMint, MintGrows
<1>3. QED
  BY <1>2, MintWorthStep DEF MintWorth, Mint!IsMint

LEMMA MintWorthStarts ==
  ASSUME MintDropInv, MintEarnedInv, NEW r \in Runs, Mint!StartMint(r) \/ Mint!StartYoutube(r)
  PROVE  MintEarnedInv'
<1>1. PICK listing \in MintListed, root \in Roots, title \in Titles :
        run' = [run EXCEPT ![r] = [Mint!Unstarted EXCEPT !.at = "entry", !.entries = listing,
                                                    !.root = root, !.title = title]]
  BY DEF Mint!StartMint, Mint!StartYoutube, Mint!Starts, MintListed
<1>2. UNCHANGED <<drops, jobs>>
  BY DEF Mint!StartMint, Mint!StartYoutube, Mint!shared
<1>3. run'[r].at = "entry" /\ run'[r].entries = listing /\ run'[r].pos = 0 /\ \A o \in Runs \ {r} : run'[o] = run[o]
  BY <1>1 DEF MintDropInv, MintShapes, MintFields, Mint!Unstarted
<1>4. MintWorth(r)' /\ MintGrows
  BY <1>2, <1>3 DEF MintWorth, MintAtEntry, MintFoundIt, MintEarned, MintDone, MintGrows
<1>5. QED
  BY <1>3, <1>4, MintWorthStep

LEMMA MintWorthTakes ==
  ASSUME Mint!Configured, MintDropInv, MintEarnedInv, NEW r \in Runs, Mint!TakeEntry(r)
  PROVE  MintEarnedInv'
<1> DEFINE entry == run[r].entries[run[r].pos + 1]
<1>1. /\ run[r].at = "entry" /\ run[r].pos \in Nat /\ DOMAIN run = Runs /\ DOMAIN run[r] = MintFields /\ UNCHANGED <<drops, jobs>>
      /\ MintWorth(r)
  BY DEF Mint!TakeEntry, MintDropInv, MintEntries, MintShapes, MintEarnedInv, Mint!shared
<1>2. MintGrows
  BY <1>1 DEF MintGrows
<1>3. /\ \A o \in Runs \ {r} : run'[o] = run[o]
      /\ run'[r].pos = run[r].pos + 1 /\ run'[r].entries = run[r].entries
      /\ run'[r].posted = run[r].posted /\ run'[r].failed = run[r].failed
      /\ \/ \E t \in DOMAIN drops :
               /\ t.source = entry /\ run'[r].source = entry /\ run'[r].at = "outcome"
               /\ run'[r].found = IF drops[t].kind = "whole" THEN t ELSE Free
               /\ run'[r].outcome = IF drops[t].kind = "whole" THEN "exists" ELSE "refused"
         \/ Mint!Standing(entry) = {} /\ run'[r].source = entry /\ run'[r].at = "root"
         \/ run'[r].at = "outcome" /\ run'[r].outcome = "refused"
  <2>1. CASE Mint!Standing(entry) # {}
    <3>1. PICK t \in Mint!Standing(entry) : run' = [run EXCEPT ![r].pos = @ + 1, ![r].source = t.source, ![r].at = "outcome",
           ![r].found = IF drops[t].kind = "whole" THEN t ELSE Free,
           ![r].outcome = IF drops[t].kind = "whole" THEN "exists" ELSE "refused"]
      BY <2>1 DEF Mint!TakeEntry, Mint!Look
    <3>2. QED
      BY <1>1, <3>1 DEF Mint!Standing, MintFields
  <2>2. CASE Mint!Standing(entry) = {}
    <3>1. \/ run' = [run EXCEPT ![r].pos = @ + 1, ![r].source = entry, ![r].at = "root"]
          \/ run' = [Mint!Ends(r, "refused", "outcome") EXCEPT ![r].pos = @ + 1]
      BY <2>2 DEF Mint!TakeEntry, Mint!Download
    <3>2. QED
      BY <1>1, <2>2, <3>1 DEF Mint!Ends, MintFields
  <2>3. QED
    BY <2>1, <2>2
<1> HIDE DEF entry
<1>4. (~Mint!IsMint(r) => MintAtEntry(r))' /\ MintFoundIt(r)'
  <2>1. run'[r].pos > 0 /\ run'[r].entries[run'[r].pos] = entry
    BY <1>1, <1>3 DEF entry
  <2>2. ASSUME NEW t \in DOMAIN drops, t.source = entry, run'[r].source = entry, run'[r].at = "outcome",
               run'[r].found = IF drops[t].kind = "whole" THEN t ELSE Free,
               run'[r].outcome = IF drops[t].kind = "whole" THEN "exists" ELSE "refused"
        PROVE  MintAtEntry(r)' /\ MintFoundIt(r)'
    <3>1. MintAtEntry(r)'
      BY <2>1, <2>2 DEF MintAtEntry
    <3>2. MintFoundIt(r)'
      BY <1>1, <2>2 DEF MintFoundIt, Mint!Delivers
    <3>3. QED
      BY <3>1, <3>2
  <2>3. CASE Mint!Standing(entry) = {} /\ run'[r].source = entry /\ run'[r].at = "root"
    BY <1>1, <2>1, <2>3 DEF MintAtEntry, MintFoundIt, Mint!Standing
  <2>4. CASE run'[r].at = "outcome" /\ run'[r].outcome = "refused"
    BY <2>4 DEF MintAtEntry, MintFoundIt, Mint!Delivers
  <2>5. CASE \E t \in DOMAIN drops :
              /\ t.source = entry /\ run'[r].source = entry /\ run'[r].at = "outcome"
              /\ run'[r].found = IF drops[t].kind = "whole" THEN t ELSE Free
              /\ run'[r].outcome = IF drops[t].kind = "whole" THEN "exists" ELSE "refused"
    BY <2>2, <2>5, Zenon
  <2>6. QED
    BY <1>3, <2>3, <2>4, <2>5
<1>5. MintEarned(r)'
  <2>1. \A s : MintStandsWhole(s)' <=> MintStandsWhole(s)
    BY <1>1 DEF MintStandsWhole
  <2>2. MintDone(r)' = MintDone(r)
    BY <1>1, <1>3 DEF MintDone
  <2>3. run'[r].at \notin {"rest", "ended"}
    BY <1>3
  <2>4. QED
    BY <1>1, <1>3, <2>1, <2>2, <2>3 DEF MintWorth, MintEarned, Mint!IsMint
<1>6. QED
  BY <1>2, <1>3, <1>4, <1>5, MintWorthStep DEF MintWorth

\* What a run that has its entry does before it answers: nothing that stood is lost.
LEMMA MintWorthWaits ==
  ASSUME Mint!Configured, MintDropInv, MintEarnedInv, NEW r \in Runs,
         Mint!ProbeRoot(r) \/ Mint!UnprobeRoot(r) \/ Mint!Digest(r) \/ Mint!TakeLock(r) \/ Mint!LockTimeout(r)
  PROVE  MintEarnedInv'
<1>1. DOMAIN run = Runs /\ DOMAIN run[r] = MintFields /\ UNCHANGED <<drops, jobs>> /\ MintWorth(r)
  BY DEF MintDropInv, MintShapes, MintEarnedInv, Mint!ProbeRoot, Mint!UnprobeRoot, Mint!Digest,
     Mint!TakeLock,
         Mint!LockTimeout, Mint!shared
<1>2. MintGrows
  BY <1>1 DEF MintGrows
<1>3. CASE Mint!ProbeRoot(r) \/ Mint!UnprobeRoot(r)
  <2>1. /\ \A o \in Runs \ {r} : run'[o] = run[o]
        /\ run[r].at \in {"root", "unprobe"} /\ run'[r].at \in {"unprobe", "digest"}
        /\ run'[r].pos = run[r].pos /\ run'[r].entries = run[r].entries /\ run'[r].posted = run[r].posted
        /\ run'[r].failed = run[r].failed /\ run'[r].source = run[r].source
    BY <1>1, <1>3 DEF Mint!ProbeRoot, Mint!UnprobeRoot, MintFields
  <2>2. (~Mint!IsMint(r) => MintAtEntry(r)') /\ MintFoundIt(r)'
    BY <1>1, <2>1 DEF MintWorth, MintAtEntry, MintFoundIt
  <2>3. QED
    BY <1>2, <2>1, <2>2, MintWorthMoves DEF MintDropInv
<1>4. CASE Mint!Digest(r)
  <2> DEFINE sha == IF Mint!IsMint(r) THEN file ELSE run[r].source
  <2>1. \/ run' = [run EXCEPT ![r].source = sha, ![r].sha = sha, ![r].at = "lock"]
        \/ run' = [run EXCEPT ![r].outcome = "refused", ![r].at = "outcome"]
    BY <1>4, Zenon DEF Mint!Digest, Mint!Refuse, Mint!Ends
  <2> HIDE DEF sha
  <2>2. /\ \A o \in Runs \ {r} : run'[o] = run[o]
        /\ run[r].at = "digest"
        /\ \/ run'[r].at = "lock" /\ run'[r].source = sha
           \/ run'[r].at = "outcome" /\ run'[r].outcome = "refused"
        /\ run'[r].pos = run[r].pos /\ run'[r].entries = run[r].entries /\ run'[r].posted = run[r].posted
        /\ run'[r].failed = run[r].failed
    BY <1>1, <1>4, <2>1 DEF Mint!Digest, MintFields
  <2>3. (~Mint!IsMint(r) => MintAtEntry(r)') /\ MintFoundIt(r)'
    BY <1>1, <2>2 DEF MintWorth, MintAtEntry, MintFoundIt, Mint!Delivers, sha
  <2>4. QED
    BY <1>2, <2>2, <2>3, MintWorthMoves DEF MintDropInv
<1>5. CASE Mint!TakeLock(r) \/ Mint!LockTimeout(r)
  <2>1. /\ \A o \in Runs \ {r} : run'[o] = run[o]
        /\ run[r].at = "lock" /\ run'[r].source = run[r].source
        /\ run'[r].pos = run[r].pos /\ run'[r].entries = run[r].entries /\ run'[r].posted = run[r].posted
        /\ run'[r].failed = run[r].failed
        /\ \/ run'[r].at = "outcome" /\ run'[r].outcome = "exists" /\ run'[r].found \in Mint!Found(r)
           \/ run'[r].at = "outcome" /\ run'[r].outcome = "refused"
           \/ run'[r].at = "mkroot"
    BY <1>1, <1>5 DEF Mint!TakeLock, Mint!LockTimeout, Mint!Refuse, Mint!Ends, Mint!Goto, MintFields
  <2>2. ~Mint!IsMint(r) => MintAtEntry(r)'
    BY <1>1, <2>1 DEF MintWorth, MintAtEntry
  <2>3. MintFoundIt(r)'
    BY <1>1, <2>1 DEF MintWorth, MintAtEntry, MintFoundIt, Mint!IsMint, Mint!Delivers, Mint!Found,
       Mint!Matching, Mint!Standing
  <2>4. QED
    BY <1>2, <2>1, <2>2, <2>3, MintWorthMoves DEF MintDropInv
<1>6. QED
  BY <1>3, <1>4, <1>5

\* The assembly, up to the rename; nothing can stand at its target that is this drop.
LEMMA MintWorthAssembles ==
  ASSUME Mint!Configured, MintDropInv, MintEarnedInv, NEW r \in Runs,
         \/ Mint!MakeStagingRoot(r) \/ Mint!MakeStaging(r) \/ Mint!CopyVerified(r) \/ Mint!ExistingTarget(r)
         \/ Mint!CleanUp(r)
  PROVE  MintEarnedInv'
<1>1. DOMAIN run = Runs /\ DOMAIN run[r] = MintFields /\ UNCHANGED <<drops, jobs>> /\ MintWorth(r)
  BY DEF MintDropInv, MintShapes, MintEarnedInv, Mint!MakeStagingRoot, Mint!MakeStaging,
     Mint!CopyVerified,
         Mint!ExistingTarget, Mint!CleanUp, Mint!shared
<1>2. MintGrows
  BY <1>1 DEF MintGrows
<1>3. /\ \A o \in Runs \ {r} : run'[o] = run[o]
      /\ run'[r].pos = run[r].pos /\ run'[r].entries = run[r].entries /\ run'[r].posted = run[r].posted
      /\ run'[r].failed = run[r].failed /\ run'[r].source = run[r].source
      /\ \/ run[r].at \in {"mkroot", "mkstage", "copy"} /\ run'[r].at \in {"mkstage", "copy", "rename"}
         \/ run[r].at \in {"mkstage", "copy", "rename"} /\ run'[r].at = "clean" /\ run'[r].outcome = "refused"
         \/ /\ run[r].at = "clean" /\ run'[r].at = "outcome"
            /\ run'[r].outcome = run[r].outcome /\ run'[r].found = run[r].found
  <2>1. CASE Mint!MakeStagingRoot(r)
    BY <1>1, <2>1 DEF Mint!MakeStagingRoot, Mint!Goto, MintFields
  <2>2. CASE Mint!MakeStaging(r)
    BY <1>1, <2>2 DEF Mint!MakeStaging, Mint!Goto, Mint!Ends, MintFields
  <2>3. CASE Mint!CopyVerified(r)
    BY <1>1, <2>3 DEF Mint!CopyVerified, Mint!Goto, Mint!Ends, MintFields
  <2>4. CASE Mint!ExistingTarget(r)
    <3>1. drops[Mint!Target(r)].kind \notin {"whole", "incomplete"}
      BY <2>4 DEF Mint!ExistingTarget, MintDropInv, MintNoneBeside, MintCritical, Mint!Matching,
         Mint!Standing, Mint!Target
    <3>2. QED
      BY <1>1, <2>4, <3>1 DEF Mint!ExistingTarget, Mint!Ends, MintFields
  <2>5. CASE Mint!CleanUp(r)
    BY <1>1, <2>5 DEF Mint!CleanUp, Mint!Goto, MintFields
  <2>6. QED
    BY <2>1, <2>2, <2>3, <2>4, <2>5
<1>4. ~Mint!IsMint(r) => MintAtEntry(r)'
  BY <1>1, <1>3 DEF MintWorth, MintAtEntry, Mint!Delivers
<1>5. MintFoundIt(r)'
  BY <1>1, <1>3 DEF MintWorth, MintFoundIt, Mint!IsMint, Mint!Delivers
<1>6. QED
  BY <1>2, <1>3, <1>4, <1>5, MintWorthMoves DEF MintDropInv

LEMMA MintWorthFinalizes ==
  ASSUME Mint!Configured, MintDropInv, MintEarnedInv, NEW r \in Runs, Mint!Finalize(r)
  PROVE  MintEarnedInv'
<1>1. /\ DOMAIN run = Runs /\ DOMAIN run[r] = MintFields /\ UNCHANGED jobs /\ MintWorth(r)
      /\ run[r].at = "rename" /\ Mint!Target(r) \notin DOMAIN drops
  BY DEF MintDropInv, MintShapes, MintEarnedInv, Mint!Finalize
<1>2. /\ DOMAIN drops' = DOMAIN drops \union {Mint!Target(r)} /\ drops'[Mint!Target(r)].kind = "whole"
      /\ \A t \in DOMAIN drops : drops'[t] = drops[t]
  BY <1>1 DEF Mint!Finalize
<1>3. MintGrows
  BY <1>1, <1>2 DEF MintGrows
<1>4. /\ \A o \in Runs \ {r} : run'[o] = run[o]
      /\ run'[r].pos = run[r].pos /\ run'[r].entries = run[r].entries /\ run'[r].posted = run[r].posted
      /\ run'[r].failed = run[r].failed /\ run'[r].source = run[r].source
      /\ run'[r].at = "clean" /\ run'[r].found = Mint!Target(r)
  BY <1>1 DEF Mint!Finalize, Mint!Ends, MintFields
<1>5. ~Mint!IsMint(r) => MintAtEntry(r)'
  BY <1>1, <1>4 DEF MintWorth, MintAtEntry
<1>6. MintFoundIt(r)'
  BY <1>2, <1>4 DEF MintFoundIt, Mint!Target
<1>7. QED
  BY <1>1, <1>3, <1>4, <1>5, <1>6, MintWorthMoves DEF MintDropInv

\* The end of an entry: only an answer leaves the run with nothing to be sorry for.
LEMMA MintWorthAnswers ==
  ASSUME Mint!Configured, MintDropInv, MintEarnedInv, NEW r \in Runs, NEW failed \in BOOLEAN, NEW posted \in BOOLEAN,
         run[r].at = "outcome", Mint!NextEntry(r, failed, posted), UNCHANGED drops, jobs \subseteq jobs',
         ~failed /\ posted => Mint!Delivers(r) /\ run[r].found.source \in jobs'
  PROVE  MintEarnedInv'
<1>1. MintGrows /\ MintWorth(r) /\ run[r].pos \in Nat /\ run[r].entries \in MintListed
  BY DEF MintGrows, MintEarnedInv, MintDropInv, MintEntries
<1>2. /\ \A o \in Runs \ {r} : run'[o] = run[o]
      /\ run'[r].source = run[r].source /\ run'[r].entries = run[r].entries /\ run'[r].pos = run[r].pos
      /\ ~run'[r].failed => ~run[r].failed /\ ~failed
      /\ run'[r].posted => run[r].posted /\ posted
      /\ run'[r].at = IF run[r].pos < Len(run[r].entries) THEN "entry" ELSE "ended"
  BY MintNextEntryFields DEF MintDropInv
<1>3. MintAtEntry(r)' /\ MintFoundIt(r)'
  BY <1>2 DEF MintAtEntry, MintFoundIt
<1>4. ASSUME run'[r].posted, ~run'[r].failed PROVE MintEarned(r)'
  <2>1. Mint!Delivers(r) /\ run[r].found.source \in jobs' /\ run[r].posted /\ ~run[r].failed
    BY <1>2, <1>4
  <2>2. /\ run[r].found \in DOMAIN drops /\ run[r].found.source = run[r].source /\ drops' = drops
        /\ Mint!IsMint(r) => drops[run[r].found].kind \in {"whole", "incomplete"}
        /\ ~Mint!IsMint(r) => drops[run[r].found].kind = "whole"
    BY <1>1, <2>1 DEF MintWorth, MintFoundIt
  <2>3. CASE Mint!IsMint(r)
    <3>1. MintStands(run[r].source)'
      BY <1>2, <2>2, <2>3 DEF MintStands
    <3>2. run'[r].at = "ended" => run'[r].pos >= Len(run'[r].entries)
      BY <1>1, <1>2, <2>3 DEF Mint!IsMint
    <3>3. QED
      BY <1>1, <1>2, <2>1, <2>2, <2>3, <3>1, <3>2 DEF MintEarned, Mint!IsMint
  <2>4. CASE ~Mint!IsMint(r)
    <3>1. run[r].pos > 0 /\ run[r].source = run[r].entries[run[r].pos]
      BY <1>1, <2>1, <2>4 DEF MintWorth, MintAtEntry
    <3>2. MintStandsWhole(run[r].source)'
      BY <1>2, <2>2, <2>4 DEF MintStandsWhole
    <3>3. \A i \in 1 .. (run[r].pos - 1) : run[r].entries[i] \in jobs /\ MintStandsWhole(run[r].entries[i])
      BY <1>1, <2>1, <2>4 DEF MintWorth, MintEarned, MintDone
    <3>4. \A i \in 1 .. run[r].pos : run[r].entries[i] \in jobs' /\ MintStandsWhole(run[r].entries[i])'
      <4>1. \A i \in 1 .. run[r].pos : i = run[r].pos \/ i \in 1 .. (run[r].pos - 1)
        BY <1>1
      <4>2. run[r].entries[run[r].pos] \in jobs' /\ MintStandsWhole(run[r].entries[run[r].pos])'
        BY <1>2, <2>1, <2>2, <3>1, <3>2
      <4>3. ASSUME NEW i \in 1 .. (run[r].pos - 1)
            PROVE  run[r].entries[i] \in jobs' /\ MintStandsWhole(run[r].entries[i])'
        BY <1>2, <2>2, <3>3 DEF MintStandsWhole
      <4>4. QED
        BY <1>2, <4>1, <4>2, <4>3
    <3>5. MintDone(r)' = 1 .. run[r].pos
      BY <1>2 DEF MintDone
    <3>6. run'[r].at = "ended" => run'[r].pos >= Len(run'[r].entries)
      BY <1>1, <1>2 DEF MintListed, Mint!Configured
    <3>7. QED
      BY <1>1, <1>2, <2>4, <3>4, <3>5, <3>6 DEF MintEarned, Mint!IsMint
  <2>5. QED
    BY <2>3, <2>4
<1>5. MintEarned(r)'
  BY <1>4 DEF MintEarned
<1>6. QED
  BY <1>1, <1>2, <1>3, <1>5, MintWorthStep DEF MintWorth

LEMMA MintWorthDelivers ==
  ASSUME Mint!Configured, MintDropInv, MintEarnedInv, NEW r \in Runs,
         Mint!StopEntry(r) \/ Mint!PostAccepted(r) \/ Mint!PostFails(r)
  PROVE  MintEarnedInv'
<1>1. CASE Mint!StopEntry(r)
  <2>1. (~Mint!Delivers(r)) \in BOOLEAN /\ run[r].at = "outcome" /\ UNCHANGED <<drops, jobs>>
        /\ Mint!NextEntry(r, ~Mint!Delivers(r), ~Mint!Delivers(r))
    BY <1>1 DEF Mint!StopEntry, Mint!shared, Mint!Delivers
  <2>2. QED
    BY <2>1, MintWorthAnswers
<1>2. CASE Mint!PostAccepted(r)
  <2>1. /\ run[r].at = "outcome" /\ Mint!Delivers(r) /\ UNCHANGED drops /\ run[r].found.source \in jobs'
        /\ jobs \subseteq jobs' /\ Mint!NextEntry(r, FALSE, TRUE)
    BY <1>2 DEF Mint!PostAccepted, Mint!shared
  <2>2. QED
    BY <2>1, MintWorthAnswers
<1>3. CASE Mint!PostFails(r)
  <2>1. /\ run[r].at = "outcome" /\ UNCHANGED drops /\ jobs \subseteq jobs' /\ Mint!NextEntry(r, TRUE, TRUE)
    BY <1>3 DEF Mint!PostFails, Mint!FailedPost, Mint!shared
  <2>2. QED
    BY <2>1, MintWorthAnswers
<1>4. QED
  BY <1>1, <1>2, <1>3

LEMMA MintWorthKilled ==
  ASSUME MintDropInv, MintEarnedInv, NEW r \in Runs, Mint!Killed(r)
  PROVE  MintEarnedInv'
<1>1. UNCHANGED <<drops, jobs>> /\ run' = [run EXCEPT ![r] = [Mint!Unstarted EXCEPT !.at = "ended", !.failed = TRUE]]
  BY DEF Mint!Killed
<1>2. run'[r].at = "ended" /\ run'[r].failed /\ \A o \in Runs \ {r} : run'[o] = run[o]
  BY <1>1 DEF MintDropInv, MintShapes, Mint!Unstarted
<1>3. MintWorth(r)' /\ MintGrows
  BY <1>1, <1>2 DEF MintWorth, MintAtEntry, MintFoundIt, MintEarned, MintGrows
<1>4. QED
  BY <1>2, <1>3, MintWorthStep

LEMMA MintNextEarned ==
  ASSUME Mint!Configured, MintDropInv, MintEarnedInv, Mint!Next \/ UNCHANGED mintVars
  PROVE  MintEarnedInv'
<1>1. ASSUME NEW r \in Runs, Mint!Producing(r) PROVE MintEarnedInv'
  BY <1>1, MintWorthStarts, MintWorthTakes, MintWorthWaits, MintWorthAssembles, MintWorthFinalizes,
     MintWorthDelivers
     DEF Mint!Producing
<1>2. ASSUME NEW r \in Runs, Mint!Killed(r) PROVE MintEarnedInv'
  BY <1>2, MintWorthKilled
<1>3. CASE Mint!EditFile \/ Mint!Ended \/ UNCHANGED mintVars
  <2>1. UNCHANGED <<drops, jobs, run>>
    BY <1>3 DEF Mint!EditFile, Mint!Ended, Mint!vars, mintVars, Mint!shared
  <2>2. MintGrows
    BY <2>1 DEF MintGrows
  <2>3. QED
    BY <2>1, <2>2, MintWorthKept DEF MintEarnedInv
<1>4. QED
  BY <1>1, <1>2, <1>3 DEF Mint!Next

LEMMA MintNextStaging ==
  ASSUME Mint!Configured, MintDropInv, MintStagingInv, Mint!Next \/ UNCHANGED mintVars
  PROVE  MintStagingInv'
<1>1. ASSUME NEW r \in Runs, Mint!Producing(r) PROVE MintStagingInv'
  BY <1>1, MintStagingQuiet, MintStagingMakes, MintStagingTakes DEF Mint!Producing, MintDropInv
<1>2. ASSUME NEW r \in Runs, Mint!Killed(r) PROVE MintStagingInv'
  BY <1>2, MintStagingTakes DEF MintDropInv
<1>3. CASE Mint!EditFile \/ Mint!Ended \/ UNCHANGED mintVars
  BY <1>3 DEF Mint!EditFile, Mint!Ended, Mint!vars, mintVars, Mint!shared, MintStagingInv, MintHolds
<1>4. QED
  BY <1>1, <1>2, <1>3 DEF Mint!Next

LEMMA MintStagingMeans == MintStagingInv => Mint!NothingStagedLeft
<1> SUFFICES ASSUME MintStagingInv, deaths = 0, \A r \in Runs : run[r].at \in {"rest", "ended"} PROVE stagingDirs = {}
  BY DEF Mint!NothingStagedLeft
<1>1. \A root : \A r \in Runs : ~MintHolds(r, root)
  BY DEF MintHolds
<1>2. QED
  BY <1>1 DEF MintStagingInv

LEMMA MintEarnedMeans == Mint!Configured /\ MintDropInv /\ MintEarnedInv => Mint!SuccessMeansIngested
<1> SUFFICES ASSUME Mint!Configured, MintDropInv, MintEarnedInv, NEW r \in Runs,
                    run[r].at = "ended", run[r].posted, ~run[r].failed
             PROVE  /\ Mint!Given(r) \subseteq jobs
                    /\ \A s \in Mint!Given(r) : Mint!Matching(s) # {}
                    /\ ~Mint!IsMint(r) => \A s \in Mint!Given(r) : \E t \in Mint!Matching(s) : drops[t].kind = "whole"
  BY DEF Mint!SuccessMeansIngested
<1>1. MintEarned(r) /\ run[r].pos \in Nat
  BY DEF MintEarnedInv, MintWorth, MintDropInv, MintEntries
<1>2. \A s : (MintStands(s) => Mint!Matching(s) # {})
             /\ (MintStandsWhole(s) => \E t \in Mint!Matching(s) : drops[t].kind = "whole")
  BY DEF MintStands, MintStandsWhole, Mint!Matching, Mint!Standing
<1>3. CASE Mint!IsMint(r)
  BY <1>1, <1>2, <1>3 DEF MintEarned, Mint!Given
<1>4. CASE ~Mint!IsMint(r)
  <2>1. /\ run[r].entries \in MintListed /\ run[r].pos >= Len(run[r].entries)
        /\ \A i \in 1 .. run[r].pos : run[r].entries[i] \in jobs /\ MintStandsWhole(run[r].entries[i])
    BY <1>1, <1>4 DEF MintEarned, MintDone
  <2>2. run[r].entries \in Seq(Videos \union {NotVideo})
    BY <1>4, <2>1 DEF Mint!IsMint, MintListed, Mint!Configured
  <2>3. \A s \in Mint!Given(r) : \E i \in 1 .. run[r].pos : s = run[r].entries[i]
    <3>1. \A s \in Mint!Given(r) : \E i \in DOMAIN run[r].entries : s = run[r].entries[i]
      BY <1>4 DEF Mint!Given, Mint!Range
    <3>2. \A i \in DOMAIN run[r].entries : i \in 1 .. run[r].pos
      BY <1>1, <2>1, <2>2
    <3>3. QED
      BY <3>1, <3>2
  <2>4. QED
    BY <1>2, <1>4, <2>1, <2>3
<1>5. QED
  BY <1>3, <1>4
LEMMA MintInvDrops == MintDropInv => Mint!OneDropPerSource
<1> SUFFICES ASSUME MintDropInv PROVE Mint!OneDropPerSource
  OBVIOUS
<1>1. ASSUME NEW s \in Mint!Sources PROVE Cardinality(Mint!Matching(s)) <= 1
  <2>1. CASE Mint!Matching(s) = {}
    BY <2>1, FS_EmptySet
  <2>2. ASSUME NEW t \in Mint!Matching(s) PROVE Cardinality(Mint!Matching(s)) <= 1
    <3>1. Mint!Matching(s) = {t}
      BY <2>2 DEF MintDropInv, MintAtMostOne
    <3>2. Cardinality(Mint!Matching(s)) = 1
      BY <3>1, FS_Singleton, Zenon
    <3>3. QED
      BY <3>2
  <2>3. QED
    BY <2>1, <2>2
<1>2. \A S : Mint!Cardinality(S) = Cardinality(S)
  BY DEF Mint!Cardinality, Cardinality
<1>3. QED
  BY <1>1, <1>2 DEF MintDropInv, MintDescribed, Mint!OneDropPerSource

\* However many producers run, whatever titles and roots they are given and
\* whenever they are killed, a source has one drop and a drop the bytes its
\* manifest describes (mintdrop.mint, find_existing_drop, _copy_verified).
THEOREM DropsAreOnePerSource == Spec => []OneDropPerSource
<1> DEFINE Inv == scene = "mint" => MintDropInv
<1>1. Init => Inv
  BY MintConfigured, MintInitInv DEF Init
<1>2. Inv /\ [Next]_all => Inv'
  <2> SUFFICES ASSUME Inv, [Next]_all, scene' = "mint" PROVE MintDropInv'
    OBVIOUS
  <2>1. scene = "mint" /\ (Mint!Next \/ UNCHANGED mintVars)
    BY DEF Next, all
  <2>2. QED
    BY <2>1, MintConfigured, MintNextInv
<1>3. Inv => OneDropPerSource
  BY MintInvDrops DEF OneDropPerSource
<1>4. QED
  BY <1>1, <1>2, <1>3, PTL DEF Spec

-----------------------------------------------------------------------------
(* Upload sessions: a request has its own directory, under a name that says *)
(* how far it came, with the bytes and the fields it has received.          *)

UpFields == {"fields", "files", "open", "parts", "expires"}
UpShapes ==
  /\ DOMAIN place = Requests /\ DOMAIN owner = Requests /\ DOMAIN held = Requests /\ DOMAIN record = Requests
  /\ DOMAIN step = Requests /\ DOMAIN sink = Requests /\ faults \in Nat
  /\ \A r \in Requests : DOMAIN sink[r] = UpFields

\* The name of the directory, and the process in it, of a request that far.
UpNamed(r) ==
  /\ step[r] \in {"ready", "making"} => place[r] = "none"
  /\ step[r] = "refused" /\ faults = 0 => place[r] = "none"
  /\ step[r] = "owning" => place[r] = "creating" /\ owner[r] = api
  /\ step[r] \in {"receiving", "probing", "writing", "releasing"} => place[r] = "session" /\ owner[r] = api

\* Nothing is received before the directory is a session's; from then on its files
\* are those that were closed, within their caps and not empty, and the open one.
UpReceived(r) ==
  /\ step[r] \in {"ready", "making", "owning"} => sink[r] = Sessions!EmptySink /\ held[r] = Sessions!NoBytes
  /\ step[r] \in {"receiving", "probing", "writing"} =>
       /\ sink[r].files \subseteq Sessions!Roles /\ sink[r].open \in (Sessions!Roles \union {None}) \ sink[r].files
       /\ held[r] \in [sink[r].files \union ({sink[r].open} \ {None}) -> Nat]
       /\ \A role \in sink[r].files : held[r][role] \in 1 .. Cap(role)
       /\ sink[r].open # None => held[r][sink[r].open] <= Cap(sink[r].open)
  /\ step[r] \in {"probing", "writing"} => sink[r].open = None /\ Sessions!Complete(r)

UpWhole(session, bytes) ==
  /\ session.files = bytes /\ DOMAIN session.files # {}
  /\ \A role \in DOMAIN session.files : session.files[role] \in 1 .. Cap(role)
  /\ Required \subseteq DOMAIN session.fields
  /\ "vtt" \in DOMAIN session.files => "transcriptDialect" \in DOMAIN session.fields
  /\ "txt" \in DOMAIN session.files /\ "transcriptDialect" \in DOMAIN session.fields =>
       session.fields["transcriptDialect"] # "zoom"
\* What a record says is true of what lies beside it.
UpRecorded(r) == step[r] \in {"releasing", "created"} /\ record[r] # None => UpWhole(record[r], held[r])

UpStands(r) == UpNamed(r) /\ UpReceived(r) /\ UpRecorded(r)
UploadInv == UpShapes /\ \A r \in Requests : UpStands(r)

LEMMA UpInitInv == Sessions!Init => UploadInv
BY DEF Sessions!Init, UploadInv, UpShapes, UpFields, UpStands, UpNamed, UpReceived, UpRecorded,
   Sessions!EmptySink, Sessions!NoBytes

\* A request that a step leaves alone.
UpAlone(r) ==
  /\ place'[r] = place[r] /\ owner'[r] = owner[r] /\ held'[r] = held[r] /\ record'[r] = record[r]
  /\ step'[r] = step[r] /\ sink'[r] = sink[r]
UpFrame == UpShapes' /\ api' = api /\ faults' \in {faults, faults + 1}

LEMMA UpAloneStands ==
  ASSUME UploadInv, UpFrame, NEW r \in Requests, UpAlone(r)
  PROVE  UpStands(r)'
<1> USE DEF UploadInv, UpStands, UpFrame, UpAlone
<1>1. UpNamed(r)'
  BY DEF UpNamed, UpShapes
<1>2. UpReceived(r)'
  BY DEF UpReceived, Sessions!Complete
<1>3. UpRecorded(r)'
  BY DEF UpRecorded
<1>4. QED
  BY <1>1, <1>2, <1>3

\* A directory that is swept, wholly or of its record, is nobody's in progress.
LEMMA UpSpared ==
  ASSUME UploadInv, NEW r \in Requests, Sessions!Sweepable(r)
  PROVE  ~Sessions!InProgress(r) /\ step[r] # "ready"
BY DEF UploadInv, UpShapes, UpStands, UpNamed, Sessions!Sweepable, Sessions!PidIsLive, Sessions!InProgress

LEMMA UpSweptStands ==
  ASSUME UploadInv, UpFrame, NEW gone, NEW torn, Sessions!Removes(gone, torn),
         NEW r \in Requests, r \in gone \union torn, step'[r] = step[r], sink'[r] = sink[r],
         ~Sessions!InProgress(r), step[r] # "ready"
  PROVE  UpStands(r)'
<1> USE DEF UploadInv, UpStands, UpFrame, Sessions!Removes, Sessions!InProgress
<1>1. UpNamed(r)'
  BY DEF UpNamed, UpShapes
<1>2. UpReceived(r)'
  BY DEF UpReceived
<1>3. UpRecorded(r)'
  BY DEF UpRecorded
<1>4. QED
  BY <1>1, <1>2, <1>3

\* The sweep, whose removals may fail halfway.
UpSweeps ==
  \E gone \in SUBSET {q \in Requests : Sessions!Sweepable(q)} :
    \E torn \in SUBSET ({q \in Requests : Sessions!Sweepable(q)} \ gone) : Sessions!Removes(gone, torn)

LEMMA UpCreateSweeps ==
  ASSUME NEW r \in Requests, Sessions!CreateUploadSession(r)
  PROVE  UpSweeps
BY DEF Sessions!CreateUploadSession, UpSweeps

LEMMA UpCreateStep ==
  ASSUME UploadInv, NEW r \in Requests, Sessions!CreateUploadSession(r)
  PROVE  UploadInv'
<1>1. PICK gone \in SUBSET {q \in Requests : Sessions!Sweepable(q)} :
        \E torn \in SUBSET ({q \in Requests : Sessions!Sweepable(q)} \ gone) : Sessions!Removes(gone, torn)
  BY UpCreateSweeps DEF UpSweeps
<1>2. PICK torn \in SUBSET ({q \in Requests : Sessions!Sweepable(q)} \ gone) : Sessions!Removes(gone, torn)
  BY <1>1
<1>3. /\ step[r] = "ready" /\ sink' = sink /\ step'[r] \in {"refused", "making"}
      /\ \A q \in Requests \ {r} : step'[q] = step[q]
  BY DEF Sessions!CreateUploadSession, Sessions!Goes, UploadInv, UpShapes
<1>4. UpFrame
  BY <1>2 DEF Sessions!CreateUploadSession, Sessions!Goes, Sessions!Fault, Sessions!Removes, UploadInv,
     UpShapes, UpFrame
<1>5. ASSUME NEW q \in Requests, q # r PROVE UpStands(q)'
  <2>1. CASE q \in gone \union torn
    BY <1>2, <1>3, <1>4, <1>5, <2>1, UpSpared, UpSweptStands
  <2>2. CASE q \notin gone \union torn
    <3>1. UpAlone(q)
      BY <1>2, <1>3, <1>5, <2>2 DEF UpAlone, Sessions!Removes
    <3>2. QED
      BY <1>4, <3>1, UpAloneStands
  <2>3. QED
    BY <2>1, <2>2
<1>6. UpStands(r)'
  <2>1. r \notin gone \union torn
    BY <1>3, UpSpared
  <2>2. place'[r] = "none" /\ held'[r] = held[r]
    BY <1>2, <1>3, <2>1 DEF Sessions!Removes, UploadInv, UpStands, UpNamed
  <2>3. QED
    BY <1>3, <2>2 DEF UploadInv, UpStands, UpNamed, UpReceived, UpRecorded
<1>7. QED
  BY <1>4, <1>5, <1>6 DEF UpFrame, UploadInv

\* A step of one request, which answers for itself.
LEMMA UpOwnStep ==
  ASSUME UploadInv, UpFrame, NEW r \in Requests, \A q \in Requests \ {r} : UpAlone(q), UpStands(r)'
  PROVE  UploadInv'
BY UpAloneStands DEF UploadInv, UpFrame

\* The steps that give a request up, and those of its directory.
LEMMA UpDirectorySteps ==
  ASSUME UploadInv, NEW r \in Requests,
         \/ Sessions!MakeDirectory(r) \/ Sessions!OwnDirectory(r) \/ Sessions!BodyBreaks(r) \/ Sessions!CleanUp(r)
         \/ Sessions!Claim(r) \/ Sessions!RunnerDies(r) \/ Sessions!DiscardSession(r)
  PROVE  UploadInv'
<1> USE DEF UploadInv, UpShapes, UpFields, Sessions!EmptySink
<1>1. UpFrame /\ \A q \in Requests \ {r} : UpAlone(q)
  BY DEF UpFrame, UpAlone, Sessions!MakeDirectory, Sessions!OwnDirectory, Sessions!BodyBreaks,
     Sessions!CleanUp, Sessions!Claim,
         Sessions!RunnerDies, Sessions!DiscardSession, Sessions!Discarded, Sessions!Removes,
            Sessions!Goes, Sessions!Fails,
         Sessions!Fault, Sessions!Stays, Sessions!disk, Sessions!bounds
<1>2. UpStands(r)'
  <2> USE DEF UpStands, UpNamed, UpReceived, UpRecorded
  <2>1. CASE Sessions!MakeDirectory(r)
    BY <2>1 DEF Sessions!MakeDirectory, Sessions!Goes, Sessions!Fault, Sessions!disk
  <2>2. CASE Sessions!OwnDirectory(r)
    <3>1. step'[r] = "failing" \/ (step'[r] = "receiving" /\ place'[r] = "session" /\ UNCHANGED <<sink, owner, held, api>>)
      BY <2>2 DEF Sessions!OwnDirectory, Sessions!Goes, Sessions!Fails, Sessions!disk
    <3>2. step[r] = "owning"
      BY <2>2 DEF Sessions!OwnDirectory
    <3>3. Sessions!NoBytes \in [{} -> Nat]
      BY DEF Sessions!NoBytes
    <3>4. {} \union ({None} \ {None}) = {}
      OBVIOUS
    <3>5. sink[r] = Sessions!EmptySink /\ held[r] = Sessions!NoBytes
      BY <3>2
    <3>6. CASE step'[r] = "receiving"
      <4>1. sink'[r].files = {} /\ sink'[r].open = None /\ held'[r] \in [{} -> Nat]
        BY <3>1, <3>3, <3>5, <3>6
      <4>2. held'[r] \in [sink'[r].files \union ({sink'[r].open} \ {None}) -> Nat]
        BY <3>4, <4>1
      <4>3. QED
        BY <3>1, <3>2, <3>6, <4>1, <4>2
    <3>7. QED
      BY <3>1, <3>2, <3>6
  <2>3. CASE Sessions!BodyBreaks(r)
    BY <2>3 DEF Sessions!BodyBreaks, Sessions!Goes, Sessions!Fails, Sessions!Stays
  <2>4. CASE Sessions!CleanUp(r)
    BY <2>4 DEF Sessions!CleanUp, Sessions!Goes, Sessions!Removes, Sessions!Fault
  <2>5. CASE Sessions!Claim(r) \/ Sessions!RunnerDies(r)
    <3>1. UpAlone(r)
      BY <2>5 DEF UpAlone, Sessions!Claim, Sessions!RunnerDies, Sessions!disk
    <3>2. QED
      BY <1>1, <3>1, UpAloneStands
  <2>6. CASE Sessions!DiscardSession(r)
    BY <2>6 DEF Sessions!DiscardSession, Sessions!Discarded, Sessions!Removes, Sessions!Fault, UpWhole
  <2>7. QED
    BY <2>1, <2>2, <2>3, <2>4, <2>5, <2>6
<1>3. QED
  BY <1>1, <1>2, UpOwnStep

\* The parts of a body.
LEMMA UpPartSteps ==
  ASSUME UploadInv, Sessions!Capped, NEW r \in Requests,
         \/ \E name, value : Sessions!TakeField(r, name, value)
         \/ \E role : Sessions!OpenFile(r, role)
         \/ Sessions!ReceiveBytes(r) \/ Sessions!CloseFile(r) \/ Sessions!EndBody(r) \/ Sessions!Probe(r)
  PROVE  UploadInv'
<1> USE DEF UploadInv, UpShapes, UpFields, Sessions!EmptySink
<1> USE DEF Sessions!Receiving, Sessions!NewPart, Sessions!Goes, Sessions!Fails, Sessions!Fault,
   Sessions!Stays, Sessions!disk, Sessions!bounds
<1>1. UpFrame /\ \A q \in Requests \ {r} : UpAlone(q)
  <2> USE DEF UpFrame, UpAlone
  <2>1. CASE \E name, value : Sessions!TakeField(r, name, value)
    BY <2>1 DEF Sessions!TakeField
  <2>2. CASE \E role : Sessions!OpenFile(r, role)
    BY <2>2 DEF Sessions!OpenFile
  <2>3. CASE Sessions!ReceiveBytes(r)
    BY <2>3 DEF Sessions!ReceiveBytes
  <2>4. CASE Sessions!CloseFile(r) \/ Sessions!EndBody(r) \/ Sessions!Probe(r)
    BY <2>4 DEF Sessions!CloseFile, Sessions!EndBody, Sessions!Probe
  <2>5. QED
    BY <2>1, <2>2, <2>3, <2>4
<1>2. UpNamed(r)'
  BY DEF UpStands, UpNamed, Sessions!TakeField, Sessions!OpenFile, Sessions!ReceiveBytes,
     Sessions!CloseFile, Sessions!EndBody, Sessions!Probe
<1>3. UpRecorded(r)'
  BY DEF UpRecorded, Sessions!TakeField, Sessions!OpenFile, Sessions!ReceiveBytes, Sessions!CloseFile,
     Sessions!EndBody, Sessions!Probe
<1>4. UpReceived(r)'
  <2> USE DEF UpStands, UpReceived
  <2>1. CASE \E name, value : Sessions!TakeField(r, name, value)
    BY <2>1 DEF Sessions!TakeField
  <2>2. ASSUME NEW role, Sessions!OpenFile(r, role) PROVE UpReceived(r)'
    <3>1. CASE step'[r] = "failing"
      BY <3>1
    <3>2. CASE step'[r] # "failing"
      <4>1. /\ step[r] = "receiving" /\ step' = step /\ sink[r].open = None /\ role \in Sessions!Roles \ sink[r].files
            /\ sink' = [sink EXCEPT ![r].open = role, ![r].parts = @ + 1]
            /\ held' = [held EXCEPT ![r] = Sessions!Put(@, role, 0)]
        BY <2>2, <3>2 DEF Sessions!OpenFile
      <4>2. sink'[r].files = sink[r].files /\ sink'[r].open = role /\ role # None
        BY <4>1 DEF Sessions!Capped
      <4>3. sink[r].files \union ({None} \ {None}) = sink[r].files /\ {role} \ {None} = {role}
        BY <4>2
      <4>4. held[r] \in [sink[r].files -> Nat]
        BY <4>1, <4>3
      <4>5. held'[r] \in [sink[r].files \union {role} -> Nat] /\ held'[r][role] = 0
            /\ \A other \in sink[r].files : held'[r][other] = held[r][other]
        BY <4>1, <4>4 DEF Sessions!Put
      <4>6. QED
        BY <4>1, <4>2, <4>3, <4>5 DEF Sessions!Capped
    <3>3. QED
      BY <3>1, <3>2
  <2>3. CASE Sessions!ReceiveBytes(r)
    <3>1. CASE step'[r] = "failing"
      BY <3>1
    <3>2. CASE step'[r] # "failing"
      <4> DEFINE role == sink[r].open
      <4>1. /\ step[r] = "receiving" /\ step' = step /\ sink' = sink /\ role # None
            /\ held[r][role] + 1 <= Cap(role)
            /\ held' = [held EXCEPT ![r][role] = held[r][role] + 1]
        BY <2>3, <3>2 DEF Sessions!ReceiveBytes, Sessions!Within
      <4>2. held[r] \in [sink[r].files \union {role} -> Nat] /\ role \notin sink[r].files
        BY <4>1
      <4>3. held'[r] \in [sink[r].files \union {role} -> Nat] /\ held'[r][role] = held[r][role] + 1
            /\ \A other \in sink[r].files : held'[r][other] = held[r][other]
        BY <4>1, <4>2
      <4>4. QED
        BY <4>1, <4>2, <4>3
    <3>3. QED
      BY <3>1, <3>2
  <2>4. CASE Sessions!CloseFile(r)
    <3>1. CASE step'[r] = "failing"
      BY <3>1
    <3>2. CASE step'[r] # "failing"
      <4> DEFINE role == sink[r].open
      <4>1. /\ step[r] = "receiving" /\ step' = step /\ held' = held /\ role \in Sessions!Roles /\ held[r][role] # 0
            /\ sink' = [sink EXCEPT ![r].files = @ \union {role}, ![r].open = None]
        BY <2>4, <3>2 DEF Sessions!CloseFile
      <4>2. held[r] \in [sink[r].files \union {role} -> Nat] /\ role # None
        BY <4>1 DEF Sessions!Capped
      <4>3. sink'[r].files = sink[r].files \union {role} /\ sink'[r].open = None
        BY <4>1
      <4>4. held[r][role] \in 1 .. Cap(role)
        BY <4>1, <4>2 DEF Sessions!Capped
      <4>5. (sink[r].files \union {role}) \union ({None} \ {None}) = sink[r].files \union {role}
        OBVIOUS
      <4>6. None \notin Sessions!Roles
        BY DEF Sessions!Capped
      <4>7. QED
        BY <4>1, <4>2, <4>3, <4>4, <4>5, <4>6
    <3>3. QED
      BY <3>1, <3>2
  <2>5. CASE Sessions!EndBody(r)
    BY <2>5 DEF Sessions!EndBody, Sessions!Complete
  <2>6. CASE Sessions!Probe(r)
    <3>1. step[r] = "probing" /\ UNCHANGED held
      BY <2>6 DEF Sessions!Probe
    <3>2. step'[r] = "failing" \/ (step'[r] = "writing" /\ UNCHANGED sink)
      BY <2>6 DEF Sessions!Probe
    <3>3. Sessions!Complete(r) /\ UNCHANGED sink => Sessions!Complete(r)'
      BY DEF Sessions!Complete
    <3>4. QED
      BY <3>1, <3>2, <3>3
  <2>7. QED
    BY <2>1, <2>2, <2>3, <2>4, <2>5, <2>6
<1>5. QED
  BY <1>1, <1>2, <1>3, <1>4, UpOwnStep DEF UpStands

\* The record is written of what was received, and the session released.
LEMMA UpWriteSteps ==
  ASSUME UploadInv, Sessions!Capped, NEW r \in Requests, Sessions!WriteSession(r) \/ Sessions!Release(r)
  PROVE  UploadInv'
<1> USE DEF UploadInv, UpShapes, UpFields, Sessions!EmptySink
<1> USE DEF Sessions!Goes, Sessions!Fails, Sessions!Fault, Sessions!disk
<1>1. UpFrame /\ \A q \in Requests \ {r} : UpAlone(q)
  BY DEF UpFrame, UpAlone, Sessions!WriteSession, Sessions!Release
<1>2. UpNamed(r)' /\ UpReceived(r)'
  BY DEF UpStands, UpNamed, UpReceived, Sessions!WriteSession, Sessions!Release
<1>3. UpRecorded(r)'
  <2>1. CASE Sessions!WriteSession(r)
    <3>1. CASE step'[r] = "failing"
      BY <3>1 DEF UpRecorded
    <3>2. CASE step'[r] # "failing"
      <4>1. /\ step[r] = "writing" /\ held' = held
            /\ record' = [record EXCEPT ![r] = [files |-> Sessions!Restrict(held[r], sink[r].files),
                                                fields |-> sink[r].fields, expires |-> sink[r].expires]]
        BY <2>1, <3>2 DEF Sessions!WriteSession
      <4>2. /\ sink[r].open = None /\ Sessions!Complete(r) /\ sink[r].files \union ({None} \ {None}) = sink[r].files
            /\ held[r] \in [sink[r].files \union ({sink[r].open} \ {None}) -> Nat]
            /\ \A role \in sink[r].files : held[r][role] \in 1 .. Cap(role)
        BY <4>1 DEF UpStands, UpReceived
      <4>3. Sessions!Restrict(held[r], sink[r].files) = held[r] /\ DOMAIN held[r] = sink[r].files
        BY <4>2 DEF Sessions!Restrict
      <4>4. UpWhole([files |-> held[r], fields |-> sink[r].fields, expires |-> sink[r].expires], held[r])
        BY <4>2, <4>3 DEF UpWhole, Sessions!Complete, Sessions!DialectAllowed
      <4>5. QED
        BY <4>1, <4>3, <4>4 DEF UpRecorded
    <3>3. QED
      BY <3>1, <3>2
  <2>2. CASE Sessions!Release(r)
    BY <2>2 DEF Sessions!Release, UpStands, UpRecorded
  <2>3. QED
    BY <2>1, <2>2
<1>4. QED
  BY <1>1, <1>2, <1>3, UpOwnStep DEF UpStands

\* The api dies with every request it was serving.
LEMMA UpWorldSteps ==
  ASSUME UploadInv, Sessions!ApiRestarts \/ Sessions!Tick \/ UNCHANGED uploadVars
  PROVE  UploadInv'
<1> USE DEF UploadInv, UpShapes
<1>1. CASE Sessions!ApiRestarts
  <2>1. UpShapes'
    BY <1>1 DEF Sessions!ApiRestarts, Sessions!disk, UpFields, Sessions!EmptySink
  <2>2. ASSUME NEW r \in Requests PROVE UpStands(r)'
    BY <1>1 DEF Sessions!ApiRestarts, Sessions!disk, UpStands, UpNamed, UpReceived, UpRecorded
  <2>3. QED
    BY <2>1, <2>2
<1>2. CASE Sessions!Tick \/ UNCHANGED uploadVars
  <2>1. UpFrame /\ \A r \in Requests : UpAlone(r)
    BY <1>2 DEF Sessions!Tick, uploadVars, Sessions!disk, UpFrame, UpAlone
  <2>2. QED
    BY <2>1, UpAloneStands DEF UpFrame
<1>3. QED
  BY <1>1, <1>2

LEMMA UpNextInv ==
  ASSUME UploadInv, Sessions!Capped, Sessions!Next \/ UNCHANGED uploadVars
  PROVE  UploadInv'
BY UpCreateStep, UpDirectorySteps, UpPartSteps, UpWriteSteps, UpWorldSteps
   DEF Sessions!Next, Sessions!DeleteUploadSession, Sessions!RunnerDiscards

LEMMA UpInvWhole == UploadInv => Sessions!SessionsAreWhole
BY DEF UploadInv, UpStands, UpNamed, UpRecorded, UpWhole, Sessions!SessionsAreWhole, Sessions!Readable

\* Only the first step of a request sweeps; it spares what is in progress and,
\* of the sessions, what is claimed or has time left.
LEMMA UpSpares ==
  ASSUME UploadInv, Sessions!Next \/ UNCHANGED uploadVars
  PROVE  Sessions!SpareWhatIsInUse
<1> SUFFICES ASSUME Sessions!Sweeps, NEW q \in Requests, place[q] # "none", place'[q] = "none"
             PROVE  /\ ~Sessions!InProgress(q)
                    /\ place[q] = "session" => q \notin claimed /\ (Sessions!Readable(q) => record[q].expires <= clock)
  BY DEF Sessions!SpareWhatIsInUse
<1>1. PICK r \in Requests : step[r] = "ready" /\ step'[r] # "ready"
  BY DEF Sessions!Sweeps
<1>2. \E o \in Requests : Sessions!CreateUploadSession(o)
  <2> SUFFICES ASSUME \A o \in Requests : ~Sessions!CreateUploadSession(o) PROVE FALSE
    OBVIOUS
  <2>1. CASE \/ UNCHANGED uploadVars \/ Sessions!Tick \/ Sessions!ApiRestarts
    BY <1>1, <2>1 DEF uploadVars, Sessions!Tick, Sessions!ApiRestarts
  <2>2. ASSUME NEW o \in Requests, step[o] # "ready", \A other \in Requests \ {o} : step'[other] = step[other] PROVE FALSE
    BY <1>1, <2>2
  <2>3. ASSUME NEW o \in Requests,
               \/ Sessions!MakeDirectory(o) \/ Sessions!OwnDirectory(o) \/ Sessions!BodyBreaks(o) \/ Sessions!CleanUp(o)
               \/ Sessions!ReceiveBytes(o) \/ Sessions!CloseFile(o) \/ Sessions!EndBody(o) \/ Sessions!Probe(o)
               \/ Sessions!WriteSession(o) \/ Sessions!Release(o)
               \/ \E name, value : Sessions!TakeField(o, name, value)
               \/ \E role : Sessions!OpenFile(o, role)
        PROVE  FALSE
    <3>1. step[o] # "ready"
      BY <2>3 DEF Sessions!MakeDirectory, Sessions!OwnDirectory, Sessions!BodyBreaks, Sessions!CleanUp,
         Sessions!ReceiveBytes,
                  Sessions!CloseFile, Sessions!EndBody, Sessions!Probe, Sessions!WriteSession,
                     Sessions!Release,
                  Sessions!TakeField, Sessions!OpenFile, Sessions!NewPart, Sessions!Receiving
    <3>2. \E to : step' = [step EXCEPT ![o] = to] \/ step' = step
      BY <2>3, Zenon DEF Sessions!MakeDirectory, Sessions!OwnDirectory, Sessions!BodyBreaks,
         Sessions!CleanUp, Sessions!ReceiveBytes,
                  Sessions!CloseFile, Sessions!EndBody, Sessions!Probe, Sessions!WriteSession,
                     Sessions!Release,
                  Sessions!TakeField, Sessions!OpenFile, Sessions!Goes, Sessions!Fails
    <3>3. QED
      BY <2>2, <3>1, <3>2 DEF UploadInv, UpShapes
  <2>4. ASSUME NEW o \in Requests, Sessions!Claim(o) \/ Sessions!RunnerDies(o) \/ Sessions!DiscardSession(o) PROVE FALSE
    BY <1>1, <2>4 DEF Sessions!Claim, Sessions!RunnerDies, Sessions!DiscardSession
  <2>5. QED
    BY <2>1, <2>3, <2>4 DEF Sessions!Next, Sessions!DeleteUploadSession, Sessions!RunnerDiscards
<1>3. UpSweeps
  BY <1>2, UpCreateSweeps
<1>4. Sessions!Sweepable(q)
  BY <1>3 DEF UpSweeps, Sessions!Removes
<1>5. QED
  BY <1>4, UpSpared DEF Sessions!Sweepable, Sessions!Expired

\* However requests overlap, fail or die with the api, a session that an
\* acquisition can name is whole, and a refused request leaves nothing that a
\* sound disk would let go (receive_upload, read_session, _fail_session).
THEOREM SessionsStayWhole == Spec => []SessionsAreWhole
<1> DEFINE Inv == scene = "uploads" => UploadInv
<1>1. Init => Inv
  BY UpInitInv DEF Init
<1>2. Inv /\ [Next]_all => Inv'
  <2> SUFFICES ASSUME Inv, [Next]_all, scene' = "uploads" PROVE UploadInv'
    OBVIOUS
  <2>1. scene = "uploads" /\ (Sessions!Next \/ UNCHANGED uploadVars)
    BY DEF Next, all
  <2>2. QED
    BY <2>1, SessionsCapped, UpNextInv
<1>3. Inv => SessionsAreWhole
  BY UpInvWhole DEF SessionsAreWhole
<1>4. QED
  BY <1>1, <1>2, <1>3, PTL DEF Spec

\* The sweep that every request starts with takes no directory that is being
\* received, claimed or within its time (sweep_expired).
THEOREM OnlyTheAbandonedAreSwept == Spec => OnlyTheAbandonedGo
<1> DEFINE Inv == scene = "uploads" => UploadInv
<1>1. Init => Inv
  BY UpInitInv DEF Init
<1>2. Inv /\ [Next]_all => Inv' /\ (scene = "uploads" => Sessions!SpareWhatIsInUse)
  <2> SUFFICES ASSUME Inv, [Next]_all, scene = "uploads" PROVE UploadInv' /\ Sessions!SpareWhatIsInUse
    BY DEF Next, all
  <2>1. Sessions!Next \/ UNCHANGED uploadVars
    BY DEF Next, all
  <2>2. QED
    BY <2>1, SessionsCapped, UpNextInv, UpSpares
<1>3. QED
  BY <1>1, <1>2, PTL DEF Spec, OnlyTheAbandonedGo

-----------------------------------------------------------------------------
(* Backfill: what a walk holds of a job it has locked is what its commit    *)
(* writes; the job is not touched meanwhile, nor the rows that the walk has *)
(* written, nor any row of a job that no worker had when it was visited.    *)

BackRow(kept) ==
  /\ DOMAIN kept = {"status", "error", "legacy", "anchor"} /\ kept.anchor \in Drops \union {None}
  /\ kept.anchor = None => kept.legacy \in Drops \union {Outside}
BackShape(entry) ==
  /\ entry = [there |-> entry.there, at |-> entry.at, was |-> entry.was, size |-> entry.size] /\ entry.there \in BOOLEAN
\* A recording has a digest with its path, or neither.
BackFilmed(entry) == BackShape(entry) /\ (entry.at = None => entry.was = None)
BackUnder(under) ==
  /\ DOMAIN under = {"minted", "claimed", "due", "transcript", "media"} /\ under.claimed \in BOOLEAN
  /\ BackShape(under.transcript) /\ BackFilmed(under.media)
BackRows == DOMAIN anchored = Jobs /\ DOMAIN below = Jobs /\ \A j \in Jobs : BackRow(anchored[j]) /\ BackUnder(below[j])
BackHand ==
  /\ DOMAIN hand = {"job", "drop", "step", "due"} /\ hand.job \in Jobs \union {None}
  /\ hand.drop # None => hand.job # None
  /\ hand.step # "claimed" => hand.drop # None

\* A job anchored already stays as it is; only a repaired failure changes its status.
BackKept(was, kept) ==
  /\ was.anchor # None => kept = was
  /\ kept.status # was.status => was.error = Anchors!TooEarly /\ kept.anchor # None
BackOwn(j, kept) == kept.anchor # None /\ SourceOf[kept.anchor] = SourceOf[j]
\* The rows of a job as its commit leaves them, if no problem was met.
BackText(j) == IF Anchors!Held(j, "transcript") THEN walk.rows[j].transcript ELSE below[j].transcript
BackFilm(j) == IF Anchors!Held(j, "media") THEN walk.rows[j].media ELSE below[j].media
BackSound(claims, text, film) ==
  /\ text.there => Anchors!Sound(TranscriptIn, text)
  /\ claims => film.there /\ Anchors!Sound(RecordingIn, film)
BackLocks(j) ==
  /\ BackRow(walk.job[j]) /\ BackKept(anchored[j], walk.job[j]) /\ (walk.problems \/ BackOwn(j, walk.job[j]))
BackQuiet(j) ==
  hand.job # j /\ j \in walk.locked /\ (walk.problems \/ walk.dry \/ BackSound(below[j].claimed, BackText(j), BackFilm(j)))
BackHolds(j) ==
  /\ Anchors!Held(j, "transcript") =>
       BackShape(walk.rows[j].transcript) /\ Anchors!FilledIn(below[j].transcript, walk.rows[j].transcript)
  /\ Anchors!Held(j, "media") => BackFilmed(walk.rows[j].media) /\ Anchors!FilledIn(below[j].media, walk.rows[j].media)

BackFields == {"at", "todo", "locked", "quiet", "dry", "problems", "job", "rows", "wrote"}
BackWalks ==
  /\ DOMAIN walk = BackFields
  /\ walk.at = "walking" =>
       /\ Jobs = walk.todo \union walk.locked /\ DOMAIN walk.job = Jobs /\ DOMAIN walk.rows = Jobs
       /\ \A j \in walk.locked : BackLocks(j)
       /\ \A j \in walk.quiet : BackQuiet(j)
       /\ \A j \in Jobs : BackHolds(j)
BackInv == BackRows /\ BackHand /\ BackWalks

LEMMA BackInitInv == Anchors!Placed /\ Anchors!Init => BackInv
<1> SUFFICES ASSUME Anchors!Placed, Anchors!Init PROVE BackInv
  OBVIOUS
<1>1. ASSUME NEW j \in Jobs PROVE BackRow(anchored[j]) /\ BackUnder(below[j])
  <2>1. anchored[j] \in [status : {"queued", "failed", "done"}, error : {"none", "ffprobe"},
                         legacy : Drops \union {Outside, None}, anchor : Drops \union {None}]
        /\ ((anchored[j].anchor = None) = (anchored[j].legacy # None))
    BY DEF Anchors!Init
  <2>2. BackRow(anchored[j])
    BY <2>1 DEF BackRow
  <2>3. below[j] \in Anchors!Unsettled(j)
    BY DEF Anchors!Init
  <2>4. below[j] \in [minted : BOOLEAN, claimed : BOOLEAN, due : {{}, {"align"}, Anchors!Stages},
                      transcript : Anchors!Transcripts(j), media : Anchors!Recordings(j)]
    BY <2>3 DEF Anchors!Unsettled
  <2>5. BackFilmed(Anchors!NoRow)
    BY DEF Anchors!NoRow, BackFilmed, BackShape
  <2>6. ASSUME NEW d, NEW entry \in Anchors!Recorded(d) PROVE BackShape(entry) /\ entry.at = d
    <3>1. PICK bytes \in Bytes : entry = [there |-> TRUE, at |-> d, was |-> bytes, size |-> SizeOf[bytes]]
      BY DEF Anchors!Recorded
    <3>2. QED
      BY <3>1 DEF BackShape
  <2>7. \A entry \in Anchors!Transcripts(j) : BackShape(entry)
    BY <2>5, <2>6 DEF Anchors!Transcripts, BackFilmed
  <2>8. \A entry \in Anchors!Recordings(j) : BackFilmed(entry)
    <3>1. ASSUME NEW entry \in [there : {TRUE}, at : {None}, was : {None}, size : Sizes \union {Unknown}] PROVE BackFilmed(entry)
      <4>1. entry.there = TRUE /\ entry.at = None /\ entry.was = None
        OBVIOUS
      <4>2. entry = [there |-> entry.there, at |-> entry.at, was |-> entry.was, size |-> entry.size]
        OBVIOUS
      <4>3. QED
        BY <4>1, <4>2 DEF BackFilmed, BackShape
    <3>2. ASSUME NEW d \in Drops, NEW entry \in Anchors!Recorded(d) PROVE BackFilmed(entry)
      BY <2>6, <3>2 DEF BackFilmed, Anchors!Placed
    <3> HIDE DEF BackFilmed
    <3>3. QED
      BY <2>5, <3>1, <3>2 DEF Anchors!Recordings
  <2>9. QED
    BY <2>2, <2>4, <2>7, <2>8 DEF BackUnder
<1>2. BackRows
  <2>1. DOMAIN anchored = Jobs /\ DOMAIN below = Jobs
    BY DEF Anchors!Init
  <2>2. QED
    BY <1>1, <2>1 DEF BackRows
<1>3. BackWalks /\ BackHand
  <2>1. walk = Anchors!NotRunning /\ hand = Anchors!Idle
    BY DEF Anchors!Init
  <2>2. QED
    BY <2>1 DEF Anchors!NotRunning, Anchors!Idle, BackHand, BackWalks, BackFields
<1>4. QED
  BY <1>2, <1>3 DEF BackInv

\* A step that leaves alone what the walk has locked, written or found at rest.
BackStill ==
  /\ UNCHANGED walk /\ BackRows' /\ BackHand'
  /\ walk.at = "walking" => \A k \in walk.locked : anchored'[k] = anchored[k]
  /\ \A k \in Jobs : /\ Anchors!Held(k, "transcript") => below'[k].transcript = below[k].transcript
                     /\ Anchors!Held(k, "media") => below'[k].media = below[k].media
  /\ walk.at = "walking" => \A k \in walk.quiet :
       /\ hand'.job # k /\ below'[k].claimed = below[k].claimed
       /\ below'[k].transcript = below[k].transcript /\ below'[k].media = below[k].media
LEMMA BackStays ==
  ASSUME BackInv, BackStill
  PROVE  BackInv' /\ Anchors!CleanMeansConverted
<1>1. CASE walk.at = "walking"
  <2>1. ASSUME NEW k \in walk.locked PROVE BackLocks(k)'
    BY <1>1, <2>1 DEF BackInv, BackWalks, BackStill, BackLocks
  <2>2. ASSUME NEW k \in walk.quiet PROVE BackQuiet(k)'
    <3>1. BackQuiet(k) /\ UNCHANGED walk /\ hand'.job # k /\ below'[k].claimed = below[k].claimed
          /\ below'[k].transcript = below[k].transcript /\ below'[k].media = below[k].media
      BY <1>1, <2>2 DEF BackInv, BackWalks, BackStill
    <3>2. BackText(k)' = BackText(k) /\ BackFilm(k)' = BackFilm(k)
      BY <3>1 DEF BackText, BackFilm, Anchors!Held
    <3>3. QED
      BY <3>1, <3>2 DEF BackQuiet
  <2>3. ASSUME NEW k \in Jobs PROVE BackHolds(k)'
    <3>1. BackHolds(k) /\ UNCHANGED walk
          /\ (Anchors!Held(k, "transcript") => below'[k].transcript = below[k].transcript)
          /\ (Anchors!Held(k, "media") => below'[k].media = below[k].media)
      BY <1>1 DEF BackInv, BackWalks, BackStill
    <3>2. QED
      BY <3>1 DEF BackHolds, Anchors!Held
  <2>4. QED
    BY <1>1, <2>1, <2>2, <2>3 DEF BackInv, BackStill, BackWalks, Anchors!CleanMeansConverted
<1>2. CASE walk.at # "walking"
  BY <1>2 DEF BackInv, BackStill, BackWalks, Anchors!CleanMeansConverted
<1>3. QED
  BY <1>1, <1>2

\* The worker, intake and a curator move only jobs that no walk has locked.
BackPut(j, kept, due) ==
  /\ j \in Jobs /\ ~Anchors!Locked(j) /\ anchored' = [anchored EXCEPT ![j] = kept] /\ BackRow(kept)
  /\ UNCHANGED walk
  /\ \/ UNCHANGED below
     \/ below' = [below EXCEPT ![j].due = due]
LEMMA BackPuts ==
  ASSUME BackInv, NEW j, NEW kept, NEW due, BackPut(j, kept, due),
         \/ hand' = hand
         \/ BackHand' /\ (hand'.job = None \/ hand'.job = j), Anchors!Placed
  PROVE  BackInv' /\ Anchors!CleanMeansConverted
<1> USE DEF BackPut, BackInv
<1>1. \A k \in Jobs : below'[k].claimed = below[k].claimed /\ below'[k].transcript = below[k].transcript /\ below'[k].media = below[k].media
  BY DEF BackRows, BackUnder
<1>2. BackRows' /\ BackHand'
  BY DEF BackRows, BackUnder, BackHand
<1>3. ASSUME walk.at = "walking", NEW k \in walk.quiet PROVE hand'.job # k /\ k \in Jobs
  BY <1>3 DEF BackWalks, BackQuiet, Anchors!Locked, Anchors!Placed
<1>4. ASSUME walk.at = "walking", NEW k \in walk.locked PROVE anchored'[k] = anchored[k]
  BY <1>4 DEF BackRows, BackWalks, Anchors!Locked
<1>5. BackStill
  BY <1>1, <1>2, <1>3, <1>4 DEF BackStill
<1>6. QED
  BY <1>5, BackStays

\* A step that moves no job and no row.
LEMMA BackResting ==
  ASSUME Anchors!Placed, BackInv, UNCHANGED <<anchored, below, walk>>, BackHand', hand'.job = None \/ hand'.job = hand.job
  PROVE  BackInv' /\ Anchors!CleanMeansConverted
<1>1. BackRows'
  BY DEF BackInv, BackRows
<1>2. ASSUME walk.at = "walking", NEW k \in walk.quiet PROVE hand'.job # k
  BY <1>2 DEF BackInv, BackWalks, BackQuiet, Anchors!Placed
<1>3. BackStill
  BY <1>1, <1>2 DEF BackStill
<1>4. QED
  BY <1>3, BackStays

LEMMA BackMoves ==
  ASSUME Anchors!Placed, BackInv,
         \/ Anchors!ClaimJob \/ Anchors!ResolveDropOrFail \/ Anchors!Settle
         \/ Anchors!Retry \/ Anchors!AcceptAugmentingDrop \/ Anchors!AssignSpeaker
  PROVE  BackInv' /\ Anchors!CleanMeansConverted
<1>1. \A j \in Jobs : BackRow(anchored[j])
  BY DEF BackInv, BackRows
<1>2. ASSUME NEW j \in Jobs, NEW status, NEW error
      PROVE  BackRow([anchored[j] EXCEPT !.status = status, !.error = error])
  BY <1>1 DEF BackRow
<1>3. ASSUME hand' = Anchors!Idle PROVE BackHand' /\ hand'.job = None
  BY <1>3 DEF Anchors!Idle, BackHand
<1>4. CASE Anchors!ClaimJob
  <2>1. PICK j \in Jobs : /\ ~Anchors!Locked(j)
                          /\ anchored' = [anchored EXCEPT ![j] = [anchored[j] EXCEPT !.status = "running", !.error = "none"]]
                          /\ hand' = [Anchors!Idle EXCEPT !.job = j, !.drop = anchored[j].anchor]
    BY <1>4 DEF Anchors!ClaimJob
  <2>2. BackHand' /\ hand'.job = j /\ UNCHANGED <<below, walk>>
    BY <1>4, <2>1 DEF Anchors!ClaimJob, Anchors!Idle, Anchors!Placed, BackHand
  <2>3. QED
    BY <1>2, <2>1, <2>2, BackPuts DEF BackPut
<1>5. CASE Anchors!ResolveDropOrFail
  <2> DEFINE kept == [anchored[hand.job] EXCEPT !.status = "failed", !.error = Anchors!TooEarly]
  <2>1. hand.job \in Jobs
    BY <1>5 DEF Anchors!ResolveDropOrFail, BackInv, BackHand
  <2>2. BackPut(hand.job, kept, {}) /\ hand' = Anchors!Idle
    BY <1>2, <1>5, <2>1 DEF BackPut, Anchors!ResolveDropOrFail
  <2> HIDE DEF kept
  <2>3. QED
    BY <1>3, <2>2, BackPuts
<1>6. CASE Anchors!Settle
  <2>1. PICK status \in {"failed", "done"}, error \in {"ffprobe", "none"} :
          anchored' = [anchored EXCEPT ![hand.job] = [anchored[hand.job] EXCEPT !.status = status, !.error = error]]
    BY <1>6 DEF Anchors!Settle
  <2> DEFINE kept == [anchored[hand.job] EXCEPT !.status = status, !.error = error]
  <2>2. hand.job \in Jobs
    BY <1>6 DEF Anchors!Settle, BackInv, BackHand
  <2>3. BackRow(kept)
    BY <1>2, <2>2
  <2> HIDE DEF kept
  <2>4. BackPut(hand.job, kept, {}) /\ hand' = Anchors!Idle
    BY <1>6, <2>1, <2>2, <2>3 DEF BackPut, Anchors!Settle, kept
  <2>5. QED
    BY <1>3, <2>4, BackPuts
<1>7. ASSUME NEW j \in Jobs, NEW d, NEW due, Anchors!Put(j, d, due), d \in Drops \/ d = anchored[j].anchor
      PROVE  BackInv' /\ Anchors!CleanMeansConverted
  <2> DEFINE kept == [status |-> "queued", error |-> "none", anchor |-> d, legacy |-> IF d = None THEN anchored[j].legacy ELSE None]
  <2>1. BackRow(kept)
    BY <1>1, <1>7 DEF BackRow, Anchors!Placed
  <2>2. BackPut(j, kept, due) /\ hand' = hand
    BY <1>7, <2>1 DEF BackPut, Anchors!Put
  <2>3. QED
    BY <2>2, BackPuts
<1>8. CASE Anchors!Retry \/ Anchors!AcceptAugmentingDrop \/ Anchors!AssignSpeaker
  BY <1>7, <1>8 DEF Anchors!Retry, Anchors!AcceptAugmentingDrop, Anchors!AssignSpeaker
<1>9. QED
  BY <1>4, <1>5, <1>6, <1>8

\* The worker is lost, and what it had is queued again.
LEMMA BackOrphans ==
  ASSUME Anchors!Placed, BackInv, Anchors!WorkerDies \/ Anchors!RequeueOrphanedJobs
  PROVE  BackInv' /\ Anchors!CleanMeansConverted
<1>1. CASE Anchors!WorkerDies
  <2>1. UNCHANGED <<anchored, below, walk>> /\ BackHand' /\ hand'.job = None
    BY <1>1 DEF Anchors!WorkerDies, Anchors!Idle, BackHand
  <2>2. QED
    BY <2>1, BackResting
<1>2. CASE Anchors!RequeueOrphanedJobs
  <2>1. PICK orphans \in SUBSET Jobs :
          /\ \A j \in orphans : ~Anchors!Locked(j)
          /\ anchored' = [j \in Jobs |-> IF j \in orphans THEN [anchored[j] EXCEPT !.status = "queued", !.error = "none"] ELSE anchored[j]]
    BY <1>2 DEF Anchors!RequeueOrphanedJobs
  <2>2. UNCHANGED <<below, walk, hand>>
    BY <1>2 DEF Anchors!RequeueOrphanedJobs
  <2>3. \A j \in Jobs : BackRow(anchored[j]) /\ BackRow([anchored[j] EXCEPT !.status = "queued", !.error = "none"])
    BY DEF BackInv, BackRows, BackRow
  <2>4. BackRows'
    BY <2>1, <2>2, <2>3 DEF BackInv, BackRows
  <2>5. ASSUME walk.at = "walking", NEW k \in walk.locked PROVE anchored'[k] = anchored[k]
    BY <2>1, <2>5 DEF BackInv, BackWalks, Anchors!Locked
  <2>6. walk.at = "walking" => \A k \in walk.quiet : hand.job # k
    BY DEF BackInv, BackWalks, BackQuiet
  <2>7. BackStill
    BY <2>2, <2>4, <2>5, <2>6 DEF BackStill, BackInv, BackHand
  <2>8. QED
    BY <2>7, BackStays
<1>3. QED
  BY <1>1, <1>2

\* The stages write only rows of the job in hand, and none that the walk has written.
LEMMA BackChanged ==
  ASSUME BackInv, UNCHANGED <<anchored, walk>>, BackHand', hand'.job = hand.job,
         NEW under, below' = [below EXCEPT ![hand.job] = under], hand.job \in Jobs => BackUnder(under),
         hand.job \in Jobs /\ Anchors!Held(hand.job, "transcript") => under.transcript = below[hand.job].transcript,
         hand.job \in Jobs /\ Anchors!Held(hand.job, "media") => under.media = below[hand.job].media
  PROVE  BackInv' /\ Anchors!CleanMeansConverted
<1>1. BackRows'
  BY DEF BackInv, BackRows
<1>2. \A k \in Jobs : k # hand.job => below'[k] = below[k]
  BY DEF BackInv, BackRows
<1>3. \A k \in Jobs : k = hand.job => below'[k] = under
  BY DEF BackInv, BackRows
<1>4. ASSUME walk.at = "walking", NEW k \in walk.quiet PROVE k \in Jobs /\ hand.job # k
  BY <1>4 DEF BackInv, BackWalks, BackQuiet
<1>5. BackStill
  BY <1>1, <1>2, <1>3, <1>4 DEF BackStill
<1>6. QED
  BY <1>5, BackStays

LEMMA BackStages ==
  ASSUME Anchors!Placed, BackInv, Anchors!MintMeeting \/ Anchors!ReadStages \/ Anchors!Probe \/ Anchors!Align
  PROVE  BackInv' /\ Anchors!CleanMeansConverted
<1> DEFINE j == hand.job
<1>1. BackHand /\ DOMAIN below = Jobs /\ \A k \in Jobs : BackUnder(below[k])
  BY DEF BackInv, BackRows
<1>2. BackFilmed(Anchors!NoRow) /\ BackShape(Anchors!NoRow)
      /\ \A in, d : BackShape(Anchors!RowOf(in, d)) /\ (d # None => BackFilmed(Anchors!RowOf(in, d)))
  BY DEF BackFilmed, BackShape, Anchors!RowOf, Anchors!NoRow
<1>3. ASSUME NEW to, hand.drop # None, hand' = [hand EXCEPT !.step = to] PROVE BackHand' /\ hand'.job = hand.job
  BY <1>1, <1>3 DEF BackHand
<1>4. ASSUME NEW to, NEW due, hand.drop # None, hand' = [hand EXCEPT !.step = to, !.due = due] PROVE BackHand' /\ hand'.job = hand.job
  BY <1>1, <1>4 DEF BackHand
<1>5. ASSUME NEW due, hand' = [hand EXCEPT !.due = due] PROVE BackHand' /\ hand'.job = hand.job
  BY <1>1, <1>5 DEF BackHand
<1>6. CASE Anchors!MintMeeting
  <2> DEFINE under == [below[j] EXCEPT !.minted = TRUE, !.claimed = RecordingIn[hand.drop] # None]
  <2>1. j \in Jobs => BackUnder(under) /\ under.transcript = below[j].transcript /\ under.media = below[j].media
    BY <1>1 DEF BackUnder
  <2>2. UNCHANGED <<anchored, walk>> /\ below' = [below EXCEPT ![j] = under] /\ hand' = [hand EXCEPT !.step = "minted"] /\ hand.drop # None
    BY <1>6 DEF Anchors!MintMeeting
  <2> HIDE DEF under
  <2>3. QED
    BY <1>1, <1>3, <2>1, <2>2, BackChanged
<1>7. CASE Anchors!ReadStages
  <2>1. PICK again \in SUBSET {"align"} :
          LET cleared == [below[j] EXCEPT !.media = Anchors!NoRow, !.due = (@ \ {"probe"}) \union again]
          IN /\ IF RecordingIn[hand.drop] # None THEN again = {} /\ UNCHANGED below
                ELSE ~Anchors!Held(j, "media") /\ below' = [below EXCEPT ![j] = cleared]
             /\ hand' = [hand EXCEPT !.step = "staged", !.due = below'[j].due]
    BY <1>7 DEF Anchors!ReadStages
  <2>2. UNCHANGED <<anchored, walk>> /\ BackHand' /\ hand'.job = hand.job
    BY <1>4, <1>7, <2>1 DEF Anchors!ReadStages
  <2>3. CASE UNCHANGED below
    BY <2>2, <2>3, BackResting
  <2>4. CASE ~UNCHANGED below
    <3> DEFINE under == [below[j] EXCEPT !.media = Anchors!NoRow, !.due = (below[j].due \ {"probe"}) \union again]
    <3>1. below' = [below EXCEPT ![j] = under] /\ ~Anchors!Held(j, "media")
      BY <2>1, <2>4
    <3>2. j \in Jobs => BackUnder(under) /\ under.transcript = below[j].transcript
      BY <1>1, <1>2 DEF BackUnder
    <3> HIDE DEF under
    <3>3. QED
      BY <1>1, <2>2, <3>1, <3>2, BackChanged
  <2>5. QED
    BY <2>3, <2>4
<1>8. CASE Anchors!Probe
  <2> DEFINE under == [below[j] EXCEPT !.media = Anchors!RowOf(RecordingIn, hand.drop), !.due = below[j].due \ {"probe"}]
  <2>1. j \in Jobs => BackUnder(under) /\ under.transcript = below[j].transcript
    <3>1. hand.drop # None
      BY <1>1, <1>8 DEF Anchors!Probe, BackHand
    <3>2. QED
      BY <1>1, <1>2, <3>1 DEF BackUnder
  <2>2. /\ UNCHANGED <<anchored, walk>> /\ below' = [below EXCEPT ![j] = under] /\ ~Anchors!Held(j, "media")
        /\ hand' = [hand EXCEPT !.due = hand.due \ {"probe"}]
    BY <1>8 DEF Anchors!Probe, Anchors!Settles
  <2> HIDE DEF under
  <2>3. QED
    BY <1>1, <1>5, <2>1, <2>2, BackChanged
<1>9. CASE Anchors!Align
  <2> DEFINE text == IF TranscriptIn[hand.drop] = None THEN Anchors!NoRow ELSE Anchors!RowOf(TranscriptIn, hand.drop)
             under == [below[j] EXCEPT !.due = below[j].due \ {"align"}, !.transcript = text]
  <2>1. j \in Jobs => BackUnder(under) /\ under.media = below[j].media
    <3>1. BackShape(text)
      BY <1>2
    <3> HIDE DEF text
    <3>2. QED
      BY <1>1, <3>1 DEF BackUnder
  <2>2. /\ UNCHANGED <<anchored, walk>> /\ below' = [below EXCEPT ![j] = under] /\ ~Anchors!Held(j, "transcript")
        /\ hand' = [hand EXCEPT !.due = hand.due \ {"align"}]
    BY <1>9 DEF Anchors!Align, Anchors!Settles
  <2> HIDE DEF under
  <2>3. QED
    BY <1>1, <1>5, <2>1, <2>2, BackChanged
<1>10. QED
  BY <1>6, <1>7, <1>8, <1>9

LEMMA BackStarts ==
  ASSUME BackInv, Anchors!BackfillDropPaths
  PROVE  BackInv'
<1>1. UNCHANGED <<anchored, below, hand>> /\ DOMAIN walk' = BackFields /\ walk'.todo = Jobs /\ walk'.locked = {}
      /\ walk'.quiet = {} /\ walk'.wrote = {} /\ walk'.job = anchored /\ DOMAIN walk'.rows = Jobs
  BY DEF Anchors!BackfillDropPaths, Anchors!NotRunning, BackFields
<1>2. \A j \in Jobs : BackHolds(j)'
  BY <1>1 DEF BackHolds, Anchors!Held
<1>3. QED
  BY <1>1, <1>2 DEF BackInv, BackRows, BackHand, BackWalks

\* A visit touches what the walk has of one job.
BackGives(j) ==
  /\ UNCHANGED <<anchored, below, hand>> /\ walk.at = "walking" /\ walk'.at = "walking"
  /\ DOMAIN walk' = BackFields /\ DOMAIN walk'.job = Jobs /\ DOMAIN walk'.rows = Jobs
  /\ walk'.todo = walk.todo \ {j} /\ walk'.locked = walk.locked \union {j} /\ walk'.dry = walk.dry
  /\ walk'.quiet = IF hand.job = j THEN walk.quiet ELSE walk.quiet \union {j}
  /\ walk.problems => walk'.problems
  /\ \A k \in Jobs \ {j} : /\ walk'.job[k] = walk.job[k] /\ walk'.rows[k] = walk.rows[k]
                           /\ \A which : Anchors!Held(k, which)' = Anchors!Held(k, which)
LEMMA BackGiven ==
  ASSUME BackInv, NEW j \in walk.todo, BackGives(j), BackLocks(j)', BackHolds(j)', hand.job # j => BackQuiet(j)'
  PROVE  BackInv' /\ walk'.at = "walking"
<1> USE DEF BackInv, BackGives
<1>1. j \in Jobs
  BY DEF BackWalks
<1>2. ASSUME NEW k \in walk'.locked PROVE BackLocks(k)'
  <2>1. CASE k # j
    BY <1>2, <2>1 DEF BackWalks, BackLocks
  <2>2. QED
    BY <2>1
<1>3. ASSUME NEW k \in Jobs PROVE BackHolds(k)'
  <2>1. CASE k # j
    <3>1. BackHolds(k) /\ walk'.rows[k] = walk.rows[k] /\ below'[k] = below[k]
          /\ Anchors!Held(k, "transcript")' = Anchors!Held(k, "transcript") /\ Anchors!Held(k, "media")' = Anchors!Held(k, "media")
      BY <2>1 DEF BackWalks
    <3>2. QED
      BY <3>1 DEF BackHolds
  <2>2. QED
    BY <2>1
<1>4. ASSUME NEW k \in walk'.quiet PROVE BackQuiet(k)'
  <2>1. CASE k # j
    <3>1. k \in walk.quiet /\ BackQuiet(k) /\ k \in Jobs
      BY <1>4, <2>1 DEF BackWalks, BackQuiet
    <3>2. walk'.rows[k] = walk.rows[k] /\ below'[k] = below[k]
          /\ Anchors!Held(k, "transcript")' = Anchors!Held(k, "transcript") /\ Anchors!Held(k, "media")' = Anchors!Held(k, "media")
      BY <2>1, <3>1
    <3>3. BackText(k)' = BackText(k) /\ BackFilm(k)' = BackFilm(k)
      BY <3>2 DEF BackText, BackFilm
    <3>4. QED
      BY <3>1, <3>2, <3>3 DEF BackQuiet
  <2>2. CASE k = j
    <3>1. hand.job # j
      BY <1>4, <2>2 DEF BackWalks, BackQuiet
    <3>2. QED
      BY <2>2, <3>1
  <2>3. QED
    BY <2>1, <2>2
<1>5. QED
  BY <1>1, <1>2, <1>3, <1>4 DEF BackRows, BackHand, BackWalks

\* What passes a visit is sound, and only fills in what a row left open.
LEMMA BackWidens ==
  ASSUME NEW entry, BackShape(entry), NEW d
  PROVE  /\ BackShape(Anchors!Widened(entry, d)) /\ Anchors!FilledIn(entry, Anchors!Widened(entry, d))
         /\ entry.there /\ ~Anchors!TranscriptRefused(entry, d) /\ d # None => Anchors!Sound(TranscriptIn, Anchors!Widened(entry, d))
<1> DEFINE wide == Anchors!Widened(entry, d)
<1>1. DOMAIN wide = DOMAIN entry /\ wide.there = entry.there /\ wide.was = entry.was /\ wide.size = entry.size
      /\ wide.at = Anchors!Path(entry, d)
  BY DEF Anchors!Widened, BackShape
<1>2. BackShape(wide)
  <2>1. entry = [there |-> entry.there, at |-> entry.at, was |-> entry.was, size |-> entry.size]
    BY DEF BackShape
  <2>2. wide = [there |-> entry.there, at |-> Anchors!Path(entry, d), was |-> entry.was, size |-> entry.size]
    BY <2>1 DEF Anchors!Widened
  <2>3. QED
    BY <2>2 DEF BackShape
<1>3. Anchors!FilledIn(entry, wide)
  <2>1. CASE entry.at = None
    BY <1>1, <2>1 DEF Anchors!FilledIn
  <2>2. CASE entry.at # None
    <3>1. wide = entry
      BY <2>2 DEF Anchors!Widened, Anchors!Path, BackShape
    <3>2. QED
      BY <3>1 DEF Anchors!FilledIn
  <2>3. QED
    BY <2>1, <2>2
<1>4. ~Anchors!TranscriptRefused(entry, d) /\ d # None => Anchors!Sound(TranscriptIn, wide)
  <2> HIDE DEF wide
  <2>1. QED
    BY <1>1 DEF Anchors!TranscriptRefused, Anchors!Sound, Anchors!Matches, Anchors!Path
<1>5. QED
  BY <1>2, <1>3, <1>4
LEMMA BackAnchors ==
  ASSUME NEW entry, BackFilmed(entry), NEW d, ~Anchors!MediaRefused(entry, d), d # None
  PROVE  /\ BackFilmed(Anchors!Anchored(entry, d)) /\ Anchors!FilledIn(entry, Anchors!Anchored(entry, d))
         /\ Anchors!Anchored(entry, d).there /\ Anchors!Sound(RecordingIn, Anchors!Anchored(entry, d))
<1> DEFINE film == Anchors!Anchored(entry, d)
           bytes == RecordingIn[Anchors!Path(entry, d)]
<1> USE DEF BackFilmed
<1>1. film = [there |-> TRUE, at |-> Anchors!Path(entry, d), was |-> bytes, size |-> SizeOf[bytes]]
  BY DEF Anchors!Anchored, Anchors!RowOf
<1>2. entry.there /\ bytes # None
      /\ IF entry.at = None THEN entry.size \in {Unknown, SizeOf[bytes]} ELSE entry.was = bytes /\ entry.size = SizeOf[bytes]
  BY DEF Anchors!MediaRefused, Anchors!Matches
<1>3. Anchors!FilledIn(entry, film)
  <2>1. CASE entry.at = None
    BY <1>1, <1>2, <2>1 DEF Anchors!FilledIn
  <2>2. CASE entry.at # None
    <3>1. film = entry
      BY <1>1, <1>2, <2>2 DEF Anchors!Path, BackShape
    <3>2. QED
      BY <3>1 DEF Anchors!FilledIn
  <2>3. QED
    BY <2>1, <2>2
<1>4. BackFilmed(film)
  <2>1. Anchors!Path(entry, d) # None
    BY DEF Anchors!Path
  <2> HIDE DEF bytes, film
  <2>2. QED
    BY <1>1, <2>1 DEF BackShape
<1> HIDE DEF film
<1>5. Anchors!Sound(RecordingIn, film) /\ film.there
  BY <1>1, <1>2 DEF Anchors!Sound, Anchors!Matches, Anchors!Path
<1>6. QED
  BY <1>3, <1>4, <1>5 DEF film

LEMMA BackVisit ==
  ASSUME Anchors!Placed, BackInv, Anchors!Visit
  PROVE  BackInv' /\ walk'.at = "walking"
<1>1. walk.at = "walking" /\ UNCHANGED <<anchored, below, hand>>
      /\ DOMAIN walk = BackFields /\ DOMAIN walk.job = Jobs /\ DOMAIN walk.rows = Jobs
  BY DEF Anchors!Visit, BackInv, BackWalks
<1>2. PICK j \in walk.todo :
        LET kept == anchored[j]
            drop == IF kept.anchor # None THEN kept.anchor ELSE kept.legacy
            transcript == below[j].transcript
            media == below[j].media
            unfit == transcript.there /\ Anchors!TranscriptRefused(transcript, drop)
            unread == below[j].claimed /\ Anchors!MediaRefused(media, drop)
            text == IF transcript.there /\ ~unfit THEN Anchors!Widened(transcript, drop) ELSE transcript
            film == IF below[j].claimed /\ ~unread THEN Anchors!Anchored(media, drop) ELSE media
            visited == [walk EXCEPT !.todo = @ \ {j}, !.locked = @ \union {j}, !.job[j] = kept,
                                    !.quiet = IF hand.job = j THEN @ ELSE @ \union {j}]
        IN IF ~Anchors!Fits(j, drop) THEN walk' = [visited EXCEPT !.problems = TRUE]
           ELSE walk' = [visited EXCEPT !.problems = @ \/ unfit \/ unread,
                  !.rows[j] = [transcript |-> text, media |-> film],
                  !.wrote = IF walk.dry THEN @
                            ELSE @ \union {<<j, which>> : which \in {r \in {"transcript"} : text # transcript} \union {r \in {"media"} : film # media}},
                  !.job[j] = IF kept.anchor = None /\ ~unfit /\ ~unread
                             THEN Anchors!Requeued([kept EXCEPT !.anchor = drop, !.legacy = None]) ELSE kept]
  BY DEF Anchors!Visit
<1> DEFINE kept == anchored[j]
           drop == IF kept.anchor # None THEN kept.anchor ELSE kept.legacy
           transcript == below[j].transcript
           media == below[j].media
           unfit == transcript.there /\ Anchors!TranscriptRefused(transcript, drop)
           unread == below[j].claimed /\ Anchors!MediaRefused(media, drop)
           text == IF transcript.there /\ ~unfit THEN Anchors!Widened(transcript, drop) ELSE transcript
           film == IF below[j].claimed /\ ~unread THEN Anchors!Anchored(media, drop) ELSE media
           repaired == Anchors!Requeued([kept EXCEPT !.anchor = drop, !.legacy = None])
           made == IF kept.anchor = None /\ ~unfit /\ ~unread THEN repaired ELSE kept
           added == {<<j, which>> : which \in {r \in {"transcript"} : text # transcript} \union {r \in {"media"} : film # media}}
           visited == [walk EXCEPT !.todo = @ \ {j}, !.locked = @ \union {j}, !.job[j] = kept,
                                   !.quiet = IF hand.job = j THEN @ ELSE @ \union {j}]
<1>3. IF ~Anchors!Fits(j, drop) THEN walk' = [visited EXCEPT !.problems = TRUE]
      ELSE walk' = [visited EXCEPT !.problems = @ \/ unfit \/ unread, !.rows[j] = [transcript |-> text, media |-> film],
                      !.wrote = IF walk.dry THEN @ ELSE @ \union added, !.job[j] = made]
  BY <1>2
<1>4. /\ DOMAIN visited = BackFields /\ visited.at = walk.at /\ visited.todo = walk.todo \ {j}
      /\ visited.locked = walk.locked \union {j} /\ visited.problems = walk.problems /\ visited.dry = walk.dry
      /\ visited.quiet = (IF hand.job = j THEN walk.quiet ELSE walk.quiet \union {j})
      /\ visited.job = [walk.job EXCEPT ![j] = kept] /\ visited.rows = walk.rows /\ visited.wrote = walk.wrote
  BY <1>1 DEF BackFields
<1>5. BackRow(kept) /\ BackUnder(below[j]) /\ BackShape(transcript) /\ BackFilmed(media) /\ None \notin Drops /\ j \in Jobs
      /\ BackHolds(j)
  BY <1>1 DEF BackInv, BackRows, BackUnder, BackWalks, Anchors!Placed
<1>6. BackKept(anchored[j], kept)
  BY DEF BackKept
<1>7. ASSUME NEW k \in Jobs \ {j}, NEW which PROVE <<k, which>> \notin added
  OBVIOUS
<1>71. (text # transcript => <<j, "transcript">> \in added) /\ (film # media => <<j, "media">> \in added)
  <2> HIDE DEF text, film, transcript, media
  <2>1. QED
    BY Zenon
<1> HIDE DEF visited, added
<1>8. CASE ~Anchors!Fits(j, drop)
  <2>1. walk' = [visited EXCEPT !.problems = TRUE]
    BY <1>3, <1>8
  <2>2. /\ DOMAIN walk' = BackFields /\ walk'.at = walk.at /\ walk'.todo = walk.todo \ {j} /\ walk'.locked = walk.locked \union {j}
        /\ walk'.problems = TRUE /\ walk'.dry = walk.dry
        /\ walk'.quiet = (IF hand.job = j THEN walk.quiet ELSE walk.quiet \union {j})
        /\ walk'.job = [walk.job EXCEPT ![j] = kept] /\ walk'.rows = walk.rows /\ walk'.wrote = walk.wrote
    BY <1>4, <2>1 DEF BackFields
  <2> HIDE DEF kept
  <2>3. BackGives(j)
    BY <1>1, <1>5, <2>2 DEF BackGives, Anchors!Held
  <2>4. BackLocks(j)'
    BY <1>1, <1>5, <1>6, <2>2 DEF BackLocks
  <2>5. BackHolds(j)' /\ (hand.job # j => BackQuiet(j)')
    BY <1>1, <1>5, <2>2 DEF BackHolds, BackQuiet, Anchors!Held
  <2>6. QED
    BY <2>2, <2>3, <2>4, <2>5, <1>1, BackGiven
<1>9. CASE Anchors!Fits(j, drop)
  <2>1. walk' = [visited EXCEPT !.problems = @ \/ unfit \/ unread, !.rows[j] = [transcript |-> text, media |-> film],
                   !.wrote = IF walk.dry THEN @ ELSE @ \union added, !.job[j] = made]
    BY <1>3, <1>9
  <2>2. drop \in Drops /\ SourceOf[drop] = SourceOf[j] /\ drop # None
    BY <1>5, <1>9 DEF Anchors!Fits, BackRow
  <2>3. BackRow(made) /\ BackKept(anchored[j], made) /\ (unfit \/ unread \/ BackOwn(j, made))
    <3>1. DOMAIN repaired = DOMAIN kept /\ repaired.anchor = drop
          /\ (repaired.status # kept.status => kept.error = Anchors!TooEarly)
      BY <1>5 DEF Anchors!Requeued, BackRow
    <3>2. kept.anchor # None => drop = kept.anchor
      OBVIOUS
    <3> HIDE DEF drop, repaired, unfit, unread
    <3>3. BackRow(made)
      BY <1>5, <2>2, <3>1 DEF BackRow
    <3>4. BackKept(anchored[j], made)
      BY <1>5, <2>2, <3>1 DEF BackKept
    <3>5. unfit \/ unread \/ BackOwn(j, made)
      BY <1>5, <2>2, <3>1, <3>2 DEF BackOwn
    <3>6. QED
      BY <3>3, <3>4, <3>5
  <2>4. BackShape(text) /\ Anchors!FilledIn(transcript, text) /\ (unfit \/ (text.there => Anchors!Sound(TranscriptIn, text)))
    <3> HIDE DEF drop, transcript
    <3>1. CASE transcript.there /\ ~unfit
      BY <1>5, <2>2, <3>1, BackWidens
    <3>2. CASE ~(transcript.there /\ ~unfit)
      BY <1>5, <3>2 DEF Anchors!FilledIn
    <3>3. QED
      BY <3>1, <3>2
  <2>5. BackFilmed(film) /\ Anchors!FilledIn(media, film)
        /\ (unread \/ (below[j].claimed => film.there /\ Anchors!Sound(RecordingIn, film)))
    <3> HIDE DEF drop, media
    <3>1. CASE below[j].claimed /\ ~unread
      BY <1>5, <2>2, <3>1, BackAnchors
    <3>2. CASE ~(below[j].claimed /\ ~unread)
      BY <1>5, <3>2 DEF Anchors!FilledIn
    <3>3. QED
      BY <3>1, <3>2
  <2>6. /\ DOMAIN walk' = BackFields /\ walk'.at = walk.at /\ walk'.todo = walk.todo \ {j} /\ walk'.locked = walk.locked \union {j}
        /\ walk'.problems = (walk.problems \/ unfit \/ unread) /\ walk'.dry = walk.dry
        /\ walk'.quiet = (IF hand.job = j THEN walk.quiet ELSE walk.quiet \union {j})
        /\ walk'.job = [visited.job EXCEPT ![j] = made] /\ walk'.rows = [walk.rows EXCEPT ![j] = [transcript |-> text, media |-> film]]
        /\ walk'.wrote = IF walk.dry THEN walk.wrote ELSE walk.wrote \union added
    <3> HIDE DEF kept, drop, unfit, unread, text, film, made
    <3>1. QED
      BY <1>4, <2>1 DEF BackFields
  <2>7. ~walk.dry => /\ text # transcript => <<j, "transcript">> \in walk'.wrote
                     /\ film # media => <<j, "media">> \in walk'.wrote
    <3> HIDE DEF kept, drop, unfit, unread, text, film, made
    <3>1. QED
      BY <1>71, <2>6
  <2> HIDE DEF kept, drop, unfit, unread, text, film, made
  <2>8. BackGives(j)
    <3>1. ASSUME NEW k \in Jobs \ {j}, NEW which PROVE Anchors!Held(k, which)' = Anchors!Held(k, which)
      BY <1>7, <2>6, <3>1 DEF Anchors!Held
    <3>2. \A k \in Jobs \ {j} : walk'.job[k] = walk.job[k] /\ walk'.rows[k] = walk.rows[k]
      BY <1>1, <1>4, <2>6
    <3>3. DOMAIN walk'.job = Jobs /\ DOMAIN walk'.rows = Jobs
      BY <1>1, <1>4, <2>6
    <3>4. QED
      BY <1>1, <2>6, <3>1, <3>2, <3>3 DEF BackGives
  <2>9. walk'.job[j] = made /\ walk'.rows[j].transcript = text /\ walk'.rows[j].media = film
    BY <1>1, <1>4, <1>5, <2>6
  <2>10. BackLocks(j)'
    BY <1>1, <2>3, <2>6, <2>9 DEF BackLocks
  <2>11. BackHolds(j)'
    BY <1>1, <2>4, <2>5, <2>9 DEF BackHolds, transcript, media
  <2>12. ASSUME hand.job # j PROVE BackQuiet(j)'
    <3>1. walk'.dry \/ (BackText(j)' = text /\ BackFilm(j)' = film)
      BY <1>1, <2>6, <2>7, <2>9 DEF BackText, BackFilm, Anchors!Held, transcript, media
    <3>2. unfit \/ unread \/ BackSound(below[j].claimed, text, film)
      BY <2>4, <2>5 DEF BackSound
    <3>3. QED
      BY <1>1, <2>6, <2>12, <3>1, <3>2 DEF BackQuiet
  <2>13. QED
    BY <1>1, <2>6, <2>8, <2>10, <2>11, <2>12, BackGiven
<1>10. QED
  BY <1>8, <1>9

\* What is committed is what the walk has; a walk that dies leaves everything as it was.
LEMMA BackEnds ==
  ASSUME Anchors!Placed, BackInv, Anchors!Commit \/ Anchors!Dies
  PROVE  BackInv' /\ Anchors!CleanMeansConverted
<1>1. walk.at = "walking" /\ walk' = Anchors!NotRunning /\ UNCHANGED hand
  BY DEF Anchors!Commit, Anchors!Dies
<1>2. BackWalks' /\ BackHand'
  BY <1>1 DEF BackInv, BackHand, BackWalks, BackFields, Anchors!NotRunning
<1>3. \A j \in Jobs : Anchors!FilledIn(below[j].transcript, below[j].transcript) /\ Anchors!FilledIn(below[j].media, below[j].media)
  BY DEF Anchors!FilledIn
<1>4. ASSUME UNCHANGED <<anchored, below>>, verdict' # "clean" PROVE BackInv' /\ Anchors!CleanMeansConverted
  BY <1>1, <1>2, <1>3, <1>4 DEF BackInv, BackRows, Anchors!CleanMeansConverted
<1>5. CASE Anchors!Commit /\ ~walk.dry
  <2>1. /\ walk.todo = {} /\ Jobs = walk.locked
        /\ \A j \in Jobs : BackLocks(j) /\ BackHolds(j) /\ BackUnder(below[j])
        /\ \A j \in walk.quiet : BackQuiet(j) /\ j \in Jobs
    BY <1>1, <1>5 DEF Anchors!Commit, BackInv, BackRows, BackWalks, BackQuiet
  <2>2. verdict' = (IF walk.problems THEN "unplaceable rows" ELSE "clean")
    BY <1>5 DEF Anchors!Commit
  <2>3. anchored' = [j \in Jobs |-> walk.job[j]]
    BY <1>5, <2>1 DEF Anchors!Commit, Anchors!Locked
  <2>4. below' = [j \in Jobs |-> [below[j] EXCEPT !.transcript = BackText(j), !.media = BackFilm(j)]]
    BY <1>5 DEF Anchors!Commit, BackText, BackFilm
  <2>5. ASSUME NEW j \in Jobs
        PROVE  /\ BackShape(BackText(j)) /\ Anchors!FilledIn(below[j].transcript, BackText(j))
               /\ BackFilmed(BackFilm(j)) /\ Anchors!FilledIn(below[j].media, BackFilm(j))
    BY <1>3, <2>1 DEF BackHolds, BackText, BackFilm, BackUnder
  <2>6. ASSUME NEW j \in Jobs
        PROVE  /\ below'[j].transcript = BackText(j) /\ below'[j].media = BackFilm(j) /\ below'[j].claimed = below[j].claimed
               /\ BackUnder(below'[j])
    <3> DEFINE text == BackText(j)
               film == BackFilm(j)
    <3>1. BackShape(text) /\ BackFilmed(film)
      BY <2>5
    <3>2. below'[j] = [below[j] EXCEPT !.transcript = text, !.media = film]
      BY <2>4
    <3> HIDE DEF text, film
    <3>3. below'[j].transcript = text /\ below'[j].media = film /\ below'[j].claimed = below[j].claimed /\ BackUnder(below'[j])
      BY <2>1, <3>1, <3>2 DEF BackUnder
    <3>4. QED
      BY <3>3 DEF text, film
  <2>7. BackRows'
    BY <2>1, <2>3, <2>4, <2>6 DEF BackRows, BackLocks
  <2>8. verdict' = "clean" =>
          /\ \A j \in Jobs : anchored'[j].anchor # None /\ SourceOf[anchored'[j].anchor] = SourceOf[j]
          /\ \A j \in walk.quiet : /\ below'[j].transcript.there => Anchors!Sound(TranscriptIn, below'[j].transcript)
                                   /\ below'[j].claimed => below'[j].media.there /\ Anchors!Sound(RecordingIn, below'[j].media)
    <3>1. ASSUME verdict' = "clean" PROVE ~walk.problems
      BY <2>2, <3>1
    <3>2. ASSUME verdict' = "clean", NEW j \in Jobs PROVE anchored'[j].anchor # None /\ SourceOf[anchored'[j].anchor] = SourceOf[j]
      BY <2>1, <2>3, <3>1, <3>2 DEF BackLocks, BackOwn
    <3>3. ASSUME verdict' = "clean", NEW j \in walk.quiet PROVE BackSound(below'[j].claimed, below'[j].transcript, below'[j].media)
      BY <1>5, <2>1, <2>6, <3>1, <3>3 DEF BackQuiet
    <3>4. QED
      BY <3>2, <3>3 DEF BackSound
  <2>9. ASSUME NEW j \in Jobs
        PROVE  /\ anchored[j].anchor # None => anchored'[j] = anchored[j]
               /\ anchored'[j].status # anchored[j].status => anchored[j].error = Anchors!TooEarly /\ anchored'[j].anchor # None
               /\ Anchors!FilledIn(below[j].transcript, below'[j].transcript) /\ Anchors!FilledIn(below[j].media, below'[j].media)
    <3>1. BackKept(anchored[j], anchored'[j])
      BY <2>1, <2>3 DEF BackLocks
    <3>2. QED
      BY <2>5, <2>6, <3>1 DEF BackKept
  <2>10. QED
    BY <1>2, <2>7, <2>8, <2>9 DEF BackInv, Anchors!CleanMeansConverted
<1>6. CASE Anchors!Commit /\ walk.dry
  BY <1>4, <1>6 DEF Anchors!Commit
<1>7. CASE Anchors!Dies
  BY <1>4, <1>7 DEF Anchors!Dies
<1>8. QED
  BY <1>5, <1>6, <1>7

LEMMA BackNextInv ==
  Anchors!Placed /\ BackInv /\ (Anchors!Next \/ UNCHANGED backfillVars) => BackInv' /\ Anchors!CleanMeansConverted
<1> SUFFICES ASSUME Anchors!Placed, BackInv, Anchors!Next \/ UNCHANGED backfillVars
             PROVE  BackInv' /\ Anchors!CleanMeansConverted
  OBVIOUS
<1>1. CASE Anchors!BackfillDropPaths
  BY <1>1, BackStarts DEF Anchors!BackfillDropPaths, Anchors!CleanMeansConverted
<1>2. CASE Anchors!Visit
  BY <1>2, BackVisit DEF Anchors!CleanMeansConverted
<1>3. CASE UNCHANGED backfillVars
  <2>1. UNCHANGED <<anchored, below, walk, hand>>
    BY <1>3 DEF backfillVars
  <2>2. BackHand'
    BY <2>1 DEF BackInv, BackHand
  <2>3. QED
    BY <2>1, <2>2, BackResting
<1>4. QED
  BY <1>1, <1>2, <1>3, BackMoves, BackOrphans, BackStages, BackEnds DEF Anchors!Next

\* A mint that exits zero leaves a job and a drop for every source it was given,
\* and one that was not killed no staging; a walk of the old anchors that reports
\* no trouble leaves none to convert (mintdrop.mint, youtube.run, backfill.main).
THEOREM SuccessesAreEarned == Spec => SuccessIsEarned
<1> DEFINE Inv == /\ scene = "mint" => MintDropInv /\ MintStagingInv /\ MintEarnedInv
                  /\ scene = "backfill" => BackInv
<1>1. Init => Inv
  BY MintConfigured, MintInitInv, MintStagingInit, MintEarnedInit, AnchorsPlaced, BackInitInv DEF Init
<1>2. Inv /\ [Next]_all => Inv'
  <2> SUFFICES ASSUME Inv, [Next]_all PROVE Inv'
    OBVIOUS
  <2>1. ASSUME scene' = "mint" PROVE (MintDropInv /\ MintStagingInv /\ MintEarnedInv)'
    <3>1. scene = "mint" /\ (Mint!Next \/ UNCHANGED mintVars)
      BY <2>1 DEF Next, all
    <3>2. QED
      BY <3>1, MintConfigured, MintNextInv, MintNextStaging, MintNextEarned
  <2>2. ASSUME scene' = "backfill" PROVE BackInv'
    <3>1. scene = "backfill" /\ (Anchors!Next \/ UNCHANGED backfillVars)
      BY <2>2 DEF Next, all
    <3>2. QED
      BY <3>1, AnchorsPlaced, BackNextInv
  <2>3. QED
    BY <2>1, <2>2
<1> DEFINE Good == scene = "mint" => Mint!SuccessMeansIngested /\ Mint!NothingStagedLeft
<1>3. Inv => Good
  BY MintConfigured, MintEarnedMeans, MintStagingMeans
<1>4. Inv /\ Good' /\ [Next]_all =>
        [/\ scene = "backfill" => Anchors!CleanMeansConverted
         /\ scene = "mint" => Mint!SuccessMeansIngested' /\ Mint!NothingStagedLeft']_all
  <2> SUFFICES ASSUME Inv, Good', Next
               PROVE  /\ scene = "backfill" => Anchors!CleanMeansConverted
                      /\ scene = "mint" => Mint!SuccessMeansIngested' /\ Mint!NothingStagedLeft'
    OBVIOUS
  <2>1. ASSUME scene = "backfill" PROVE Anchors!CleanMeansConverted
    <3>1. Anchors!Next \/ UNCHANGED backfillVars
      BY <2>1 DEF Next, all
    <3>2. QED
      BY <2>1, <3>1, AnchorsPlaced, BackNextInv
  <2>2. ASSUME scene = "mint" PROVE Mint!SuccessMeansIngested' /\ Mint!NothingStagedLeft'
    <3>1. scene' = "mint"
      BY <2>2 DEF Next, all
    <3>2. QED
      BY <3>1
  <2>3. QED
    BY <2>1, <2>2
<1>5. QED
  BY <1>1, <1>2, <1>3, <1>4, PTL DEF Spec, SuccessIsEarned
=============================================================================
