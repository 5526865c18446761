---------------------------- MODULE Upkeep_proofs ----------------------------
(***************************************************************************)
(* What keeps the corpus and its stacks, proved for every constant: the    *)
(* base ports of worktrees, the identities behind a meeting's voices, what *)
(* a purge may take, and the subjects the topics are threaded into.        *)
(***************************************************************************)
EXTENDS Keeping, Integers, FiniteSetTheorems, WellFoundedInduction, TLAPS

-----------------------------------------------------------------------------
(* The base ports of the stacks.                                           *)

StackFields == {"at", "kind", "slug", "held", "todo", "seen"}
StackShapes ==
  /\ dir \subseteq Slugs /\ DOMAIN portFile = Slugs /\ DOMAIN command = Commands
  /\ \A c \in Commands : DOMAIN command[c] = StackFields
  /\ \A c \in Commands : ~Stacks!At(c, "idle") => command[c].slug \in Slugs

\* A record lives and dies with its directory.
StackRecordsHaveHomes == \A s \in Slugs \ dir : portFile[s] = None

\* The places of the flock's critical sections.
StackCritical == {"judge", "again", "publish", "stale", "downing"}
StackLockHeld == \A c \in Commands : command[c].at \in StackCritical => portLock = c

\* The base about to be published is nobody else's, and nothing is published yet.
StackApart(s, b) == \A d \in dir \ {s} : portFile[d] # None => portFile[d].base # b
StackChosenApart ==
  \A c \in Commands : Stacks!At(c, "publish") => portFile[command[c].slug] = None /\ StackApart(command[c].slug, command[c].held)

StackPortsInv == StackShapes /\ StackRecordsHaveHomes /\ StackLockHeld /\ StackChosenApart /\ Stacks!PortsAreApart

LEMMA StackInitInv == Stacks!Init => StackPortsInv
BY DEF Stacks!Init, StackPortsInv, StackShapes, StackRecordsHaveHomes, StackLockHeld, StackChosenApart,
   Stacks!PortsAreApart,
       Stacks!At, Stacks!Idle, StackFields, StackCritical

\* What a step of one command leaves of the others.
StackOthersKept(c) == \A o \in Commands \ {c} : command'[o] = command[o]

\* A command that neither publishes, nor chooses, nor touches a checkout: only
\* the lock and its own place matter.
StackQuiet(c) ==
  /\ StackOthersKept(c) /\ DOMAIN command' = Commands /\ DOMAIN command'[c] = StackFields
  /\ command'[c].at # "idle" => command'[c].slug \in Slugs
  /\ command'[c].at # "publish"
  /\ command'[c].at \in StackCritical => portLock' = c
  /\ portLock' # portLock => portLock \in {None, c}

LEMMA StackQuietStep ==
  ASSUME Stacks!Named, StackPortsInv, NEW c \in Commands, StackQuiet(c), UNCHANGED <<dir, portFile>>
  PROVE  StackPortsInv'
<1> USE DEF StackPortsInv, StackQuiet, StackOthersKept, Stacks!At
<1>1. StackShapes' /\ StackRecordsHaveHomes'
  BY DEF StackShapes, StackRecordsHaveHomes
<1>2. StackLockHeld'
  BY DEF StackLockHeld, Stacks!Named
<1>3. StackChosenApart'
  <2> SUFFICES ASSUME NEW o \in Commands, Stacks!At(o, "publish")'
               PROVE  (portFile[command[o].slug] = None /\ StackApart(command[o].slug, command[o].held))'
    BY DEF StackChosenApart
  <2>1. o # c /\ command'[o] = command[o]
    OBVIOUS
  <2>2. QED
    BY <2>1 DEF StackChosenApart, StackApart
<1>4. Stacks!PortsAreApart'
  BY DEF Stacks!PortsAreApart
<1>5. QED
  BY <1>1, <1>2, <1>3, <1>4

\* Every step of a command but those that write a record or a directory, and the
\* one that chooses a base.
LEMMA StackQuietWork ==
  ASSUME Stacks!Named, StackPortsInv, NEW c \in Commands,
         \/ Stacks!Refused(c) \/ Stacks!Looked(c) \/ Stacks!PruneInventory(c) \/ Stacks!PruneJudges(c) \/ Stacks!PruneDown(c) \/ Stacks!PruneEnds(c)
         \/ Stacks!ProvisionLooks(c) \/ Stacks!MakeParses(c) \/ Stacks!Claim(c) \/ Stacks!ClaimDown(c) \/ Stacks!Asserts(c) \/ Stacks!ComposeUp(c)
         \/ Stacks!ReadsItsRecord(c) \/ Stacks!DownInventory(c) \/ Stacks!DownRuns(c) \/ Stacks!Dies(c)
  PROVE  StackQuiet(c) /\ UNCHANGED <<dir, portFile>>
<1> USE DEF StackPortsInv, StackShapes, StackLockHeld, StackCritical, StackQuiet, StackOthersKept,
   StackFields, Stacks!At, Stacks!Goes, Stacks!Ends, Stacks!Idle, Stacks!Takes, Stacks!Passed
<1>1. CASE Stacks!Refused(c) \/ Stacks!Looked(c)
  BY <1>1 DEF Stacks!Refused, Stacks!Looked
<1>2. CASE Stacks!PruneInventory(c)
  <2> DEFINE asked == IF command[c].kind = "worktree" THEN {command[c].slug} ELSE Slugs
             found == [s \in asked \intersect DOMAIN Stacks!WorktreeStacks |-> Stacks!WorktreeStacks[s]]
             judging == [command EXCEPT ![c].at = "judge", ![c].seen = found, ![c].todo = DOMAIN found]
  <2>1. \/ portLock = None /\ portLock' = c /\ command' = judging
        \/ command' = [command EXCEPT ![c] = Stacks!Idle] /\ UNCHANGED portLock
    BY <1>2, Zenon DEF Stacks!PruneInventory, Stacks!Takes, Stacks!Ends
  <2>2. UNCHANGED <<dir, portFile>> /\ ~Stacks!At(c, "idle")
    BY <1>2 DEF Stacks!PruneInventory
  <2> HIDE DEF found
  <2>3. QED
    BY <2>1, <2>2
<1>3. CASE Stacks!PruneJudges(c)
  BY <1>3 DEF Stacks!PruneJudges
<1>4. CASE Stacks!PruneDown(c)
  BY <1>4 DEF Stacks!PruneDown
<1>5. CASE Stacks!PruneEnds(c)
  BY <1>5 DEF Stacks!PruneEnds
<1>6. CASE Stacks!ProvisionLooks(c)
  BY <1>6 DEF Stacks!ProvisionLooks
<1>7. CASE Stacks!MakeParses(c)
  BY <1>7 DEF Stacks!MakeParses
<1>8. CASE Stacks!Claim(c)
  BY <1>8 DEF Stacks!Claim
<1>9. CASE Stacks!ClaimDown(c)
  BY <1>9 DEF Stacks!ClaimDown
<1>10. CASE Stacks!Asserts(c)
  BY <1>10 DEF Stacks!Asserts
<1>11. CASE Stacks!ComposeUp(c)
  BY <1>11 DEF Stacks!ComposeUp
<1>12. CASE Stacks!ReadsItsRecord(c)
  BY <1>12 DEF Stacks!ReadsItsRecord
<1>13. CASE Stacks!DownInventory(c)
  BY <1>13 DEF Stacks!DownInventory
<1>14. CASE Stacks!DownRuns(c)
  BY <1>14 DEF Stacks!DownRuns
<1>15. CASE Stacks!Dies(c)
  BY <1>15 DEF Stacks!Dies, Stacks!Mishap
<1>16. QED
  BY <1>1, <1>2, <1>3, <1>4, <1>5, <1>6, <1>7, <1>8, <1>9, <1>10, <1>11, <1>12, <1>13, <1>14, <1>15

\* The base is chosen apart from every record there is.
LEMMA StackChoiceStep ==
  ASSUME Stacks!Named, StackPortsInv, NEW c \in Commands, Stacks!ProvisionAllocates(c)
  PROVE  StackPortsInv'
<1> USE DEF StackPortsInv
<1>1. CASE command'[c].at # "publish"
  <2>1. StackQuiet(c) /\ UNCHANGED <<dir, portFile>>
    BY <1>1 DEF Stacks!ProvisionAllocates, StackQuiet, StackOthersKept, StackShapes, StackFields,
       StackLockHeld, StackCritical, Stacks!At, Stacks!Goes, Stacks!Ends, Stacks!Idle, Stacks!Takes
  <2>2. QED
    BY <2>1, StackQuietStep
<1>2. CASE command'[c].at = "publish"
  <2> DEFINE s == command[c].slug
  <2>1. PICK b \in Stacks!AllocatePorts(s) :
          portFile[s] = None /\ Stacks!Takes(c) /\ command' = [command EXCEPT ![c].at = "publish", ![c].held = b]
    BY <1>2 DEF Stacks!ProvisionAllocates, Stacks!PublishedMeanwhile, StackShapes, StackFields,
       Stacks!At, Stacks!Goes, Stacks!Ends, Stacks!Idle
  <2>2. UNCHANGED <<dir, portFile>> /\ s \in Slugs
    BY DEF Stacks!ProvisionAllocates, StackShapes, Stacks!At
  <2>3. StackApart(s, b)
    BY <2>1 DEF StackApart, Stacks!AllocatePorts, Stacks!TakenPorts, Stacks!Declared
  <2>4. StackShapes' /\ StackRecordsHaveHomes' /\ Stacks!PortsAreApart'
    BY <2>1, <2>2 DEF StackShapes, StackFields, StackRecordsHaveHomes, Stacks!PortsAreApart, Stacks!At
  <2>5. StackLockHeld'
    BY <2>1 DEF StackLockHeld, Stacks!Named, Stacks!Takes, StackShapes, StackFields
  <2>6. StackChosenApart'
    <3> SUFFICES ASSUME NEW o \in Commands, Stacks!At(o, "publish")'
                 PROVE  (portFile[command[o].slug] = None /\ StackApart(command[o].slug, command[o].held))'
      BY DEF StackChosenApart
    <3>1. o = c
      BY <2>1 DEF StackLockHeld, Stacks!Named, StackCritical, Stacks!Takes, StackShapes, Stacks!At
    <3>2. QED
      BY <3>1, <2>1, <2>2, <2>3 DEF StackApart, StackShapes, StackFields
  <2>7. QED
    BY <2>4, <2>5, <2>6
<1>3. QED
  BY <1>1, <1>2

\* Published under the lock, apart from the records that are left.
LEMMA StackPublishStep ==
  ASSUME Stacks!Named, StackPortsInv, NEW c \in Commands, Stacks!ProvisionPublishes(c)
  PROVE  StackPortsInv'
<1> USE DEF StackPortsInv
<1> DEFINE s == command[c].slug
<1>1. CASE s \notin dir
  <2>1. StackQuiet(c) /\ UNCHANGED <<dir, portFile>>
    BY <1>1 DEF Stacks!ProvisionPublishes, StackQuiet, StackOthersKept, StackShapes, StackFields,
       StackLockHeld, StackCritical, Stacks!At, Stacks!Ends, Stacks!Idle
  <2>2. QED
    BY <2>1, StackQuietStep
<1>2. CASE s \in dir
  <2> DEFINE new == [name |-> s, base |-> command[c].held, id |-> tally.ids + 1]
  <2>1. /\ Stacks!At(c, "publish") /\ portLock' = None /\ UNCHANGED dir /\ s \in Slugs
        /\ portFile' = [portFile EXCEPT ![s] = new] /\ command' = [command EXCEPT ![c].at = "parse"]
    BY <1>2 DEF Stacks!ProvisionPublishes, Stacks!Goes, StackShapes
  <2>2. StackApart(s, command[c].held)
    BY <2>1 DEF StackChosenApart
  <2>3. \A o \in Commands \ {c} : command[o].at \notin StackCritical
    BY <2>1 DEF StackLockHeld, StackCritical, Stacks!At
  <2>4. StackShapes' /\ StackRecordsHaveHomes'
    BY <1>2, <2>1 DEF StackShapes, StackFields, StackRecordsHaveHomes, Stacks!At
  <2>5. StackLockHeld' /\ StackChosenApart'
    BY <2>1, <2>3 DEF StackLockHeld, StackChosenApart, StackCritical, StackShapes, StackFields, Stacks!At
  <2>6. portFile'[s].base = command[c].held /\ \A d \in dir \ {s} : portFile'[d] = portFile[d]
    BY <2>1 DEF StackShapes
  <2>7. Stacks!PortsAreApart'
    BY <2>1, <2>2, <2>6 DEF Stacks!PortsAreApart, StackApart
  <2>8. QED
    BY <2>4, <2>5, <2>7
<1>3. QED
  BY <1>1, <1>2

\* Fewer records, or a checkout that has none yet, leave everything apart.
LEMMA StackFewerRecords ==
  ASSUME Stacks!Named, StackPortsInv, StackShapes', StackRecordsHaveHomes', StackLockHeld',
         \A d \in Slugs : portFile'[d] = portFile[d] \/ portFile'[d] = None,
         \A o \in Commands : Stacks!At(o, "publish")' =>
            Stacks!At(o, "publish") /\ command'[o].slug = command[o].slug /\ command'[o].held = command[o].held
  PROVE  StackPortsInv'
<1> USE DEF StackPortsInv
<1>1. \A d \in dir' : portFile'[d] # None => d \in dir /\ portFile'[d] = portFile[d]
  BY DEF StackShapes, StackRecordsHaveHomes
<1>2. Stacks!PortsAreApart'
  BY <1>1 DEF Stacks!PortsAreApart
<1>3. StackChosenApart'
  <2> SUFFICES ASSUME NEW o \in Commands, Stacks!At(o, "publish")'
               PROVE  (portFile[command[o].slug] = None /\ StackApart(command[o].slug, command[o].held))'
    BY DEF StackChosenApart
  <2>1. portFile[command[o].slug] = None /\ StackApart(command[o].slug, command[o].held) /\ command[o].slug \in Slugs
    BY DEF StackChosenApart, StackShapes, Stacks!At
  <2>2. QED
    BY <2>1, <1>1 DEF StackApart
<1>4. QED
  BY <1>2, <1>3

\* git adds and removes checkouts, and so do hands.
LEMMA StackDirectoryStep ==
  ASSUME Stacks!Named, StackPortsInv, NEW c \in Commands, Stacks!GitAdds(c) \/ Stacks!GitRemoves(c)
  PROVE  StackPortsInv'
<1> USE DEF StackPortsInv, StackShapes, StackFields, StackRecordsHaveHomes, StackLockHeld, StackCritical,
   Stacks!At, Stacks!Goes, Stacks!Ends, Stacks!Idle
<1>1. CASE Stacks!GitAdds(c)
  <2>1. StackShapes' /\ StackRecordsHaveHomes' /\ StackLockHeld'
    BY <1>1 DEF Stacks!GitAdds
  <2>2. QED
    BY <1>1, <2>1, StackFewerRecords DEF Stacks!GitAdds
<1>2. CASE Stacks!GitRemoves(c)
  <2>1. StackShapes' /\ StackRecordsHaveHomes' /\ StackLockHeld'
    BY <1>2 DEF Stacks!GitRemoves
  <2>2. QED
    BY <1>2, <2>1, StackFewerRecords DEF Stacks!GitRemoves
<1>3. QED
  BY <1>1, <1>2

LEMMA StackHandsStep ==
  ASSUME Stacks!Named, StackPortsInv, NEW s \in Slugs, Stacks!DeletedByHand(s) \/ Stacks!InfraDown(s)
  PROVE  StackPortsInv'
<1> USE DEF StackPortsInv, StackShapes, StackFields, StackRecordsHaveHomes, StackLockHeld, StackCritical,
   Stacks!At, Stacks!Mishap
<1>1. StackShapes' /\ StackRecordsHaveHomes' /\ StackLockHeld'
  BY DEF Stacks!DeletedByHand, Stacks!InfraDown
<1>2. \A d \in Slugs : portFile'[d] = portFile[d] \/ portFile'[d] = None
  BY DEF Stacks!DeletedByHand, Stacks!InfraDown
<1>3. UNCHANGED command
  BY DEF Stacks!DeletedByHand, Stacks!InfraDown
<1>4. QED
  BY <1>1, <1>2, <1>3, StackFewerRecords

\* A record that moves with its directory is declared once, as before.
LEMMA StackMoveStep ==
  ASSUME Stacks!Named, StackPortsInv, NEW s \in Slugs, NEW t \in Slugs, Stacks!GitMoves(s, t)
  PROVE  StackPortsInv'
<1> USE DEF StackPortsInv, StackShapes, StackFields, Stacks!At
<1>1. StackShapes' /\ StackRecordsHaveHomes' /\ StackLockHeld' /\ StackChosenApart'
  BY DEF Stacks!GitMoves, StackRecordsHaveHomes, StackLockHeld, StackCritical, StackChosenApart
<1>2. \A d \in dir' \ {t} : d \in dir /\ d # s /\ portFile'[d] = portFile[d]
  BY DEF Stacks!GitMoves
<1>3. s # t /\ s \in dir /\ portFile'[t] = portFile[s]
  BY DEF Stacks!GitMoves
<1>4. Stacks!PortsAreApart'
  BY <1>2, <1>3 DEF Stacks!PortsAreApart
<1>5. QED
  BY <1>1, <1>4

LEMMA StackStartStep ==
  ASSUME Stacks!Named, StackPortsInv, NEW kind, NEW first, Stacks!Started(kind, first),
         first \notin StackCritical
  PROVE  StackPortsInv'
<1> USE DEF StackPortsInv, StackShapes, StackFields, Stacks!At, Stacks!Idle, StackCritical
<1>1. StackShapes' /\ StackRecordsHaveHomes' /\ StackLockHeld'
  BY DEF Stacks!Started, StackRecordsHaveHomes, StackLockHeld
<1>2. \A o \in Commands : Stacks!At(o, "publish")' => command'[o] = command[o]
  BY DEF Stacks!Started
<1>3. QED
  BY <1>1, <1>2, StackFewerRecords DEF Stacks!Started

LEMMA StackNextInv ==
  ASSUME Stacks!Named, StackPortsInv, Stacks!Next \/ UNCHANGED worktreeVars
  PROVE  StackPortsInv'
<1>1. CASE Stacks!MakeWorktree \/ Stacks!Sweeping \/ Stacks!Starting \/ Stacks!Removing
  BY <1>1, StackStartStep DEF Stacks!MakeWorktree, Stacks!Sweeping, Stacks!Starting, Stacks!Removing,
     StackCritical
<1>2. ASSUME NEW c \in Commands, Stacks!Works(c) PROVE StackPortsInv'
  <2>1. CASE Stacks!GitAdds(c) \/ Stacks!GitRemoves(c)
    BY <2>1, StackDirectoryStep
  <2>2. CASE Stacks!ProvisionAllocates(c)
    BY <2>2, StackChoiceStep
  <2>3. CASE Stacks!ProvisionPublishes(c)
    BY <2>3, StackPublishStep
  <2>4. CASE ~(Stacks!GitAdds(c) \/ Stacks!GitRemoves(c) \/ Stacks!ProvisionAllocates(c) \/ Stacks!ProvisionPublishes(c))
    BY <1>2, <2>4, StackQuietWork, StackQuietStep DEF Stacks!Works
  <2>5. QED
    BY <2>1, <2>2, <2>3, <2>4
<1>3. ASSUME NEW s \in Slugs, Stacks!DeletedByHand(s) \/ Stacks!InfraDown(s) PROVE StackPortsInv'
  BY <1>3, StackHandsStep
<1>4. CASE Stacks!DockerFlips \/ UNCHANGED worktreeVars
  BY <1>4 DEF Stacks!DockerFlips, worktreeVars, StackPortsInv, StackShapes, StackRecordsHaveHomes,
     StackLockHeld, StackChosenApart, StackApart, Stacks!PortsAreApart, Stacks!At
<1>5. ASSUME NEW s \in Slugs, NEW t \in Slugs, Stacks!GitMoves(s, t) PROVE StackPortsInv'
  BY <1>5, StackMoveStep
<1>6. QED
  BY <1>1, <1>2, <1>3, <1>4, <1>5 DEF Stacks!Next

\* Whatever provisions overlap, move or die, no two checkouts with a record
\* declare one base (allocate_ports, provision); it is assumed only that the
\* free lock is nobody's.
THEOREM PortsStayApart == Spec => []PortsAreApart
<1> DEFINE Inv == scene = "worktree" => StackPortsInv
<1>1. Init => Inv
  BY StackInitInv DEF Init
<1>2. Inv /\ [Next]_all => Inv'
  <2> SUFFICES ASSUME Inv, [Next]_all, scene' = "worktree" PROVE StackPortsInv'
    OBVIOUS
  <2>1. scene = "worktree" /\ (Stacks!Next \/ UNCHANGED worktreeVars)
    BY DEF Next, all
  <2>2. QED
    BY <2>1, StacksNamed, StackNextInv
<1>3. Inv => PortsAreApart
  BY DEF PortsAreApart, StackPortsInv
<1>4. QED
  BY <1>1, <1>2, <1>3, PTL DEF Spec

-----------------------------------------------------------------------------
(* Who may tear a stack down, until a checkout is moved: a record bears its *)
(* own directory's name, ids only grow, and volumes keep the label that a   *)
(* teardown checked.                                                       *)

StackWorld ==
  /\ DOMAIN tally = {"ids", "runs", "moves", "losses"} /\ tally.ids \in Nat /\ tally.moves \in Nat
  /\ DOMAIN stack = Slugs
  /\ \A s \in Slugs : DOMAIN stack[s] = {"boxes", "volumes", "base", "odd"} /\ (stack[s].boxes # {} => stack[s].volumes # {})
  /\ \A s \in Slugs : portFile[s] # None => portFile[s].name = s /\ portFile[s].id \in 1 .. tally.ids
\* What a command has read and still relies on.
StackHeld(c) == command[c].held # None
StackRead(c) ==
  /\ command[c].at \in {"judge", "again"} => \A s \in command[c].todo : s \in command[c].seen[s]
  /\ command[c].at = "again" => command[c].held \in command[c].todo
  /\ command[c].at \in {"removing", "inventory", "downing"} /\ StackHeld(c) => command[c].held \in 1 .. tally.ids
  /\ command[c].at \in {"inventory", "downing"} /\ StackHeld(c) =>
       portFile[command[c].slug] = None \/ portFile[command[c].slug].id # command[c].held
  /\ command[c].at = "downing" /\ StackHeld(c) => stack[command[c].slug].volumes = {command[c].held}
StackLiveInv == StackPortsInv /\ StackWorld /\ \A c \in Commands : StackRead(c)

LEMMA StackLiveInit == Stacks!Init => StackLiveInv
<1> SUFFICES ASSUME Stacks!Init PROVE StackLiveInv
  OBVIOUS
<1>1. StackWorld
  <2>1. DOMAIN stack = Slugs /\ \A s \in Slugs : stack[s] \in {Stacks!Gone, [Stacks!Gone EXCEPT !.volumes = {Stacks!Unlabelled}],
                                                        [Stacks!Gone EXCEPT !.volumes = {Stacks!Unlabelled}, !.odd = TRUE]}
    BY DEF Stacks!Init
  <2>2. ASSUME NEW s \in Slugs PROVE DOMAIN stack[s] = {"boxes", "volumes", "base", "odd"} /\ stack[s].boxes = {}
    <3>1. CASE stack[s] = Stacks!Gone
      BY <3>1 DEF Stacks!Gone
    <3>2. CASE stack[s] = [Stacks!Gone EXCEPT !.volumes = {Stacks!Unlabelled}]
      BY <3>2 DEF Stacks!Gone
    <3>3. CASE stack[s] = [Stacks!Gone EXCEPT !.volumes = {Stacks!Unlabelled}, !.odd = TRUE]
      BY <3>3 DEF Stacks!Gone
    <3>4. QED
      BY <2>1, <3>1, <3>2, <3>3
  <2>3. QED
    BY <2>1, <2>2 DEF Stacks!Init, StackWorld
<1>2. \A c \in Commands : StackRead(c)
  BY DEF Stacks!Init, StackRead, Stacks!Idle
<1>3. QED
  BY <1>1, <1>2, StackInitInv DEF StackLiveInv

\* Records disappear, or are published under an id nobody has read yet.
StackRecordsAge ==
  /\ tally'.ids \in Nat /\ tally'.ids >= tally.ids
  /\ \A s \in Slugs : portFile'[s] = portFile[s] \/ portFile'[s] = None \/ portFile'[s].id > tally.ids

LEMMA StackReadKept ==
  ASSUME StackPortsInv, StackWorld, StackRecordsAge, NEW c \in Commands, StackRead(c), command'[c] = command[c],
         Stacks!At(c, "downing") /\ StackHeld(c) => stack'[command[c].slug].volumes = stack[command[c].slug].volumes
  PROVE  StackRead(c)'
<1>1. command[c].at # "idle" => command[c].slug \in Slugs
  BY DEF StackPortsInv, StackShapes, Stacks!At
<1>2. QED
  BY <1>1 DEF StackRead, StackHeld, StackWorld, StackRecordsAge, Stacks!At

LEMMA StackReadStep ==
  ASSUME StackLiveInv, StackPortsInv', StackWorld', StackRecordsAge, NEW c \in Commands, StackOthersKept(c), StackRead(c)',
         \A o \in Commands \ {c} : Stacks!At(o, "downing") /\ StackHeld(o) =>
                                   stack'[command[o].slug].volumes = stack[command[o].slug].volumes
  PROVE  StackLiveInv'
BY StackReadKept DEF StackLiveInv, StackOthersKept

\* Steps that leave stacks, records and the counts alone.
LEMMA StackReadQuiet ==
  ASSUME Stacks!Named, StackLiveInv, StackPortsInv', NEW c \in Commands,
         \/ Stacks!Refused(c) \/ Stacks!Looked(c) \/ Stacks!PruneInventory(c) \/ Stacks!PruneJudges(c) \/ Stacks!PruneEnds(c)
         \/ Stacks!GitAdds(c) \/ Stacks!ProvisionLooks(c) \/ Stacks!ProvisionAllocates(c) \/ Stacks!MakeParses(c)
         \/ Stacks!Claim(c) \/ Stacks!Asserts(c) \/ Stacks!ReadsItsRecord(c) \/ Stacks!DownInventory(c)
  PROVE  StackLiveInv'
<1>1. UNCHANGED <<stack, portFile, tally>>
  BY DEF Stacks!Refused, Stacks!Looked, Stacks!PruneInventory, Stacks!PruneJudges, Stacks!PruneEnds,
     Stacks!GitAdds,
         Stacks!ProvisionLooks, Stacks!ProvisionAllocates, Stacks!MakeParses, Stacks!Claim,
            Stacks!Asserts,
         Stacks!ReadsItsRecord, Stacks!DownInventory
<1>2. DOMAIN command = Commands /\ DOMAIN command[c] = StackFields /\ (command[c].at # "idle" => command[c].slug \in Slugs) /\ StackRead(c) /\ StackWorld
  BY DEF StackLiveInv, StackPortsInv, StackShapes, Stacks!At
<1>3. StackWorld' /\ StackRecordsAge
  BY <1>1, <1>2 DEF StackWorld, StackRecordsAge
<1>4. StackOthersKept(c) /\ StackRead(c)'
  <2> USE DEF StackOthersKept, StackRead, StackHeld, StackFields, Stacks!At, Stacks!Goes, Stacks!Ends,
     Stacks!Idle
  <2>1. CASE Stacks!Refused(c) \/ Stacks!Looked(c) \/ Stacks!GitAdds(c)
    BY <1>1, <1>2, <2>1 DEF Stacks!Refused, Stacks!Looked, Stacks!GitAdds
  <2>2. CASE Stacks!PruneInventory(c)
    <3> DEFINE asked == IF command[c].kind = "worktree" THEN {command[c].slug} ELSE Slugs
               found == [s \in asked \intersect DOMAIN Stacks!WorktreeStacks |-> Stacks!WorktreeStacks[s]]
               judging == [command EXCEPT ![c].at = "judge", ![c].seen = found, ![c].todo = DOMAIN found]
    <3>1. \/ command' = judging
          \/ command' = [command EXCEPT ![c] = Stacks!Idle]
      BY <2>2, Zenon DEF Stacks!PruneInventory, Stacks!Ends
    <3>2. \A s \in DOMAIN found : s \in found[s]
      BY DEF Stacks!WorktreeStacks
    <3> HIDE DEF found
    <3>3. QED
      BY <1>2, <3>1, <3>2
  <2>3. CASE Stacks!PruneJudges(c) \/ Stacks!PruneEnds(c)
    <3>1. CASE Stacks!PruneEnds(c)
      BY <1>1, <1>2, <3>1 DEF Stacks!PruneEnds
    <3>2. CASE Stacks!PruneJudges(c)
      <4>1. PICK s \in command[c].todo :
              \/ command' = [command EXCEPT ![c] = Stacks!Idle]
              \/ command' = [command EXCEPT ![c].todo = @ \ {s}, ![c].at = "judge"]
              \/ command' = [command EXCEPT ![c].at = "again", ![c].held = s]
        BY <3>2 DEF Stacks!PruneJudges, Stacks!Passed
      <4>2. command[c].at = "judge"
        BY <3>2 DEF Stacks!PruneJudges
      <4>3. QED
        BY <1>1, <1>2, <4>1, <4>2
    <3>3. QED
      BY <2>3, <3>1, <3>2
  <2>4. CASE Stacks!ProvisionLooks(c) \/ Stacks!ProvisionAllocates(c)
    BY <1>1, <1>2, <2>4 DEF Stacks!ProvisionLooks, Stacks!ProvisionAllocates
  <2>5. CASE Stacks!MakeParses(c) \/ Stacks!Claim(c) \/ Stacks!Asserts(c)
    BY <1>1, <1>2, <2>5, SMTT(30) DEF Stacks!MakeParses, Stacks!Claim, Stacks!Asserts
  <2>6. CASE Stacks!ReadsItsRecord(c)
    BY <1>1, <1>2, <2>6 DEF Stacks!ReadsItsRecord, StackWorld
  <2>7. CASE Stacks!DownInventory(c)
    <3>1. \/ command' = [command EXCEPT ![c] = Stacks!Idle]
          \/ command' = [command EXCEPT ![c].at = "downing"] /\ ~Stacks!IdsDisagree(c, command[c].slug)
      BY <2>7 DEF Stacks!DownInventory
    <3>2. ~Stacks!IdsDisagree(c, command[c].slug) /\ command[c].held # None => stack[command[c].slug].volumes = {command[c].held}
      BY <1>2, <2>7 DEF Stacks!DownInventory, Stacks!IdsDisagree, Stacks!Ids, StackWorld
    <3>3. QED
      BY <1>1, <1>2, <2>7, <3>1, <3>2 DEF Stacks!DownInventory
  <2>8. QED
    BY <2>1, <2>2, <2>3, <2>4, <2>5, <2>6, <2>7
<1>5. QED
  BY <1>1, <1>3, <1>4, StackReadStep

\* Compose makes the volumes a stack has not, and keeps those it has.
LEMMA StackComposes ==
  ASSUME StackWorld, NEW c \in Commands, Stacks!ComposeUp(c)
  PROVE  LET s == command[c].slug IN
         \/ UNCHANGED stack
         \/ /\ DOMAIN stack' = Slugs
            /\ s \in Slugs => /\ DOMAIN stack'[s] = DOMAIN stack[s]
                              /\ stack'[s].volumes = IF stack[s].volumes = {} THEN {command[c].held.id} ELSE stack[s].volumes
            /\ \A t \in Slugs \ {s} : stack'[t] = stack[t]
<1> DEFINE s == command[c].slug
           volumes == IF stack[s].volumes = {} THEN {command[c].held.id} ELSE stack[s].volumes
           busy == \E t \in Slugs \ {s} : stack[t].base = command[c].held.base
<1>1. \/ UNCHANGED stack
      \/ stack' = [stack EXCEPT ![s].volumes = volumes,
                                ![s].boxes = IF busy THEN @ ELSE {command[c].held.id},
                                ![s].base = IF busy THEN @ ELSE command[c].held.base]
  BY DEF Stacks!ComposeUp
<1>2. DOMAIN stack = Slugs /\ \A t \in Slugs : DOMAIN stack[t] = {"boxes", "volumes", "base", "odd"}
  BY DEF StackWorld
<1> HIDE DEF busy, volumes
<1>3. \/ UNCHANGED stack
      \/ /\ DOMAIN stack' = Slugs
         /\ s \in Slugs => DOMAIN stack'[s] = DOMAIN stack[s] /\ stack'[s].volumes = volumes
         /\ \A t \in Slugs \ {s} : stack'[t] = stack[t]
  BY <1>1, <1>2
<1>4. QED
  BY <1>3 DEF volumes

\* The steps on stacks: teardowns under the lock, and compose, which keeps volumes.
LEMMA StackReadStacks ==
  ASSUME Stacks!Named, StackLiveInv, StackPortsInv', NEW c \in Commands,
         Stacks!PruneDown(c) \/ Stacks!ClaimDown(c) \/ Stacks!ComposeUp(c) \/ Stacks!DownRuns(c)
  PROVE  StackLiveInv'
<1>1. UNCHANGED <<portFile, tally>>
  BY DEF Stacks!PruneDown, Stacks!ClaimDown, Stacks!ComposeUp, Stacks!DownRuns
<1>2. DOMAIN command = Commands /\ DOMAIN command[c] = StackFields /\ command[c].slug \in Slugs /\ StackRead(c) /\ StackWorld
  BY DEF StackLiveInv, StackPortsInv, StackShapes, Stacks!At, Stacks!PruneDown, Stacks!ClaimDown,
     Stacks!ComposeUp, Stacks!DownRuns
<1>3. StackRecordsAge
  BY <1>1, <1>2 DEF StackWorld, StackRecordsAge
<1>4. StackOthersKept(c) /\ StackRead(c)'
  <2> USE DEF StackOthersKept, StackRead, StackHeld, StackFields, Stacks!At, Stacks!Goes, Stacks!Ends,
     Stacks!Idle
  <2>1. CASE Stacks!PruneDown(c)
    <3>1. /\ command' = [command EXCEPT ![c].todo = @ \ {command[c].held}, ![c].at = "judge"]
          /\ command[c].at = "again"
      BY <2>1 DEF Stacks!PruneDown, Stacks!Passed
    <3>2. QED
      BY <1>1, <1>2, <3>1
  <2>2. CASE Stacks!ClaimDown(c)
    BY <1>1, <1>2, <2>2 DEF Stacks!ClaimDown
  <2>3. CASE Stacks!ComposeUp(c) \/ Stacks!DownRuns(c)
    <3>1. command' = [command EXCEPT ![c] = Stacks!Idle]
      BY <2>3 DEF Stacks!ComposeUp, Stacks!DownRuns
    <3>2. QED
      BY <1>2, <3>1
  <2>4. QED
    BY <2>1, <2>2, <2>3
<1>5. CASE Stacks!ComposeUp(c)
  <2> DEFINE s == command[c].slug
             volumes == IF stack[s].volumes = {} THEN {command[c].held.id} ELSE stack[s].volumes
  <2>1. \/ UNCHANGED stack
        \/ /\ DOMAIN stack' = Slugs /\ DOMAIN stack'[s] = DOMAIN stack[s] /\ stack'[s].volumes = volumes
           /\ \A t \in Slugs \ {s} : stack'[t] = stack[t]
    BY <1>2, <1>5, StackComposes DEF StackWorld
  <2>2. volumes # {} /\ (stack[s].volumes # {} => volumes = stack[s].volumes)
    OBVIOUS
  <2> HIDE DEF volumes
  <2>3. StackWorld'
    BY <1>1, <1>2, <2>1, <2>2 DEF StackWorld
  <2>4. \A t \in Slugs : stack[t].volumes # {} => stack'[t].volumes = stack[t].volumes
    BY <1>2, <2>1, <2>2 DEF StackWorld
  <2>5. ASSUME NEW o \in Commands \ {c}, Stacks!At(o, "downing"), StackHeld(o)
        PROVE  stack'[command[o].slug].volumes = stack[command[o].slug].volumes
    <3>1. StackRead(o) /\ command[o].slug \in Slugs
      BY <2>5 DEF StackLiveInv, StackPortsInv, StackShapes, Stacks!At
    <3>2. stack[command[o].slug].volumes # {}
      BY <2>5, <3>1 DEF StackRead, Stacks!At
    <3>3. QED
      BY <2>4, <3>1, <3>2
  <2>6. QED
    BY <1>3, <1>4, <2>3, <2>5, StackReadStep
<1>6. CASE Stacks!PruneDown(c) \/ Stacks!ClaimDown(c) \/ Stacks!DownRuns(c)
  <2>1. command[c].at \in StackCritical
    BY <1>6 DEF Stacks!PruneDown, Stacks!ClaimDown, Stacks!DownRuns, Stacks!At, StackCritical
  <2>2. \A o \in Commands \ {c} : ~Stacks!At(o, "downing")
    BY <2>1 DEF StackLiveInv, StackPortsInv, StackLockHeld, StackCritical, Stacks!At
  <2>3. \/ UNCHANGED stack
        \/ \E s : stack' = [stack EXCEPT ![s] = Stacks!Gone]
    BY <1>6 DEF Stacks!PruneDown, Stacks!ClaimDown, Stacks!DownRuns, Stacks!Down
  <2>4. StackWorld'
    BY <1>1, <1>2, <2>3 DEF StackWorld, Stacks!Gone
  <2>5. QED
    BY <1>3, <1>4, <2>2, <2>4, StackReadStep
<1>7. QED
  BY <1>5, <1>6

\* The steps on records and on the counts.
LEMMA StackReadRecords ==
  ASSUME Stacks!Named, StackLiveInv, StackPortsInv', NEW c \in Commands,
         Stacks!ProvisionPublishes(c) \/ Stacks!GitRemoves(c) \/ Stacks!Dies(c)
  PROVE  StackLiveInv'
<1>1. /\ DOMAIN command = Commands /\ DOMAIN command[c] = StackFields /\ command[c].slug \in Slugs /\ StackRead(c) /\ StackWorld
      /\ DOMAIN portFile = Slugs /\ UNCHANGED stack
  BY DEF StackLiveInv, StackPortsInv, StackShapes, Stacks!At, Stacks!ProvisionPublishes,
     Stacks!GitRemoves, Stacks!Dies
<1> USE DEF StackWorld, StackRecordsAge, StackOthersKept, StackRead, StackHeld, StackFields, Stacks!At,
   Stacks!Goes, Stacks!Ends, Stacks!Idle
<1>2. CASE Stacks!ProvisionPublishes(c)
  <2> DEFINE s == command[c].slug
             new == [name |-> s, base |-> command[c].held, id |-> tally.ids + 1]
  <2>1. StackWorld' /\ StackRecordsAge
    <3>1. CASE UNCHANGED <<portFile, tally>>
      BY <1>1, <3>1
    <3>2. CASE portFile' = [portFile EXCEPT ![s] = new] /\ tally' = [tally EXCEPT !.ids = @ + 1]
      <4>1. new.name = s /\ new.id = tally.ids + 1
        OBVIOUS
      <4> HIDE DEF new
      <4>2. tally'.ids = tally.ids + 1 /\ tally'.moves = tally.moves /\ DOMAIN tally' = DOMAIN tally
        BY <1>1, <3>2
      <4>3. portFile'[s] = new /\ \A t \in Slugs \ {s} : portFile'[t] = portFile[t]
        BY <1>1, <3>2
      <4>4. QED
        BY <1>1, <4>1, <4>2, <4>3
    <3>3. QED
      BY <1>2, <3>1, <3>2 DEF Stacks!ProvisionPublishes
  <2>2. StackOthersKept(c) /\ StackRead(c)'
    BY <1>1, <1>2 DEF Stacks!ProvisionPublishes
  <2>3. QED
    BY <1>1, <2>1, <2>2, StackReadStep
<1>3. CASE Stacks!GitRemoves(c)
  <2>1. StackWorld' /\ StackRecordsAge
    BY <1>1, <1>3 DEF Stacks!GitRemoves
  <2>2. StackOthersKept(c) /\ StackRead(c)'
    BY <1>1, <1>3 DEF Stacks!GitRemoves
  <2>3. QED
    BY <1>1, <2>1, <2>2, StackReadStep
<1>4. CASE Stacks!Dies(c)
  <2>1. StackWorld' /\ StackRecordsAge
    BY <1>1, <1>4 DEF Stacks!Dies, Stacks!Mishap
  <2>2. StackOthersKept(c) /\ StackRead(c)'
    BY <1>1, <1>4 DEF Stacks!Dies
  <2>3. QED
    BY <1>1, <2>1, <2>2, StackReadStep
<1>5. QED
  BY <1>2, <1>3, <1>4

\* What hands and Docker do, and commands that start.
LEMMA StackReadHands ==
  ASSUME Stacks!Named, StackLiveInv, StackPortsInv', NEW s \in Slugs, Stacks!DeletedByHand(s) \/ Stacks!InfraDown(s) \/ Stacks!DockerFlips
  PROVE  StackLiveInv'
<1>1. StackWorld /\ DOMAIN portFile = Slugs /\ UNCHANGED command
  BY DEF StackLiveInv, StackPortsInv, StackShapes, Stacks!DeletedByHand, Stacks!InfraDown,
     Stacks!DockerFlips
<1>2. StackWorld' /\ StackRecordsAge
  <2>1. tally'.ids = tally.ids /\ tally'.moves = tally.moves /\ DOMAIN tally' = DOMAIN tally
    BY <1>1 DEF StackWorld, Stacks!DeletedByHand, Stacks!InfraDown, Stacks!DockerFlips, Stacks!Mishap
  <2>2. CASE Stacks!DeletedByHand(s)
    BY <1>1, <2>1, <2>2 DEF StackWorld, StackRecordsAge, Stacks!DeletedByHand
  <2>3. CASE Stacks!InfraDown(s)
    BY <1>1, <2>1, <2>3 DEF StackWorld, StackRecordsAge, Stacks!InfraDown
  <2>4. CASE Stacks!DockerFlips
    BY <1>1, <2>1, <2>4 DEF StackWorld, StackRecordsAge, Stacks!DockerFlips
  <2>5. QED
    BY <2>2, <2>3, <2>4
<1>3. \A t \in Slugs : stack'[t].volumes = stack[t].volumes
  BY <1>1 DEF StackWorld, Stacks!DeletedByHand, Stacks!InfraDown, Stacks!DockerFlips
<1>4. ASSUME NEW c \in Commands PROVE StackRead(c)'
  <2>1. Stacks!At(c, "downing") /\ StackHeld(c) => stack'[command[c].slug].volumes = stack[command[c].slug].volumes
    BY <1>3 DEF StackLiveInv, StackPortsInv, StackShapes, Stacks!At
  <2>2. QED
    BY <1>1, <1>2, <2>1, StackReadKept DEF StackLiveInv
<1>5. QED
  BY <1>2, <1>4 DEF StackLiveInv

LEMMA StackReadStarts ==
  ASSUME Stacks!Named, StackLiveInv, StackPortsInv', NEW kind, NEW first, Stacks!Started(kind, first),
         first \in {"making", "sweep", "provision", "leaving"}
  PROVE  StackLiveInv'
<1>1. PICK c \in Commands, s \in Slugs :
        command' = [command EXCEPT ![c] = [Stacks!Idle EXCEPT !.at = first, !.kind = kind, !.slug = s]]
  BY DEF Stacks!Started
<1>2. DOMAIN command = Commands /\ StackWorld /\ UNCHANGED <<stack, portFile>>
  BY DEF StackLiveInv, StackPortsInv, StackShapes, Stacks!Started
<1>3. StackWorld' /\ StackRecordsAge
  BY <1>2 DEF StackWorld, StackRecordsAge, Stacks!Started
<1>4. StackOthersKept(c) /\ StackRead(c)'
  BY <1>1, <1>2 DEF StackOthersKept, StackRead, Stacks!Idle
<1>5. QED
  BY <1>2, <1>3, <1>4, StackReadStep

LEMMA StackReadNext ==
  ASSUME Stacks!Named, tally'.moves = 0, StackLiveInv, Stacks!Next \/ UNCHANGED worktreeVars
  PROVE  StackLiveInv'
<1>1. StackPortsInv'
  BY StackNextInv DEF StackLiveInv
<1>2. CASE Stacks!MakeWorktree \/ Stacks!Sweeping \/ Stacks!Starting \/ Stacks!Removing
  BY <1>1, <1>2, StackReadStarts DEF Stacks!MakeWorktree, Stacks!Sweeping, Stacks!Starting,
     Stacks!Removing
<1>3. ASSUME NEW c \in Commands, Stacks!Works(c) PROVE StackLiveInv'
  BY <1>1, <1>3, StackReadQuiet, StackReadStacks, StackReadRecords DEF Stacks!Works
<1>4. ASSUME NEW s \in Slugs, Stacks!DeletedByHand(s) \/ Stacks!InfraDown(s) PROVE StackLiveInv'
  BY <1>1, <1>4, StackReadHands
<1>5. CASE Stacks!DockerFlips
  <2>1. StackWorld' /\ StackRecordsAge /\ UNCHANGED <<stack, command>>
    BY <1>5 DEF StackLiveInv, StackWorld, StackRecordsAge, Stacks!DockerFlips, Stacks!Mishap
  <2>2. \A c \in Commands : StackRead(c)'
    BY <2>1, StackReadKept DEF StackLiveInv
  <2>3. QED
    BY <1>1, <2>1, <2>2 DEF StackLiveInv
<1>6. CASE UNCHANGED worktreeVars
  BY <1>1, <1>6 DEF worktreeVars, StackLiveInv, StackWorld, StackRead, StackHeld
<1>7. ASSUME NEW s \in Slugs, NEW t \in Slugs, Stacks!GitMoves(s, t) PROVE FALSE
  BY <1>7 DEF Stacks!GitMoves, StackLiveInv, StackWorld
<1>8. QED
  BY <1>2, <1>3, <1>4, <1>5, <1>6, <1>7 DEF Stacks!Next

\* A move is not taken back.
StackMoves == DOMAIN tally = {"ids", "runs", "moves", "losses"} /\ tally.moves \in Nat
LEMMA StackMovesKept ==
  ASSUME StackMoves, Stacks!Next \/ UNCHANGED worktreeVars
  PROVE  StackMoves' /\ tally'.moves >= tally.moves
<1>1. ASSUME NEW kind, NEW first, Stacks!Started(kind, first) PROVE StackMoves' /\ tally'.moves >= tally.moves
  BY <1>1 DEF Stacks!Started, StackMoves
<1>2. ASSUME NEW c \in Commands, Stacks!Works(c) PROVE StackMoves' /\ tally'.moves >= tally.moves
  <2>1. UNCHANGED tally \/ tally' = [tally EXCEPT !.ids = @ + 1] \/ tally' = [tally EXCEPT !.losses = @ + 1]
    BY <1>2 DEF Stacks!Works, Stacks!Refused, Stacks!Looked, Stacks!PruneInventory, Stacks!PruneJudges,
       Stacks!PruneDown, Stacks!PruneEnds, Stacks!GitAdds, Stacks!ProvisionLooks, Stacks!ProvisionAllocates,
       Stacks!ProvisionPublishes, Stacks!MakeParses, Stacks!Claim, Stacks!ClaimDown, Stacks!Asserts, Stacks!ComposeUp,
       Stacks!ReadsItsRecord, Stacks!GitRemoves, Stacks!DownInventory, Stacks!DownRuns, Stacks!Dies, Stacks!Mishap
  <2>2. QED
    BY <2>1 DEF StackMoves
<1>3. ASSUME NEW s \in Slugs, NEW t \in Slugs,
             Stacks!DeletedByHand(s) \/ Stacks!InfraDown(s) \/ Stacks!DockerFlips \/ Stacks!GitMoves(s, t)
      PROVE  StackMoves' /\ tally'.moves >= tally.moves
  BY <1>3 DEF StackMoves, Stacks!DeletedByHand, Stacks!InfraDown, Stacks!DockerFlips, Stacks!GitMoves, Stacks!Mishap
<1>4. CASE Stacks!DockerFlips \/ UNCHANGED worktreeVars
  BY <1>4 DEF StackMoves, Stacks!DockerFlips, Stacks!Mishap, worktreeVars
<1>5. QED
  BY <1>1, <1>2, <1>3, <1>4 DEF Stacks!Next, Stacks!MakeWorktree, Stacks!Sweeping, Stacks!Starting, Stacks!Removing

\* Only these touch Docker's stacks.
LEMMA StackTouched ==
  ASSUME Stacks!Next, stack' # stack
  PROVE  \/ \E c \in Commands : Stacks!PruneDown(c) \/ Stacks!ClaimDown(c) \/ Stacks!ComposeUp(c) \/ Stacks!DownRuns(c)
         \/ \E s \in Slugs : Stacks!InfraDown(s)
<1>1. ASSUME NEW kind, NEW first, Stacks!Started(kind, first) PROVE FALSE
  BY <1>1 DEF Stacks!Started
<1>2. ASSUME NEW c \in Commands, Stacks!Works(c)
      PROVE  Stacks!PruneDown(c) \/ Stacks!ClaimDown(c) \/ Stacks!ComposeUp(c) \/ Stacks!DownRuns(c)
  BY <1>2 DEF Stacks!Works, Stacks!Refused, Stacks!Looked, Stacks!PruneInventory, Stacks!PruneJudges,
     Stacks!PruneEnds,
     Stacks!GitAdds, Stacks!ProvisionLooks, Stacks!ProvisionAllocates, Stacks!ProvisionPublishes,
        Stacks!MakeParses,
     Stacks!Claim, Stacks!Asserts, Stacks!ReadsItsRecord, Stacks!GitRemoves, Stacks!DownInventory,
        Stacks!Dies
<1>3. ASSUME NEW s \in Slugs, NEW t \in Slugs, Stacks!DeletedByHand(s) \/ Stacks!DockerFlips \/ Stacks!GitMoves(s, t) PROVE FALSE
  BY <1>3 DEF Stacks!DeletedByHand, Stacks!DockerFlips, Stacks!GitMoves
<1>4. ~Stacks!DockerFlips
  BY DEF Stacks!DockerFlips
<1>5. QED
  BY <1>1, <1>2, <1>3, <1>4 DEF Stacks!Next, Stacks!MakeWorktree, Stacks!Sweeping, Stacks!Starting,
     Stacks!Removing

LEMMA StackLiveStands ==
  ASSUME StackLiveInv, Stacks!Next
  PROVE  Stacks!LiveStands
<1> SUFFICES ASSUME NEW s \in Slugs, stack[s] # Stacks!Gone, stack'[s] = Stacks!Gone
             PROVE  /\ Stacks!Carries(s) \subseteq {s}
                    /\ Stacks!Carries(s) # {} =>
                         \E c \in Commands : (Stacks!At(c, "stale") /\ command[c].slug = s) \/ Stacks!Unproven(c, s)
  BY DEF Stacks!LiveStands
<1>1. StackWorld /\ StackShapes /\ \A c \in Commands : StackRead(c)
  BY DEF StackLiveInv, StackPortsInv
<1>2. Stacks!Carries(s) \subseteq {s} \intersect dir
  BY <1>1 DEF Stacks!Carries, StackWorld, StackShapes
<1>3. ASSUME NEW c \in Commands, Stacks!PruneDown(c) PROVE Stacks!Carries(s) = {}
  <2>1. s = command[c].held /\ command[c].seen[s] \intersect dir = {}
    BY <1>1, <1>3 DEF Stacks!PruneDown, Stacks!Down, Stacks!OwnerAppeared, Stacks!PresentOwner, StackWorld
  <2>2. s \in command[c].seen[s]
    BY <1>1, <1>3, <2>1 DEF StackRead, Stacks!PruneDown, Stacks!At
  <2>3. QED
    BY <1>2, <2>1, <2>2
<1>4. ASSUME NEW c \in Commands, Stacks!ClaimDown(c) PROVE Stacks!At(c, "stale") /\ command[c].slug = s
  BY <1>1, <1>4 DEF Stacks!ClaimDown, Stacks!Down, StackWorld
<1>5. ASSUME NEW c \in Commands, Stacks!DownRuns(c), ~Stacks!Unproven(c, s) PROVE Stacks!Carries(s) = {}
  <2>1. Stacks!At(c, "downing") /\ command[c].slug = s
    BY <1>1, <1>5 DEF Stacks!DownRuns, Stacks!Down, StackWorld
  <2>2. stack[s].volumes = {command[c].held} /\ (portFile[s] = None \/ portFile[s].id # command[c].held)
    BY <1>1, <1>5, <2>1 DEF StackRead, StackHeld, Stacks!Unproven, Stacks!At
  <2>3. s \notin Stacks!Carries(s)
    BY <2>2 DEF Stacks!Carries, Stacks!Ids
  <2>4. QED
    BY <1>2, <2>3
<1>6. ASSUME NEW c \in Commands, Stacks!ComposeUp(c) PROVE FALSE
  <2> DEFINE t == command[c].slug
             volumes == IF stack[t].volumes = {} THEN {command[c].held.id} ELSE stack[t].volumes
  <2>1. \/ UNCHANGED stack
        \/ /\ DOMAIN stack' = Slugs /\ (t \in Slugs => stack'[t].volumes = volumes)
           /\ \A u \in Slugs \ {t} : stack'[u] = stack[u]
    BY <1>1, <1>6, StackComposes DEF StackWorld
  <2>2. volumes # {}
    OBVIOUS
  <2> HIDE DEF volumes
  <2>3. stack'[s] = stack[s] \/ stack'[s].volumes # {}
    BY <1>1, <2>1, <2>2 DEF StackWorld
  <2>4. QED
    BY <2>3 DEF Stacks!Gone
<1>7. ASSUME NEW t \in Slugs, Stacks!InfraDown(t) PROVE FALSE
  <2>1. stack'[s] = stack[s] \/ stack'[s].volumes # {}
    BY <1>1, <1>7 DEF Stacks!InfraDown, StackWorld
  <2>2. QED
    BY <2>1 DEF Stacks!Gone
<1>8. QED
  BY <1>2, <1>3, <1>4, <1>5, <1>6, <1>7, StackTouched

\* Until a checkout is moved, a stack that is wholly a checkout's is torn down by
\* that checkout's claim, or by a removal that had no record to go by, and by
\* nobody else, whatever sweeps, claims and removals overlap, die or lose Docker
\* (prune, claim, down).
THEOREM LiveStacksAreKept == Spec => LiveStacksStand
<1> DEFINE Inv == scene = "worktree" => StackMoves /\ (tally.moves = 0 => StackLiveInv)
<1>1. Init => Inv
  BY StackLiveInit DEF Init, StackMoves, Stacks!Init
<1>2. Inv /\ [Next]_all => Inv'
  <2> SUFFICES ASSUME Inv, [Next]_all, scene' = "worktree" PROVE StackMoves' /\ (tally'.moves = 0 => StackLiveInv')
    OBVIOUS
  <2>1. scene = "worktree" /\ (Stacks!Next \/ UNCHANGED worktreeVars)
    BY DEF Next, all
  <2>2. StackMoves' /\ tally'.moves >= tally.moves /\ tally.moves \in Nat
    BY <2>1, StackMovesKept DEF StackMoves
  <2>3. tally'.moves = 0 => StackLiveInv
    BY <2>1, <2>2
  <2>4. QED
    BY <2>1, <2>2, <2>3, StacksNamed, StackReadNext
<1>3. Inv /\ [Next]_all => [scene = "worktree" => Stacks!LiveStands]_all
  <2> SUFFICES ASSUME Inv, Next, scene = "worktree" PROVE Stacks!LiveStands
    OBVIOUS
  <2>1. CASE Stacks!Next
    <3>1. tally'.moves = 0 => StackLiveInv
      BY <2>1, StackMovesKept DEF StackMoves
    <3>2. QED
      BY <2>1, <3>1, StackLiveStands DEF Stacks!LiveStands
  <2>2. CASE UNCHANGED worktreeVars
    BY <2>2 DEF worktreeVars, Stacks!LiveStands
  <2>3. QED
    BY <2>1, <2>2 DEF Next, all
<1>4. QED
  BY <1>1, <1>2, <1>3, PTL DEF Spec, LiveStacksStand

-----------------------------------------------------------------------------
(* Speakers: aliases are flat and never taken back, so one lookup is enough *)
(* for whatever an align run read before it wrote.                          *)

VoiceShapes ==
  /\ roster \in Rosters /\ assigned \in [Labels -> Voices!Keys \union {None}]
  /\ DOMAIN merge = Curators /\ DOMAIN align = {"at", "held", "gone", "ids"}
  /\ \A c \in Curators : merge[c] # Voices!NoMerge =>
       merge[c].from \in Voices!Keys /\ merge[c].into \in Voices!Keys /\ merge[c].from # merge[c].into
\* Whom somebody was merged into was not merged away.
AliasesAreFlat ==
  /\ alias \in [Voices!Keys -> Voices!Keys \union {None}]
  /\ \A k \in Voices!Keys : alias[k] # None => alias[alias[k]] = None
\* Nothing under an align run moves the graph; its ids stand for nobody merged away.
AlignIsCurrent ==
  /\ align.at # "idle" => job = "running"
  /\ \A k \in align.gone : k \in Voices!Keys /\ alias[k] # None
  /\ align.at \in {"upserts", "writes"} =>
       /\ DOMAIN align.ids = {r.key : r \in roster}
       /\ \A k \in DOMAIN align.ids : align.ids[k] \notin align.gone
VoiceInv == VoiceShapes /\ AliasesAreFlat /\ AlignIsCurrent /\ Voices!RowsAreEarned

LEMMA VoiceInitInv == Voices!Init => VoiceInv
BY DEF Voices!Init, VoiceInv, VoiceShapes, AliasesAreFlat, AlignIsCurrent, Voices!RowsAreEarned,
   Voices!NoAlign, Voices!NoMerge

\* The instance's notions of finiteness and size are the theorems'.
LEMMA VoiceFiniteSets ==
  \A S : (Voices!IsFiniteSet(S) <=> IsFiniteSet(S)) /\ Voices!Cardinality(S) = Cardinality(S)
BY DEF Voices!IsFiniteSet, IsFiniteSet, Voices!Cardinality, Cardinality

\* What the rows claim is of the graph, the rows, the assignments and the job alone.
LEMMA VoiceRowsKept ==
  ASSUME Voices!RowsAreEarned, UNCHANGED <<roster, assigned, row, attends, job>>
  PROVE  Voices!RowsAreEarned'
BY DEF Voices!RowsAreEarned, Voices!NamesFitting

LEMMA VoiceSurvivor ==
  ASSUME AliasesAreFlat, NEW k \in Voices!Keys
  PROVE  Voices!Survivor(k) \in Voices!Keys /\ alias[Voices!Survivor(k)] = None
BY DEF AliasesAreFlat, Voices!Survivor

\* What a label is given by the graph is of the one entry it fits.
LEMMA VoiceResolved ==
  ASSUME Voices!Keyed, roster \in Rosters, NEW l, Voices!ResolveLabel(l).who # None
  PROVE  /\ Voices!ResolveLabel(l).who \in {r.key : r \in roster}
         /\ l \notin Slots /\ Cardinality(Voices!Fitting(l)) = 1
<1>1. /\ l \notin Slots /\ Voices!Fitting(l) # {} /\ ~(Cardinality(Voices!Fitting(l)) > 1)
      /\ Voices!ResolveLabel(l).who = (CHOOSE r \in Voices!Fitting(l) : TRUE).key
  BY VoiceFiniteSets DEF Voices!ResolveLabel
<1>2. Voices!Fitting(l) \subseteq roster
  BY DEF Voices!Fitting
<1>3. IsFiniteSet(Voices!Fitting(l))
  <2>1. IsFiniteSet(roster)
    BY VoiceFiniteSets DEF Voices!Keyed
  <2>2. QED
    BY <1>2, <2>1, FS_Subset
<1>4. Cardinality(Voices!Fitting(l)) \in Nat /\ Cardinality(Voices!Fitting(l)) # 0
  BY <1>1, <1>3, FS_CardinalityType, FS_EmptySet
<1>5. (CHOOSE r \in Voices!Fitting(l) : TRUE) \in roster
  BY <1>1, <1>2
<1>6. Cardinality(Voices!Fitting(l)) = 1
  BY <1>1, <1>4
<1>7. (CHOOSE r \in Voices!Fitting(l) : TRUE).key \in {r.key : r \in roster}
  BY <1>5, Zenon
<1>8. QED
  BY <1>1, <1>6, <1>7, Zenon

\* The worker: a claim, what it reads and locks, and the ways a run ends.
LEMMA VoiceAlignSteps ==
  ASSUME VoiceInv, Voices!Claim \/ Voices!ResolveParticipants \/ Voices!Upserts \/ Voices!AlignFails
  PROVE  VoiceInv' /\ Voices!MergesRespected
<1> USE DEF VoiceInv
<1>1. CASE Voices!Claim
  BY <1>1 DEF Voices!Claim, Voices!NoAlign, VoiceShapes, AliasesAreFlat, AlignIsCurrent,
     Voices!RowsAreEarned, Voices!NamesFitting,
              Voices!MergesRespected, Voices!AlignDone
<1>2. CASE Voices!ResolveParticipants
  <2>1. /\ align.at = "reads" /\ UNCHANGED <<roster, people, alias, assigned, row, attends, job, merge>>
        /\ align' = [align EXCEPT !.at = "upserts", !.ids = [k \in {r.key : r \in roster} |-> Voices!Survivor(k)],
                                  !.held = align'.held]
    BY <1>2 DEF Voices!ResolveParticipants, VoiceShapes
  <2>2. /\ align'.at = "upserts" /\ align'.gone = align.gone /\ align'.ids = [k \in {r.key : r \in roster} |-> Voices!Survivor(k)]
        /\ DOMAIN align' = DOMAIN align
    BY <2>1 DEF VoiceShapes
  <2>3. \A k \in {r.key : r \in roster} : k \in Voices!Keys
    BY DEF VoiceShapes, Voices!Keys, Voices!Graph
  <2>4. \A k \in {r.key : r \in roster} : Voices!Survivor(k) \notin align.gone
    BY <2>3, VoiceSurvivor DEF AlignIsCurrent
  <2>5. VoiceShapes' /\ AliasesAreFlat'
    BY <2>1, <2>2 DEF VoiceShapes, AliasesAreFlat
  <2>6. Voices!RowsAreEarned'
    BY <2>1, VoiceRowsKept
  <2>7. AlignIsCurrent'
    <3>1. DOMAIN align'.ids = {r.key : r \in roster} /\ \A k \in DOMAIN align'.ids : align'.ids[k] \notin align.gone
      BY <2>2, <2>4
    <3>2. QED
      BY <2>1, <2>2, <3>1 DEF AlignIsCurrent
  <2>8. QED
    BY <2>1, <2>5, <2>6, <2>7 DEF Voices!MergesRespected, Voices!AlignDone
<1>3. CASE Voices!Upserts
  BY <1>3 DEF Voices!Upserts, Voices!NoAlign, VoiceShapes, AliasesAreFlat, AlignIsCurrent,
     Voices!RowsAreEarned, Voices!NamesFitting,
              Voices!MergesRespected, Voices!AlignDone
<1>4. CASE Voices!AlignFails
  BY <1>4 DEF Voices!AlignFails, Voices!NoAlign, VoiceShapes, AliasesAreFlat, AlignIsCurrent,
     Voices!RowsAreEarned, Voices!NamesFitting,
              Voices!MergesRespected, Voices!AlignDone
<1>5. QED
  BY <1>1, <1>2, <1>3, <1>4

\* Whatever a commit writes of a label is earned, and respects the merges.
LEMMA VoiceCommit ==
  ASSUME Voices!Keyed, VoiceInv, Voices!AlignCommits
  PROVE  VoiceInv' /\ Voices!MergesRespected
<1> USE DEF VoiceInv
<1>1. /\ align.at = "writes" /\ align' = Voices!NoAlign /\ job' = "done" /\ row' = [l \in Labels |-> Voices!Attributed(l)]
      /\ attends' = Voices!Attendance /\ UNCHANGED <<roster, alias, assigned, merge>>
  BY DEF Voices!AlignCommits
<1>2. /\ DOMAIN align.ids = {r.key : r \in roster} /\ roster \in Rosters
      /\ \A k \in DOMAIN align.ids : align.ids[k] \notin align.gone
  BY <1>1 DEF AlignIsCurrent, VoiceShapes
<1>3. ASSUME NEW l \in Labels
      PROVE  /\ Voices!Attributed(l).who \notin align.gone
             /\ Voices!Attributed(l).who # None =>
                  /\ Voices!Attributed(l).who \in Voices!Attendance
                  /\ assigned[l] # None \/ (l \notin Slots /\ Cardinality(Voices!Fitting(l)) = 1)
  <2> DEFINE A == Voices!SpeakerAssignments
  <2>1. DOMAIN A = {m \in Labels : assigned[m] # None} /\ \A m \in DOMAIN A : A[m] = Voices!Survivor(assigned[m])
    BY DEF Voices!SpeakerAssignments
  <2>2. CASE assigned[l] # None
    <3>1. Voices!Attributed(l).who = A[l] /\ A[l] = Voices!Survivor(assigned[l]) /\ A[l] \in Voices!AssignedRows
      BY <2>1, <2>2, Zenon DEF Voices!Attributed, Voices!AssignedRows
    <3>2. assigned[l] \in Voices!Keys
      BY <2>2 DEF VoiceShapes
    <3>3. A[l] \notin align.gone
      BY <3>1, <3>2, VoiceSurvivor DEF AlignIsCurrent
    <3> HIDE DEF A
    <3>4. QED
      BY <2>2, <3>1, <3>3 DEF Voices!Attendance
  <2>3. CASE assigned[l] = None
    <3> DEFINE who == Voices!ResolveLabel(l).who
    <3>1. Voices!Attributed(l).who = IF who = None THEN None ELSE align.ids[who]
      BY <2>1, <2>3 DEF Voices!Attributed
    <3>2. who # None => who \in DOMAIN align.ids /\ l \notin Slots /\ Cardinality(Voices!Fitting(l)) = 1
      BY <1>2, VoiceResolved
    <3>3. who # None => align.ids[who] \in Voices!RosterRows
      BY <1>2, <3>2 DEF Voices!RosterRows
    <3>4. None \notin align.gone
      BY DEF AlignIsCurrent, Voices!Keyed
    <3> HIDE DEF who, A
    <3>5. QED
      BY <1>2, <3>1, <3>2, <3>3, <3>4 DEF Voices!Attendance
  <2>4. QED
    BY <2>2, <2>3
<1>4. Voices!MergesRespected
  BY <1>1, <1>3 DEF Voices!MergesRespected
<1>5. Voices!RowsAreEarned'
  <2>1. ASSUME NEW l \in Labels, row'[l].who # None
        PROVE  /\ row'[l].who \in attends'
               /\ assigned'[l] # None \/ (l \notin Slots /\ Cardinality(Voices!Fitting(l)) = 1)
    BY <1>1, <1>3, <2>1
  <2>2. \A l : Voices!NamesFitting(l)' = Voices!NamesFitting(l)
    BY <1>1 DEF Voices!NamesFitting
  <2>3. \A l : Voices!Fitting(l) = {r \in roster' : r.name \in Voices!NamesFitting(l)'}
    BY <1>1, <2>2 DEF Voices!Fitting
  <2>4. QED
    BY <2>1, <2>3, VoiceFiniteSets DEF Voices!RowsAreEarned
<1>6. VoiceShapes' /\ AliasesAreFlat' /\ AlignIsCurrent'
  BY <1>1 DEF VoiceShapes, AliasesAreFlat, AlignIsCurrent, Voices!NoAlign
<1>7. QED
  BY <1>4, <1>5, <1>6

\* The curators' requests and a drop emitted again.
LEMMA VoiceMerges ==
  ASSUME VoiceInv, NEW c \in Curators, Voices!MergeWrites(c)
  PROVE  VoiceInv'
<1> USE DEF VoiceInv
<1> DEFINE a == merge[c].from
           b == merge[c].into
<1>1. /\ a \in Voices!Keys /\ b \in Voices!Keys /\ a # b /\ merge' = [merge EXCEPT ![c] = Voices!NoMerge]
      /\ UNCHANGED <<roster, assigned, row, attends, job, align>>
      /\ \/ UNCHANGED alias
         \/ alias' = [alias EXCEPT ![a] = b] /\ ~Voices!MergeRefused(a, b)
  BY DEF Voices!MergeWrites, VoiceShapes
<1>2. VoiceShapes' /\ Voices!RowsAreEarned'
  BY <1>1 DEF VoiceShapes, Voices!RowsAreEarned, Voices!NamesFitting
<1>3. AliasesAreFlat' /\ AlignIsCurrent'
  BY <1>1 DEF AliasesAreFlat, AlignIsCurrent, Voices!MergeRefused, Voices!HasAbsorbedAliases
<1>4. QED
  BY <1>2, <1>3

LEMMA VoiceKept ==
  ASSUME VoiceInv, UNCHANGED <<roster, alias, assigned, row, attends, job, align, merge>>
  PROVE  VoiceInv'
<1>1. VoiceShapes' /\ AliasesAreFlat' /\ AlignIsCurrent'
  BY DEF VoiceInv, VoiceShapes, AliasesAreFlat, AlignIsCurrent
<1>2. Voices!RowsAreEarned'
  BY DEF VoiceInv, Voices!RowsAreEarned, Voices!NamesFitting
<1>3. QED
  BY <1>1, <1>2 DEF VoiceInv

LEMMA VoiceCurators ==
  ASSUME VoiceInv,
         \/ \E l \in Labels : Voices!AssignMeetingSpeaker(l)
         \/ \E k, name : Voices!RenameParticipant(k, name)
         \/ \E c \in Curators, a \in Voices!Keys, b \in Voices!Keys : Voices!MergeLocks(c, a, b)
         \/ \E r \in Rosters : Voices!Reemitted(r)
         \/ UNCHANGED speakerVars
  PROVE  VoiceInv'
<1> USE DEF VoiceInv
<1>1. ASSUME NEW l \in Labels, Voices!AssignMeetingSpeaker(l) PROVE VoiceInv'
  <2>1. /\ job # "running" /\ job' = "queued" /\ UNCHANGED <<roster, alias, row, attends, align, merge>>
        /\ \E k \in Voices!Keys \union {None} : assigned' = [assigned EXCEPT ![l] = k]
    <3>1. <<"curated", l>> \in Voices!Keys
      BY DEF Voices!Keys, Voices!Curated
    <3>2. QED
      BY <1>1, <3>1 DEF Voices!AssignMeetingSpeaker, Voices!TypedName, Voices!Picked, Voices!Unresolved
  <2>2. QED
    BY <2>1 DEF VoiceShapes, AliasesAreFlat, AlignIsCurrent, Voices!RowsAreEarned
<1>2. ASSUME NEW k, NEW name, Voices!RenameParticipant(k, name) PROVE VoiceInv'
  BY <1>2, VoiceKept DEF Voices!RenameParticipant
<1>3. ASSUME NEW c \in Curators, NEW a \in Voices!Keys, NEW b \in Voices!Keys, Voices!MergeLocks(c, a, b) PROVE VoiceInv'
  <2>1. UNCHANGED <<roster, alias, assigned, row, attends, job, align>> /\ merge' = [merge EXCEPT ![c] = [from |-> a, into |-> b]] /\ a # b
    BY <1>3 DEF Voices!MergeLocks
  <2>2. VoiceShapes'
    BY <2>1 DEF VoiceShapes
  <2>3. QED
    BY <2>1, <2>2 DEF AliasesAreFlat, AlignIsCurrent, Voices!RowsAreEarned, Voices!NamesFitting
<1>4. ASSUME NEW r \in Rosters, Voices!Reemitted(r) PROVE VoiceInv'
  BY <1>4 DEF Voices!Reemitted, VoiceShapes, AliasesAreFlat, AlignIsCurrent, Voices!RowsAreEarned
<1>5. CASE UNCHANGED speakerVars
  BY <1>5, VoiceKept DEF speakerVars
<1>6. QED
  BY <1>1, <1>2, <1>3, <1>4, <1>5

LEMMA VoiceNextInv ==
  ASSUME Voices!Keyed, VoiceInv, Voices!Next \/ UNCHANGED speakerVars
  PROVE  VoiceInv' /\ Voices!MergesRespected
<1>1. CASE Voices!AlignDone
  <2>1. Voices!AlignCommits \/ Voices!AlignFails
    BY <1>1 DEF Voices!AlignDone, Voices!NoAlign, Voices!Next, speakerVars, Voices!Claim,
       Voices!ResolveParticipants, Voices!Upserts,
                Voices!AssignMeetingSpeaker, Voices!RenameParticipant, Voices!MergeLocks,
                   Voices!MergeWrites, Voices!Reemitted
  <2>2. QED
    BY <2>1, VoiceCommit, VoiceAlignSteps
<1>2. CASE ~Voices!AlignDone
  BY <1>2, VoiceCommit, VoiceAlignSteps, VoiceMerges, VoiceCurators DEF Voices!Next,
     Voices!MergesRespected
<1>3. QED
  BY <1>1, <1>2

\* Whatever is merged, named, renamed or emitted again while align runs, no commit
\* of it names somebody who had been merged away when it began
\* (resolve_participants, absorbed_alias, merge_participants).
THEOREM MergesAreKept == Spec => MergesOutliveReruns
<1> DEFINE Inv == scene = "speakers" => VoiceInv
<1>1. Init => Inv
  BY VoiceInitInv DEF Init
<1>2. Inv /\ [Next]_all => Inv' /\ (scene = "speakers" => Voices!MergesRespected)
  <2> SUFFICES ASSUME Inv, [Next]_all, scene = "speakers" PROVE VoiceInv' /\ Voices!MergesRespected
    BY DEF Next, all
  <2>1. Voices!Next \/ UNCHANGED speakerVars
    BY DEF Next, all
  <2>2. QED
    BY <2>1, VoicesKeyed, VoiceNextInv
<1>3. QED
  BY <1>1, <1>2, PTL DEF Spec, MergesOutliveReruns

\* A settled meeting guesses nobody: whoever a label names was assigned, or is the
\* one entry of the graph it fits, and attends (resolve_label, apply_participants).
THEOREM RowsStayEarned == Spec => []RowsAreEarned
<1> DEFINE Inv == scene = "speakers" => VoiceInv
<1>1. Init => Inv
  BY VoiceInitInv DEF Init
<1>2. Inv /\ [Next]_all => Inv'
  <2> SUFFICES ASSUME Inv, [Next]_all, scene' = "speakers" PROVE VoiceInv'
    OBVIOUS
  <2>1. scene = "speakers" /\ (Voices!Next \/ UNCHANGED speakerVars)
    BY DEF Next, all
  <2>2. QED
    BY <2>1, VoicesKeyed, VoiceNextInv
<1>3. Inv => RowsAreEarned
  BY DEF VoiceInv, RowsAreEarned
<1>4. QED
  BY <1>1, <1>2, <1>3, PTL DEF Spec

-----------------------------------------------------------------------------
(* The purge: what a plan names is nobody's who stays, and stays so.       *)

\* Whoever was linked or named in a meeting that is kept is still, and not to go.
PlanSpares ==
  \A r \in prune.plan.standing :
    /\ r \in link \union said
    /\ r[1] \in meetings \ prune.plan.purge => r[2] \notin prune.plan.people
PurgeInv ==
  /\ DOMAIN prune = {"at", "plan", "drops"}
  /\ \A r \in shot : r[1] \in meetings /\ r[2] \in screens
  /\ prune.at = "planned" => PlanSpares

LEMMA PurgeInitInv == Prune!Init => PurgeInv
<1> SUFFICES ASSUME Prune!Init PROVE PurgeInv
  OBVIOUS
<1>1. shot \in SUBSET (Meetings \X Screens) /\ meetings = Meetings /\ screens = Screens /\ prune = Prune!Idle
  BY DEF Prune!Init
<1>2. \A r \in Meetings \X Screens : r[1] \in Meetings /\ r[2] \in Screens
  OBVIOUS
<1>3. QED
  BY <1>1, <1>2 DEF Prune!Idle, PurgeInv

LEMMA PurgePlans ==
  ASSUME PurgeInv, NEW keep, NEW asked, Prune!ResolveScope(keep, asked)
  PROVE  PurgeInv'
<1>1. UNCHANGED <<meetings, link, said, shot, screens>>
  BY DEF Prune!ResolveScope, Prune!database
<1>2. CASE UNCHANGED prune
  BY <1>1, <1>2 DEF PurgeInv, PlanSpares
<1>3. CASE prune' # prune
  <2> DEFINE purge == meetings \ (keep \intersect meetings)
  <2>1. /\ DOMAIN prune' = {"at", "plan", "drops"}
        /\ prune'.plan.purge = purge /\ prune'.plan.people = Prune!OrphanPeople(purge, asked.sweep)
        /\ prune'.plan.standing = link \union said
    <3>1. \E going, shown : prune' =
            [at |-> "planned", drops |-> asked.drops,
             plan |-> [purge |-> purge, people |-> Prune!OrphanPeople(purge, asked.sweep),
                       screens |-> shown, files |-> going, standing |-> link \union said]]
      BY <1>3, Zenon DEF Prune!ResolveScope
    <3> HIDE DEF purge
    <3>2. QED
      BY <3>1
  <2>2. \A r \in link \union said : r[1] \in meetings \ purge => r[2] \notin Prune!OrphanPeople(purge, asked.sweep)
    BY DEF Prune!OrphanPeople, Prune!Of
  <2> HIDE DEF purge
  <2>3. QED
    BY <1>1, <2>1, <2>2 DEF PurgeInv, PlanSpares
<1>4. QED
  BY <1>2, <1>3

LEMMA PurgeExecutes ==
  ASSUME PurgeInv, Prune!ExecutePurge
  PROVE  PurgeInv' /\ Prune!OthersKept
<1> DEFINE kept == {r \in shot : r[1] \notin prune.plan.purge}
<1>1. PlanSpares /\ prune.at = "planned"
  BY DEF PurgeInv, Prune!ExecutePurge
<1>2. CASE prune' = Prune!Idle /\ UNCHANGED Prune!database
  BY <1>2 DEF PurgeInv, Prune!Idle, Prune!database, Prune!OthersKept
<1>3. CASE /\ Prune!Of(kept, meetings) \intersect prune.plan.screens = {} /\ meetings' = meetings \ prune.plan.purge
           /\ screens' = screens \ prune.plan.screens /\ shot' = kept /\ prune' = [prune EXCEPT !.at = "content"]
           /\ link' = {r \in {q \in link : q[1] \notin prune.plan.purge} : r[2] \notin prune.plan.people}
           /\ said' = {r \in {q \in said : q[1] \notin prune.plan.purge} : r[2] \notin prune.plan.people}
  <2>1. \A r \in kept : r[1] \in meetings' /\ r[2] \in screens'
    BY <1>3 DEF PurgeInv, Prune!Of
  <2>2. PurgeInv'
    BY <1>3, <2>1 DEF PurgeInv
  <2>3. kept = {r \in shot : r[1] \in meetings'} /\ Prune!Of(shot', meetings') \subseteq screens'
    BY <1>3, <2>1 DEF PurgeInv, Prune!Of
  <2>4. \A r \in prune.plan.standing : r[1] \in meetings' => r \in link' \union said'
    BY <1>1, <1>3 DEF PlanSpares
  <2>5. QED
    BY <1>3, <2>2, <2>3, <2>4 DEF Prune!OthersKept
<1>4. QED
  BY <1>2, <1>3 DEF Prune!ExecutePurge, Prune!Ends

LEMMA PurgeOtherSteps ==
  ASSUME PurgeInv,
         \/ Prune!DryRun \/ Prune!RemoveContentDir \/ Prune!RemovePublishedFiles \/ Prune!RemoveDrops \/ Prune!Dies
         \/ Prune!Align \/ Prune!Capture \/ Prune!Publish \/ UNCHANGED purgeVars
  PROVE  PurgeInv' /\ UNCHANGED meetings
<1> USE DEF PurgeInv, PlanSpares, Prune!Idle, Prune!Ends, Prune!database, Prune!disk
<1>1. CASE Prune!DryRun \/ Prune!Dies \/ Prune!RemoveDrops
  BY <1>1 DEF Prune!DryRun, Prune!Dies, Prune!RemoveDrops
<1>2. CASE Prune!RemoveContentDir \/ Prune!RemovePublishedFiles
  <2>1. \/ \E to \in {"published", "drops"} : prune' = [prune EXCEPT !.at = to]
        \/ prune' = prune /\ prune.at = "content"
        \/ prune' = Prune!Idle
    BY <1>2, Zenon DEF Prune!RemoveContentDir, Prune!RemovePublishedFiles
  <2>2. UNCHANGED <<meetings, link, said, shot, screens>>
    BY <1>2 DEF Prune!RemoveContentDir, Prune!RemovePublishedFiles
  <2>3. QED
    BY <2>1, <2>2
<1>3. CASE Prune!Align
  BY <1>3 DEF Prune!Align
<1>4. CASE Prune!Capture
  BY <1>4 DEF Prune!Capture
<1>5. CASE Prune!Publish \/ UNCHANGED purgeVars
  BY <1>5 DEF Prune!Publish, purgeVars
<1>6. QED
  BY <1>1, <1>2, <1>3, <1>4, <1>5

LEMMA PurgeNextInv ==
  ASSUME PurgeInv, Prune!Next \/ UNCHANGED purgeVars
  PROVE  PurgeInv' /\ Prune!OthersKept
<1>1. ASSUME NEW keep, NEW asked, Prune!ResolveScope(keep, asked) PROVE PurgeInv' /\ Prune!OthersKept
  BY <1>1, PurgePlans DEF Prune!OthersKept, Prune!ResolveScope, Prune!database
<1>2. UNCHANGED meetings => Prune!OthersKept
  BY DEF Prune!OthersKept
<1>3. QED
  BY <1>1, <1>2, PurgeExecutes, PurgeOtherSteps DEF Prune!Next

\* Whatever the worker and the api write between the plan and its transaction, and
\* wherever a purge dies, what was linked to, named in or shown by a meeting that
\* is kept is there after it (plan_purge, execute_purge).
THEOREM PurgesTakeOnlyTheirOwn == Spec => PurgeTakesOnlyItsOwn
<1> DEFINE Inv == scene = "purge" => PurgeInv
<1>1. Init => Inv
  BY PurgeInitInv DEF Init
<1>2. Inv /\ [Next]_all => Inv' /\ (scene = "purge" => Prune!OthersKept)
  <2> SUFFICES ASSUME Inv, [Next]_all, scene = "purge" PROVE PurgeInv' /\ Prune!OthersKept
    BY DEF Next, all
  <2>1. Prune!Next \/ UNCHANGED purgeVars
    BY DEF Next, all
  <2>2. QED
    BY <2>1, PurgeNextInv
<1>3. QED
  BY <1>1, <1>2, PTL DEF Spec, PurgeTakesOnlyItsOwn

-----------------------------------------------------------------------------
(* Natural numbers, and how far a count of them goes.                       *)

LEMMA LeastStands == ASSUME NEW T \in SUBSET Nat, T # {} PROVE \E x \in T : \A y \in T : x <= y
<1> DEFINE R == OpToRel(<, Nat)
<1>1. IsWellFoundedOn(R, Nat)
  BY NatLessThanWellFounded
<1>2. \A x, y \in Nat : y < x => <<y, x>> \in R
  BY DEF OpToRel
<1> HIDE DEF R
<1>3. PICK x \in T : \A y \in T : ~ (<<y, x>> \in R)
  BY <1>1, WFMin
<1>4. ASSUME NEW y \in T PROVE x <= y
  <2>1. ~ (<<y, x>> \in R)
    BY <1>3
  <2>2. ~ (y < x)
    BY <2>1, <1>2, Zenon
  <2>3. QED
    BY <2>2
<1>5. QED
  BY <1>4
LEMMA Counting == ASSUME NEW S \in SUBSET Nat, 0 \in S, \A n \in S : n + 1 \in S PROVE S = Nat
<1> SUFFICES ASSUME Nat \ S # {} PROVE FALSE
  OBVIOUS
<1>1. PICK x \in Nat \ S : \A y \in Nat \ S : x <= y
  BY LeastStands
<1>2. x # 0 /\ x - 1 \in Nat
  BY <1>1
<1>3. x - 1 \in S
  BY <1>1, <1>2
<1>4. QED
  BY <1>1, <1>2, <1>3


-----------------------------------------------------------------------------
(* A set in an order: where each of its elements stands.                    *)

LEMMA TopicCounts == \A S : Subjects!Cardinality(S) = Cardinality(S)
  BY DEF Subjects!Cardinality, Cardinality

Orders(R, S) ==
  /\ \A x \in S : <<x, x>> \notin R
  /\ \A x, y, z \in S : <<x, y>> \in R /\ <<y, z>> \in R => <<x, z>> \in R
  /\ \A x, y \in S : x = y \/ <<x, y>> \in R \/ <<y, x>> \in R
BeforeIn(S, R, x) == {y \in S : <<y, x>> \in R}
RankIn(S, R, x) == Cardinality(BeforeIn(S, R, x))

LEMMA RanksStand ==
  ASSUME NEW S, NEW R, IsFiniteSet(S), Orders(R, S)
  PROVE  /\ Cardinality(S) \in Nat
         /\ \A x \in S : RankIn(S, R, x) \in 0 .. (Cardinality(S) - 1)
         /\ \A x, y \in S : <<x, y>> \in R => RankIn(S, R, x) < RankIn(S, R, y)
         /\ \A n \in 0 .. (Cardinality(S) - 1) : \E x \in S : RankIn(S, R, x) = n
<1>1. Cardinality(S) \in Nat
  BY FS_CardinalityType
<1>2. ASSUME NEW x \in S
      PROVE  /\ IsFiniteSet(BeforeIn(S, R, x)) /\ RankIn(S, R, x) \in Nat
             /\ RankIn(S, R, x) < Cardinality(S)
  <2>1. BeforeIn(S, R, x) \in SUBSET S /\ BeforeIn(S, R, x) # S
    BY DEF BeforeIn, Orders
  <2>2. /\ IsFiniteSet(BeforeIn(S, R, x)) /\ Cardinality(BeforeIn(S, R, x)) <= Cardinality(S)
        /\ Cardinality(BeforeIn(S, R, x)) # Cardinality(S)
    BY <2>1, FS_Subset
  <2>3. Cardinality(BeforeIn(S, R, x)) \in Nat
    BY <2>2, FS_CardinalityType
  <2>4. QED
    BY <1>1, <2>2, <2>3 DEF RankIn
<1>3. ASSUME NEW x \in S, NEW y \in S, <<x, y>> \in R PROVE RankIn(S, R, x) < RankIn(S, R, y)
  <2>1. BeforeIn(S, R, x) \in SUBSET BeforeIn(S, R, y)
    BY <1>3 DEF BeforeIn, Orders
  <2>2. x \in BeforeIn(S, R, y) /\ x \notin BeforeIn(S, R, x)
    BY <1>3 DEF BeforeIn, Orders
  <2>3. /\ Cardinality(BeforeIn(S, R, x)) <= Cardinality(BeforeIn(S, R, y))
        /\ Cardinality(BeforeIn(S, R, x)) # Cardinality(BeforeIn(S, R, y))
    BY <1>2, <2>1, <2>2, FS_Subset
  <2>4. QED
    BY <1>2, <2>3 DEF RankIn
<1> DEFINE N == Cardinality(S)
           f == [x \in S |-> RankIn(S, R, x)]
<1>4. f \in [S -> 0 .. (N - 1)] /\ \A x \in S : f[x] = RankIn(S, R, x)
  BY <1>1, <1>2
<1> HIDE DEF f
<1>5. ASSUME NEW x \in S, NEW y \in S, f[x] = f[y] PROVE x = y
  <2>1. ~ (<<x, y>> \in R) /\ ~ (<<y, x>> \in R)
    BY <1>2, <1>3, <1>4, <1>5
  <2>2. QED
    BY <2>1 DEF Orders
<1>6. f \in Injection(S, 0 .. (N - 1))
  BY <1>4, <1>5 DEF Injection, IsInjective
<1>7. IsFiniteSet(0 .. (N - 1)) /\ Cardinality(0 .. (N - 1)) = N
  BY <1>1, FS_Interval
<1>8. f \in Surjection(S, 0 .. (N - 1))
  BY <1>6, <1>7, FS_Injection
<1>9. \A n \in 0 .. (N - 1) : \E x \in S : RankIn(S, R, x) = n
  BY <1>4, <1>8 DEF Surjection
<1>10. QED
  BY <1>1, <1>2, <1>3, <1>9

LEMMA RankedIs ==
  ASSUME NEW S, NEW R, IsFiniteSet(S), Orders(R, S)
  PROVE  /\ DOMAIN Subjects!Ranked(S, R) = 1 .. Cardinality(S) /\ Cardinality(S) \in Nat
         /\ Subjects!Ranked(S, R) \in Seq(S) /\ Len(Subjects!Ranked(S, R)) = Cardinality(S)
         /\ \A x \in S : \E i \in 1 .. Cardinality(S) : Subjects!Ranked(S, R)[i] = x
         /\ \A i, j \in 1 .. Cardinality(S) : i < j => <<Subjects!Ranked(S, R)[i], Subjects!Ranked(S, R)[j]>> \in R
<1> DEFINE N == Cardinality(S)
           r == Subjects!Ranked(S, R)
<1>1. /\ N \in Nat
      /\ \A x \in S : RankIn(S, R, x) \in 0 .. (N - 1)
      /\ \A x, y \in S : <<x, y>> \in R => RankIn(S, R, x) < RankIn(S, R, y)
      /\ \A n \in 0 .. (N - 1) : \E x \in S : RankIn(S, R, x) = n
  BY RanksStand
<1>2. /\ DOMAIN r = 1 .. N /\ r = [n \in 1 .. N |-> r[n]]
      /\ \A n \in 1 .. N : r[n] = CHOOSE x \in S : RankIn(S, R, x) = n - 1
  <2>1. r = [n \in 1 .. N |-> CHOOSE x \in S : Subjects!Cardinality(BeforeIn(S, R, x)) = n - 1]
    BY TopicCounts DEF Subjects!Ranked, BeforeIn
  <2>2. \A x : Subjects!Cardinality(BeforeIn(S, R, x)) = RankIn(S, R, x)
    BY TopicCounts DEF RankIn
  <2>3. ASSUME NEW n \in 1 .. N PROVE r[n] = CHOOSE x \in S : RankIn(S, R, x) = n - 1
    BY <2>1, <2>2
  <2>4. QED
    BY <2>1, <2>3
<1> HIDE DEF r
<1>3. ASSUME NEW n \in 1 .. N PROVE r[n] \in S /\ RankIn(S, R, r[n]) = n - 1
  <2>1. \E x \in S : RankIn(S, R, x) = n - 1
    BY <1>1
  <2>2. QED
    BY <1>2, <2>1
<1>4. ASSUME NEW x \in S, NEW y \in S, RankIn(S, R, x) < RankIn(S, R, y) PROVE <<x, y>> \in R
  <2>1. RankIn(S, R, x) \in Nat /\ RankIn(S, R, y) \in Nat
    BY <1>1
  <2>2. x # y /\ ~ (RankIn(S, R, y) < RankIn(S, R, x))
    BY <1>4, <2>1
  <2>3. QED
    BY <1>1, <2>2 DEF Orders
<1>5. ASSUME NEW x \in S PROVE \E i \in 1 .. N : r[i] = x
  <2> DEFINE i == RankIn(S, R, x) + 1
  <2>1. i \in 1 .. N /\ i - 1 = RankIn(S, R, x)
    BY <1>1
  <2> HIDE DEF i
  <2>2. r[i] \in S /\ RankIn(S, R, r[i]) = RankIn(S, R, x)
    BY <1>3, <2>1
  <2>3. ~ (<<r[i], x>> \in R) /\ ~ (<<x, r[i]>> \in R)
    BY <1>1, <2>2
  <2>4. QED
    BY <2>1, <2>2, <2>3 DEF Orders
<1>6. ASSUME NEW i \in 1 .. N, NEW j \in 1 .. N, i < j PROVE <<r[i], r[j]>> \in R
  <2>1. RankIn(S, R, r[i]) < RankIn(S, R, r[j])
    BY <1>1, <1>3, <1>6
  <2>2. QED
    BY <1>3, <1>4, <2>1
<1>7. DOMAIN r = 1 .. N /\ r \in Seq(S) /\ Len(r) = N
  BY <1>1, <1>2, <1>3
<1>8. QED
  BY <1>1, <1>5, <1>6, <1>7 DEF r


-----------------------------------------------------------------------------
(* The parts of the topics: what near topics generate.                      *)

SubjectTypes ==
  /\ minted \in Nat /\ DOMAIN topic \in SUBSET (1 .. minted)
  /\ \A t \in DOMAIN topic : topic[t].name \in TopicNames

Near(a, b) == Subjects!SameName(a, b) \/ Subjects!Close(a, b)
Shut(S) == \A a \in S, b \in Subjects!Topics : Near(a, b) => b \in S
\* Whatever holds one of the part and all that is near it holds the part.
Whole(P) == \A S \in SUBSET Subjects!Topics : Shut(S) /\ S \intersect P # {} => P \in SUBSET S
Partition(parts) ==
  /\ \A P \in parts : P \in SUBSET Subjects!Topics /\ P # {}
  /\ \A t \in Subjects!Topics : \E P \in parts : t \in P
  /\ \A P, Q \in parts : P \intersect Q # {} => P = Q
Together(parts, a, b) == \E P \in parts : a \in P /\ b \in P

LEMMA TopicsAreFinite == ASSUME SubjectTypes PROVE IsFiniteSet(Subjects!Topics) /\ Subjects!Topics \in SUBSET Nat
<1>1. IsFiniteSet(1 .. minted) /\ 1 .. minted \in SUBSET Nat
  BY FS_Interval DEF SubjectTypes
<1>2. QED
  BY <1>1, FS_Subset DEF SubjectTypes, Subjects!Topics

LEMMA NearBothWays ==
  ASSUME SubjectTypes, NEW a \in Subjects!Topics, NEW b \in Subjects!Topics, Near(a, b) PROVE Near(b, a)
<1>1. topic[a].name \in TopicNames /\ topic[b].name \in TopicNames
  BY DEF SubjectTypes, Subjects!Topics
<1>2. Score[<<topic[a].name, topic[b].name>>] = Score[<<topic[b].name, topic[a].name>>]
  BY <1>1, SubjectsCompared DEF Subjects!Comparable
<1>3. QED
  BY <1>2 DEF Near, Subjects!SameName, Subjects!Close

LEMMA UnionIs ==
  ASSUME NEW parts, Partition(parts), NEW a \in Subjects!Topics, NEW b \in Subjects!Topics
  PROVE  \E P, Q \in parts :
           /\ a \in P /\ b \in Q
           /\ Subjects!Union(parts, <<a, b>>) = (parts \ {P, Q}) \union {P \union Q}
<1>1. PICK P \in parts : a \in P
  BY DEF Partition
<1>2. PICK Q \in parts : b \in Q
  BY DEF Partition
<1>3. {R \in parts : a \in R \/ b \in R} = {P, Q}
  <2>1. \A R \in parts : a \in R => R = P
    BY <1>1 DEF Partition
  <2>2. \A R \in parts : b \in R => R = Q
    BY <1>2 DEF Partition
  <2>3. QED
    BY <1>1, <1>2, <2>1, <2>2
<1>4. Subjects!Union(parts, <<a, b>>) = (parts \ {P, Q}) \union {UNION {P, Q}}
  BY <1>3 DEF Subjects!Union
<1>5. UNION {P, Q} = P \union Q
  OBVIOUS
<1>6. QED
  BY <1>1, <1>2, <1>4, <1>5

LEMMA UnionKeeps ==
  ASSUME SubjectTypes, NEW parts, Partition(parts), \A P \in parts : Whole(P),
         NEW a \in Subjects!Topics, NEW b \in Subjects!Topics, Near(a, b)
  PROVE  LET joined == Subjects!Union(parts, <<a, b>>)
         IN /\ Partition(joined) /\ \A P \in joined : Whole(P)
            /\ Together(joined, a, b)
            /\ \A x, y : Together(parts, x, y) => Together(joined, x, y)
<1> DEFINE joined == Subjects!Union(parts, <<a, b>>)
<1>1. PICK P \in parts, Q \in parts :
        a \in P /\ b \in Q /\ joined = (parts \ {P, Q}) \union {P \union Q}
  BY UnionIs
<1> HIDE DEF joined
<1>2. Near(b, a)
  BY NearBothWays
<1>3. Partition(joined)
  <2>1. \A R \in joined : R \in SUBSET Subjects!Topics /\ R # {}
    BY <1>1 DEF Partition
  <2>2. ASSUME NEW t \in Subjects!Topics PROVE \E R \in joined : t \in R
    <3>1. PICK R \in parts : t \in R
      BY DEF Partition
    <3>2. CASE R \in {P, Q}
      BY <1>1, <3>1, <3>2
    <3>3. CASE R \notin {P, Q}
      BY <1>1, <3>1, <3>3
    <3>4. QED
      BY <3>2, <3>3
  <2>3. ASSUME NEW R \in joined, NEW T \in joined, R \intersect T # {} PROVE R = T
    <3>1. PICK x : x \in R /\ x \in T
      BY <2>3
    <3>2. \A U, V \in parts : x \in U /\ x \in V => U = V
      BY DEF Partition
    <3>3. QED
      BY <1>1, <3>1, <3>2
  <2>4. QED
    BY <2>1, <2>2, <2>3 DEF Partition
<1>4. Whole(P \union Q)
  <2> SUFFICES ASSUME NEW S \in SUBSET Subjects!Topics, Shut(S), S \intersect (P \union Q) # {}
               PROVE  P \union Q \in SUBSET S
    BY DEF Whole
  <2>1. Whole(P) /\ Whole(Q)
    BY <1>1
  <2>2. CASE S \intersect P # {}
    <3>1. P \in SUBSET S
      BY <2>1, <2>2 DEF Whole
    <3>2. b \in S
      BY <1>1, <3>1 DEF Shut
    <3>3. Q \in SUBSET S
      BY <1>1, <2>1, <3>2 DEF Whole
    <3>4. QED
      BY <3>1, <3>3
  <2>3. CASE S \intersect Q # {}
    <3>1. Q \in SUBSET S
      BY <2>1, <2>3 DEF Whole
    <3>2. a \in S
      BY <1>1, <1>2, <3>1 DEF Shut
    <3>3. P \in SUBSET S
      BY <1>1, <2>1, <3>2 DEF Whole
    <3>4. QED
      BY <3>1, <3>3
  <2>4. QED
    BY <2>2, <2>3
<1>5. \A R \in joined : Whole(R)
  BY <1>1, <1>4
<1>6. Together(joined, a, b)
  BY <1>1 DEF Together
<1>7. ASSUME NEW x, NEW y, Together(parts, x, y) PROVE Together(joined, x, y)
  <2>1. PICK R \in parts : x \in R /\ y \in R
    BY <1>7 DEF Together
  <2>2. CASE R \in {P, Q}
    BY <1>1, <2>1, <2>2 DEF Together
  <2>3. CASE R \notin {P, Q}
    BY <1>1, <2>1, <2>3 DEF Together
  <2>4. QED
    BY <2>2, <2>3
<1>8. QED
  BY <1>3, <1>5, <1>6, <1>7 DEF joined

\* Pairs of ids have an order, whichever it is.
LEMMA PairsListed ==
  ASSUME SubjectTypes,
         NEW pairs, pairs = Subjects!Ranked(Subjects!Pairs, {q \in Subjects!Pairs \X Subjects!Pairs :
                               q[1][1] < q[2][1] \/ (q[1][1] = q[2][1] /\ q[1][2] < q[2][2])})
  PROVE  /\ Len(pairs) \in Nat /\ \A i \in 1 .. Len(pairs) : pairs[i] \in Subjects!Pairs
         /\ \A p \in Subjects!Pairs : \E i \in 1 .. Len(pairs) : pairs[i] = p
<1> DEFINE S == Subjects!Pairs
           R == {q \in S \X S : q[1][1] < q[2][1] \/ (q[1][1] = q[2][1] /\ q[1][2] < q[2][2])}
<1>1. S \in SUBSET (Subjects!Topics \X Subjects!Topics)
  BY DEF Subjects!Pairs
<1>2. IsFiniteSet(S)
  BY <1>1, TopicsAreFinite, FS_Product, FS_Subset
<1>3. \A p \in S : p[1] \in Nat /\ p[2] \in Nat /\ p = <<p[1], p[2]>>
  BY <1>1, TopicsAreFinite
<1> HIDE DEF S
<1>4. \A p, q \in S : <<p, q>> \in R <=> p[1] < q[1] \/ (p[1] = q[1] /\ p[2] < q[2])
  OBVIOUS
<1>5. pairs = Subjects!Ranked(S, R)
  BY DEF S
<1> HIDE DEF R
<1>6. Orders(R, S)
  <2>1. \A p \in S : <<p, p>> \notin R
    BY <1>3, <1>4
  <2>2. ASSUME NEW p \in S, NEW q \in S, NEW r \in S, <<p, q>> \in R, <<q, r>> \in R PROVE <<p, r>> \in R
    <3>1. p[1] < q[1] \/ (p[1] = q[1] /\ p[2] < q[2])
      BY <1>4, <2>2
    <3>2. q[1] < r[1] \/ (q[1] = r[1] /\ q[2] < r[2])
      BY <1>4, <2>2
    <3>3. p[1] \in Nat /\ q[1] \in Nat /\ r[1] \in Nat /\ p[2] \in Nat /\ q[2] \in Nat /\ r[2] \in Nat
      BY <1>3
    <3>4. p[1] < r[1] \/ (p[1] = r[1] /\ p[2] < r[2])
      BY <3>1, <3>2, <3>3
    <3>5. QED
      BY <1>4, <3>4
  <2>3. ASSUME NEW p \in S, NEW q \in S PROVE p = q \/ <<p, q>> \in R \/ <<q, p>> \in R
    <3>1. p[1] \in Nat /\ q[1] \in Nat /\ p[2] \in Nat /\ q[2] \in Nat /\ p = <<p[1], p[2]>> /\ q = <<q[1], q[2]>>
      BY <1>3
    <3>2. \/ p[1] = q[1] /\ p[2] = q[2]
          \/ p[1] < q[1] \/ (p[1] = q[1] /\ p[2] < q[2])
          \/ q[1] < p[1] \/ (q[1] = p[1] /\ q[2] < p[2])
      BY <3>1
    <3>3. QED
      BY <1>4, <3>1, <3>2
  <2>4. QED
    BY <2>1, <2>2, <2>3 DEF Orders
<1>7. /\ Cardinality(S) \in Nat /\ Subjects!Ranked(S, R) \in Seq(S) /\ Len(Subjects!Ranked(S, R)) = Cardinality(S)
      /\ \A x \in S : \E i \in 1 .. Cardinality(S) : Subjects!Ranked(S, R)[i] = x
  BY <1>2, <1>6, RankedIs
<1>8. QED
  <2>1. Len(pairs) \in Nat /\ Len(pairs) = Cardinality(S)
    BY <1>5, <1>7
  <2>2. \A x \in S : \E i \in 1 .. Len(pairs) : pairs[i] = x
    BY <1>5, <1>7
  <2>3. \A i \in 1 .. Len(pairs) : pairs[i] \in S
    BY <1>5, <1>7
  <2>4. QED
    BY <2>1, <2>2, <2>3 DEF S

\* A walk of the unions exists, from any start: what LET's recursion chooses.
MergedAlong(parts, pairs, N, f) ==
  f = [n \in 0 .. N |-> IF n = 0 THEN parts ELSE Subjects!Union(f[n - 1], pairs[n])]

LEMMA MergedExists ==
  ASSUME NEW parts, NEW pairs, NEW N \in Nat PROVE \E f : MergedAlong(parts, pairs, N, f)
<1> DEFINE S == {n \in Nat : \E f : MergedAlong(parts, pairs, n, f)}
<1>1. 0 \in S
  <2> DEFINE f == [n \in 0 .. 0 |-> parts]
  <2>1. f = [n \in 0 .. 0 |-> IF n = 0 THEN parts ELSE Subjects!Union(f[n - 1], pairs[n])]
    OBVIOUS
  <2>2. QED
    BY <2>1 DEF MergedAlong
<1>2. ASSUME NEW n \in S PROVE n + 1 \in S
  <2>1. PICK f : MergedAlong(parts, pairs, n, f)
    OBVIOUS
  <2> DEFINE g == [m \in 0 .. (n + 1) |-> IF m = n + 1 THEN Subjects!Union(f[n], pairs[n + 1]) ELSE f[m]]
             turn(m) == IF m = 0 THEN parts ELSE Subjects!Union(g[m - 1], pairs[m])
  <2>2. n \in Nat
    OBVIOUS
  <2>3. ASSUME NEW m \in 0 .. (n + 1) PROVE g[m] = turn(m)
    <3>1. CASE m = n + 1
      <4>1. m # 0 /\ m - 1 = n /\ n \in 0 .. (n + 1) /\ n # n + 1
        BY <2>2, <3>1
      <4>2. g[m] = Subjects!Union(f[n], pairs[m]) /\ g[m - 1] = f[n]
        BY <3>1, <4>1
      <4>3. QED
        BY <4>1, <4>2
    <3>2. CASE m = 0
      <4>1. m # n + 1 /\ m \in 0 .. n
        BY <2>2, <3>2
      <4>2. g[m] = f[m] /\ f[m] = parts
        BY <2>1, <3>2, <4>1 DEF MergedAlong
      <4>3. QED
        BY <3>2, <4>2
    <3>3. CASE m # n + 1 /\ m # 0
      <4>1. m \in 0 .. n /\ m - 1 \in 0 .. (n + 1) /\ m - 1 # n + 1
        BY <2>2, <3>3
      <4>2. g[m] = f[m] /\ g[m - 1] = f[m - 1]
        BY <3>3, <4>1
      <4>3. f[m] = Subjects!Union(f[m - 1], pairs[m])
        BY <2>1, <3>3, <4>1 DEF MergedAlong
      <4>4. QED
        BY <3>3, <4>2, <4>3
    <3>4. QED
      BY <3>1, <3>2, <3>3
  <2>4. g = [m \in 0 .. (n + 1) |-> g[m]]
    OBVIOUS
  <2>5. g = [m \in 0 .. (n + 1) |-> turn(m)]
    <3> HIDE DEF g, turn
    <3>1. QED
      BY <2>3, <2>4
  <2>6. MergedAlong(parts, pairs, n + 1, g)
    BY <2>5 DEF MergedAlong
  <2>7. QED
    BY <2>6
<1> HIDE DEF S
<1>3. S = Nat
  <2>1. S \in SUBSET Nat
    BY DEF S
  <2>2. QED
    BY <1>1, <1>2, <2>1, Counting
<1>4. QED
  BY <1>3 DEF S

LEMMA ClustersStand ==
  ASSUME SubjectTypes
  PROVE  /\ Partition(Subjects!Clusters) /\ \A P \in Subjects!Clusters : Whole(P)
         /\ \A P \in Subjects!Clusters : Shut(P)
<1> DEFINE pairs == Subjects!Ranked(Subjects!Pairs, {q \in Subjects!Pairs \X Subjects!Pairs :
                       q[1][1] < q[2][1] \/ (q[1][1] = q[2][1] /\ q[1][2] < q[2][2])})
           N == Len(pairs)
           single == {{t} : t \in Subjects!Topics}
           merged == CHOOSE f : f = [n \in 0 .. N |-> IF n = 0 THEN single ELSE Subjects!Union(f[n - 1], pairs[n])]
<1>1. Subjects!Clusters = merged[N]
  BY DEF Subjects!Clusters
<1>2. /\ N \in Nat /\ \A i \in 1 .. N : pairs[i] \in Subjects!Pairs
      /\ \A p \in Subjects!Pairs : \E i \in 1 .. N : pairs[i] = p
  BY PairsListed
<1> HIDE DEF pairs, N
<1>3. merged = [n \in 0 .. N |-> IF n = 0 THEN single ELSE Subjects!Union(merged[n - 1], pairs[n])]
  <2> HIDE DEF single
  <2>1. PICK f : MergedAlong(single, pairs, N, f)
    BY <1>2, MergedExists
  <2>2. f = [n \in 0 .. N |-> IF n = 0 THEN single ELSE Subjects!Union(f[n - 1], pairs[n])]
    BY <2>1 DEF MergedAlong
  <2>3. QED
    BY <2>2
<1> HIDE DEF merged
<1>4. Partition(single) /\ \A P \in single : Whole(P)
  BY DEF Partition, Whole
<1> HIDE DEF single
<1> DEFINE Good(n) == /\ Partition(merged[n]) /\ \A P \in merged[n] : Whole(P)
                      /\ \A i \in 1 .. n : Together(merged[n], pairs[i][1], pairs[i][2])
           S == {n \in Nat : n \in 0 .. N => Good(n)}
<1>5. 0 \in S
  <2>1. merged[0] = single
    BY <1>2, <1>3
  <2>2. QED
    BY <1>4, <2>1
<1>6. ASSUME NEW n \in S PROVE n + 1 \in S
  <2>1. SUFFICES ASSUME n + 1 \in 0 .. N PROVE Good(n + 1)
    OBVIOUS
  <2>2. n \in Nat /\ n \in 0 .. N /\ n + 1 \in 1 .. N /\ (n + 1) - 1 = n /\ n + 1 # 0
    BY <1>2, <2>1
  <2>3. Good(n)
    BY <2>2
  <2> DEFINE a == pairs[n + 1][1]
             b == pairs[n + 1][2]
  <2>4. a \in Subjects!Topics /\ b \in Subjects!Topics /\ Near(a, b) /\ pairs[n + 1] = <<a, b>>
    <3>1. pairs[n + 1] \in Subjects!Pairs
      BY <1>2, <2>2
    <3>2. QED
      BY <3>1 DEF Subjects!Pairs, Near
  <2>5. merged[n + 1] = Subjects!Union(merged[n], <<a, b>>)
    <3>1. merged[n + 1] = Subjects!Union(merged[n], pairs[n + 1])
      BY <1>3, <2>1, <2>2
    <3>2. QED
      BY <2>4, <3>1
  <2> HIDE DEF a, b
  <2>6. /\ Partition(merged[n + 1]) /\ \A P \in merged[n + 1] : Whole(P)
        /\ Together(merged[n + 1], a, b)
        /\ \A x, y : Together(merged[n], x, y) => Together(merged[n + 1], x, y)
    BY <2>3, <2>4, <2>5, UnionKeeps
  <2>7. ASSUME NEW i \in 1 .. (n + 1) PROVE Together(merged[n + 1], pairs[i][1], pairs[i][2])
    <3>1. i = n + 1 \/ i \in 1 .. n
      BY <2>2
    <3>2. CASE i = n + 1
      BY <2>6, <3>2 DEF a, b
    <3>3. CASE i \in 1 .. n
      BY <2>3, <2>6, <3>3
    <3>4. QED
      BY <3>1, <3>2, <3>3
  <2>8. QED
    BY <2>6, <2>7
<1> HIDE DEF Good, S
<1>7. S = Nat
  <2>1. S \in SUBSET Nat
    BY DEF S
  <2>2. QED
    BY <1>5, <1>6, <2>1, Counting
<1>8. Good(N)
  BY <1>2, <1>7 DEF S
<1>9. ASSUME NEW P \in merged[N] PROVE Shut(P)
  <2> SUFFICES ASSUME NEW a \in P, NEW b \in Subjects!Topics, Near(a, b) PROVE b \in P
    BY DEF Shut
  <2>1. a \in Subjects!Topics /\ Near(b, a)
    BY <1>8, NearBothWays DEF Good, Partition
  <2>2. a \in Nat /\ b \in Nat /\ (a = b \/ a < b \/ b < a)
    BY <2>1, TopicsAreFinite
  <2>3. CASE a = b
    BY <2>3
  <2>4. ASSUME Together(merged[N], a, b) PROVE b \in P
    <3>1. PICK Q \in merged[N] : a \in Q /\ b \in Q
      BY <2>4 DEF Together
    <3>2. P = Q
      BY <1>8, <3>1 DEF Good, Partition
    <3>3. QED
      BY <3>1, <3>2
  <2>5. CASE a < b
    <3>1. <<a, b>> \in Subjects!Pairs
      BY <2>1, <2>5 DEF Subjects!Pairs, Near
    <3>2. PICK i \in 1 .. N : pairs[i] = <<a, b>>
      BY <1>2, <3>1
    <3>3. Together(merged[N], pairs[i][1], pairs[i][2])
      BY <1>8 DEF Good
    <3>4. QED
      BY <2>4, <3>2, <3>3
  <2>6. CASE b < a
    <3>1. <<b, a>> \in Subjects!Pairs
      BY <2>1, <2>6 DEF Subjects!Pairs, Near
    <3>2. PICK i \in 1 .. N : pairs[i] = <<b, a>>
      BY <1>2, <3>1
    <3>3. Together(merged[N], pairs[i][1], pairs[i][2])
      BY <1>8 DEF Good
    <3>4. Together(merged[N], a, b)
      BY <3>2, <3>3 DEF Together
    <3>5. QED
      BY <2>4, <3>4
  <2>7. QED
    BY <2>2, <2>3, <2>5, <2>6
<1>10. QED
  BY <1>1, <1>8, <1>9 DEF Good

-----------------------------------------------------------------------------
(* What a chain joins is a part.                                            *)

Neighbours(S) == {u \in Subjects!Topics : \E v \in S : Subjects!SameName(u, v) \/ Subjects!Close(u, v)}
ReachAlong(t, N, f) == f = [k \in 0 .. N |-> IF k = 0 THEN {t} ELSE f[k - 1] \union Neighbours(f[k - 1])]

LEMMA ReachExists ==
  ASSUME NEW t, NEW N \in Nat PROVE \E f : ReachAlong(t, N, f)
<1> DEFINE S == {n \in Nat : \E f : ReachAlong(t, n, f)}
<1>1. 0 \in S
  <2> DEFINE f == [n \in 0 .. 0 |-> {t}]
  <2>1. f = [n \in 0 .. 0 |-> IF n = 0 THEN {t} ELSE f[n - 1] \union Neighbours(f[n - 1])]
    OBVIOUS
  <2>2. QED
    BY <2>1 DEF ReachAlong
<1>2. ASSUME NEW n \in S PROVE n + 1 \in S
  <2>1. PICK f : ReachAlong(t, n, f)
    OBVIOUS
  <2> DEFINE g == [m \in 0 .. (n + 1) |-> IF m = n + 1 THEN f[n] \union Neighbours(f[n]) ELSE f[m]]
             turn(m) == IF m = 0 THEN {t} ELSE g[m - 1] \union Neighbours(g[m - 1])
  <2>2. n \in Nat
    OBVIOUS
  <2>3. ASSUME NEW m \in 0 .. (n + 1) PROVE g[m] = turn(m)
    <3>1. CASE m = n + 1
      <4>1. m # 0 /\ m - 1 = n /\ n \in 0 .. (n + 1) /\ n # n + 1
        BY <2>2, <3>1
      <4>2. g[m] = f[n] \union Neighbours(f[n]) /\ g[m - 1] = f[n]
        BY <3>1, <4>1
      <4>3. QED
        BY <4>1, <4>2
    <3>2. CASE m = 0
      <4>1. m # n + 1 /\ m \in 0 .. n
        BY <2>2, <3>2
      <4>2. g[m] = f[m] /\ f[m] = {t}
        BY <2>1, <3>2, <4>1 DEF ReachAlong
      <4>3. QED
        BY <3>2, <4>2
    <3>3. CASE m # n + 1 /\ m # 0
      <4>1. m \in 0 .. n /\ m - 1 \in 0 .. (n + 1) /\ m - 1 # n + 1
        BY <2>2, <3>3
      <4>2. g[m] = f[m] /\ g[m - 1] = f[m - 1]
        BY <3>3, <4>1
      <4>3. f[m] = f[m - 1] \union Neighbours(f[m - 1])
        BY <2>1, <3>3, <4>1 DEF ReachAlong
      <4>4. QED
        BY <3>3, <4>2, <4>3
    <3>4. QED
      BY <3>1, <3>2, <3>3
  <2>4. g = [m \in 0 .. (n + 1) |-> g[m]]
    OBVIOUS
  <2>5. g = [m \in 0 .. (n + 1) |-> turn(m)]
    <3> HIDE DEF g, turn
    <3>1. QED
      BY <2>3, <2>4
  <2>6. ReachAlong(t, n + 1, g)
    BY <2>5 DEF ReachAlong
  <2>7. QED
    BY <2>6
<1> HIDE DEF S
<1>3. S = Nat
  <2>1. S \in SUBSET Nat
    BY DEF S
  <2>2. QED
    BY <1>1, <1>2, <2>1, Counting
<1>4. QED
  BY <1>3 DEF S

\* What so many steps do not exhaust grows by each of them.
LEMMA ReachGrows ==
  ASSUME SubjectTypes, NEW N \in Nat, NEW t \in Subjects!Topics, NEW reach, ReachAlong(t, N, reach)
  PROVE  \A k \in 0 .. N :
           /\ reach[k] \in SUBSET Subjects!Topics /\ t \in reach[k]
           /\ Shut(reach[k]) \/ Cardinality(reach[k]) >= k + 1
           /\ \A P \in SUBSET Subjects!Topics : t \in P /\ Shut(P) => reach[k] \in SUBSET P
<1> DEFINE Good(k) == /\ reach[k] \in SUBSET Subjects!Topics /\ t \in reach[k]
                      /\ Shut(reach[k]) \/ Cardinality(reach[k]) >= k + 1
                      /\ \A P \in SUBSET Subjects!Topics : t \in P /\ Shut(P) => reach[k] \in SUBSET P
           S == {k \in Nat : k \in 0 .. N => Good(k)}
<1>1. 0 \in S
  <2>1. reach[0] = {t}
    BY DEF ReachAlong
  <2>2. Cardinality({t}) = 1
    BY FS_Singleton
  <2>3. QED
    BY <2>1, <2>2
<1>2. ASSUME NEW k \in S PROVE k + 1 \in S
  <2>1. SUFFICES ASSUME k + 1 \in 0 .. N PROVE Good(k + 1)
    OBVIOUS
  <2>2. k \in Nat /\ k \in 0 .. N /\ (k + 1) - 1 = k /\ k + 1 # 0
    BY <2>1
  <2>3. Good(k)
    BY <2>2
  <2>4. reach[k + 1] = reach[k] \union Neighbours(reach[k])
    BY <2>1, <2>2 DEF ReachAlong
  <2>5. \A u \in Neighbours(reach[k]) : u \in Subjects!Topics /\ \E v \in reach[k] : Near(v, u)
    <3> SUFFICES ASSUME NEW u \in Neighbours(reach[k]) PROVE u \in Subjects!Topics /\ \E v \in reach[k] : Near(v, u)
      OBVIOUS
    <3>1. PICK v \in reach[k] : Near(u, v)
      BY DEF Neighbours, Near
    <3>2. u \in Subjects!Topics /\ v \in Subjects!Topics
      BY <2>3 DEF Neighbours
    <3>3. QED
      BY <3>1, <3>2, NearBothWays
  <2>6. reach[k + 1] \in SUBSET Subjects!Topics /\ t \in reach[k + 1] /\ reach[k] \in SUBSET reach[k + 1]
    BY <2>3, <2>4, <2>5
  <2>7. ASSUME NEW P \in SUBSET Subjects!Topics, t \in P, Shut(P) PROVE reach[k + 1] \in SUBSET P
    <3>1. reach[k] \in SUBSET P
      BY <2>3, <2>7
    <3>2. Neighbours(reach[k]) \in SUBSET P
      BY <2>5, <2>7, <3>1 DEF Shut
    <3>3. QED
      BY <2>4, <3>1, <3>2
  <2>8. Shut(reach[k + 1]) \/ Cardinality(reach[k + 1]) >= (k + 1) + 1
    <3>1. CASE Shut(reach[k])
      <4>1. Neighbours(reach[k]) \in SUBSET reach[k]
        BY <2>5, <3>1 DEF Shut
      <4>2. reach[k + 1] = reach[k]
        BY <2>4, <4>1
      <4>3. QED
        BY <3>1, <4>2
    <3>2. CASE ~ Shut(reach[k])
      <4>1. PICK a \in reach[k], b \in Subjects!Topics : Near(a, b) /\ b \notin reach[k]
        BY <3>2 DEF Shut
      <4>2. Near(b, a)
        BY <2>3, <4>1, NearBothWays
      <4>3. b \in reach[k + 1]
        BY <2>4, <4>1, <4>2 DEF Neighbours, Near
      <4>4. IsFiniteSet(reach[k + 1]) /\ IsFiniteSet(reach[k])
        BY <2>3, <2>6, TopicsAreFinite, FS_Subset
      <4>5. /\ Cardinality(reach[k]) <= Cardinality(reach[k + 1]) /\ Cardinality(reach[k]) # Cardinality(reach[k + 1])
            /\ Cardinality(reach[k]) \in Nat /\ Cardinality(reach[k + 1]) \in Nat
        BY <2>6, <4>1, <4>3, <4>4, FS_Subset, FS_CardinalityType
      <4>6. Cardinality(reach[k]) >= k + 1
        BY <2>3, <3>2
      <4>7. QED
        BY <2>2, <4>5, <4>6
    <3>3. QED
      BY <3>1, <3>2
  <2>9. QED
    BY <2>6, <2>7, <2>8
<1> HIDE DEF Good, S
<1>3. S = Nat
  <2>1. S \in SUBSET Nat
    BY DEF S
  <2>2. QED
    BY <1>1, <1>2, <2>1, Counting
<1>4. QED
  BY <1>3 DEF S, Good

LEMMA JoinedIs ==
  ASSUME SubjectTypes, NEW P \in Subjects!Clusters, NEW t \in P PROVE Subjects!Joined(t) = P
<1> DEFINE N == Cardinality(Subjects!Topics)
           reach == CHOOSE f : f = [k \in 0 .. N |-> IF k = 0 THEN {t} ELSE f[k - 1] \union Neighbours(f[k - 1])]
<1>1. Subjects!Joined(t) = reach[N]
  BY TopicCounts DEF Subjects!Joined, Neighbours
<1>2. /\ P \in SUBSET Subjects!Topics /\ Whole(P) /\ Shut(P) /\ t \in Subjects!Topics
      /\ N \in Nat /\ IsFiniteSet(Subjects!Topics)
  BY ClustersStand, TopicsAreFinite, FS_CardinalityType DEF Partition
<1>3. ReachAlong(t, N, reach)
  <2> HIDE DEF N
  <2>1. PICK f : ReachAlong(t, N, f)
    BY <1>2, ReachExists
  <2>2. f = [k \in 0 .. N |-> IF k = 0 THEN {t} ELSE f[k - 1] \union Neighbours(f[k - 1])]
    BY <2>1 DEF ReachAlong
  <2>3. reach = [k \in 0 .. N |-> IF k = 0 THEN {t} ELSE reach[k - 1] \union Neighbours(reach[k - 1])]
    BY <2>2
  <2>4. QED
    BY <2>3 DEF ReachAlong
<1> HIDE DEF reach
<1>4. /\ reach[N] \in SUBSET Subjects!Topics /\ t \in reach[N]
      /\ Shut(reach[N]) \/ Cardinality(reach[N]) >= N + 1
      /\ reach[N] \in SUBSET P
  <2> HIDE DEF N
  <2>1. N \in 0 .. N
    BY <1>2
  <2>2. QED
    BY <1>2, <1>3, <2>1, ReachGrows
<1>5. ~ (Cardinality(reach[N]) >= N + 1)
  <2>1. IsFiniteSet(reach[N]) /\ Cardinality(reach[N]) <= N /\ Cardinality(reach[N]) \in Nat
    BY <1>2, <1>4, FS_Subset, FS_CardinalityType
  <2> HIDE DEF N
  <2>2. QED
    BY <1>2, <2>1
<1>6. P \in SUBSET reach[N]
  BY <1>2, <1>4, <1>5 DEF Whole
<1>7. QED
  BY <1>1, <1>4, <1>6

\* An embedding link has a close topic of the part behind it.
LEMMA LinkedClose ==
  ASSUME SubjectTypes, NEW P \in Subjects!Clusters, NEW t \in P, Subjects!Linked(t, P) = "embedding-similarity"
  PROVE  \E u \in P \ {t} : Subjects!Close(t, u)
<1>1. P \in SUBSET Subjects!Topics /\ Whole(P) /\ Shut(P)
  BY ClustersStand DEF Partition
<1>2. t # Subjects!Earliest(P) /\ \A u \in P \ {t} : ~ Subjects!SameName(t, u)
  BY DEF Subjects!Linked
<1>3. P # {t}
  <2>1. SUFFICES ASSUME P = {t} PROVE t = Subjects!Earliest(P)
    BY <1>2
  <2>2. \E x \in P : \A u \in P \ {x} : Subjects!Before(x, u)
    BY <2>1
  <2>3. Subjects!Earliest(P) \in P
    BY <2>2 DEF Subjects!Earliest
  <2>4. QED
    BY <2>1, <2>3
<1>4. ~ Shut({t})
  BY <1>1, <1>3 DEF Whole
<1>5. PICK b \in Subjects!Topics : Near(t, b) /\ b # t
  BY <1>4 DEF Shut
<1>6. b \in P
  BY <1>1, <1>5 DEF Shut
<1>7. QED
  BY <1>2, <1>5, <1>6 DEF Near

-----------------------------------------------------------------------------
(* A pass over the parts: where each of them finds its row.                 *)

PassAlong(start, parts, N, f) == f = [n \in 0 .. N |-> IF n = 0 THEN start ELSE Subjects!DeriveOne(f[n - 1], parts[n])]

LEMMA PassExists ==
  ASSUME NEW start, NEW parts, NEW N \in Nat PROVE \E f : PassAlong(start, parts, N, f)
<1> DEFINE S == {n \in Nat : \E f : PassAlong(start, parts, n, f)}
<1>1. 0 \in S
  <2> DEFINE f == [n \in 0 .. 0 |-> start]
  <2>1. f = [n \in 0 .. 0 |-> IF n = 0 THEN start ELSE Subjects!DeriveOne(f[n - 1], parts[n])]
    OBVIOUS
  <2>2. QED
    BY <2>1 DEF PassAlong
<1>2. ASSUME NEW n \in S PROVE n + 1 \in S
  <2>1. PICK f : PassAlong(start, parts, n, f)
    OBVIOUS
  <2> DEFINE g == [m \in 0 .. (n + 1) |-> IF m = n + 1 THEN Subjects!DeriveOne(f[n], parts[n + 1]) ELSE f[m]]
             turn(m) == IF m = 0 THEN start ELSE Subjects!DeriveOne(g[m - 1], parts[m])
  <2>2. n \in Nat
    OBVIOUS
  <2>3. ASSUME NEW m \in 0 .. (n + 1) PROVE g[m] = turn(m)
    <3>1. CASE m = n + 1
      <4>1. m # 0 /\ m - 1 = n /\ n \in 0 .. (n + 1) /\ n # n + 1
        BY <2>2, <3>1
      <4>2. g[m] = Subjects!DeriveOne(f[n], parts[m]) /\ g[m - 1] = f[n]
        BY <3>1, <4>1
      <4>3. QED
        BY <4>1, <4>2
    <3>2. CASE m = 0
      <4>1. m # n + 1 /\ m \in 0 .. n
        BY <2>2, <3>2
      <4>2. g[m] = f[m] /\ f[m] = start
        BY <2>1, <3>2, <4>1 DEF PassAlong
      <4>3. QED
        BY <3>2, <4>2
    <3>3. CASE m # n + 1 /\ m # 0
      <4>1. m \in 0 .. n /\ m - 1 \in 0 .. (n + 1) /\ m - 1 # n + 1
        BY <2>2, <3>3
      <4>2. g[m] = f[m] /\ g[m - 1] = f[m - 1]
        BY <3>3, <4>1
      <4>3. f[m] = Subjects!DeriveOne(f[m - 1], parts[m])
        BY <2>1, <3>3, <4>1 DEF PassAlong
      <4>4. QED
        BY <3>3, <4>2, <4>3
    <3>4. QED
      BY <3>1, <3>2, <3>3
  <2>4. g = [m \in 0 .. (n + 1) |-> g[m]]
    OBVIOUS
  <2>5. g = [m \in 0 .. (n + 1) |-> turn(m)]
    <3> HIDE DEF g, turn
    <3>1. QED
      BY <2>3, <2>4
  <2>6. PassAlong(start, parts, n + 1, g)
    BY <2>5 DEF PassAlong
  <2>7. QED
    BY <2>6
<1> HIDE DEF S
<1>3. S = Nat
  <2>1. S \in SUBSET Nat
    BY DEF S
  <2>2. QED
    BY <1>1, <1>2, <2>1, Counting
<1>4. QED
  BY <1>3 DEF S


Key(P) == Subjects!IdentityKey(P)
RowOf(P) == [key |-> Key(P), name |-> topic[Subjects!Earliest(P)].name, threshold |-> threshold]
\* A part sits on a row: the row is its, and each of its topics is told so.
Sits(rows, seats, i, P) ==
  /\ i \in DOMAIN rows /\ rows[i] = RowOf(P) /\ P \in SUBSET (DOMAIN seats)
  /\ \A t \in P : seats[t] = [thread |-> i, linked |-> Subjects!Linked(t, P)]
RowsStand(rows) ==
  /\ \E k \in Nat : DOMAIN rows = 1 .. k
  /\ rows = [i \in DOMAIN rows |-> rows[i]]
  /\ \A i \in DOMAIN rows : rows[i].key \in Nat
  /\ \A i, j \in DOMAIN rows : rows[i].key = rows[j].key => i = j
SeatsStand(rows, seats) ==
  /\ DOMAIN seats \in SUBSET Subjects!Topics /\ seats = [t \in DOMAIN seats |-> seats[t]]
  /\ \A t \in DOMAIN seats : seats[t].thread \in DOMAIN rows

Passed(now, n, parts) ==
  /\ RowsStand(now.thread) /\ SeatsStand(now.thread, now.member)
  /\ DOMAIN thread \in SUBSET (DOMAIN now.thread)
  /\ Subjects!Reserved \in SUBSET now.claimed /\ now.claimed \in SUBSET (DOMAIN now.thread)
  /\ \A i \in Subjects!Reserved : now.thread[i].key = thread[i].key
  /\ \A i \in DOMAIN now.thread \ now.claimed : i \in DOMAIN thread /\ now.thread[i] = thread[i]
  /\ \A i \in now.claimed \ Subjects!Reserved : \E m \in 1 .. n : now.thread[i].key = Key(parts[m])
  /\ \A m \in 1 .. n : \E i \in now.claimed : Sits(now.thread, now.member, i, parts[m])

LEMMA KeysAreNumbers == ASSUME SubjectTypes, NEW P \in Subjects!Clusters PROVE Key(P) \in Nat
<1>1. P \in SUBSET Subjects!Topics /\ P # {}
  BY ClustersStand DEF Partition
<1>2. \A t \in P : Subjects!WordOf(t) \in Nat /\ Raw[topic[t].name] \in Nat
  BY <1>1, SubjectsCompared DEF SubjectTypes, Subjects!Topics, Subjects!WordOf, Subjects!Comparable
<1> DEFINE words == {Subjects!WordOf(t) : t \in P} \ {0}
           raws == {Raw[topic[t].name] : t \in P}
<1>3. words \in SUBSET Nat /\ raws \in SUBSET Nat /\ raws # {}
  BY <1>1, <1>2
<1>4. Key(P) = IF words # {} THEN Subjects!Min(words) ELSE Subjects!Digest(Subjects!Min(raws))
  BY DEF Key, Subjects!IdentityKey
<1> HIDE DEF words, raws
<1>5. words # {} => Subjects!Min(words) \in Nat
  <2>1. SUFFICES ASSUME words # {} PROVE Subjects!Min(words) \in words
    BY <1>3
  <2>2. \E x \in words : \A y \in words : x <= y
    BY <1>3, <2>1, LeastStands
  <2>3. QED
    BY <2>2 DEF Subjects!Min
<1>6. Subjects!Min(raws) \in Nat
  <2>1. \E x \in raws : \A y \in raws : x <= y
    BY <1>3, LeastStands
  <2>2. Subjects!Min(raws) \in raws
    BY <2>1 DEF Subjects!Min
  <2>3. QED
    BY <1>3, <2>2
<1>7. QED
  BY <1>4, <1>5, <1>6 DEF Subjects!Digest

\* The parts in the order of their keys, each once.
PartsListed(parts) ==
  /\ Len(parts) \in Nat /\ \A i \in 1 .. Len(parts) : parts[i] \in Subjects!Clusters
  /\ \A P \in Subjects!Clusters : \E i \in 1 .. Len(parts) : parts[i] = P
  /\ \A i, j \in 1 .. Len(parts) : i < j => Key(parts[i]) # Key(parts[j])
LEMMA PartsAreListed ==
  ASSUME SubjectTypes, Subjects!KeysAreUnique
  PROVE  PartsListed(Subjects!Ranked(Subjects!Clusters,
           {p \in Subjects!Clusters \X Subjects!Clusters : Subjects!IdentityKey(p[1]) < Subjects!IdentityKey(p[2])}))
<1> DEFINE S == Subjects!Clusters
           R == {p \in S \X S : Subjects!IdentityKey(p[1]) < Subjects!IdentityKey(p[2])}
           parts == Subjects!Ranked(S, R)
<1>1. IsFiniteSet(S)
  <2>1. S \in SUBSET (SUBSET Subjects!Topics)
    BY ClustersStand DEF Partition
  <2>2. IsFiniteSet(SUBSET Subjects!Topics)
    BY TopicsAreFinite, FS_SUBSET
  <2>3. QED
    BY <2>1, <2>2, FS_Subset
<1>2. \A P, Q \in S : <<P, Q>> \in R <=> Key(P) < Key(Q)
  BY DEF Key
<1>3. \A P \in S : Key(P) \in Nat
  BY KeysAreNumbers
<1>4. \A P, Q \in S : Key(P) = Key(Q) => P = Q
  BY DEF Key, Subjects!KeysAreUnique
<1> HIDE DEF R
<1>5. Orders(R, S)
  <2> HIDE DEF S
  <2>1. \A P \in S : <<P, P>> \notin R
    BY <1>2, <1>3
  <2>2. \A P, Q, T \in S : <<P, Q>> \in R /\ <<Q, T>> \in R => <<P, T>> \in R
    BY <1>2, <1>3
  <2>3. ASSUME NEW P \in S, NEW Q \in S PROVE P = Q \/ <<P, Q>> \in R \/ <<Q, P>> \in R
    <3>1. Key(P) \in Nat /\ Key(Q) \in Nat
      BY <1>3
    <3>2. Key(P) = Key(Q) \/ Key(P) < Key(Q) \/ Key(Q) < Key(P)
      BY <3>1
    <3>3. QED
      BY <1>2, <1>4, <3>2
  <2>4. QED
    BY <2>1, <2>2, <2>3 DEF Orders
<1> HIDE DEF S
<1>6. /\ Cardinality(S) \in Nat /\ parts \in Seq(S) /\ Len(parts) = Cardinality(S)
      /\ \A x \in S : \E i \in 1 .. Cardinality(S) : parts[i] = x
      /\ \A i, j \in 1 .. Cardinality(S) : i < j => <<parts[i], parts[j]>> \in R
  BY <1>1, <1>5, RankedIs
<1> HIDE DEF parts
<1>7. Len(parts) \in Nat /\ \A i \in 1 .. Len(parts) : parts[i] \in S
  BY <1>6
<1>8. ASSUME NEW i \in 1 .. Len(parts), NEW j \in 1 .. Len(parts), i < j PROVE Key(parts[i]) # Key(parts[j])
  <2>1. <<parts[i], parts[j]>> \in R
    BY <1>6, <1>8
  <2>2. Key(parts[i]) < Key(parts[j]) /\ Key(parts[i]) \in Nat
    BY <1>2, <1>3, <1>7, <2>1
  <2>3. QED
    BY <2>2
<1>9. \A P \in S : \E i \in 1 .. Len(parts) : parts[i] = P
  BY <1>6
<1>10. QED
  BY <1>7, <1>8, <1>9 DEF PartsListed, parts, S, R

\* Of the rows a part may claim it gets the one its key names, else one that no part has
\* claimed, and then no row has its key.
LEMMA ClaimsOne ==
  ASSUME SubjectTypes, NEW parts, PartsListed(parts), NEW n \in Nat, n + 1 \in 1 .. Len(parts),
         NEW now, Passed(now, n, parts), NEW P, P = parts[n + 1],
         NEW i, i = Subjects!Claims(now, P, Subjects!Available(now, P)), NEW k \in Nat, DOMAIN now.thread = 1 .. k
  PROVE  /\ i \in 1 .. (k + 1)
         /\ \/ i \in Subjects!Reserved /\ now.thread[i].key = Key(P)
            \/ i \notin now.claimed /\ \A j \in DOMAIN now.thread : now.thread[j].key # Key(P)
<1> DEFINE exact == {j \in Subjects!Reserved : now.thread[j].key = Subjects!IdentityKey(P)}
           free == Subjects!Available(now, P)
<1>1. i = IF exact # {} THEN CHOOSE j \in exact : TRUE
          ELSE IF free # {} THEN CHOOSE j \in free : \A l \in free \ {j} : Subjects!Keyed(now.thread, j, l)
          ELSE Subjects!Cardinality(DOMAIN now.thread) + 1
  BY DEF Subjects!Claims
<1>2. Subjects!Reserved \in SUBSET (1 .. k) /\ now.claimed \in SUBSET (1 .. k) /\ Subjects!Reserved \in SUBSET now.claimed
  BY DEF Passed
<1>3. CASE exact # {}
  <2>1. i \in exact
    BY <1>1, <1>3
  <2>2. QED
    BY <1>2, <2>1 DEF Key
<1>4. CASE exact = {}
  <2>1. ASSUME NEW j \in DOMAIN now.thread PROVE now.thread[j].key # Key(P)
    <3>1. CASE j \in Subjects!Reserved
      BY <1>4, <3>1 DEF Key
    <3>2. CASE j \in now.claimed \ Subjects!Reserved
      <4>1. PICK m \in 1 .. n : now.thread[j].key = Key(parts[m])
        BY <3>2 DEF Passed
      <4>2. m \in 1 .. Len(parts) /\ m < n + 1
        BY DEF PartsListed
      <4>3. QED
        BY <4>1, <4>2 DEF PartsListed
    <3>3. CASE j \notin now.claimed
      <4>1. j \in DOMAIN thread /\ now.thread[j] = thread[j] /\ j \notin Subjects!Reserved
        BY <1>2, <3>3 DEF Passed
      <4>2. P \in Subjects!Clusters
        BY DEF PartsListed
      <4>3. thread[j].key # Key(P)
        BY <4>1, <4>2 DEF Subjects!Reserved, Key
      <4>4. QED
        BY <4>1, <4>3
    <3>4. QED
      BY <3>1, <3>2, <3>3
  <2>2. CASE free # {}
    <3>1. free \in SUBSET (1 .. k) /\ \A j \in free : j \notin now.claimed
      BY DEF Subjects!Available, Subjects!Attached, Passed, SeatsStand
    <3> HIDE DEF free
    <3>2. \E j \in free : \A l \in free \ {j} : Subjects!Keyed(now.thread, j, l)
      <4> DEFINE keys == {now.thread[j].key : j \in free}
      <4>1. keys \in SUBSET Nat /\ keys # {}
        <5>1. RowsStand(now.thread)
          BY DEF Passed
        <5>2. \A j \in free : j \in DOMAIN now.thread
          BY <3>1
        <5>3. \A j \in free : now.thread[j].key \in Nat
          BY <5>1, <5>2 DEF RowsStand
        <5>4. QED
          BY <2>2, <5>3
      <4>2. PICK x \in keys : \A y \in keys : x <= y
        BY <4>1, LeastStands
      <4>3. PICK j \in free : now.thread[j].key = x
        OBVIOUS
      <4>4. ASSUME NEW l \in free \ {j} PROVE Subjects!Keyed(now.thread, j, l)
        <5>1. now.thread[l].key \in Nat /\ now.thread[j].key \in Nat /\ now.thread[j].key <= now.thread[l].key
          BY <4>1, <4>2, <4>3
        <5>2. now.thread[j].key # now.thread[l].key
          BY <3>1 DEF Passed, RowsStand
        <5>3. now.thread[j].key < now.thread[l].key
          BY <5>1, <5>2
        <5>4. QED
          BY <5>3 DEF Subjects!Keyed
      <4>5. QED
        BY <4>4
    <3>3. i \in free
      BY <1>1, <1>4, <2>2, <3>2
    <3>4. QED
      BY <2>1, <3>1, <3>3
  <2>3. CASE free = {}
    <3>1. Subjects!Cardinality(DOMAIN now.thread) = k
      BY TopicCounts, FS_Interval
    <3>2. i = k + 1 /\ i \notin 1 .. k
      BY <1>1, <1>4, <2>3, <3>1
    <3>3. QED
      BY <1>2, <2>1, <3>2
  <2>4. QED
    BY <2>2, <2>3
<1>5. QED
  BY <1>3, <1>4

LEMMA PassStep ==
  ASSUME SubjectTypes, NEW parts, PartsListed(parts), NEW n \in Nat, n + 1 \in 1 .. Len(parts),
         NEW now, Passed(now, n, parts), NEW after, after = Subjects!DeriveOne(now, parts[n + 1])
  PROVE  Passed(after, n + 1, parts)
<1> DEFINE P == parts[n + 1]
           i == Subjects!Claims(now, P, Subjects!Available(now, P))
<1>1. PICK k \in Nat : DOMAIN now.thread = 1 .. k
  BY DEF Passed, RowsStand
<1>2. /\ i \in 1 .. (k + 1)
      /\ \/ i \in Subjects!Reserved /\ now.thread[i].key = Key(P)
         \/ i \notin now.claimed /\ \A j \in DOMAIN now.thread : now.thread[j].key # Key(P)
  BY <1>1, ClaimsOne
<1>3. /\ after.thread = [j \in DOMAIN now.thread \union {i} |-> IF j = i THEN RowOf(P) ELSE now.thread[j]]
      /\ after.member = [t \in DOMAIN now.member \union P |->
           IF t \in P THEN [thread |-> i, linked |-> Subjects!Linked(t, P)] ELSE now.member[t]]
      /\ after.claimed = now.claimed \union {i}
  BY DEF Subjects!DeriveOne, RowOf, Key
<1>4. P \in Subjects!Clusters /\ P \in SUBSET Subjects!Topics /\ Key(P) \in Nat
  BY ClustersStand, KeysAreNumbers DEF PartsListed, Partition
<1>5. RowOf(P).key = Key(P)
  BY DEF RowOf
<1> HIDE DEF P, i
<1>6. RowsStand(after.thread)
  <2>1. \E l \in Nat : DOMAIN after.thread = 1 .. l
    <3>1. CASE i \in 1 .. k
      <4>1. DOMAIN after.thread = 1 .. k
        BY <1>1, <1>3, <3>1
      <4>2. QED
        BY <4>1
    <3>2. CASE i = k + 1
      <4>1. DOMAIN after.thread = 1 .. (k + 1) /\ k + 1 \in Nat
        BY <1>1, <1>3, <3>2
      <4>2. QED
        BY <4>1
    <3>3. QED
      BY <1>2, <3>1, <3>2
  <2>2. after.thread = [j \in DOMAIN after.thread |-> after.thread[j]]
    BY <1>3
  <2>3. \A j \in DOMAIN after.thread : after.thread[j].key \in Nat
    BY <1>3, <1>4, <1>5 DEF Passed, RowsStand
  <2>4. ASSUME NEW j \in DOMAIN after.thread, NEW l \in DOMAIN after.thread, after.thread[j].key = after.thread[l].key
        PROVE  j = l
    <3>1. \A x \in DOMAIN after.thread : x # i => x \in DOMAIN now.thread /\ after.thread[x] = now.thread[x]
      BY <1>3
    <3>2. after.thread[i].key = Key(P)
      BY <1>3, <1>5
    <3>3. \A x \in DOMAIN now.thread : now.thread[x].key = Key(P) => x = i
      BY <1>2 DEF Passed, RowsStand
    <3>4. QED
      BY <2>4, <3>1, <3>2, <3>3 DEF Passed, RowsStand
  <2>5. QED
    BY <2>1, <2>2, <2>3, <2>4 DEF RowsStand
<1>7. SeatsStand(after.thread, after.member)
  <2>1. DOMAIN after.member \in SUBSET Subjects!Topics
    BY <1>3, <1>4 DEF Passed, SeatsStand
  <2>2. after.member = [t \in DOMAIN after.member |-> after.member[t]]
    BY <1>3
  <2>3. \A t \in DOMAIN after.member : after.member[t].thread \in DOMAIN after.thread
    BY <1>3 DEF Passed, SeatsStand
  <2>4. QED
    BY <2>1, <2>2, <2>3 DEF SeatsStand
<1>8. /\ DOMAIN thread \in SUBSET (DOMAIN after.thread)
      /\ Subjects!Reserved \in SUBSET after.claimed /\ after.claimed \in SUBSET (DOMAIN after.thread)
  BY <1>3 DEF Passed
<1>9. \A j \in Subjects!Reserved : after.thread[j].key = thread[j].key
  <2>1. \A j \in Subjects!Reserved : j \in now.claimed /\ j \in DOMAIN now.thread /\ now.thread[j].key = thread[j].key
    BY DEF Passed
  <2>2. QED
    BY <1>2, <1>3, <1>5, <2>1
<1>10. \A j \in DOMAIN after.thread \ after.claimed : j \in DOMAIN thread /\ after.thread[j] = thread[j]
  BY <1>3 DEF Passed
<1>11. ASSUME NEW j \in after.claimed \ Subjects!Reserved PROVE \E m \in 1 .. (n + 1) : after.thread[j].key = Key(parts[m])
  <2>1. CASE j = i
    <3>1. after.thread[j].key = Key(parts[n + 1]) /\ n + 1 \in 1 .. (n + 1)
      BY <1>3, <1>5, <2>1 DEF P
    <3>2. QED
      BY <3>1
  <2>2. CASE j # i
    <3>1. j \in now.claimed \ Subjects!Reserved /\ after.thread[j] = now.thread[j]
      BY <1>3, <2>2 DEF Passed
    <3>2. PICK m \in 1 .. n : now.thread[j].key = Key(parts[m])
      BY <3>1 DEF Passed
    <3>3. m \in 1 .. (n + 1)
      OBVIOUS
    <3>4. QED
      BY <3>1, <3>2, <3>3
  <2>3. QED
    BY <2>1, <2>2
<1>12. ASSUME NEW m \in 1 .. (n + 1) PROVE \E j \in after.claimed : Sits(after.thread, after.member, j, parts[m])
  <2>1. m = n + 1 \/ (m \in 1 .. n /\ m \in 1 .. Len(parts) /\ m < n + 1)
    BY DEF PartsListed
  <2>2. CASE m = n + 1
    <3>1. Sits(after.thread, after.member, i, P)
      BY <1>3 DEF Sits
    <3>2. QED
      BY <1>3, <2>2, <3>1 DEF P
  <2>3. CASE m \in 1 .. n /\ m \in 1 .. Len(parts) /\ m < n + 1
    <3>1. PICK j \in now.claimed : Sits(now.thread, now.member, j, parts[m])
      BY <2>3 DEF Passed
    <3>2. Key(parts[m]) # Key(P) /\ parts[m] \in Subjects!Clusters
      BY <2>3 DEF PartsListed, P
    <3>3. now.thread[j].key = Key(parts[m])
      BY <3>1 DEF Sits, RowOf
    <3>4. j # i
      BY <1>2, <3>2, <3>3
    <3>5. \A t \in parts[m] : t \notin P
      BY <1>4, <3>2, ClustersStand DEF Partition
    <3>6. Sits(after.thread, after.member, j, parts[m])
      BY <1>3, <3>1, <3>4, <3>5 DEF Sits
    <3>7. QED
      BY <1>3, <3>6
  <2>4. QED
    BY <2>1, <2>2, <2>3
<1>13. QED
  BY <1>6, <1>7, <1>8, <1>9, <1>10, <1>11, <1>12 DEF Passed

\* The rows of a pass, and those of a pass over what the last one saw.
LEMMA PassStands ==
  ASSUME SubjectTypes, Subjects!KeysAreUnique, RowsStand(thread), SeatsStand(thread, member)
  PROVE  /\ RowsStand(Subjects!DerivedRows.thread) /\ SeatsStand(Subjects!DerivedRows.thread, Subjects!DerivedRows.member)
         /\ DOMAIN thread \in SUBSET (DOMAIN Subjects!DerivedRows.thread)
         /\ \A i \in Subjects!Reserved : Subjects!DerivedRows.thread[i].key = thread[i].key
         /\ \A P \in Subjects!Clusters :
              \E i \in DOMAIN Subjects!DerivedRows.thread :
                Sits(Subjects!DerivedRows.thread, Subjects!DerivedRows.member, i, P)
         /\ (\A P \in Subjects!Clusters : \E i \in DOMAIN thread : Sits(thread, member, i, P)) =>
              Subjects!DerivedRows.thread = thread /\ Subjects!DerivedRows.member = member
<1> DEFINE parts == Subjects!Ranked(Subjects!Clusters,
             {p \in Subjects!Clusters \X Subjects!Clusters : Subjects!IdentityKey(p[1]) < Subjects!IdentityKey(p[2])})
           N == Len(parts)
           start == [thread |-> thread, member |-> member, claimed |-> Subjects!Reserved]
           pass == CHOOSE f : f = [n \in 0 .. N |-> IF n = 0 THEN start ELSE Subjects!DeriveOne(f[n - 1], parts[n])]
<1>1. Subjects!DerivedRows = pass[N]
  BY DEF Subjects!DerivedRows
<1>2. PartsListed(parts)
  BY PartsAreListed
<1> HIDE DEF parts
<1>3. N \in Nat
  BY <1>2 DEF PartsListed
<1>4. pass = [n \in 0 .. N |-> IF n = 0 THEN start ELSE Subjects!DeriveOne(pass[n - 1], parts[n])]
  <2> HIDE DEF start, N
  <2>1. PICK f : PassAlong(start, parts, N, f)
    BY <1>3, PassExists
  <2>2. f = [n \in 0 .. N |-> IF n = 0 THEN start ELSE Subjects!DeriveOne(f[n - 1], parts[n])]
    BY <2>1 DEF PassAlong
  <2>3. QED
    BY <2>2
<1> HIDE DEF pass
<1>5. Passed(start, 0, parts)
  <2>1. Subjects!Reserved \in SUBSET (DOMAIN thread)
    BY DEF Subjects!Reserved
  <2>2. start.thread = thread /\ start.member = member /\ start.claimed = Subjects!Reserved
    OBVIOUS
  <2> HIDE DEF start
  <2>3. QED
    BY <2>1, <2>2 DEF Passed
<1> DEFINE Settled == \A P \in Subjects!Clusters : \E i \in DOMAIN thread : Sits(thread, member, i, P)
           Still(n) == Settled => pass[n].thread = thread /\ pass[n].member = member
           S == {n \in Nat : n \in 0 .. N => Passed(pass[n], n, parts) /\ Still(n)}
<1>6. 0 \in S
  <2>1. pass[0] = start
    BY <1>3, <1>4
  <2>2. QED
    BY <1>5, <2>1
<1>7. ASSUME NEW n \in S PROVE n + 1 \in S
  <2>1. SUFFICES ASSUME n + 1 \in 0 .. N PROVE Passed(pass[n + 1], n + 1, parts) /\ Still(n + 1)
    OBVIOUS
  <2>2. n \in Nat /\ n \in 0 .. N /\ n + 1 \in 1 .. N /\ (n + 1) - 1 = n /\ n + 1 # 0
    BY <1>3, <2>1
  <2>3. Passed(pass[n], n, parts) /\ Still(n)
    BY <2>2
  <2>4. pass[n + 1] = Subjects!DeriveOne(pass[n], parts[n + 1])
    BY <1>4, <2>1, <2>2
  <2>5. Passed(pass[n + 1], n + 1, parts)
    BY <1>2, <2>2, <2>3, <2>4, PassStep
  <2>6. Still(n + 1)
    <3> SUFFICES ASSUME Settled PROVE pass[n + 1].thread = thread /\ pass[n + 1].member = member
      OBVIOUS
    <3> DEFINE P == parts[n + 1]
               now == pass[n]
               i == Subjects!Claims(now, P, Subjects!Available(now, P))
    <3>1. now.thread = thread /\ now.member = member
      BY <2>3
    <3>2. P \in Subjects!Clusters
      BY <1>2, <2>2 DEF PartsListed
    <3>3. PICK j \in DOMAIN thread : Sits(thread, member, j, P)
      BY <3>2
    <3>4. j \in Subjects!Reserved /\ now.thread[j].key = Key(P)
      BY <3>1, <3>2, <3>3 DEF Sits, RowOf, Subjects!Reserved, Key
    <3>5. i = j
      <4>1. PICK k \in Nat : DOMAIN now.thread = 1 .. k
        BY <3>1 DEF RowsStand
      <4>2. \/ i \in Subjects!Reserved /\ now.thread[i].key = Key(P)
            \/ \A l \in DOMAIN now.thread : now.thread[l].key # Key(P)
        <5> HIDE DEF P, i, now
        <5>1. P = parts[n + 1] /\ i = Subjects!Claims(now, P, Subjects!Available(now, P)) /\ Passed(now, n, parts)
          BY <2>3 DEF P, i, now
        <5>2. QED
          BY <1>2, <2>2, <4>1, <5>1, ClaimsOne
      <4>3. i \in DOMAIN thread /\ thread[i].key = thread[j].key
        BY <3>1, <3>3, <3>4, <4>2 DEF Subjects!Reserved
      <4>4. QED
        BY <4>3 DEF RowsStand
    <3>6. /\ pass[n + 1].thread = [l \in DOMAIN now.thread \union {i} |-> IF l = i THEN RowOf(P) ELSE now.thread[l]]
          /\ pass[n + 1].member = [t \in DOMAIN now.member \union P |->
               IF t \in P THEN [thread |-> i, linked |-> Subjects!Linked(t, P)] ELSE now.member[t]]
      BY <2>4 DEF Subjects!DeriveOne, RowOf, Key
    <3> HIDE DEF now, i, P
    <3>7. thread = [l \in DOMAIN thread |-> thread[l]] /\ member = [t \in DOMAIN member |-> member[t]]
      BY DEF RowsStand, SeatsStand
    <3>8. pass[n + 1].thread = thread
      <4>1. DOMAIN thread \union {j} = DOMAIN thread /\ thread[j] = RowOf(P)
        BY <3>3 DEF Sits
      <4>2. pass[n + 1].thread = [l \in DOMAIN thread |-> thread[l]]
        BY <3>1, <3>5, <3>6, <4>1
      <4>3. QED
        BY <3>7, <4>2
    <3>9. pass[n + 1].member = member
      <4>1. DOMAIN member \union P = DOMAIN member /\ \A t \in P : member[t] = [thread |-> j, linked |-> Subjects!Linked(t, P)]
        BY <3>3 DEF Sits
      <4>2. pass[n + 1].member = [t \in DOMAIN member |-> member[t]]
        BY <3>1, <3>5, <3>6, <4>1
      <4>3. QED
        BY <3>7, <4>2
    <3>10. QED
      BY <3>8, <3>9
  <2>7. QED
    BY <2>5, <2>6
<1> HIDE DEF S, Settled
<1>8. S = Nat
  <2>1. S \in SUBSET Nat
    BY DEF S
  <2>2. QED
    BY <1>6, <1>7, <2>1, Counting
<1>9. Passed(pass[N], N, parts) /\ (Settled => pass[N].thread = thread /\ pass[N].member = member)
  BY <1>3, <1>8 DEF S
<1> DEFINE made == pass[N]
<1>10. Subjects!DerivedRows = made
  BY <1>1
<1> HIDE DEF made
<1>11. ASSUME NEW P \in Subjects!Clusters PROVE \E i \in DOMAIN made.thread : Sits(made.thread, made.member, i, P)
  <2>1. PICK m \in 1 .. N : parts[m] = P
    BY <1>2 DEF PartsListed
  <2>2. QED
    BY <1>9, <2>1 DEF Passed, made
<1>12. QED
  BY <1>9, <1>10, <1>11 DEF Passed, made, Settled

-----------------------------------------------------------------------------
(* What the passes and the changes between them keep.                       *)

\* After a pass every part has the row of its key, and its topics' seats are there.
Settled == \A P \in Subjects!Clusters : \E i \in DOMAIN thread : Sits(thread, member, i, P)
SubjectsInv ==
  /\ SubjectTypes /\ RowsStand(thread) /\ SeatsStand(thread, member)
  /\ derived => Subjects!KeysAreUnique /\ Settled

LEMMA SubjectsInit == Subjects!Init => SubjectsInv
<1> SUFFICES ASSUME Subjects!Init PROVE SubjectsInv
  OBVIOUS
<1>1. topic = <<>> /\ thread = <<>> /\ member = <<>> /\ minted = 0 /\ ~ derived
  BY DEF Subjects!Init
<1>2. SubjectTypes
  BY <1>1 DEF SubjectTypes
<1>3. RowsStand(thread)
  <2>1. DOMAIN thread = 1 .. 0
    BY <1>1
  <2>2. thread = [i \in DOMAIN thread |-> thread[i]]
    BY <1>1
  <2>3. QED
    BY <2>1, <2>2 DEF RowsStand
<1>4. SeatsStand(thread, member)
  BY <1>1 DEF SeatsStand, Subjects!Topics
<1>5. QED
  BY <1>1, <1>2, <1>3, <1>4 DEF SubjectsInv

\* The parts, their keys and their links are read off the topics and the threshold.
LEMMA SubjectsUnmoved ==
  ASSUME UNCHANGED <<topic, threshold>>
  PROVE  /\ Subjects!Topics' = Subjects!Topics /\ Subjects!Clusters' = Subjects!Clusters
         /\ Subjects!KeysAreUnique' = Subjects!KeysAreUnique
         /\ \A P : RowOf(P)' = RowOf(P)
         /\ \A P, t : Subjects!Linked(t, P)' = Subjects!Linked(t, P)
<1>1. topic' = topic /\ threshold' = threshold
  OBVIOUS
<1>2. Subjects!Topics' = Subjects!Topics /\ Subjects!Clusters' = Subjects!Clusters
  BY <1>1 DEF Subjects!Clusters, Subjects!Pairs, Subjects!Topics, Subjects!SameName, Subjects!Close, Subjects!WordOf,
     Subjects!Union, Subjects!Ranked
<1>3. \A P : Subjects!IdentityKey(P)' = Subjects!IdentityKey(P)
  BY <1>1 DEF Subjects!IdentityKey, Subjects!WordOf
<1>4. \A P : Subjects!Earliest(P)' = Subjects!Earliest(P)
  BY <1>1 DEF Subjects!Earliest, Subjects!Before, Subjects!Order, Subjects!WordOf
<1>5. \A P : RowOf(P)' = RowOf(P)
  BY <1>1, <1>3, <1>4 DEF RowOf, Key
<1>6. \A P, t : Subjects!Linked(t, P)' = Subjects!Linked(t, P)
  BY <1>1, <1>4 DEF Subjects!Linked, Subjects!SameName, Subjects!WordOf
<1>7. Subjects!KeysAreUnique' = Subjects!KeysAreUnique
  BY <1>2, <1>3 DEF Subjects!KeysAreUnique
<1>8. QED
  BY <1>2, <1>5, <1>6, <1>7

LEMMA Seated ==
  ASSUME NEW rows, NEW seats, NEW i, NEW P, Sits(rows, seats, i, P)
  PROVE  /\ rows[i].key = Key(P)
         /\ \A t \in P : t \in DOMAIN seats /\ seats[t].thread = i /\ seats[t].linked = Subjects!Linked(t, P)
<1>1. rows[i] = RowOf(P) /\ P \in SUBSET (DOMAIN seats)
  BY DEF Sits
<1>2. rows[i].key = Key(P)
  BY <1>1 DEF RowOf
<1>3. ASSUME NEW t \in P PROVE t \in DOMAIN seats /\ seats[t].thread = i /\ seats[t].linked = Subjects!Linked(t, P)
  <2> DEFINE linked == Subjects!Linked(t, P)
  <2>1. seats[t] = [thread |-> i, linked |-> linked]
    BY DEF Sits
  <2> HIDE DEF linked
  <2>2. seats[t].thread = i /\ seats[t].linked = linked
    BY <2>1
  <2>3. QED
    BY <1>1, <2>2 DEF linked
<1>4. QED
  BY <1>2, <1>3

\* A pass settles what it saw; over what the last one saw it writes nothing; and a row
\* whose key a part has is that part's.
LEMMA PassKeeps ==
  ASSUME SubjectsInv, Subjects!DeriveThreads PROVE SubjectsInv' /\ Subjects!SubjectsKept
<1>1. /\ SubjectTypes /\ RowsStand(thread) /\ SeatsStand(thread, member) /\ Subjects!KeysAreUnique
      /\ derived => Settled
  BY DEF SubjectsInv, Subjects!DeriveThreads
<1>2. /\ thread' = Subjects!DerivedRows.thread /\ member' = Subjects!DerivedRows.member
      /\ UNCHANGED <<topic, threshold>> /\ minted' = minted
  BY DEF Subjects!DeriveThreads
<1>3. /\ RowsStand(thread') /\ SeatsStand(thread', member') /\ DOMAIN thread \in SUBSET (DOMAIN thread')
      /\ \A i \in Subjects!Reserved : thread'[i].key = thread[i].key
      /\ \A P \in Subjects!Clusters : \E i \in DOMAIN thread' : Sits(thread', member', i, P)
      /\ Settled => thread' = thread /\ member' = member
  BY <1>1, <1>2, PassStands DEF Settled
<1>4. /\ Subjects!Topics' = Subjects!Topics /\ Subjects!Clusters' = Subjects!Clusters
      /\ Subjects!KeysAreUnique' = Subjects!KeysAreUnique
      /\ \A P : RowOf(P)' = RowOf(P)
      /\ \A P, t : Subjects!Linked(t, P)' = Subjects!Linked(t, P)
  BY <1>2, SubjectsUnmoved
<1>5. SubjectTypes'
  BY <1>1, <1>2 DEF SubjectTypes
<1>6. RowsStand(thread)' /\ SeatsStand(thread, member)'
  BY <1>3, <1>4 DEF RowsStand, SeatsStand
<1>7. Settled'
  BY <1>3, <1>4 DEF Settled, Sits
<1>8. SubjectsInv'
  BY <1>1, <1>4, <1>5, <1>6, <1>7 DEF SubjectsInv
<1>9. ASSUME NEW i \in DOMAIN thread, NEW t \in DOMAIN member', thread[i].key = thread'[member'[t].thread].key
      PROVE  member'[t].thread = i
  <2>1. PICK P \in Subjects!Clusters : t \in P
    BY <1>1, <1>3, ClustersStand DEF SeatsStand, Partition
  <2>2. PICK j \in DOMAIN thread' : Sits(thread', member', j, P)
    BY <1>3, <2>1
  <2>3. member'[t].thread = j /\ thread'[j].key = Subjects!IdentityKey(P)
    BY <2>1, <2>2, Seated DEF Key
  <2>4. i \in Subjects!Reserved
    BY <1>9, <2>1, <2>3 DEF Subjects!Reserved
  <2>5. thread'[i].key = thread'[j].key /\ i \in DOMAIN thread'
    BY <1>3, <1>9, <2>3, <2>4
  <2>6. QED
    BY <1>3, <2>2, <2>3, <2>5 DEF RowsStand
<1>10. Subjects!SubjectsKept
  BY <1>1, <1>3, <1>9 DEF Subjects!SubjectsKept
<1>11. QED
  BY <1>8, <1>10

\* Between two passes the rows stand, and so do the seats of the topics that stay.
LEMMA RowsUntouched ==
  ASSUME SubjectsInv, thread' = thread, DOMAIN member' \in SUBSET (DOMAIN member),
         \A t \in DOMAIN member' : member'[t] = member[t], derived /\ derived' => member' = member
  PROVE  Subjects!SubjectsKept
<1>1. RowsStand(thread) /\ SeatsStand(thread, member)
  BY DEF SubjectsInv
<1>2. ASSUME NEW i \in DOMAIN thread, NEW t \in DOMAIN member', thread[i].key = thread'[member'[t].thread].key
      PROVE  member'[t].thread = i
  <2>1. member'[t].thread \in DOMAIN thread /\ thread[i].key = thread[member'[t].thread].key
    BY <1>1, <1>2 DEF SeatsStand
  <2>2. QED
    BY <1>1, <2>1 DEF RowsStand
<1>3. QED
  BY <1>2 DEF Subjects!SubjectsKept

LEMMA ReplaceKeeps ==
  ASSUME SubjectsInv, Subjects!ReplaceTopics PROVE SubjectsInv' /\ Subjects!SubjectsKept
<1>1. PICK m \in TopicMeetings, new \in UNION {[1 .. n -> TopicNames] : n \in 0 .. 2} :
        LET kept == {t \in Subjects!Topics : topic[t].meeting # m}
            ids == minted + 1 .. minted + Len(new)
        IN  /\ topic' = [t \in kept \union ids |->
                 IF t \in kept THEN topic[t] ELSE [meeting |-> m, name |-> new[t - minted]]]
            /\ member' = [t \in kept \intersect DOMAIN member |-> member[t]]
            /\ minted' = minted + Len(new) /\ derived' = FALSE
            /\ UNCHANGED <<thread, threshold>>
  BY DEF Subjects!ReplaceTopics
<1> DEFINE kept == {t \in Subjects!Topics : topic[t].meeting # m}
           ids == minted + 1 .. minted + Len(new)
<1>2. /\ topic' = [t \in kept \union ids |-> IF t \in kept THEN topic[t] ELSE [meeting |-> m, name |-> new[t - minted]]]
      /\ member' = [t \in kept \intersect DOMAIN member |-> member[t]]
      /\ minted' = minted + Len(new) /\ ~ derived' /\ thread' = thread
  BY <1>1
<1>3. PICK n \in 0 .. 2 : new \in [1 .. n -> TopicNames]
  OBVIOUS
<1>4. Len(new) = n /\ n \in Nat
  BY <1>3
<1>5. /\ minted \in Nat /\ Subjects!Topics \in SUBSET (1 .. minted)
      /\ \A t \in Subjects!Topics : topic[t].name \in TopicNames
      /\ RowsStand(thread) /\ SeatsStand(thread, member)
  BY DEF SubjectsInv, SubjectTypes, Subjects!Topics
<1>6. kept \in SUBSET Subjects!Topics /\ ids = minted + 1 .. minted + n
  BY <1>4
<1>7. DOMAIN topic' = kept \union ids /\ DOMAIN member' = kept \intersect DOMAIN member
  BY <1>2
<1> HIDE DEF kept, ids
<1>8. SubjectTypes'
  <2>1. minted' \in Nat /\ DOMAIN topic' \in SUBSET (1 .. minted')
    BY <1>2, <1>4, <1>5, <1>6, <1>7
  <2>2. ASSUME NEW t \in DOMAIN topic' PROVE topic'[t].name \in TopicNames
    <3>1. CASE t \in kept
      BY <1>2, <1>5, <1>6, <1>7, <3>1
    <3>2. CASE t \notin kept
      <4>1. t \in minted + 1 .. minted + n
        BY <1>6, <1>7, <3>2
      <4>2. t - minted \in 1 .. n
        BY <1>4, <1>5, <4>1
      <4>3. topic'[t].name = new[t - minted]
        BY <1>2, <1>7, <3>2
      <4>4. QED
        BY <1>3, <4>2, <4>3
    <3>3. QED
      BY <3>1, <3>2
  <2>3. QED
    BY <2>1, <2>2 DEF SubjectTypes
<1>9. SeatsStand(thread, member)'
  <2>1. DOMAIN member' \in SUBSET (DOMAIN topic')
    BY <1>7
  <2>2. member' = [t \in DOMAIN member' |-> member'[t]]
    BY <1>2
  <2>3. \A t \in DOMAIN member' : member'[t] = member[t] /\ t \in DOMAIN member
    BY <1>2
  <2>4. \A t \in DOMAIN member' : member'[t].thread \in DOMAIN thread'
    BY <1>2, <1>5, <2>3 DEF SeatsStand
  <2>5. QED
    BY <2>1, <2>2, <2>4 DEF SeatsStand, Subjects!Topics
<1>10. RowsStand(thread)'
  BY <1>2, <1>5 DEF RowsStand
<1>11. SubjectsInv'
  BY <1>2, <1>8, <1>9, <1>10 DEF SubjectsInv
<1>12. Subjects!SubjectsKept
  BY <1>2, <1>7, RowsUntouched
<1>13. QED
  BY <1>11, <1>12

LEMMA SubjectsNext ==
  ASSUME SubjectsInv, Subjects!Next \/ UNCHANGED threadVars
  PROVE  SubjectsInv' /\ Subjects!SubjectsKept
<1>1. ASSUME UNCHANGED <<topic, thread, member, minted>>, derived' => UNCHANGED <<threshold, derived>>
      PROVE  SubjectsInv' /\ Subjects!SubjectsKept
  <2>1. SubjectTypes' /\ RowsStand(thread)' /\ SeatsStand(thread, member)'
    BY <1>1 DEF SubjectsInv, SubjectTypes, RowsStand, SeatsStand, Subjects!Topics
  <2>2. derived' => Subjects!KeysAreUnique' /\ Settled'
    <3> SUFFICES ASSUME derived' PROVE Subjects!KeysAreUnique' /\ Settled'
      OBVIOUS
    <3>1. Subjects!KeysAreUnique /\ Settled /\ UNCHANGED <<topic, threshold>>
      BY <1>1 DEF SubjectsInv
    <3>2. /\ Subjects!Clusters' = Subjects!Clusters /\ Subjects!KeysAreUnique' = Subjects!KeysAreUnique
          /\ \A P : RowOf(P)' = RowOf(P)
          /\ \A P, t : Subjects!Linked(t, P)' = Subjects!Linked(t, P)
      BY <3>1, SubjectsUnmoved
    <3>3. QED
      BY <1>1, <3>1, <3>2 DEF Settled, Sits
  <2>3. SubjectsInv'
    BY <2>1, <2>2 DEF SubjectsInv
  <2>4. Subjects!SubjectsKept
    BY <1>1, RowsUntouched
  <2>5. QED
    BY <2>3, <2>4
<1>2. CASE Subjects!DeriveThreads
  BY <1>2, PassKeeps
<1>3. CASE Subjects!ReplaceTopics
  BY <1>3, ReplaceKeeps
<1>4. CASE Subjects!EditThreshold
  BY <1>1, <1>4 DEF Subjects!EditThreshold
<1>5. CASE UNCHANGED threadVars
  BY <1>1, <1>5 DEF threadVars
<1>6. QED
  BY <1>2, <1>3, <1>4, <1>5 DEF Subjects!Next

LEMMA SubjectsStand == SubjectsInv => Subjects!ThreadsAreSubjects
<1> SUFFICES ASSUME SubjectsInv, derived PROVE Subjects!ThreadsAreSubjects
  BY DEF Subjects!ThreadsAreSubjects
<1>1. SubjectTypes /\ RowsStand(thread) /\ SeatsStand(thread, member) /\ Subjects!KeysAreUnique /\ Settled
  BY DEF SubjectsInv
<1>2. ASSUME NEW t \in Subjects!Topics
      PROVE  \E P \in Subjects!Clusters : \E i \in DOMAIN thread : t \in P /\ Sits(thread, member, i, P)
  BY <1>1, ClustersStand DEF Partition, Settled
<1>3. DOMAIN member = Subjects!Topics
  BY <1>1, <1>2 DEF SeatsStand, Sits
<1>4. ASSUME NEW t \in Subjects!Topics, NEW u \in Subjects!Topics
      PROVE  member[t].thread = member[u].thread <=> u \in Subjects!Joined(t)
  <2>1. PICK P \in Subjects!Clusters, i \in DOMAIN thread : t \in P /\ Sits(thread, member, i, P)
    BY <1>2
  <2>2. PICK Q \in Subjects!Clusters, j \in DOMAIN thread : u \in Q /\ Sits(thread, member, j, Q)
    BY <1>2
  <2>3. member[t].thread = i /\ member[u].thread = j /\ thread[i].key = Key(P) /\ thread[j].key = Key(Q)
    BY <2>1, <2>2, Seated
  <2>4. i = j => P = Q
    BY <1>1, <2>3 DEF Key, Subjects!KeysAreUnique
  <2>5. P = Q => i = j
    <3> SUFFICES ASSUME P = Q PROVE i = j
      OBVIOUS
    <3>1. member[t].thread = j
      BY <2>1, <2>2, Seated
    <3>2. QED
      BY <2>3, <3>1
  <2>6. u \in P <=> P = Q
    BY <1>1, <2>2, ClustersStand DEF Partition
  <2>7. Subjects!Joined(t) = P
    BY <1>1, <2>1, JoinedIs
  <2>8. QED
    BY <2>3, <2>4, <2>5, <2>6, <2>7
<1>5. ASSUME NEW t \in Subjects!Topics, member[t].linked = "embedding-similarity"
      PROVE  \E u \in Subjects!Topics \ {t} : Subjects!Close(t, u) /\ member[u].thread = member[t].thread
  <2>1. PICK P \in Subjects!Clusters, i \in DOMAIN thread : t \in P /\ Sits(thread, member, i, P)
    BY <1>2
  <2>2. Subjects!Linked(t, P) = "embedding-similarity"
    BY <1>5, <2>1, Seated
  <2>3. PICK u \in P \ {t} : Subjects!Close(t, u)
    BY <1>1, <2>1, <2>2, LinkedClose
  <2>4. u \in Subjects!Topics /\ member[u].thread = i /\ member[t].thread = i
    BY <1>1, <2>1, <2>3, ClustersStand, Seated DEF Partition
  <2>5. QED
    BY <2>3, <2>4
<1>6. \A i, j \in DOMAIN thread : thread[i].key = thread[j].key => i = j
  BY <1>1 DEF RowsStand
<1>7. QED
  BY <1>3, <1>4, <1>5, <1>6 DEF Subjects!ThreadsAreSubjects

\* After a pass two topics share a thread exactly when a chain of equal names and
\* close vectors joins them, whatever the corpus, the embeddings, the threshold and
\* the rows of earlier passes (pipeline/threads.py cluster_topics, derive_threads).
THEOREM SubjectsAreThreads == Spec => []ThreadsAreSubjects
<1> DEFINE Inv == scene = "threads" => SubjectsInv
<1>1. Init => Inv
  BY SubjectsInit DEF Init
<1>2. Inv /\ [Next]_all => Inv'
  <2> SUFFICES ASSUME Inv, [Next]_all, scene = "threads" PROVE SubjectsInv'
    BY DEF Next, all
  <2>1. Subjects!Next \/ UNCHANGED threadVars
    BY DEF Next, all
  <2>2. QED
    BY <2>1, SubjectsNext
<1>3. Inv => ThreadsAreSubjects
  BY SubjectsStand DEF ThreadsAreSubjects
<1>4. QED
  BY <1>1, <1>2, <1>3, PTL DEF Spec

\* A row an earlier pass left is never dropped, a subject it names exactly gets it
\* again, and a pass over what the last one saw writes nothing (derive_threads'
\* reservation of the exact rows).
THEOREM IdentitiesAreDurable == Spec => IdentityIsDurable
<1> DEFINE Inv == scene = "threads" => SubjectsInv
<1>1. Init => Inv
  BY SubjectsInit DEF Init
<1>2. Inv /\ [Next]_all => Inv' /\ (scene = "threads" => Subjects!SubjectsKept)
  <2> SUFFICES ASSUME Inv, [Next]_all, scene = "threads" PROVE SubjectsInv' /\ Subjects!SubjectsKept
    BY DEF Next, all
  <2>1. Subjects!Next \/ UNCHANGED threadVars
    BY DEF Next, all
  <2>2. QED
    BY <2>1, SubjectsNext
<1>3. QED
  BY <1>1, <1>2, PTL DEF Spec, IdentityIsDurable

-----------------------------------------------------------------------------
(* A cursor that only goes forward, over a lane in time order.              *)

LEMMA SameRanking == \A S, R : Turns!Ranked(S, R) = Subjects!Ranked(S, R)
  BY DEF Turns!Ranked, Subjects!Ranked, Turns!Cardinality, Subjects!Cardinality

Rising(lane) == \A i, j \in DOMAIN lane : i < j => lane[i].start <= lane[j].start

\* The sorted lane is the lane, each of its segments at some place, and rises.
LEMMA LaneSorted ==
  ASSUME NEW lane, Turns!Lane(lane), NEW s, s = Turns!InTimeOrder(lane)
  PROVE  /\ DOMAIN s = 1 .. Len(lane) /\ Len(s) = Len(lane)
         /\ \A n \in DOMAIN s : \E k \in DOMAIN lane : s[n] = lane[k]
         /\ \A k \in DOMAIN lane : \E n \in DOMAIN s : s[n] = lane[k]
         /\ Rising(s)
<1> DEFINE M == Len(lane)
           S == 1 .. M
           R == {p \in S \X S : Turns!Earlier(lane, p[1], p[2])}
           order == Turns!Ranked(S, R)
<1>1. DOMAIN lane = S /\ M \in Nat /\ \A k \in S : lane[k].start \in Int
  BY DEF Turns!Lane
<1>2. s = [n \in S |-> lane[order[n]]]
  BY <1>1 DEF Turns!InTimeOrder
<1>3. IsFiniteSet(S) /\ Cardinality(S) = M
  BY <1>1, FS_Interval
<1>4. \A k, l \in S : <<k, l>> \in R <=> lane[k].start < lane[l].start \/ (lane[k].start = lane[l].start /\ k < l)
  BY DEF Turns!Earlier
<1> HIDE DEF R
<1>5. Orders(R, S)
  <2>1. \A k \in S : <<k, k>> \notin R
    BY <1>1, <1>4
  <2>2. \A k, l, m \in S : <<k, l>> \in R /\ <<l, m>> \in R => <<k, m>> \in R
    BY <1>1, <1>4
  <2>3. ASSUME NEW k \in S, NEW l \in S PROVE k = l \/ <<k, l>> \in R \/ <<l, k>> \in R
    <3>1. k \in Int /\ l \in Int /\ lane[k].start \in Int /\ lane[l].start \in Int
      BY <1>1
    <3>2. \/ k = l
          \/ lane[k].start < lane[l].start \/ (lane[k].start = lane[l].start /\ k < l)
          \/ lane[l].start < lane[k].start \/ (lane[l].start = lane[k].start /\ l < k)
      BY <3>1
    <3>3. QED
      BY <1>4, <3>2
  <2>4. QED
    BY <2>1, <2>2, <2>3 DEF Orders
<1>6. order = Subjects!Ranked(S, R)
  BY SameRanking
<1>7. /\ \A k \in S : \E n \in S : order[n] = k
      /\ \A i, j \in S : i < j => <<order[i], order[j]>> \in R
      /\ order \in Seq(S) /\ Len(order) = M
  BY <1>3, <1>5, <1>6, RankedIs
<1> HIDE DEF order
<1>8. \A n \in S : order[n] \in S
  <2> DEFINE T == S
  <2>1. order \in Seq(T) /\ S = 1 .. Len(order)
    BY <1>7
  <2> HIDE DEF T
  <2>2. \A n \in 1 .. Len(order) : order[n] \in T
    BY <2>1
  <2>3. QED
    BY <2>1, <2>2 DEF T
<1>9. DOMAIN s = S /\ Len(s) = M
  BY <1>2
<1>10. ASSUME NEW i \in S, NEW j \in S, i < j PROVE s[i].start <= s[j].start
  <2>1. <<order[i], order[j]>> \in R
    BY <1>7, <1>10
  <2>2. lane[order[i]].start <= lane[order[j]].start
    <3>1. order[i] \in S /\ order[j] \in S
      BY <1>8
    <3>2. \/ lane[order[i]].start < lane[order[j]].start
          \/ lane[order[i]].start = lane[order[j]].start /\ order[i] < order[j]
      BY <1>4, <2>1, <3>1
    <3>3. lane[order[i]].start \in Int /\ lane[order[j]].start \in Int
      BY <1>1, <3>1
    <3>4. QED
      BY <3>2, <3>3
  <2>3. QED
    BY <1>2, <2>2
<1>11. \A n \in S : \E k \in S : s[n] = lane[k]
  BY <1>2, <1>8
<1>12. ASSUME NEW k \in S PROVE \E n \in S : s[n] = lane[k]
  <2>1. PICK n \in S : order[n] = k
    BY <1>7
  <2>2. s[n] = lane[k]
    BY <1>2, <2>1
  <2>3. QED
    BY <2>2
<1> HIDE DEF S
<1>13. Rising(s)
  BY <1>9, <1>10 DEF Rising
<1>14. QED
  BY <1>1, <1>9, <1>11, <1>12, <1>13 DEF S

\* A walk of the cursor exists: what LET's recursion chooses.
Onward(turns, lane, from, i) ==
  Turns!Min({k \in from .. (Len(lane) + 1) : k > Len(lane) \/ lane[k].start >= turns[i].start - Window})
Walk(turns, lane, N, f) == f = [i \in 0 .. N |-> IF i = 0 THEN 1 ELSE Onward(turns, lane, f[i - 1], i)]

LEMMA WalkExists ==
  ASSUME NEW turns, NEW lane, NEW N \in Nat PROVE \E f : Walk(turns, lane, N, f)
<1> DEFINE S == {n \in Nat : \E f : Walk(turns, lane, n, f)}
<1>1. 0 \in S
  <2> DEFINE f == [i \in 0 .. 0 |-> 1]
  <2>1. f = [i \in 0 .. 0 |-> IF i = 0 THEN 1 ELSE Onward(turns, lane, f[i - 1], i)]
    OBVIOUS
  <2>2. QED
    BY <2>1 DEF Walk
<1>2. ASSUME NEW n \in S PROVE n + 1 \in S
  <2>1. PICK f : Walk(turns, lane, n, f)
    OBVIOUS
  <2> DEFINE g == [m \in 0 .. (n + 1) |-> IF m = n + 1 THEN Onward(turns, lane, f[n], n + 1) ELSE f[m]]
             turn(m) == IF m = 0 THEN 1 ELSE Onward(turns, lane, g[m - 1], m)
  <2>2. \A m \in 0 .. n : f[m] = IF m = 0 THEN 1 ELSE Onward(turns, lane, f[m - 1], m)
    BY <2>1 DEF Walk
  <2>3. \A m \in 0 .. n : g[m] = f[m]
    OBVIOUS
  <2>4. ASSUME NEW m \in 0 .. (n + 1) PROVE g[m] = turn(m)
    <3>1. CASE m = n + 1
      <4>1. g[m] = Onward(turns, lane, f[n], n + 1) /\ m # 0 /\ m - 1 = n
        BY <3>1
      <4>2. g[m - 1] = f[n]
        BY <2>3, <4>1
      <4>3. QED
        BY <3>1, <4>1, <4>2
    <3>2. CASE m = 0
      BY <2>2, <2>3, <3>2
    <3>3. CASE m \in 1 .. n
      <4>1. m # 0 /\ m - 1 \in 0 .. n /\ m \in 0 .. n
        BY <3>3
      <4>2. g[m] = f[m] /\ g[m - 1] = f[m - 1]
        BY <2>3, <4>1
      <4>3. QED
        BY <2>2, <4>1, <4>2
    <3>4. QED
      BY <3>1, <3>2, <3>3
  <2>5. g = [m \in 0 .. (n + 1) |-> turn(m)]
    <3> HIDE DEF turn
    <3>1. QED
      BY <2>4
  <2>6. Walk(turns, lane, n + 1, g)
    BY <2>5 DEF Walk
  <2>7. QED
    BY <2>6
<1> HIDE DEF S
<1>3. S = Nat
  <2>1. S \in SUBSET Nat
    BY DEF S
  <2>2. QED
    BY <1>1, <1>2, <2>1, Counting
<1>4. QED
  BY <1>3 DEF S

\* Of turns in time order, what the cursor has passed is before the window of the turn
\* it is at, and all the rest is not: nothing a turn could be anchored to is skipped.
LEMMA CursorStands ==
  ASSUME Turns!Timed, NEW turns, Turns!Lane(turns), Turns!Following(turns),
         NEW lane, NEW M \in Nat, DOMAIN lane = 1 .. M, Len(lane) = M, Rising(lane),
         \A k \in 1 .. M : lane[k].start \in Int,
         NEW at, at = Turns!Cursor(turns, lane)
  PROVE  \A i \in 1 .. Len(turns) :
           /\ at[i] \in 1 .. (M + 1)
           /\ \A k \in 1 .. M : k >= at[i] <=> lane[k].start >= turns[i].start - Window
<1> DEFINE N == Len(turns)
<1>1. /\ DOMAIN turns = 1 .. N /\ N \in Nat /\ \A i \in 1 .. N : turns[i].start \in Int
      /\ Window \in Int
  BY DEF Turns!Lane, Turns!Timed
<1>2. Walk(turns, lane, N, at)
  <2>1. PICK f : Walk(turns, lane, N, f)
    BY <1>1, WalkExists
  <2>2. f = [i \in 0 .. N |-> IF i = 0 THEN 1 ELSE
               Turns!Min({k \in f[i - 1] .. (Len(lane) + 1) : k > Len(lane) \/ lane[k].start >= turns[i].start - Window})]
    BY <2>1 DEF Walk, Onward
  <2>3. at = CHOOSE h : h = [i \in 0 .. N |-> IF i = 0 THEN 1 ELSE
               Turns!Min({k \in h[i - 1] .. (Len(lane) + 1) : k > Len(lane) \/ lane[k].start >= turns[i].start - Window})]
    BY DEF Turns!Cursor
  <2>4. at = [i \in 0 .. N |-> IF i = 0 THEN 1 ELSE
               Turns!Min({k \in at[i - 1] .. (Len(lane) + 1) : k > Len(lane) \/ lane[k].start >= turns[i].start - Window})]
    BY <2>2, <2>3
  <2>5. QED
    BY <2>4 DEF Walk, Onward
<1> DEFINE Good(n) == /\ at[n] \in 1 .. (M + 1)
                      /\ n > 0 => \A k \in 1 .. M : k >= at[n] <=> lane[k].start >= turns[n].start - Window
           S == {n \in Nat : n \in 0 .. N => Good(n)}
<1>3. /\ at[0] = 1 /\ N \in Nat
      /\ \A n \in Nat : n + 1 \in 1 .. N => at[n + 1] = Onward(turns, lane, at[n], n + 1)
  BY <1>1, <1>2 DEF Walk
<1>4. 0 \in S
  BY <1>3
<1>5. ASSUME NEW n \in S PROVE n + 1 \in S
  <2> SUFFICES ASSUME n + 1 \in 0 .. N PROVE Good(n + 1)
    OBVIOUS
  <2>1. n \in Nat /\ n + 1 \in 1 .. N /\ n \in 0 .. N
    BY <1>3
  <2>2. Good(n)
    BY <2>1
  <2> DEFINE low == turns[n + 1].start - Window
             K == {k \in at[n] .. (M + 1) : k > M \/ lane[k].start >= low}
  <2>3. at[n + 1] = Turns!Min(K) /\ low \in Int
    <3>1. at[n + 1] = Turns!Min(K)
      BY <1>3, <2>1 DEF Onward
    <3>2. turns[n + 1].start \in Int
      BY <1>1, <2>1
    <3>3. QED
      BY <1>1, <3>1, <3>2
  <2>4. K \in SUBSET Nat /\ M + 1 \in K
    BY <2>2
  <2> HIDE DEF K
  <2>5. at[n + 1] \in K /\ \A k \in K : at[n + 1] <= k
    <3>1. \E x \in K : \A y \in K : x <= y
      BY <2>4, LeastStands
    <3>2. QED
      BY <2>3, <3>1 DEF Turns!Min
  <2>6. at[n + 1] \in at[n] .. (M + 1) /\ (at[n + 1] > M \/ lane[at[n + 1]].start >= low)
    BY <2>5 DEF K
  <2>7. at[n + 1] \in 1 .. (M + 1)
    BY <2>2, <2>6
  <2>8. ASSUME NEW k \in 1 .. M, k >= at[n + 1] PROVE lane[k].start >= low
    <3>1. at[n + 1] \in 1 .. M /\ lane[at[n + 1]].start >= low
      BY <2>6, <2>7, <2>8
    <3>2. lane[at[n + 1]].start <= lane[k].start
      <4>1. CASE at[n + 1] = k
        BY <4>1
      <4>2. CASE at[n + 1] < k
        BY <3>1, <4>2 DEF Rising
      <4>3. QED
        BY <2>8, <3>1, <4>1, <4>2
    <3>3. QED
      BY <2>3, <3>1, <3>2
  <2>9. ASSUME NEW k \in 1 .. M, k < at[n + 1] PROVE lane[k].start < low
    <3>1. CASE k < at[n]
      <4>1. n > 0 /\ n \in 1 .. N
        BY <1>3, <2>1, <3>1
      <4>2. ~ (k >= at[n])
        BY <2>2, <3>1
      <4>3. ~ (lane[k].start >= turns[n].start - Window)
        BY <2>2, <4>1, <4>2
      <4>4. turns[n].start <= turns[n + 1].start
        BY <1>1, <2>1, <4>1 DEF Turns!Following
      <4>5. turns[n].start \in Int /\ turns[n + 1].start \in Int
        BY <1>1, <2>1, <4>1
      <4>6. QED
        BY <1>1, <4>3, <4>4, <4>5
    <3>2. CASE k >= at[n]
      <4>1. k \in at[n] .. (M + 1) /\ ~ (k > M)
        BY <2>2, <3>2
      <4>2. k \notin K
        BY <2>5, <2>7, <2>9
      <4>3. ~ (lane[k].start >= low)
        BY <4>1, <4>2 DEF K
      <4>4. QED
        BY <2>3, <4>3
    <3>3. QED
      BY <2>2, <3>1, <3>2
  <2>10. \A k \in 1 .. M : k >= at[n + 1] <=> lane[k].start >= low
    <3> SUFFICES ASSUME NEW k \in 1 .. M PROVE k >= at[n + 1] <=> lane[k].start >= low
      OBVIOUS
    <3>1. k >= at[n + 1] \/ k < at[n + 1]
      BY <2>7
    <3>2. QED
      BY <2>3, <2>8, <2>9, <3>1
  <2>11. QED
    BY <2>7, <2>10
<1> HIDE DEF Good
<1>6. S = Nat
  <2>1. S \in SUBSET Nat
    OBVIOUS
  <2> HIDE DEF S
  <2>2. QED
    BY <1>4, <1>5, <2>1, Counting
<1>7. \A i \in 1 .. N : Good(i) /\ i > 0
  BY <1>3, <1>6
<1>8. QED
  BY <1>7 DEF Good

\* What the lemmas below say of a lane sorted for some turns.
SortedFor(turns, lane, s, from) ==
  /\ DOMAIN s = 1 .. Len(lane) /\ Len(s) = Len(lane) /\ Len(lane) \in Nat /\ DOMAIN lane = 1 .. Len(lane)
  /\ \A k \in DOMAIN s : s[k].start \in Int /\ s[k].end \in Int \union {Unknown}
  /\ \A n \in DOMAIN s : \E k \in DOMAIN lane : s[n] = lane[k]
  /\ \A k \in DOMAIN lane : \E n \in DOMAIN s : s[n] = lane[k]
  /\ \A i \in DOMAIN turns :
       /\ from[i] \in 1 .. (Len(lane) + 1)
       /\ \A k \in DOMAIN s : k >= from[i] <=> s[k].start >= turns[i].start - Window

LEMMA LaneStands ==
  ASSUME Turns!Timed, NEW turns, Turns!Lane(turns), Turns!Following(turns), NEW lane, Turns!Lane(lane)
  PROVE  SortedFor(turns, lane, Turns!InTimeOrder(lane), Turns!Cursor(turns, Turns!InTimeOrder(lane)))
<1> DEFINE s == Turns!InTimeOrder(lane)
           from == Turns!Cursor(turns, s)
<1>1. /\ DOMAIN s = 1 .. Len(lane) /\ Len(s) = Len(lane) /\ Rising(s)
      /\ \A n \in DOMAIN s : \E k \in DOMAIN lane : s[n] = lane[k]
      /\ \A k \in DOMAIN lane : \E n \in DOMAIN s : s[n] = lane[k]
  BY LaneSorted
<1> HIDE DEF s
<1>2. /\ Len(lane) \in Nat /\ DOMAIN lane = 1 .. Len(lane) /\ DOMAIN turns = 1 .. Len(turns)
      /\ \A k \in DOMAIN lane : lane[k].start \in Int /\ lane[k].end \in Int \union {Unknown}
  BY DEF Turns!Lane
<1>3. \A k \in DOMAIN s : s[k].start \in Int /\ s[k].end \in Int \union {Unknown}
  BY <1>1, <1>2
<1>4. \A i \in 1 .. Len(turns) :
        /\ from[i] \in 1 .. (Len(lane) + 1)
        /\ \A k \in 1 .. Len(lane) : k >= from[i] <=> s[k].start >= turns[i].start - Window
  BY <1>1, <1>2, <1>3, CursorStands
<1> HIDE DEF from
<1>5. SortedFor(turns, lane, s, from)
  BY <1>1, <1>2, <1>3, <1>4 DEF SortedFor
<1>6. QED
  BY <1>5 DEF s, from

LEMMA AnchorsHold ==
  ASSUME Turns!Timed, NEW turns, Turns!Lane(turns), Turns!Following(turns), NEW lane, Turns!Lane(lane)
  PROVE  Turns!AnchorsStand(turns, lane)
<1> DEFINE s == Turns!InTimeOrder(lane)
           from == Turns!Cursor(turns, s)
           near(i) == {k \in from[i] .. Len(s) : s[k].start <= turns[i].start + Window /\ Turns!Scores(turns[i], s[k])}
<1>1. SortedFor(turns, lane, s, from)
  BY LaneStands
<1>2. Turns!AlignSegments(turns, lane) = [i \in 1 .. Len(turns) |-> {s[k] : k \in Turns!BestOf(turns[i], s, near(i))}]
  BY DEF Turns!AlignSegments
<1>3. DOMAIN turns = 1 .. Len(turns) /\ Window \in Int /\ \A i \in DOMAIN turns : turns[i].start \in Int
  BY DEF Turns!Lane, Turns!Timed
<1> HIDE DEF s, from
<1>4. ASSUME NEW i \in DOMAIN turns PROVE near(i) = Turns!WindowOf(turns[i], s)
  <2> DEFINE W == Turns!WindowOf(turns[i], s)
  <2>1. W = {k \in DOMAIN s : Turns!Gap(turns[i], s[k]) <= Window /\ Turns!Scores(turns[i], s[k])}
    BY DEF Turns!WindowOf
  <2>2. /\ DOMAIN s = 1 .. Len(s) /\ Len(s) \in Nat /\ from[i] \in 1 .. (Len(s) + 1)
        /\ \A k \in DOMAIN s : s[k].start \in Int
        /\ \A k \in DOMAIN s : k >= from[i] <=> s[k].start >= turns[i].start - Window
    BY <1>1 DEF SortedFor
  <2>3. ASSUME NEW k \in DOMAIN s
        PROVE  Turns!Gap(turns[i], s[k]) <= Window <=>
                 s[k].start >= turns[i].start - Window /\ s[k].start <= turns[i].start + Window
    <3>1. s[k].start \in Int /\ turns[i].start \in Int /\ Window \in Int
      BY <1>3, <2>2
    <3>2. Turns!Gap(turns[i], s[k]) =
            IF turns[i].start >= s[k].start THEN turns[i].start - s[k].start ELSE s[k].start - turns[i].start
      BY DEF Turns!Gap
    <3>3. QED
      BY <3>1, <3>2
  <2> HIDE DEF W
  <2>4. \A k : k \in from[i] .. Len(s) <=> k \in DOMAIN s /\ k >= from[i]
    BY <2>2
  <2>5. ASSUME NEW k PROVE k \in near(i) <=> k \in W
    BY <2>1, <2>2, <2>3, <2>4
  <2>6. QED
    BY <2>5 DEF W
<1> HIDE DEF near
<1>5. \A i \in DOMAIN turns :
        Turns!AlignSegments(turns, lane)[i] =
          {s[k] : k \in Turns!BestOf(turns[i], s, Turns!WindowOf(turns[i], s))}
  BY <1>2, <1>3, <1>4
<1>6. QED
  BY <1>5 DEF Turns!AnchorsStand, s

\* Some of finitely many numbers is the greatest.
LEMMA Greatest ==
  ASSUME NEW M \in Nat, NEW J \in SUBSET (1 .. M), J # {}, NEW f, \A k \in J : f[k] \in Int
  PROVE  \E k \in J : \A l \in J : f[l] <= f[k]
<1> DEFINE Good(n) == J \intersect (1 .. n) # {} =>
                        \E k \in J \intersect (1 .. n) : \A l \in J \intersect (1 .. n) : f[l] <= f[k]
           S == {n \in Nat : Good(n)}
<1>1. 0 \in S
  OBVIOUS
<1>2. ASSUME NEW n \in S PROVE n + 1 \in S
  <2> DEFINE B == J \intersect (1 .. n)
             C == J \intersect (1 .. (n + 1))
  <2>1. n \in Nat /\ \A k \in C : k \in B \/ k = n + 1
    OBVIOUS
  <2>2. B \in SUBSET C /\ \A k \in C : f[k] \in Int
    OBVIOUS
  <2>3. B # {} => \E k \in B : \A l \in B : f[l] <= f[k]
    OBVIOUS
  <2> HIDE DEF B, C
  <2> SUFFICES ASSUME C # {} PROVE \E k \in C : \A l \in C : f[l] <= f[k]
    BY DEF C
  <2>4. CASE n + 1 \notin C
    BY <2>1, <2>2, <2>3, <2>4
  <2>5. CASE n + 1 \in C /\ B = {}
    <3>1. \A l \in C : l = n + 1 /\ f[l] \in Int
      BY <2>1, <2>2, <2>5
    <3>2. QED
      BY <2>5, <3>1
  <2>6. CASE n + 1 \in C /\ B # {}
    <3>1. PICK k \in B : \A l \in B : f[l] <= f[k]
      BY <2>3, <2>6
    <3>2. k \in C /\ f[k] \in Int /\ f[n + 1] \in Int
      BY <2>2, <2>6
    <3>3. CASE f[n + 1] <= f[k]
      <4>1. \A l \in C : f[l] <= f[k]
        BY <2>1, <3>1, <3>3
      <4>2. QED
        BY <3>2, <4>1
    <3>4. CASE f[k] <= f[n + 1]
      <4>1. ASSUME NEW l \in C PROVE f[l] <= f[n + 1]
        <5>1. CASE l = n + 1
          BY <3>2, <5>1
        <5>2. CASE l \in B
          <6>1. f[l] <= f[k] /\ f[l] \in Int
            BY <2>2, <3>1, <5>2
          <6>2. QED
            BY <3>2, <3>4, <6>1
        <5>3. QED
          BY <2>1, <5>1, <5>2
      <4>2. QED
        BY <2>6, <4>1
    <3>5. QED
      BY <3>2, <3>3, <3>4
  <2>7. QED
    BY <2>4, <2>5, <2>6
<1> HIDE DEF Good
<1>3. S = Nat
  <2>1. S \in SUBSET Nat
    OBVIOUS
  <2> HIDE DEF S
  <2>2. QED
    BY <1>1, <1>2, <2>1, Counting
<1>4. Good(M)
  BY <1>3
<1>5. J \intersect (1 .. M) = J
  OBVIOUS
<1>6. QED
  BY <1>4, <1>5 DEF Good

LEMMA EndsHold ==
  ASSUME Turns!Timed, NEW turns, Turns!Lane(turns), Turns!Following(turns), NEW lane, Turns!Lane(lane)
  PROVE  Turns!EndsStand(turns, lane)
<1> DEFINE s == Turns!InTimeOrder(lane)
           from == Turns!Cursor(turns, s)
           cues(i) == {j \in from[i] .. Len(s) : /\ s[j].start <= Turns!UpTo(turns, i) /\ s[j].end # Unknown
                                                  /\ Turns!Scores(turns[i], s[j])}
           ends(i) == {s[k].end : k \in cues(i)}
           measured == Turns!MergeVttEndTimings(turns, lane)
           N == Len(turns)
<1>1. SortedFor(turns, lane, s, from)
  BY LaneStands
<1>2. measured = [i \in 1 .. N |-> IF ends(i) = {} THEN Unknown ELSE Turns!Max(ends(i))]
  BY DEF Turns!MergeVttEndTimings
<1>3. /\ DOMAIN turns = 1 .. N /\ N \in Nat /\ Window \in Int /\ MaxSegment \in Int /\ Unknown \notin Int
      /\ \A i \in DOMAIN turns : turns[i].start \in Int /\ turns[i].end \in Int \union {Unknown}
  BY DEF Turns!Lane, Turns!Timed
<1> HIDE DEF s, from
<1>4. /\ DOMAIN s = 1 .. Len(s) /\ Len(s) \in Nat /\ DOMAIN lane = DOMAIN s
      /\ \A k \in DOMAIN s : s[k].start \in Int /\ s[k].end \in Int \union {Unknown}
      /\ \A n \in DOMAIN s : \E k \in DOMAIN lane : s[n] = lane[k]
      /\ \A k \in DOMAIN lane : \E n \in DOMAIN s : s[n] = lane[k]
  BY <1>1 DEF SortedFor
<1>5. ASSUME NEW i \in DOMAIN turns
      PROVE  \A j : j \in cues(i) <=> /\ j \in DOMAIN s /\ s[j].start >= turns[i].start - Window
                                      /\ s[j].start <= Turns!UpTo(turns, i) /\ s[j].end # Unknown
                                      /\ Turns!Scores(turns[i], s[j])
  <2>1. /\ from[i] \in 1 .. (Len(s) + 1)
        /\ \A k \in DOMAIN s : k >= from[i] <=> s[k].start >= turns[i].start - Window
    BY <1>1 DEF SortedFor
  <2>2. \A k : k \in from[i] .. Len(s) <=> k \in DOMAIN s /\ k >= from[i]
    BY <1>4, <2>1
  <2>3. QED
    BY <2>1, <2>2
<1>6. ASSUME NEW i \in DOMAIN turns PROVE ends(i) = Turns!CuesOf(turns, i, lane)
  <2> DEFINE given == {j \in DOMAIN lane : /\ lane[j].start >= turns[i].start - Window
                                           /\ lane[j].start <= Turns!UpTo(turns, i) /\ Turns!Scores(turns[i], lane[j])}
             C == Turns!CuesOf(turns, i, lane)
  <2>1. C = {lane[k].end : k \in given} \ {Unknown}
    BY DEF Turns!CuesOf
  <2> HIDE DEF C, cues
  <2>2. ASSUME NEW e, e \in ends(i) PROVE e \in C
    <3>1. PICK k \in cues(i) : e = s[k].end
      BY <2>2
    <3>2. k \in DOMAIN s /\ s[k].end # Unknown
      BY <1>5
    <3>3. PICK j \in DOMAIN lane : lane[j] = s[k]
      BY <1>4, <3>2
    <3>4. j \in given
      BY <1>5, <3>3
    <3>5. QED
      BY <2>1, <3>1, <3>2, <3>3, <3>4
  <2>3. ASSUME NEW e \in C PROVE e \in ends(i)
    <3>1. PICK j \in given : e = lane[j].end /\ e # Unknown
      BY <2>1
    <3>2. PICK k \in DOMAIN s : s[k] = lane[j]
      BY <1>4
    <3>3. k \in cues(i)
      BY <1>5, <3>1, <3>2
    <3>4. QED
      BY <3>1, <3>2, <3>3
  <2>4. QED
    BY <2>2, <2>3 DEF C
<1>7. ASSUME NEW i \in DOMAIN turns PROVE measured[i] \in Int \union {Unknown}
  <2>1. CASE ends(i) = {}
    BY <1>2, <1>3, <2>1
  <2>2. CASE ends(i) # {}
    <3> DEFINE J == cues(i)
               f == [k \in DOMAIN s |-> s[k].end]
    <3>1. J \in SUBSET (1 .. Len(s)) /\ \A k \in J : f[k] = s[k].end /\ s[k].end \in Int
      BY <1>4, <1>5
    <3>2. J # {}
      BY <2>2
    <3> HIDE DEF J, f
    <3>3. PICK k \in J : \A l \in J : f[l] <= f[k]
      <4>1. Len(s) \in Nat /\ J \in SUBSET (1 .. Len(s)) /\ \A k \in J : f[k] \in Int
        BY <1>4, <3>1
      <4>2. QED
        BY <3>2, <4>1, Greatest
    <3>4. s[k].end \in ends(i) /\ \A e \in ends(i) : e \in Int /\ s[k].end >= e
      <4>1. \A l \in J : s[l].end <= s[k].end /\ s[l].end \in Int /\ s[k].end \in Int
        BY <3>1, <3>3
      <4>2. \A e \in ends(i) : \E l \in J : e = s[l].end
        BY DEF J
      <4>3. s[k].end \in ends(i)
        BY <3>3 DEF J
      <4>4. QED
        BY <4>1, <4>2, <4>3
    <3> HIDE DEF ends
    <3>5. Turns!Max(ends(i)) \in ends(i)
      BY <3>4 DEF Turns!Max
    <3>6. QED
      BY <1>2, <1>3, <2>2, <3>4, <3>5
  <2>3. QED
    BY <2>1, <2>2
<1> HIDE DEF ends
<1>8. \A i \in DOMAIN turns :
        measured[i] = IF Turns!CuesOf(turns, i, lane) = {} THEN Unknown ELSE Turns!Max(Turns!CuesOf(turns, i, lane))
  BY <1>2, <1>3, <1>6
<1> HIDE DEF measured
<1>9. \A a, b \in Int : Turns!Max({a, b}) \in Int /\ Turns!Max({a, b}) >= a /\ Turns!Max({a, b}) >= b
                       /\ Turns!Max({a, b}) \in {a, b}
  <2> SUFFICES ASSUME NEW a \in Int, NEW b \in Int
               PROVE  /\ Turns!Max({a, b}) \in {a, b} /\ Turns!Max({a, b}) >= a /\ Turns!Max({a, b}) >= b
    OBVIOUS
  <2>1. \E x \in {a, b} : \A y \in {a, b} : x >= y
    OBVIOUS
  <2>2. QED
    BY <2>1 DEF Turns!Max
<1>10. \A a, b \in Int : Turns!Min({a, b}) \in Int /\ Turns!Min({a, b}) <= b
  <2> SUFFICES ASSUME NEW a \in Int, NEW b \in Int PROVE Turns!Min({a, b}) \in {a, b} /\ Turns!Min({a, b}) <= b
    OBVIOUS
  <2>1. \E x \in {a, b} : \A y \in {a, b} : x <= y
    OBVIOUS
  <2>2. QED
    BY <2>1 DEF Turns!Min
<1> DEFINE resolved == Turns!ResolveEndTimes(turns, measured)
<1>11. ASSUME NEW i \in DOMAIN turns
       PROVE  /\ resolved[i] >= turns[i].start
              /\ measured[i] = Unknown /\ turns[i].end = Unknown /\ i < N =>
                   resolved[i] <= Turns!Max({turns[i].start, turns[i + 1].start})
  <2> DEFINE from0 == turns[i].start
             upTo == Turns!UpTo(turns, i)
             least == Turns!Min({from0 + MaxSegment, upTo})
  <2>1. resolved[i] = IF measured[i] # Unknown THEN Turns!Max({measured[i], from0})
                      ELSE IF turns[i].end # Unknown THEN Turns!Max({turns[i].end, from0})
                      ELSE Turns!Max({from0, least})
    BY <1>3 DEF Turns!ResolveEndTimes, Turns!Capped
  <2>2. from0 \in Int /\ measured[i] \in Int \union {Unknown} /\ turns[i].end \in Int \union {Unknown}
    BY <1>3, <1>7
  <2>3. upTo \in Int /\ (i < N => upTo = turns[i + 1].start)
    <3>1. i < N => i + 1 \in DOMAIN turns
      BY <1>3
    <3>2. upTo = IF i < N THEN turns[i + 1].start ELSE turns[i].start + MaxSegment
      BY DEF Turns!UpTo
    <3>3. QED
      BY <1>3, <3>1, <3>2
  <2> HIDE DEF resolved, from0, upTo
  <2>4. from0 + MaxSegment \in Int
    BY <1>3, <2>2
  <2>5. least \in Int /\ least <= upTo
    BY <1>10, <2>3, <2>4
  <2> HIDE DEF least
  <2>6. resolved[i] >= from0
    BY <1>9, <2>1, <2>2, <2>5
  <2>7. Turns!Max({from0, least}) <= Turns!Max({from0, upTo})
    <3>1. /\ Turns!Max({from0, least}) \in {from0, least} /\ Turns!Max({from0, upTo}) >= from0
          /\ Turns!Max({from0, upTo}) >= upTo /\ Turns!Max({from0, upTo}) \in Int
      BY <1>9, <2>2, <2>3, <2>5
    <3>2. QED
      BY <2>2, <2>3, <2>5, <3>1
  <2>8. ASSUME measured[i] = Unknown, turns[i].end = Unknown, i < N
        PROVE  resolved[i] <= Turns!Max({from0, turns[i + 1].start})
    BY <2>1, <2>3, <2>7, <2>8
  <2>9. QED
    BY <2>6, <2>8 DEF from0
<1> HIDE DEF resolved
<1>12. QED
  BY <1>8, <1>11 DEF Turns!EndsStand, resolved, measured

\* Whatever the turns and the lanes, each turn in time order is anchored to the best of
\* its own window and ends with the latest of its own cues, or by the next turn's start:
\* the forward cursor skips nothing (pipeline/alignment.py align_segments,
\* merge_vtt_end_timings, resolve_end_times).
THEOREM AnchorsAndEnds == Spec => []AnchorsAndEndsStand
<1> DEFINE Inv == scene = "align" => input \in Inputs["align"] /\ "align" \in DOMAIN Inputs
<1>1. Init => Inv
  BY DEF Init, Components
<1>2. Inv /\ [Next]_all => Inv'
  BY DEF Next, all
<1>3. Inv => AnchorsAndEndsStand
  BY LanesAreTimed, AnchorsHold, EndsHold DEF AnchorsAndEndsStand
<1>4. QED
  BY <1>1, <1>2, <1>3, PTL DEF Spec
=============================================================================
