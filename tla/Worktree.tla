------------------------------ MODULE Worktree ------------------------------
(***************************************************************************)
(* A private compose stack for every linked worktree.  A checkout's slug   *)
(* names its directory and its compose project; its record (.env.worktree) *)
(* carries the project's name, a port base and the incarnation's id, which *)
(* is the label of every container and volume the stack was started with.  *)
(* make targets of several operators run side by side, git creates, moves  *)
(* and removes directories, Docker comes and goes, and one lock file keeps *)
(* allocation, claims and teardowns apart.                                 *)
(***************************************************************************)
EXTENDS Integers, FiniteSets

CONSTANTS Slugs, Rank,            \* Rank: the order of the directory listing
          Older,                  \* slugs that may have a project from before labels
          Bases, Home(_),         \* 0..n-1; the base a slug's name hashes to
          Commands, None,
          MaxIds, MaxRuns, MaxMoves, MaxLosses   \* bounds: records, commands, operators' moves, mishaps

\* No command is the free lock.
Named == None \notin Commands

VARIABLES dir,       \* the checkouts that exist
          record,    \* .env.worktree of each: [name, base, id]
          stack,     \* docker's containers and volumes, by project
          docker, lock,
          run,       \* the commands
          counts     \* [ids, runs, moves, losses]
vars == <<dir, record, stack, docker, lock, run, counts>>

Gone == [boxes |-> {}, volumes |-> {}, base |-> None, odd |-> FALSE]
Idle == [at |-> "idle", kind |-> None, slug |-> None, held |-> None, todo |-> {}, seen |-> [s \in {} |-> {}]]
Unlabelled == 0
Ids(s) == stack[s].boxes \union stack[s].volumes
Init ==
  /\ dir = {} /\ record = [s \in Slugs |-> None] /\ docker = TRUE /\ lock = None
  /\ stack \in [Slugs -> {Gone, [Gone EXCEPT !.volumes = {Unlabelled}], [Gone EXCEPT !.volumes = {Unlabelled}, !.odd = TRUE]}]
  /\ \A s \in Slugs \ Older : stack[s] = Gone
  /\ run = [c \in Commands |-> Idle]
  /\ counts = [ids |-> 0, runs |-> 0, moves |-> 0, losses |-> 0]

-----------------------------------------------------------------------------
(* What a command reads: the record, its siblings', docker's inventory.    *)

\* A record is its directory's own, or every reader refuses it by name.
ValidateEnvFile(s) == record[s] # None /\ record[s].name = s
Identity(s) == s \in dir /\ ValidateEnvFile(s)
\* One checkout per declared name: the first the listing meets.
DeclaredOwners(name) ==
  LET declaring == {d \in dir : record[d] # None /\ record[d].name = name}
  IN {d \in declaring : \A e \in declaring : Rank[d] <= Rank[e]}
\* The containers' working directory, or else the place the name points at.
WorktreeStacks == [s \in {t \in Slugs : stack[t] # Gone} |-> {s} \union DeclaredOwners(s)]

Declared(s) == {record[d].base : d \in {e \in dir \ {s} : record[e] # None}}
Bound == IF docker THEN {stack[s].base : s \in Slugs} \ {None} ELSE {}
PortIsFree(b) == b \notin Bound
BoundOnly(s) == {}
TakenPorts(s) == Declared(s)
AllocatePorts(s) ==
  LET free == {b \in Bases : b \notin TakenPorts(s) /\ PortIsFree(b)}
      turns(b) == (b - Home(s)) % Cardinality(Bases)
  IN {b \in free : \A other \in free : turns(b) <= turns(other)}

At(c, place) == run[c].at = place
Goes(c, place) == run' = [run EXCEPT ![c].at = place]
Ends(c) == run' = [run EXCEPT ![c] = Idle]
Takes(c) == lock = None /\ lock' = c
Down(s) == stack' = [stack EXCEPT ![s] = Gone]
Started(kind, first) ==
  /\ counts.runs < MaxRuns /\ counts' = [counts EXCEPT !.runs = @ + 1]
  /\ \E c \in Commands, s \in Slugs : At(c, "idle") /\ run' = [run EXCEPT ![c] = [Idle EXCEPT !.at = first, !.kind = kind, !.slug = s]]
  /\ UNCHANGED <<dir, record, stack, docker, lock>>

-----------------------------------------------------------------------------
(* make worktree: a stale project of that name goes first, then git adds   *)
(* the checkout, then the one start path runs.                             *)

MakeWorktree == Started("worktree", "making")
Sweeping == Started("prune", "sweep")
Starting == Started("start", "provision")
Removing == Started("remove", "leaving")

Refused(c) ==
  /\ At(c, "making") /\ run[c].slug \in dir /\ Ends(c)
  /\ UNCHANGED <<dir, record, stack, docker, lock, counts>>
Looked(c) ==
  /\ At(c, "making") /\ run[c].slug \notin dir /\ Goes(c, IF docker THEN "sweep" ELSE "adding")
  /\ UNCHANGED <<dir, record, stack, docker, lock, counts>>

\* The inventory and every teardown hold the lock; --project asks for one name.
PruneInventory(c) ==
  /\ At(c, "sweep")
  /\ \/ /\ docker /\ Takes(c)
        /\ LET asked == IF run[c].kind = "worktree" THEN {run[c].slug} ELSE Slugs
               seen == [s \in asked \intersect DOMAIN WorktreeStacks |-> WorktreeStacks[s]]
           IN run' = [run EXCEPT ![c].at = "judge", ![c].seen = seen, ![c].todo = DOMAIN seen]
     \/ ~docker /\ Ends(c) /\ UNCHANGED lock
  /\ UNCHANGED <<dir, record, stack, docker, counts>>

AnotherOwner(c, s) == (run[c].seen[s] \ {s}) \intersect dir # {}
PresentOwner(c, s) == run[c].seen[s] \intersect dir # {}
Passed(c, s) == run' = [run EXCEPT ![c].todo = @ \ {s}, ![c].at = "judge"]
\* An owner or an unknown layout is skipped, and is an error for --project.
PruneJudges(c) ==
  /\ At(c, "judge")
  /\ \E s \in run[c].todo :
       IF PresentOwner(c, s) \/ stack[s].odd
         THEN IF run[c].kind = "worktree" THEN Ends(c) /\ lock' = None ELSE Passed(c, s) /\ UNCHANGED lock
         ELSE run' = [run EXCEPT ![c].at = "again", ![c].held = s] /\ UNCHANGED lock
  /\ UNCHANGED <<dir, record, stack, docker, counts>>
\* Ownership once more, then the teardown; a failed one does not stop the sweep.
OwnerAppeared(c, s) == PresentOwner(c, s)
PruneDown(c) ==
  /\ At(c, "again")
  /\ LET s == run[c].held
     IN Passed(c, s) /\ IF OwnerAppeared(c, s) \/ ~docker THEN UNCHANGED stack ELSE Down(s)
  /\ UNCHANGED <<dir, record, docker, lock, counts>>
PruneEnds(c) ==
  /\ At(c, "judge") /\ run[c].todo = {} /\ lock' = None
  /\ IF run[c].kind = "worktree" THEN Goes(c, "adding") ELSE Ends(c)
  /\ UNCHANGED <<dir, record, stack, docker, counts>>

GitAdds(c) ==
  /\ At(c, "adding")
  /\ IF run[c].slug \in dir THEN Ends(c) /\ UNCHANGED dir ELSE Goes(c, "provision") /\ dir' = dir \union {run[c].slug}
  /\ UNCHANGED <<record, stack, docker, lock, counts>>

-----------------------------------------------------------------------------
(* provision: a valid record is kept, an absent one written once.          *)

ProvisionLooks(c) ==
  /\ At(c, "provision")
  /\ LET s == run[c].slug
     IN IF s \notin dir THEN Ends(c)
        ELSE IF record[s] = None THEN Goes(c, "waiting")
        ELSE IF ValidateEnvFile(s) THEN Goes(c, "parse") ELSE Ends(c)
  /\ UNCHANGED <<dir, record, stack, docker, lock, counts>>

\* Looked at again once the lock is held: a waiter keeps the first one's record.
PublishedMeanwhile(s) == record[s] # None
ProvisionAllocates(c) ==
  /\ At(c, "waiting") /\ lock = None
  /\ LET s == run[c].slug
     IN IF PublishedMeanwhile(s) THEN UNCHANGED lock /\ (IF ValidateEnvFile(s) THEN Goes(c, "parse") ELSE Ends(c))
        ELSE \/ AllocatePorts(s) = {} /\ Ends(c) /\ UNCHANGED lock
             \/ \E b \in AllocatePorts(s) : Takes(c) /\ run' = [run EXCEPT ![c].at = "publish", ![c].held = b]
  /\ UNCHANGED <<dir, record, stack, docker, counts>>
ProvisionPublishes(c) ==
  /\ At(c, "publish") /\ counts.ids < MaxIds /\ lock' = None
  /\ LET s == run[c].slug
     IN IF s \notin dir THEN Ends(c) /\ UNCHANGED <<record, counts>>
        ELSE /\ record' = [record EXCEPT ![s] = [name |-> s, base |-> run[c].held, id |-> counts.ids + 1]]
             /\ counts' = [counts EXCEPT !.ids = @ + 1] /\ Goes(c, "parse")
  /\ UNCHANGED <<dir, stack, docker>>

-----------------------------------------------------------------------------
(* infra-up: make reads the record, claims the project's name, checks that *)
(* the record is still the one it read, and starts compose.                *)

MakeParses(c) ==
  /\ At(c, "parse")
  /\ IF Identity(run[c].slug) /\ docker THEN run' = [run EXCEPT ![c].at = "claim", ![c].held = record[run[c].slug]] ELSE Ends(c)
  /\ UNCHANGED <<dir, record, stack, docker, lock, counts>>

\* Kept, if every container and volume carries the record's id; refused, if
\* another checkout that exists owns it or nobody knows its layout; else stale.
Claim(c) ==
  /\ At(c, "claim")
  /\ LET s == run[c].slug
     IN IF ~Identity(s) THEN Ends(c) /\ UNCHANGED lock
        ELSE /\ lock = None
             /\ IF ~docker THEN Ends(c) /\ UNCHANGED lock
                ELSE IF stack[s] = Gone THEN Goes(c, "assert") /\ UNCHANGED lock
                ELSE IF (WorktreeStacks[s] \ {s}) \intersect dir # {} \/ stack[s].odd THEN Ends(c) /\ UNCHANGED lock
                ELSE IF Ids(s) = {record[s].id} THEN Goes(c, "assert") /\ UNCHANGED lock
                ELSE Goes(c, "stale") /\ lock' = c
  /\ UNCHANGED <<dir, record, stack, docker, counts>>
ClaimDown(c) ==
  /\ At(c, "stale") /\ lock' = None
  /\ IF docker THEN Down(run[c].slug) /\ Goes(c, "assert") ELSE Ends(c) /\ UNCHANGED stack
  /\ UNCHANGED <<dir, record, docker, counts>>

AssertIdentity(c) == Identity(run[c].slug) /\ record[run[c].slug] = run[c].held
Asserts(c) ==
  /\ At(c, "assert") /\ (IF AssertIdentity(c) THEN Goes(c, "up") ELSE Ends(c))
  /\ UNCHANGED <<dir, record, stack, docker, lock, counts>>

\* Volumes are made first and keep the label they were made with; containers
\* are made anew, and not at all when somebody else holds a port.
ComposeUp(c) ==
  /\ At(c, "up") /\ Ends(c)
  /\ LET s == run[c].slug
         volumes == IF stack[s].volumes = {} THEN {run[c].held.id} ELSE stack[s].volumes
         busy == \E t \in Slugs \ {s} : stack[t].base = run[c].held.base
     IN IF ~docker THEN UNCHANGED stack
        ELSE stack' = [stack EXCEPT ![s].volumes = volumes,
                                    ![s].boxes = IF busy THEN @ ELSE {run[c].held.id},
                                    ![s].base = IF busy THEN @ ELSE run[c].held.base]
  /\ UNCHANGED <<dir, record, docker, lock, counts>>

-----------------------------------------------------------------------------
(* worktree-remove and worktree-prune: the record is read, git removes the *)
(* checkout, and what that record names goes down.                         *)

ReadsItsRecord(c) ==
  /\ At(c, "leaving")
  /\ LET s == run[c].slug
     IN IF s \in dir /\ (record[s] = None \/ ValidateEnvFile(s))
          THEN run' = [run EXCEPT ![c].at = "removing", ![c].held = IF record[s] = None THEN None ELSE record[s].id]
          ELSE Ends(c)
  /\ UNCHANGED <<dir, record, stack, docker, lock, counts>>
GitRemoves(c) ==
  /\ At(c, "removing")
  /\ \/ Ends(c) /\ UNCHANGED <<dir, record>>            \* uncommitted changes
     \/ /\ run[c].slug \in dir /\ dir' = dir \ {run[c].slug}
        /\ record' = [record EXCEPT ![run[c].slug] = None] /\ Goes(c, "inventory")
  /\ UNCHANGED <<stack, docker, lock, counts>>
IdsDisagree(c, s) == run[c].held # None /\ Ids(s) # {run[c].held}
DownInventory(c) ==
  /\ At(c, "inventory")
  /\ IF ~docker THEN Ends(c) /\ UNCHANGED lock
     ELSE LET s == run[c].slug
          IN /\ lock = None
             /\ IF stack[s] = Gone \/ stack[s].odd \/ WorktreeStacks[s] # {s} \/ IdsDisagree(c, s)
                  THEN Ends(c) /\ UNCHANGED lock
                  ELSE Goes(c, "downing") /\ lock' = c
  /\ UNCHANGED <<dir, record, stack, docker, counts>>
DownRuns(c) ==
  /\ At(c, "downing") /\ lock' = None /\ Ends(c)
  /\ IF docker THEN Down(run[c].slug) ELSE UNCHANGED stack
  /\ UNCHANGED <<dir, record, docker, counts>>

-----------------------------------------------------------------------------
(* What else happens: operators, and the machine.                          *)

Mishap == counts.losses < MaxLosses /\ counts' = [counts EXCEPT !.losses = @ + 1]
Dies(c) ==
  /\ ~At(c, "idle") /\ Mishap /\ Ends(c) /\ lock' = (IF lock = c THEN None ELSE lock)
  /\ UNCHANGED <<dir, record, stack, docker>>
\* The directory is removed by hand; or the record is, as its own remedy says.
DeletedByHand(s) ==
  /\ s \in dir /\ Mishap /\ record' = [record EXCEPT ![s] = None]
  /\ dir' = dir \ {s} \/ (dir' = dir /\ record[s] # None)
  /\ UNCHANGED <<stack, docker, lock, run>>
DockerFlips == Mishap /\ docker' = ~docker /\ UNCHANGED <<dir, record, stack, lock, run>>
InfraDown(s) ==
  /\ Identity(s) /\ docker /\ stack[s].boxes # {} /\ Mishap
  /\ stack' = [stack EXCEPT ![s].boxes = {}, ![s].base = None]
  /\ UNCHANGED <<dir, record, docker, lock, run>>
\* git worktree move, while no command runs: the record goes along, unchanged.
GitMoves(s, t) ==
  /\ \A c \in Commands : At(c, "idle")
  /\ s \in dir /\ t \notin dir /\ counts.moves < MaxMoves /\ counts' = [counts EXCEPT !.moves = @ + 1]
  /\ dir' = (dir \ {s}) \union {t} /\ record' = [record EXCEPT ![t] = record[s], ![s] = None]
  /\ UNCHANGED <<stack, docker, lock, run>>

Works(c) ==
  \/ Refused(c) \/ Looked(c) \/ PruneInventory(c) \/ PruneJudges(c) \/ PruneDown(c) \/ PruneEnds(c) \/ GitAdds(c)
  \/ ProvisionLooks(c) \/ ProvisionAllocates(c) \/ ProvisionPublishes(c)
  \/ MakeParses(c) \/ Claim(c) \/ ClaimDown(c) \/ Asserts(c) \/ ComposeUp(c)
  \/ ReadsItsRecord(c) \/ GitRemoves(c) \/ DownInventory(c) \/ DownRuns(c) \/ Dies(c)
Next ==
  \/ MakeWorktree \/ Sweeping \/ Starting \/ Removing
  \/ \E c \in Commands : Works(c)
  \/ \E s \in Slugs : DeletedByHand(s) \/ InfraDown(s)
  \/ DockerFlips
  \/ \E s, t \in Slugs : GitMoves(s, t)
Spec == Init /\ [][Next]_vars

-----------------------------------------------------------------------------
\* Ports are apart and stay so: two checkouts with a record never declare
\* the same base, however their provisions overlap and whether or not the
\* other one's stack is up to be seen by a bind (allocate_ports).
PortsAreApart == \A s, t \in dir : s # t /\ record[s] # None /\ record[t] # None => record[s].base # record[t].base

\* The checkouts that exist and whose id is all a stack carries: what claim keeps.
Carries(s) == {d \in dir : record[d] # None /\ record[d].name = s /\ Ids(s) = {record[d].id}}
Unproven(c, s) == At(c, "downing") /\ run[c].slug = s /\ run[c].held = None
\* A stack that is wholly a live checkout's is torn down by nobody else: not by a
\* sweep, not by another checkout's claim, not by a removal that read an earlier
\* incarnation's id (the two ownership layers).  Until a checkout is moved: one
\* that is goes on owning its stack under its old name.
LiveStands ==
  \A s \in Slugs : counts'.moves = 0 /\ stack[s] # Gone /\ stack'[s] = Gone =>
    /\ Carries(s) \subseteq {s}
    /\ Carries(s) # {} =>
         \E c \in Commands : (At(c, "stale") /\ run[c].slug = s) \/ Unproven(c, s)
LiveStacksStand == [][LiveStands]_vars

\* The same of a stack that carries a live checkout's id among others.
Among(s) == {d \in dir : record[d] # None /\ record[d].name = s /\ record[d].id \in Ids(s)}
MixedStands ==
  \A s \in Slugs : stack[s] # Gone /\ stack'[s] = Gone /\ Among(s) # {} =>
    \E c \in Commands : (At(c, "stale") /\ run[c].slug = s) \/ Unproven(c, s)
MixedStacksStand == [][MixedStands]_vars
=============================================================================
