------------------------------ MODULE MintDrop ------------------------------
(***************************************************************************)
(* The two local producers of source drops, `mint-drop` and                *)
(* `youtube-drop` (one video or a playlist): both assemble in staging      *)
(* under a lock on the source's identity, finalize with one rename, and    *)
(* hand the drop to intake.  A run is a process; runs share the drops root *)
(* and nothing else.                                                       *)
(*                                                                         *)
(* A finalized drop stands at a target: the root it was placed in, its     *)
(* title (which a caller may spell differently each time) and the digest   *)
(* of its source.  What stood there before is a directory of the right     *)
(* name that is unreadable, of another source, or of an earlier release.   *)
(***************************************************************************)
EXTENDS VideoInfo, Functions

CONSTANTS Runs,
          Contents,      \* what the operator's file may hold: its own identity
          Videos,        \* published videos
          NotVideo,      \* a playlist row that names none
          OwnFile,       \* the one entry of a mint
          Listings,      \* the rows of what youtube-drop is given
          Infos,         \* what yt-dlp may report of a video
          Supplies,      \* what mint-drop may be given: files and two dates
          Roots,         \* the configured drops root, and a directory below it
          Titles,
          Shard,         \* the lock file of each source: several may share one
          Free, Torn,
          MaxChanges, MaxDeaths   \* bounds: edits of the file, killed runs

Sources == Contents \union Videos

Targets == [root : Roots, title : Titles, source : Sources]

\* What the producers' arguments are: neither a run nor a root is the absence of one,
\* every source has a lock file, and what is asked for are the operator's file or rows
\* of videos.
Configured ==
  /\ Free \notin Runs \union Roots
  /\ DOMAIN Shard = Sources
  /\ OwnFile \notin Videos \union {NotVideo}
  /\ \A listing \in Listings : listing \in Seq(Videos \union {NotVideo}) /\ listing # <<>>

VARIABLES file,        \* what the operator's file holds now
          drops,       \* target -> what stands there: its kind, digest and bytes
          stagingDirs, \* roots with a `.staging` directory
          staged,      \* run -> the copy it has staged
          litter,      \* roots whose staging holds what a killed run left
          lock,        \* shard -> the run that holds it
          run,         \* each run's arguments, position and outcomes
          jobs,        \* sources intake has a job for
          changes, deaths

shared == <<drops, stagingDirs, staged, litter, lock>>
vars == <<file, drops, stagingDirs, staged, litter, lock, run, jobs, changes, deaths>>

NotStaged == [root |-> Free, bytes |-> Free]
Unstarted == [at |-> "rest", entries |-> <<>>, pos |-> 0, root |-> Free, title |-> Free,
              source |-> Free, sha |-> Free, existed |-> FALSE, found |-> Free,
              outcome |-> "none", failed |-> FALSE, posted |-> TRUE]

Legacy == {"unreadable", "foreign", "incomplete"}
Init ==
  /\ file \in Contents
  /\ drops \in {<<>>} \union
       UNION {[{t} -> [kind : Legacy, sha : {t.source}, bytes : {t.source}]] : t \in Targets}
  /\ stagingDirs = {} /\ staged = [r \in Runs |-> NotStaged] /\ litter = {}
  /\ lock = [s \in Range(Shard) |-> Free]
  /\ run = [r \in Runs |-> Unstarted]
  /\ jobs = {} /\ changes = 0 /\ deaths = 0

Goto(r, at) == run' = [run EXCEPT ![r].at = at]
\* How an entry ends, and what has to be done first: "clean" what was staged, or
\* nothing more than to answer.
Ends(r, outcome, next) == [run EXCEPT ![r].outcome = outcome, ![r].at = next]
Refuse(r) == run' = Ends(r, "refused", "outcome")
IsMint(r) == run[r].entries = <<OwnFile>>

-----------------------------------------------------------------------------
(* What each producer does before it mints.                                *)

Starts(r, entries) ==
  \E root \in Roots, title \in Titles :
    run' = [run EXCEPT ![r] = [Unstarted EXCEPT !.at = "entry", !.entries = entries,
                                                !.root = root, !.title = title]]
StartMint(r) ==
  /\ run[r].at = "rest" /\ Starts(r, <<OwnFile>>)
  /\ UNCHANGED <<file, shared, jobs, changes, deaths>>
\* One video, or the rows of a playlist: a row may name no video.
StartYoutube(r) ==
  /\ run[r].at = "rest" /\ \E listing \in Listings : Starts(r, listing)
  /\ UNCHANGED <<file, shared, jobs, changes, deaths>>

Standing(source) == {t \in DOMAIN drops : t.source = source}
Matching(source) == {t \in Standing(source) : drops[t].kind \in {"whole", "incomplete"}}

\* A drop of the video that is already there is delivered without a download, if
\* it is one this release would have made; anything else of its digest is refused.
Look(r, here) ==
  \E t \in here :
    /\ Matching(t.source) # {} => t \in Matching(t.source)
    /\ run' = [run EXCEPT ![r].pos = @ + 1, ![r].source = t.source, ![r].at = "outcome",
         ![r].found = IF drops[t].kind = "whole" THEN t ELSE Free,
         ![r].outcome = IF drops[t].kind = "whole" THEN "exists" ELSE "refused"]
\* The next entry: the file, or a video whose probe and whose download are both
\* acceptable and offer the same captions; the tools may refuse all the same.
Acceptable(entry) ==
  \E probed, got \in Infos :
    /\ ValidateInfo(probed, entry, FALSE) = "none" /\ ValidateInfo(got, entry, TRUE) = "none"
    /\ SelectCaptions(got) = SelectCaptions(probed)
Supplied == \E s \in Supplies : AcceptsSupplied(s.files) /\ StartedAt(s.argument, s.container) # "refused"
Download(r, entry) ==
  \/ /\ \/ entry \in Videos /\ Acceptable(entry)
        \/ entry = OwnFile /\ Supplied
     /\ run' = [run EXCEPT ![r].pos = @ + 1, ![r].source = entry, ![r].at = "root"]
  \/ run' = [Ends(r, "refused", "outcome") EXCEPT ![r].pos = @ + 1]
TakeEntry(r) ==
  /\ run[r].at = "entry"
  /\ LET entry == run[r].entries[run[r].pos + 1] IN
     IF Standing(entry) # {} THEN Look(r, Standing(entry)) ELSE Download(r, entry)
  /\ UNCHANGED <<file, shared, jobs, changes, deaths>>

\* The write probe of the drops root makes `.staging`, and takes it away again if
\* it was not there.
ProbeRoot(r) ==
  /\ run[r].at = "root"
  /\ run' = [run EXCEPT ![r].existed = run[r].root \in stagingDirs, ![r].at = "unprobe"]
  /\ stagingDirs' = stagingDirs \union {run[r].root}
  /\ UNCHANGED <<file, drops, staged, litter, lock, jobs, changes, deaths>>

Empty(root) == root \notin litter /\ \A r \in Runs : staged[r].root # root
UnprobeRoot(r) ==
  /\ run[r].at = "unprobe"
  /\ stagingDirs' = IF ~run[r].existed /\ Empty(run[r].root)
                    THEN stagingDirs \ {run[r].root} ELSE stagingDirs
  /\ run' = [run EXCEPT ![r].at = "digest", ![r].existed = FALSE]
  /\ UNCHANGED <<file, drops, staged, litter, lock, jobs, changes, deaths>>

-----------------------------------------------------------------------------
(* mint.                                                                   *)

\* A video is identified by its id, a local file by what it holds.
Digest(r) ==
  /\ run[r].at = "digest"
  /\ LET sha == IF IsMint(r) THEN file ELSE run[r].source IN
     \/ run' = [run EXCEPT ![r].source = sha, ![r].sha = sha, ![r].at = "lock"]
     \/ Refuse(r)
  /\ UNCHANGED <<file, shared, jobs, changes, deaths>>

LockTimeout(r) ==
  /\ run[r].at = "lock" /\ lock[Shard[run[r].source]] # Free
  /\ Refuse(r)
  /\ UNCHANGED <<file, shared, jobs, changes, deaths>>

\* With the lock, the drop of this source wherever it stands; a directory that
\* cannot be read may be it, and is refused, as is a source without a date.
\* (The first is a mutant of the second, as in the pairs below.)
FoundInRoot(r) == {t \in Matching(run[r].source) : t.root = run[r].root}
Found(r) == Matching(run[r].source)
Unreadable(r) == \E t \in Standing(run[r].source) : drops[t].kind = "unreadable"
TakeLock(r) ==
  /\ run[r].at = "lock" /\ lock[Shard[run[r].source]] = Free
  /\ \/ /\ \E t \in Found(r) : run' = [Ends(r, "exists", "outcome") EXCEPT ![r].found = t]
        /\ UNCHANGED lock
     \/ Found(r) = {} /\ Refuse(r) /\ UNCHANGED lock
     \/ /\ Found(r) = {} /\ ~Unreadable(r)
        /\ lock' = [lock EXCEPT ![Shard[run[r].source]] = r] /\ Goto(r, "mkroot")
  /\ UNCHANGED <<file, drops, stagingDirs, staged, litter, jobs, changes, deaths>>

\* mkdir(parents=True): the staging area, then the directory in it, which another
\* run's rmdir may have taken away.
MakeStagingRoot(r) ==
  /\ run[r].at = "mkroot"
  /\ stagingDirs' = stagingDirs \union {run[r].root}
  /\ Goto(r, "mkstage")
  /\ UNCHANGED <<file, drops, staged, litter, lock, jobs, changes, deaths>>
MakeStaging(r) ==
  /\ run[r].at = "mkstage"
  /\ IF run[r].root \in stagingDirs
     THEN staged' = [staged EXCEPT ![r].root = run[r].root] /\ Goto(r, "copy")
     ELSE run' = Ends(r, "refused", "clean") /\ UNCHANGED staged
  /\ UNCHANGED <<file, drops, stagingDirs, litter, lock, jobs, changes, deaths>>

\* The copy is hashed while it is written, and validated as intake would.
Copies(r) == {Torn, IF IsMint(r) THEN file ELSE run[r].source}
Trusted(r, bytes) == bytes # Torn
Verified(r, bytes) == bytes = run[r].sha
CopyVerified(r) ==
  /\ run[r].at = "copy"
  /\ \E bytes \in Copies(r) :
       /\ staged' = [staged EXCEPT ![r].bytes = bytes]
       /\ \/ Verified(r, bytes) /\ Goto(r, "rename")
          \/ run' = Ends(r, "refused", "clean")
  /\ UNCHANGED <<file, drops, stagingDirs, litter, lock, jobs, changes, deaths>>

Target(r) == [root |-> run[r].root, title |-> run[r].title, source |-> run[r].source]
\* What stands at the target is never replaced: it is this drop, or a refusal.
ExistingTarget(r) ==
  /\ run[r].at = "rename" /\ Target(r) \in DOMAIN drops
  /\ run' = IF drops[Target(r)].kind \in {"whole", "incomplete"}
            THEN [Ends(r, "exists", "clean") EXCEPT ![r].found = Target(r)]
            ELSE Ends(r, "refused", "clean")
  /\ UNCHANGED <<file, shared, jobs, changes, deaths>>
Finalize(r) ==
  /\ run[r].at = "rename" /\ Target(r) \notin DOMAIN drops
  /\ drops' = [t \in DOMAIN drops \union {Target(r)} |->
                IF t = Target(r)
                THEN [kind |-> "whole", sha |-> run[r].sha, bytes |-> staged[r].bytes]
                ELSE drops[t]]
  /\ staged' = [staged EXCEPT ![r] = NotStaged]
  /\ run' = [Ends(r, "created", "clean") EXCEPT ![r].found = Target(r)]
  /\ UNCHANGED <<file, stagingDirs, litter, lock, jobs, changes, deaths>>

\* Every way out of the assembly removes the staged copy and, when it was the
\* last, the staging area, and only then lets the lock go.
CleanUp(r) ==
  /\ run[r].at = "clean"
  /\ staged' = [staged EXCEPT ![r] = NotStaged]
  /\ stagingDirs' = IF run[r].root \notin litter
                       /\ \A o \in Runs \ {r} : staged[o].root # run[r].root
                    THEN stagingDirs \ {run[r].root} ELSE stagingDirs
  /\ lock' = [lock EXCEPT ![Shard[run[r].source]] = Free]
  /\ Goto(r, "outcome")
  /\ UNCHANGED <<file, drops, litter, jobs, changes, deaths>>

-----------------------------------------------------------------------------
(* Delivery.                                                               *)

Delivers(r) == run[r].outcome \in {"created", "exists"}
\* The next entry, or the exit code; a mint's identity is kept for the properties.
NextEntry(r, failed, posted) ==
  run' = [run EXCEPT
            ![r].failed = @ \/ failed, ![r].posted = @ /\ posted,
            ![r].at = IF run[r].pos < Len(run[r].entries) THEN "entry" ELSE "ended",
            ![r].sha = Free, ![r].existed = FALSE, ![r].found = Free, ![r].outcome = "none"]
\* A refusal, or a run without --post.
StopEntry(r) ==
  /\ run[r].at = "outcome"
  /\ NextEntry(r, ~Delivers(r), ~Delivers(r))
  /\ UNCHANGED <<file, shared, jobs, changes, deaths>>

\* POST /ingests: a new job, or the 409 of a source that has one.
PostAccepted(r) ==
  /\ run[r].at = "outcome" /\ Delivers(r)
  /\ jobs' = jobs \union {run[r].found.source}
  /\ NextEntry(r, FALSE, TRUE)
  /\ UNCHANGED <<file, shared, changes, deaths>>
\* No answer, whether or not the request arrived, or an answer that refuses.
Unnoticed(r) == NextEntry(r, FALSE, TRUE)
FailedPost(r) == NextEntry(r, TRUE, TRUE)
PostFails(r) ==
  /\ run[r].at = "outcome" /\ Delivers(r)
  /\ jobs' \in {jobs, jobs \union {run[r].found.source}}
  /\ FailedPost(r)
  /\ UNCHANGED <<file, shared, changes, deaths>>

-----------------------------------------------------------------------------
(* The environment.                                                        *)

EditFile ==
  /\ changes < MaxChanges /\ changes' = changes + 1
  /\ \E c \in Contents \ {file} : file' = c
  /\ UNCHANGED <<shared, run, jobs, deaths>>

\* A killed run's lock goes with its descriptor; its staging stays.
Killed(r) ==
  /\ run[r].at \notin {"rest", "ended"}
  /\ deaths < MaxDeaths /\ deaths' = deaths + 1
  /\ lock' = [s \in DOMAIN lock |-> IF lock[s] = r THEN Free ELSE lock[s]]
  /\ litter' = litter \union ({staged[r].root} \ {Free})
  /\ staged' = [staged EXCEPT ![r] = NotStaged]
  /\ run' = [run EXCEPT ![r] = [Unstarted EXCEPT !.at = "ended", !.failed = TRUE]]
  /\ UNCHANGED <<file, drops, stagingDirs, jobs, changes>>

Ended == (\A r \in Runs : run[r].at = "ended") /\ UNCHANGED vars

Producing(r) ==
  \/ StartMint(r) \/ StartYoutube(r) \/ TakeEntry(r) \/ ProbeRoot(r) \/ UnprobeRoot(r)
  \/ Digest(r) \/ TakeLock(r) \/ LockTimeout(r) \/ MakeStagingRoot(r) \/ MakeStaging(r)
  \/ CopyVerified(r) \/ ExistingTarget(r) \/ Finalize(r) \/ CleanUp(r)
  \/ StopEntry(r) \/ PostAccepted(r) \/ PostFails(r)
Next == EditFile \/ Ended \/ \E r \in Runs : Producing(r) \/ Killed(r)
Spec == Init /\ [][Next]_vars

-----------------------------------------------------------------------------
(* Properties.                                                             *)

\* One identity, one drop, whatever title or root each run was given and however
\* they interleave or die; and a drop holds the bytes its manifest describes, even
\* if the file was edited while it was read (find_existing_drop, _copy_verified).
OneDropPerSource ==
  /\ \A s \in Sources : Cardinality(Matching(s)) <= 1
  /\ \A t \in DOMAIN drops : drops[t].bytes = drops[t].sha

\* A run that posts and exits zero leaves a job for each source it was given, and
\* its drop; only whole drops of a video are ever handed on.
Given(r) == IF IsMint(r) THEN {run[r].source} ELSE Range(run[r].entries)
SuccessMeansIngested ==
  \A r \in Runs : run[r].at = "ended" /\ run[r].posted /\ ~run[r].failed =>
    /\ Given(r) \subseteq jobs
    /\ \A s \in Given(r) : Matching(s) # {}
    /\ ~IsMint(r) => \A s \in Given(r) : \E t \in Matching(s) : drops[t].kind = "whole"

\* Nothing is left under the roots but drops, unless a run was killed.
NothingStagedLeft ==
  deaths = 0 /\ (\A r \in Runs : run[r].at \in {"rest", "ended"}) => stagingDirs = {}
=============================================================================
