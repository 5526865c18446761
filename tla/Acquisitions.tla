---------------------------- MODULE Acquisitions ----------------------------
(***************************************************************************)
(* Acquisitions and upload sessions: the api launches one detached process *)
(* per acquisition and never waits for it; the two share a directory of    *)
(* status files, a directory of upload sessions, and one file lock.        *)
(*                                                                         *)
(* One action is one file replacement, one process start, or what happens  *)
(* inside one holding of the lock that nobody else can see half of.  A     *)
(* process dies between any two actions, and the system drops its lock.    *)
(***************************************************************************)
EXTENDS Naturals

CONSTANTS Acquisitions,  \* launch requests, and the processes they start
          Videos,        \* sources named by a URL
          Sessions,      \* sources named by an upload session
          MaxFaults,     \* bound: failed writes, renames and process starts
          MaxDeaths,     \* bound: acquisition processes killed
          MaxCrashes,    \* bound: deaths of the api
          None

ASSUME SourcesAssumption == Videos \intersect Sessions = {} /\ None \notin Videos \union Sessions
ASSUME NoneAssumption == None \notin Acquisitions
ASSUME BoundsAssumption == MaxFaults \in Nat /\ MaxDeaths \in Nat /\ MaxCrashes \in Nat

Sources == Videos \union Sessions

VARIABLES record,     \* the status file of each acquisition
          session,    \* each upload session's directory
          expired,    \* the sessions past their TTL
          lock        \* who holds the claim lock

VARIABLES launch,     \* where each launch request of the api stands
          child,      \* where each detached process stands
          outcome,    \* the terminal status a process is about to publish
          unwaited,   \* processes the living api started and has not waited for
          misread     \* processes whose configuration did not load

VARIABLES faults, deaths, crashes

files == <<record, session, expired>>
processes == <<launch, child, outcome, unwaited, misread>>
bounds == <<faults, deaths, crashes>>
vars == <<record, session, expired, lock, launch, child, outcome, unwaited, misread,
          faults, deaths, crashes>>

NoRecord == [status |-> "none", source |-> None, pid |-> FALSE]

Init ==
  /\ record = [i \in Acquisitions |-> NoRecord]
  /\ session = [s \in Sessions |-> "none"] /\ expired = {}
  /\ lock = None
  /\ launch = [i \in Acquisitions |-> "ready"]
  /\ child = [i \in Acquisitions |-> "none"]
  /\ outcome = [i \in Acquisitions |-> "none"]
  /\ unwaited = {} /\ misread = {}
  /\ faults = 0 /\ deaths = 0 /\ crashes = 0

Fault == faults < MaxFaults /\ faults' = faults + 1

-----------------------------------------------------------------------------
(* Who is alive, and who looks alive.                                      *)

LIVE_STATUSES == {"queued", "running"}
TERMINAL_STATUSES == {"posted", "failed"}

Alive(i) == child[i] \in {"starting", "working", "minted", "finishing", "discarded", "cleaning"}
Dead(i) == child[i] = "dead"

\* Signal 0 reaches a process that is dead but not yet waited for.
PidIsLive(i) == record[i].pid /\ (Alive(i) \/ i \in unwaited)
RunningOnly(i) == record[i].status = "running" /\ PidIsLive(i)   \* mutant of the next
LiveRecord(i) == record[i].status \in LIVE_STATUSES /\ PidIsLive(i)
Holders(s) == {i \in Acquisitions : record[i].source = s /\ LiveRecord(i)}

\* subprocess waits for finished children when it starts the next one.
StillUnwaited == {i \in unwaited : ~Dead(i)}

\* A session leaves the claimable names by a rename, under the lock.
Discarded(s) == IF s \in Sessions /\ session[s] \in {"staged", "partial"} THEN [session EXCEPT ![s] = "gone"]
                ELSE session

-----------------------------------------------------------------------------
(* launch, launch_upload, _start_child: one holding of the claim lock.     *)

Claimable(s) == s \in Sessions => session[s] = "staged"

Claim(i, s) ==
  /\ launch[i] = "ready" /\ lock = None
  /\ Claimable(s)
  /\ Holders(s) = {}
  /\ record' = [record EXCEPT ![i] = [status |-> "queued", source |-> s, pid |-> FALSE]]
  /\ lock' = i
  /\ launch' = [launch EXCEPT ![i] = "claimed"]
  /\ UNCHANGED <<session, expired, child, outcome, unwaited, misread, bounds>>

\* 409, naming the acquisition that holds the source.
Refuse(i, s) ==
  /\ launch[i] = "ready" /\ lock = None
  /\ Claimable(s)
  /\ Holders(s) # {}
  /\ launch' = [launch EXCEPT ![i] = "refused"]
  /\ UNCHANGED <<files, lock, child, outcome, unwaited, misread, bounds>>

\* The queued record cannot be written; an upload is discarded, unless that
\* fails too, here and below.
ClaimFails(i, s) ==
  /\ launch[i] = "ready" /\ lock = None
  /\ Claimable(s)
  /\ Holders(s) = {}
  /\ Fault
  /\ session' \in {session, Discarded(s)}
  /\ launch' = [launch EXCEPT ![i] = "ended"]
  /\ UNCHANGED <<record, expired, lock, child, outcome, unwaited, misread, deaths, crashes>>

Spawn(i) ==
  /\ launch[i] = "claimed"
  /\ child' = [child EXCEPT ![i] = "starting"]
  /\ unwaited' = StillUnwaited \union {i}
  /\ launch' = [launch EXCEPT ![i] = "spawned"]
  /\ UNCHANGED <<files, lock, outcome, misread, bounds>>

\* The log cannot be opened, or the process cannot start.
SpawnFails(i) ==
  /\ launch[i] = "claimed"
  /\ Fault
  /\ \E status \in {"queued", "failed"} : record' = [record EXCEPT ![i].status = status]
  /\ session' \in {session, Discarded(record[i].source)}
  /\ lock' = None
  /\ launch' = [launch EXCEPT ![i] = "ended"]
  /\ UNCHANGED <<expired, child, outcome, unwaited, misread, deaths, crashes>>

\* The handle on the process goes with the request: a dead one is waited for.
Forgotten(i) == IF Dead(i) THEN unwaited \ {i} ELSE unwaited

\* The pid is added to the record as it was queued, and the lock released.
RecordPid(i) ==
  /\ launch[i] = "spawned"
  /\ record' = [record EXCEPT ![i].status = "queued", ![i].pid = TRUE]
  /\ lock' = None
  /\ launch' = [launch EXCEPT ![i] = "ended"]
  /\ unwaited' = Forgotten(i)
  /\ UNCHANGED <<session, expired, child, outcome, misread, bounds>>

RecordPidFails(i) ==
  /\ launch[i] = "spawned"
  /\ Fault
  /\ session' \in {session, Discarded(record[i].source)}
  /\ lock' = None
  /\ launch' = [launch EXCEPT ![i] = "ended"]
  /\ unwaited' = Forgotten(i)
  /\ UNCHANGED <<record, expired, child, outcome, misread, deaths, crashes>>

-----------------------------------------------------------------------------
(* The detached process: run_acquisition and run_upload_acquisition.       *)

IsUpload(i) == record[i].source \in Sessions

\* It exits: a zombie until the api waits for it.
Exits(i) == child' = [child EXCEPT ![i] = "dead"]

NoHandshake(i) == TRUE                                \* mutant of the next
Handshake(i) == lock = None

\* Waits for the lock, so after the api has recorded the pid.
Run(i) ==
  /\ child[i] = "starting" /\ Handshake(i)
  /\ record' = [record EXCEPT ![i].status = "running", ![i].pid = TRUE]
  /\ child' = [child EXCEPT ![i] = "working"]
  /\ UNCHANGED <<session, expired, lock, launch, outcome, unwaited, misread, bounds>>

\* The lock is not free for ten seconds, or the record cannot be written.
RunFails(i) ==
  /\ child[i] = "starting"
  /\ Fault
  /\ Exits(i)
  /\ UNCHANGED <<files, lock, launch, outcome, unwaited, misread, deaths, crashes>>

\* A video's terminal record is written without the lock; an upload's waits.
Ends(i, status) ==
  IF IsUpload(i)
  THEN /\ child' = [child EXCEPT ![i] = "finishing"]
       /\ outcome' = [outcome EXCEPT ![i] = status]
       /\ UNCHANGED record
  ELSE /\ record' = [record EXCEPT ![i].status = status]
       /\ Exits(i)
       /\ UNCHANGED outcome

\* main: the configuration does not load.
ConfigError(i) ==
  /\ child[i] = "starting"
  /\ Ends(i, "failed")
  /\ misread' = misread \union {i}
  /\ UNCHANGED <<session, expired, lock, launch, unwaited, bounds>>

\* Acquired, or converted and minted: the session must still be whole.
Mint(i) ==
  /\ child[i] = "working"
  /\ Claimable(record[i].source)
  /\ child' = [child EXCEPT ![i] = "minted"]
  /\ UNCHANGED <<files, lock, launch, outcome, unwaited, misread, bounds>>

\* A named refusal: bad source, refused evidence, a session that is gone.
RefusedByMint(i) ==
  /\ child[i] = "working"
  /\ Ends(i, "failed")
  /\ UNCHANGED <<session, expired, lock, launch, unwaited, misread, bounds>>

\* POST /ingests is accepted or refused.
PostIngest(i) ==
  /\ child[i] = "minted"
  /\ \E status \in TERMINAL_STATUSES : Ends(i, status)
  /\ UNCHANGED <<session, expired, lock, launch, unwaited, misread, bounds>>

\* An error nobody named, or a record that cannot be written: an upload is
\* still discarded on the way out.
Breaks(i) ==
  /\ child[i] \in {"working", "minted"}
  /\ Fault
  /\ child' = [child EXCEPT ![i] = IF IsUpload(i) THEN "cleaning" ELSE "dead"]
  /\ UNCHANGED <<files, lock, launch, outcome, unwaited, misread, deaths, crashes>>

\* _complete_upload_record: the bytes go, then the terminal record appears.
PublishedFirst(i) == Discarded(None)                  \* mutant of the next
BytesGone(i) == Discarded(record[i].source)

Complete(i) ==
  /\ child[i] = "finishing" /\ lock = None
  /\ session' = BytesGone(i)
  /\ lock' = i
  /\ child' = [child EXCEPT ![i] = "discarded"]
  /\ UNCHANGED <<record, expired, launch, outcome, unwaited, misread, bounds>>

\* After a first failed write or a failed removal the record says failed.
Publish(i) ==
  /\ child[i] = "discarded"
  /\ \/ record' = [record EXCEPT ![i].status = outcome[i]] /\ UNCHANGED faults
     \/ Fault /\ record' = [record EXCEPT ![i].status = "failed"]
  /\ lock' = None
  /\ Exits(i)
  /\ UNCHANGED <<session, expired, launch, outcome, unwaited, misread, deaths, crashes>>

\* The session cannot be renamed away, or the record not written at all; only
\* a run that began has a finally.
CompleteFails(i) ==
  /\ child[i] \in {"finishing", "discarded"}
  /\ child[i] = "finishing" => lock = None
  /\ Fault
  /\ lock' = None
  /\ child' = [child EXCEPT ![i] = IF record[i].status = "running" THEN "cleaning" ELSE "dead"]
  /\ UNCHANGED <<files, launch, outcome, unwaited, misread, deaths, crashes>>

\* run_upload_acquisition's finally: discard, if it can, and exit.
CleanUp(i) ==
  /\ child[i] = "cleaning" /\ lock = None
  /\ \/ session' = Discarded(record[i].source) /\ UNCHANGED faults
     \/ Fault /\ UNCHANGED session
  /\ Exits(i)
  /\ UNCHANGED <<record, expired, lock, launch, outcome, unwaited, misread, deaths, crashes>>

HeldByChild(i) == lock = i /\ child[i] = "discarded"

Die(i) ==
  /\ Alive(i) /\ deaths < MaxDeaths
  /\ deaths' = deaths + 1
  /\ Exits(i)
  /\ lock' = IF HeldByChild(i) THEN None ELSE lock
  /\ UNCHANGED <<files, launch, outcome, unwaited, misread, faults, crashes>>

-----------------------------------------------------------------------------
(* Upload sessions: POST /uploads sweeps under the lock, then receives       *)
(* without it; DELETE; the TTL.                                            *)

Protected == {record[i].source : i \in {j \in Acquisitions : LiveRecord(j)}}
Unprotected == {}                                     \* mutant of the next
KeptBySweep == Protected

\* A staged session is removed past its TTL unless a live process holds it;
\* what a dead api left half received has a dead owner.
Sweepable == {s \in expired : s \notin KeptBySweep /\ session[s] \in {"staged", "partial"}}
Swept == [s \in Sessions |-> IF s \in Sweepable THEN "gone" ELSE session[s]]

\* Nobody sees a removal that stops half way until the next sweep.
Request(s) ==
  /\ session[s] = "none" /\ lock = None
  /\ \/ session' = [Swept EXCEPT ![s] = "requested"] /\ UNCHANGED faults
     \/ \E t \in Sweepable : Fault /\ session' = [Swept EXCEPT ![s] = "requested", ![t] = "partial"]
  /\ UNCHANGED <<record, expired, lock, processes, deaths, crashes>>

\* The body is refused unread, or its directory is made.
Receive(s) ==
  /\ session[s] = "requested"
  /\ \E to \in {"none", "receiving"} : session' = [session EXCEPT ![s] = to]
  /\ UNCHANGED <<record, expired, lock, processes, bounds>>

Received(s) ==
  /\ session[s] = "receiving"
  /\ session' = [session EXCEPT ![s] = "staged"]
  /\ UNCHANGED <<record, expired, lock, processes, bounds>>

\* A refused or broken body: the directory is removed.
ReceiveFails(s) ==
  /\ session[s] = "receiving"
  /\ session' = [session EXCEPT ![s] = "gone"]
  /\ UNCHANGED <<record, expired, lock, processes, bounds>>

Expire(s) ==
  /\ session[s] \in {"staged", "partial"} /\ s \notin expired
  /\ expired' = expired \union {s}
  /\ UNCHANGED <<record, session, lock, processes, bounds>>

\* DELETE /uploads/{id}: 409 while a live process holds the session.
Delete(s) ==
  /\ session[s] \in {"staged", "partial"} /\ lock = None
  /\ Holders(s) = {}
  /\ session' = Discarded(s)
  /\ UNCHANGED <<record, expired, lock, processes, bounds>>

-----------------------------------------------------------------------------
\* git, ffprobe: any other process the api starts waits for the dead ones.
OtherProcess ==
  /\ unwaited' = StillUnwaited
  /\ UNCHANGED <<files, lock, launch, child, outcome, misread, bounds>>

\* The api dies: its requests end, its lock goes, its children are inherited.
ApiCrash ==
  /\ crashes < MaxCrashes
  /\ crashes' = crashes + 1
  /\ lock' = IF \E i \in Acquisitions : lock = i /\ launch[i] \in {"claimed", "spawned"}
             THEN None ELSE lock
  /\ launch' = [i \in Acquisitions |->
                  IF launch[i] \in {"claimed", "spawned"} THEN "ended" ELSE launch[i]]
  /\ session' = [s \in Sessions |-> CASE session[s] = "requested" -> "none"
                                     [] session[s] = "receiving" -> "partial"
                                     [] OTHER -> session[s]]
  /\ unwaited' = {}
  /\ UNCHANGED <<record, expired, child, outcome, misread, faults, deaths>>

ChildStep(i) ==
  \/ Run(i) \/ ConfigError(i) \/ Mint(i) \/ RefusedByMint(i) \/ PostIngest(i)
  \/ Complete(i) \/ Publish(i) \/ CleanUp(i)
  \/ RunFails(i) \/ Breaks(i) \/ CompleteFails(i) \/ Die(i)

Next ==
  \/ \E i \in Acquisitions :
       \/ \E s \in Sources : Claim(i, s) \/ Refuse(i, s) \/ ClaimFails(i, s)
       \/ Spawn(i) \/ SpawnFails(i) \/ RecordPid(i) \/ RecordPidFails(i)
       \/ ChildStep(i)
  \/ \E s \in Sessions : Request(s) \/ Receive(s) \/ Received(s) \/ ReceiveFails(s) \/ Expire(s) \/ Delete(s)
  \/ OtherProcess \/ ApiCrash

Spec == Init /\ [][Next]_vars

\* A launch request and a process that is not killed go on.
FairSpec ==
  /\ Spec
  /\ \A i \in Acquisitions : /\ WF_vars(Spawn(i)) /\ WF_vars(RecordPid(i))
                             /\ WF_vars(ChildStep(i))
-----------------------------------------------------------------------------
(* Properties.                                                             *)

Records == [status : {"none"} \union LIVE_STATUSES \union TERMINAL_STATUSES,
            source : Sources \union {None}, pid : BOOLEAN]
SessionStates == {"none", "requested", "receiving", "staged", "partial", "gone"}

\* The shape of the files and the processes.
TypeOK ==
  /\ record \in [Acquisitions -> Records]
  /\ session \in [Sessions -> SessionStates]
  /\ expired \subseteq Sessions
  /\ lock \in Acquisitions \union {None}
  /\ launch \in [Acquisitions -> {"ready", "claimed", "spawned", "refused", "ended"}]
  /\ child \in [Acquisitions -> {"none", "starting", "working", "minted", "finishing",
                                 "discarded", "cleaning", "dead"}]
  /\ outcome \in [Acquisitions -> {"none"} \union TERMINAL_STATUSES]
  /\ unwaited \subseteq Acquisitions
  /\ misread \subseteq Acquisitions
  /\ faults \in 0..MaxFaults /\ deaths \in 0..MaxDeaths /\ crashes \in 0..MaxCrashes

\* No launch has been interrupted between the claim and its record of the pid.
Unbroken == faults = 0 /\ crashes = 0

\* No launch races a live acquisition: one process at a time works for a
\* source, whatever is launched, killed, swept or retried meanwhile.
OneRunnerPerSource ==
  Unbroken =>
    \A i, j \in Acquisitions :
      Alive(i) /\ Alive(j) /\ record[i].source = record[j].source => i = j

\* None can erase bytes after the detached process has claimed them: a process
\* that is converting or minting an upload finds its session whole.
ClaimedBytesKept ==
  Unbroken =>
    \A i \in Acquisitions : child[i] \in {"working", "minted"} /\ IsUpload(i)
                              => session[record[i].source] = "staged"

\* Another launch sees a live record plus intact bytes, or a terminal record
\* plus no session: never a terminal state beside bytes it could consume.
NoTerminalBesideBytes ==
  \A i \in Acquisitions :
    child[i] # "none" /\ IsUpload(i) /\ record[i].status \in TERMINAL_STATUSES
      => session[record[i].source] # "staged"

\* The stale queued record of the api never overwrites what a process reported,
\* as the handshake on the lock is documented to ensure.
StaysAsReported(i) ==
  record[i].status \in TERMINAL_STATUSES => record'[i].status = record[i].status
TerminalIsFinal == [][\A i \in Acquisitions : StaysAsReported(i)]_vars

\* The same of every process that read its configuration.
ReportedIsFinal == [][\A i \in Acquisitions : i \in misread \/ StaysAsReported(i)]_vars

\* An acquisition the api accepted reports how it ended, unless its process is
\* killed, cannot write, or missed the handshake over a bad configuration.
AcceptedSettles ==
  \A i \in Acquisitions :
    record[i].status = "queued" /\ record[i].pid
      ~> \/ record[i].status \in TERMINAL_STATUSES
         \/ i \in misread \/ faults > 0 \/ deaths > 0
-----------------------------------------------------------------------------
(* The inductive invariant.                                                *)

\* Who holds the lock, and how far the process of each launch can be.
LockInv ==
  \A i \in Acquisitions :
    /\ lock = i <=> launch[i] \in {"claimed", "spawned"} \/ child[i] = "discarded"
    /\ launch[i] \in {"ready", "refused", "claimed"} => child[i] = "none"
    /\ child[i] \in {"working", "minted", "discarded", "cleaning"} => launch[i] = "ended"
    /\ launch[i] \in {"ready", "refused"} => record[i].status = "none"
    /\ launch[i] = "claimed" => record[i].status = "queued"
    /\ launch[i] \in {"claimed", "spawned"} \/ child[i] # "none" => record[i].source \in Sources

\* A session that was claimed never comes back, and its end comes before the record's.
BytesInv ==
  \A i \in Acquisitions :
    /\ IsUpload(i) => session[record[i].source] \in {"staged", "partial", "gone"}
    /\ child[i] \in {"finishing", "discarded", "cleaning"} => IsUpload(i)
    /\ child[i] \in {"finishing", "discarded"} => outcome[i] \in TERMINAL_STATUSES
    /\ IsUpload(i) /\ \/ child[i] = "discarded"
                      \/ child[i] # "none" /\ record[i].status \in TERMINAL_STATUSES
         => session[record[i].source] = "gone"

\* A terminal record is the last thing a launch and its process do.
FinalInv ==
  \A i \in Acquisitions :
    record[i].status \in TERMINAL_STATUSES /\ i \notin misread
      => launch[i] = "ended" /\ child[i] \in {"none", "dead"}

Claims(i) == Alive(i) \/ launch[i] = "claimed"

\* While no write fails and the api lives, a process is on record as long as it runs.
ExclusiveInv ==
  Unbroken =>
    \A i \in Acquisitions :
      /\ Alive(i) => record[i].status \in LIVE_STATUSES /\ (launch[i] = "ended" => record[i].pid)
      /\ \A j \in Acquisitions :
           Claims(i) /\ Claims(j) /\ record[i].source = record[j].source => i = j
      /\ IsUpload(i) /\ (launch[i] = "claimed" \/ child[i] \in {"starting", "working", "minted"})
           => session[record[i].source] = "staged"

\* The inductive invariant: what the status files, the sessions and the lock
\* say of each other at every step of a launch, a process and a sweep.
IInv == TypeOK /\ LockInv /\ BytesInv /\ FinalInv /\ ExclusiveInv
=============================================================================
