------------------------------ MODULE Uploads -------------------------------
(***************************************************************************)
(* Receiving an upload: a multipart body streamed into its own directory,  *)
(* checked whole, and published as a session that an acquisition may mint  *)
(* from; and the sweep at the start of every request that reclaims what    *)
(* nobody finished.  Parts come in any order and the body may stop         *)
(* anywhere.  One directory is one request's.                              *)
(***************************************************************************)
EXTENDS Naturals, FiniteSets, Functions

CONSTANTS Requests,    \* POST /uploads, each with a session id of its own
          Unreadable,  \* those that are no multipart body, or declare too long a one
          Required,    \* metadata a drop cannot do without
          Values,      \* what a text field may say
          Cap(_),      \* the most a file of a role may hold
          Pids,        \* process ids the api runs under
          Ttl,
          MaxParts,    \* bound: parts of one body
          MaxClock,    \* bound: ticks
          MaxFaults,   \* bound: failed file operations
          MaxDeaths,   \* bound: deaths of the api
          None

\* A role is not the absence of one, and what it may hold is a number of bytes.
Roles == {"recording", "vtt", "txt"}
Capped == None \notin Roles /\ \A role \in Roles : Cap(role) \in Nat

VARIABLES place,     \* what name a request's directory has
          owner,     \* the process that is named in it
          held,      \* the bytes of each file in it
          record,    \* its session.json
          touched,   \* when it was last written to
          step,      \* where the request stands
          sink,      \* what it has received
          api,       \* the process id of the running api
          claimed,   \* sessions a live acquisition holds
          clock, faults, deaths

disk == <<place, owner, held, record, touched>>
bounds == <<clock, faults, deaths>>
vars == <<place, owner, held, record, touched, step, sink, api, claimed, clock, faults, deaths>>

TEXT_FIELDS == Required \union {"transcriptDialect"}
DIALECTS == {"plain", "teams-vtt", "zoom"}
NoBytes == [role \in {} |-> 0]
NoFields == [name \in {} |-> None]
EmptySink == [fields |-> NoFields, files |-> {}, open |-> None, parts |-> 0, expires |-> 0]

Init ==
  /\ place = [r \in Requests |-> "none"] /\ owner = [r \in Requests |-> None]
  /\ held = [r \in Requests |-> NoBytes] /\ record = [r \in Requests |-> None]
  /\ touched = [r \in Requests |-> 0]
  /\ step = [r \in Requests |-> "ready"] /\ sink = [r \in Requests |-> EmptySink]
  /\ api \in Pids /\ claimed = {}
  /\ clock = 0 /\ faults = 0 /\ deaths = 0

Fault == faults < MaxFaults /\ faults' = faults + 1
Goes(r, to) == step' = [step EXCEPT ![r] = to]
Put(f, key, value) == [k \in DOMAIN f \union {key} |-> IF k = key THEN value ELSE f[k]]

-----------------------------------------------------------------------------
(* read_session and sweep_expired, under the claim lock and in one go: the *)
(* handlers share a thread.                                                *)

Readable(r) ==
  /\ place[r] = "session" /\ record[r] # None
  /\ DOMAIN record[r].files \subseteq DOMAIN held[r]

PidIsLive(pid) == pid = api
IncompleteExpired(r) == touched[r] + Ttl <= clock
Expired(r) == IF Readable(r) THEN record[r].expires <= clock ELSE IncompleteExpired(r)

ByAgeAlone(r) == place[r] # "none" /\ r \notin claimed /\ Expired(r)   \* mutant of the next
Sweepable(r) ==
  CASE place[r] = "discarded" -> TRUE
    [] place[r] = "creating" -> ~PidIsLive(owner[r]) /\ IncompleteExpired(r)
    [] place[r] = "session" -> r \notin claimed /\ ~PidIsLive(owner[r]) /\ Expired(r)
    [] OTHER -> FALSE

\* A removal that fails is ignored; it may have taken the record already.
Removes(gone, torn) ==
  /\ place' = [r \in Requests |-> IF r \in gone THEN "none" ELSE place[r]]
  /\ owner' = [r \in Requests |-> IF r \in gone THEN None ELSE owner[r]]
  /\ held' = [r \in Requests |-> IF r \in gone THEN NoBytes ELSE held[r]]
  /\ record' = [r \in Requests |-> IF r \in gone \union torn THEN None ELSE record[r]]
  /\ UNCHANGED touched

\* Then the boundary and the declared length, before a directory exists.
CreateUploadSession(r) ==
  /\ step[r] = "ready"
  /\ LET swept == {q \in Requests : Sweepable(q)}
     IN \/ Removes(swept, {}) /\ UNCHANGED faults
        \/ Fault /\ \E gone \in SUBSET swept : \E torn \in SUBSET (swept \ gone) : Removes(gone, torn)
  /\ Goes(r, IF r \in Unreadable THEN "refused" ELSE "making")
  /\ UNCHANGED <<sink, api, claimed, clock, deaths>>

-----------------------------------------------------------------------------
(* create_session.                                                         *)

\* Whatever goes wrong from here on, the directory goes before the answer.
Fails(r) == Goes(r, "failing") /\ sink' = [sink EXCEPT ![r] = EmptySink]

MakeDirectory(r) ==
  /\ step[r] = "making"
  /\ \/ /\ place' = [place EXCEPT ![r] = "creating"] /\ owner' = [owner EXCEPT ![r] = api]
        /\ touched' = [touched EXCEPT ![r] = clock]
        /\ Goes(r, "owning") /\ UNCHANGED <<faults, held, record>>
     \/ Fault /\ Goes(r, "refused") /\ UNCHANGED disk
  /\ UNCHANGED <<sink, api, claimed, clock, deaths>>

\* The marker, and the one rename that makes the directory a session's.
OwnDirectory(r) ==
  /\ step[r] = "owning"
  /\ \/ /\ place' = [place EXCEPT ![r] = "session"] /\ Goes(r, "receiving")
        /\ touched' = [touched EXCEPT ![r] = clock] /\ UNCHANGED <<faults, sink, owner, held, record>>
     \/ Fault /\ Fails(r) /\ UNCHANGED disk
  /\ UNCHANGED <<api, claimed, clock, deaths>>

Receiving(r) == step[r] = "receiving"
NewPart(r) == Receiving(r) /\ sink[r].open = None /\ sink[r].parts < MaxParts
Stays == UNCHANGED <<disk, api, claimed, bounds>>

\* One text field: unknown, too long, or sent twice is refused.
TakeField(r, name, value) ==
  /\ NewPart(r)
  /\ IF name \in TEXT_FIELDS \ DOMAIN sink[r].fields
     THEN /\ sink' = [sink EXCEPT ![r].fields = Put(@, name, value), ![r].parts = @ + 1]
          /\ UNCHANGED step
     ELSE Fails(r)
  /\ Stays

\* One file's headers: of another type, or of a role already there, is refused.
OpenFile(r, role) ==
  /\ NewPart(r)
  /\ IF role \in Roles \ sink[r].files
     THEN \/ /\ sink' = [sink EXCEPT ![r].open = role, ![r].parts = @ + 1]
             /\ held' = [held EXCEPT ![r] = Put(@, role, 0)]
             /\ touched' = [touched EXCEPT ![r] = clock]
             /\ UNCHANGED <<place, owner, record, step, faults>>
          \/ Fault /\ Fails(r) /\ UNCHANGED disk
     ELSE Fails(r) /\ UNCHANGED <<disk, faults>>
  /\ UNCHANGED <<api, claimed, clock, deaths>>

\* The bytes are counted before they are written.
Uncapped(role, size) == size <= Cap(role) + 1   \* mutant of the next
Within(role, size) == size <= Cap(role)
ReceiveBytes(r) ==
  /\ Receiving(r) /\ sink[r].open # None
  /\ LET role == sink[r].open
         size == held[r][role] + 1
     IN \/ /\ Within(role, size)
           /\ held' = [held EXCEPT ![r][role] = size] /\ touched' = [touched EXCEPT ![r] = clock]
           /\ UNCHANGED <<place, owner, record, step, sink, faults>>
        \/ ~Within(role, size) /\ Fails(r) /\ UNCHANGED <<disk, faults>>
        \/ Within(role, size) /\ Fault /\ Fails(r) /\ UNCHANGED disk
  /\ UNCHANGED <<api, claimed, clock, deaths>>

CloseFile(r) ==
  /\ Receiving(r) /\ sink[r].open # None
  /\ IF held[r][sink[r].open] = 0 THEN Fails(r)
     ELSE /\ sink' = [sink EXCEPT ![r].files = @ \union {sink[r].open}, ![r].open = None]
          /\ UNCHANGED step
  /\ Stays

\* The client stops, the body does not parse or is too long, or it ends with no
\* closing boundary; the request may be cancelled while it is waited for.
BodyBreaks(r) == step[r] \in {"receiving", "probing"} /\ Fails(r) /\ Stays

\* The dialect is declared whenever there is a .vtt; Zoom's makes the .txt itself.
Anything(fields, files) == TRUE   \* mutant of the next
DialectAllowed(fields, files) ==
  IF "transcriptDialect" \in DOMAIN fields
  THEN /\ fields["transcriptDialect"] \in DIALECTS
       /\ fields["transcriptDialect"] = "zoom" => "vtt" \in files /\ "txt" \notin files
  ELSE "vtt" \notin files

Complete(r) ==
  LET fields == sink[r].fields
  IN /\ sink[r].files # {}
     /\ \A name \in Required : name \in DOMAIN fields /\ fields[name] = "good"
     /\ DialectAllowed(fields, sink[r].files)

\* The time to live counts from here, before the recording is probed.
EndBody(r) ==
  /\ Receiving(r) /\ sink[r].open = None
  /\ IF Complete(r) THEN Goes(r, "probing") /\ sink' = [sink EXCEPT ![r].expires = clock + Ttl] ELSE Fails(r)
  /\ Stays

\* ffprobe, on a thread of its own: a video with a length under the cap, or refused.
Probe(r) ==
  /\ step[r] = "probing"
  /\ \/ Goes(r, "writing") /\ UNCHANGED sink
     \/ "recording" \in sink[r].files /\ Fails(r)
  /\ Stays

\* session.json appears whole or not at all.
WriteSession(r) ==
  /\ step[r] = "writing"
  /\ \/ /\ record' = [record EXCEPT ![r] = [files |-> Restrict(held[r], sink[r].files),
                                            fields |-> sink[r].fields, expires |-> sink[r].expires]]
        /\ touched' = [touched EXCEPT ![r] = clock]
        /\ Goes(r, "releasing") /\ UNCHANGED <<place, owner, held, sink, faults>>
     \/ Fault /\ Fails(r) /\ UNCHANGED disk
  /\ UNCHANGED <<api, claimed, clock, deaths>>

\* The marker goes, and the id is answered.
Release(r) ==
  /\ step[r] = "releasing"
  /\ \/ /\ owner' = [owner EXCEPT ![r] = None] /\ sink' = [sink EXCEPT ![r] = EmptySink]
        /\ touched' = [touched EXCEPT ![r] = clock]
        /\ Goes(r, "created") /\ UNCHANGED <<place, held, record, faults>>
     \/ Fault /\ Fails(r) /\ UNCHANGED disk
  /\ UNCHANGED <<api, claimed, clock, deaths>>

CleanUp(r) ==
  /\ step[r] = "failing"
  /\ \/ Removes({r}, {}) /\ UNCHANGED faults
     \/ Fault /\ \E torn \in SUBSET {r} : Removes({}, torn)
  /\ Goes(r, "refused")
  /\ UNCHANGED <<sink, api, claimed, clock, deaths>>

-----------------------------------------------------------------------------
(* What else happens to a session: an acquisition takes it up and is done  *)
(* with it, or it is deleted; time passes, and the api is restarted.       *)

Claim(r) ==
  /\ step[r] = "created" /\ Readable(r) /\ r \notin claimed
  /\ claimed' = claimed \union {r}
  /\ UNCHANGED <<disk, step, sink, api, bounds>>

RunnerDies(r) == r \in claimed /\ claimed' = claimed \ {r} /\ UNCHANGED <<disk, step, sink, api, bounds>>

\* Out of the names an acquisition accepts first, then removed.
Discarded(r) ==
  \/ Removes({r}, {}) /\ UNCHANGED faults
  \/ Fault /\ place' = [place EXCEPT ![r] = "discarded"] /\ UNCHANGED <<owner, held, record, touched>>
DiscardSession(r) ==
  /\ place[r] = "session" /\ step[r] = "created"
  /\ Discarded(r)
  /\ claimed' = claimed \ {r}
  /\ UNCHANGED <<step, sink, api, clock, deaths>>
DeleteUploadSession(r) == r \notin claimed /\ DiscardSession(r)
RunnerDiscards(r) == r \in claimed /\ DiscardSession(r)

ApiRestarts ==
  /\ deaths < MaxDeaths /\ deaths' = deaths + 1
  /\ api' \in Pids
  /\ step' = [r \in Requests |-> IF step[r] \in {"ready", "created", "refused"} THEN step[r] ELSE "dead"]
  /\ sink' = [r \in Requests |-> EmptySink]
  /\ UNCHANGED <<disk, claimed, clock, faults>>

Tick == clock < MaxClock /\ clock' = clock + 1
        /\ UNCHANGED <<disk, step, sink, api, claimed, faults, deaths>>

Next ==
  \/ \E r \in Requests :
       \/ CreateUploadSession(r) \/ MakeDirectory(r) \/ OwnDirectory(r)
       \/ \E name \in TEXT_FIELDS \union {"titel"}, value \in Values : TakeField(r, name, value)
       \/ \E role \in Roles \union {"other"} : OpenFile(r, role)
       \/ ReceiveBytes(r) \/ CloseFile(r) \/ BodyBreaks(r) \/ EndBody(r) \/ Probe(r)
       \/ WriteSession(r) \/ Release(r) \/ CleanUp(r)
       \/ Claim(r) \/ RunnerDies(r) \/ DeleteUploadSession(r) \/ RunnerDiscards(r)
  \/ ApiRestarts
  \/ Tick

Spec == Init /\ [][Next]_vars

-----------------------------------------------------------------------------
InProgress(r) == step[r] \in {"making", "owning", "receiving", "probing", "writing", "releasing"}

\* A session an acquisition can name holds what its record says and nothing that
\* the write-once drop would refuse: every file whole and within its cap, the
\* metadata complete, a dialect declared for a .vtt; an answered refusal left nothing
\* behind but what the disk would not let go.
SessionsAreWhole ==
  \A r \in Requests :
    /\ Readable(r) /\ step[r] = "created" =>
         LET session == record[r]
         IN /\ session.files = held[r] /\ DOMAIN session.files # {}
            /\ \A role \in DOMAIN session.files : session.files[role] \in 1 .. Cap(role)
            /\ Required \subseteq DOMAIN session.fields
            /\ "vtt" \in DOMAIN session.files => "transcriptDialect" \in DOMAIN session.fields
            /\ "txt" \in DOMAIN session.files /\ "transcriptDialect" \in DOMAIN session.fields =>
                 session.fields["transcriptDialect"] # "zoom"
    /\ step[r] = "refused" /\ faults = 0 => place[r] = "none"

\* Another request's sweep never takes a directory still being received, claimed by
\* an acquisition, or a session before its time.
Sweeps == \E r \in Requests : step[r] = "ready" /\ step'[r] # "ready"
SpareWhatIsInUse ==
  Sweeps => \A r \in Requests :
    place[r] # "none" /\ place'[r] = "none" =>
      /\ ~InProgress(r)
      /\ place[r] = "session" => r \notin claimed /\ (Readable(r) => record[r].expires <= clock)
OnlyTheAbandonedGo == [][SpareWhatIsInUse]_vars
=============================================================================
