----------------------------- MODULE VideoInfo -----------------------------
(***************************************************************************)
(* What the two producers of drops make of metadata: which videos they     *)
(* refuse and by which rule, when a recording began and how well that is   *)
(* known, which captions are taken, and what a mint accepts as its files.  *)
(***************************************************************************)
EXTENDS Naturals, Sequences, FiniteSets

CONSTANTS DurationCap,
          Unknown     \* a fact the tool did not report, or in no usable form

\* An info record: id, formats (codecs), duration, release and upload (days),
\* channel, uploader, format, manual and auto (languages).
HasVideo(info) == \E codec \in info.formats : codec \notin {"none", "blank"}
RefuseUnacceptable(info) ==
  CASE ~HasVideo(info) -> "no-video-stream"
    [] info.duration = Unknown -> "duration-unknown"
    [] info.duration # Unknown /\ info.duration > DurationCap -> "duration-cap"
    [] OTHER -> "none"

\* An instant that was published, or the day of the upload; never a guess.
StartedAtFromInfo(info) ==
  CASE info.release # Unknown -> [known |-> TRUE, at |-> info.release, precision |-> "second"]
    [] info.release = Unknown /\ info.upload # Unknown ->
         [known |-> TRUE, at |-> info.upload, precision |-> "day"]
    [] OTHER -> [known |-> FALSE, at |-> 0, precision |-> "none"]

Channel(info) == IF info.channel # Unknown THEN info.channel ELSE info.uploader

\* The rules in their order; the format is asked for once bytes are there.
ValidateInfo(info, wanted, downloaded) ==
  CASE info.id # wanted -> "identity-mismatch"
    [] info.id = wanted /\ RefuseUnacceptable(info) # "none" -> RefuseUnacceptable(info)
    [] info.id = wanted /\ RefuseUnacceptable(info) = "none" ->
         IF ~StartedAtFromInfo(info).known THEN "started-at-unknown"
         ELSE IF Channel(info) = Unknown THEN "channel-missing"
         ELSE IF downloaded /\ info.format = Unknown THEN "format-id-missing"
         ELSE "none"

\* Manual captions before automatic ones, plain English before a variety of it.
SelectCaptions(info) ==
  LET pick(tracks) == IF "en" \in tracks THEN "en" ELSE CHOOSE t \in tracks : TRUE
      english(tracks) == tracks \intersect {"en", "en-GB", "en-US"}
  IN CASE english(info.manual) # {} -> <<pick(english(info.manual)), "manual">>
       [] english(info.manual) = {} /\ english(info.auto) # {} -> <<pick(english(info.auto)), "auto">>
       [] OTHER -> <<>>

-----------------------------------------------------------------------------
(* What a mint is given: files by their suffix, and when it began.         *)

\* The files, each by the name its suffix gives it, readable and not empty; one of each
\* name, and only a video is a recording.  A document has no such name.
Canonical == {"recording.mp4", "transcript.vtt", "transcript.txt"}
AcceptsSupplied(files) ==
  /\ files # {} /\ \A f \in files : f.name \in Canonical
  /\ \A f, g \in files : f.name = g.name => f = g
  /\ \A f \in files : f.readable /\ ~f.empty
  /\ \A f \in files : f.name = "recording.mp4" => f.video

\* A date is a day; an instant must name its offset; the container's clock serves
\* when no argument does, unless it is an epoch nobody set.
StartedAtFromArgument(raw) ==
  CASE raw = "date" -> "day" [] raw = "instant" -> "second" [] OTHER -> "refused"
StartedAtFromContainer(raw) == IF raw = "instant" THEN "second" ELSE "refused"
StartedAt(argument, container) ==
  IF argument # "absent" THEN StartedAtFromArgument(argument) ELSE StartedAtFromContainer(container)
=============================================================================
