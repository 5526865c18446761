------------------------------ MODULE MC_Reading ------------------------------
(***************************************************************************)
(* TLC: readers with one or two of everything; and the algorithms behind   *)
(* their answers, over small inputs.                                       *)
(***************************************************************************)
EXTENDS Reading, TLC

CONSTANTS m1, m2, m3, a1, a2, d1, b1, b2

(* A second moment of another meeting, and drafts that name one that no row knows. *)
SourceOfArtifact == a1 :> m2
MeetingOfMoment == (m1 :> "g1") @@ (m2 :> "g2")
SmallDrafts == {<<"word", m1>>, <<"word", "stop", m1, "line", "word", m2>>, <<"word", NoId>>, <<"word">>}

ProviderOfBinding == (b1 :> "p1") @@ (b2 :> "p2")

(* Two orders of three moments; a weak neighbour. *)
SmallKeywords == {<<>>, <<m1, m2, m3>>, <<m2, m1>>}
SmallSemantics == {<<>>, <<[id |-> m3, strong |-> TRUE], [id |-> m1, strong |-> FALSE]>>}

(* Three moments of two meetings; of the second only the day is known, and its two *)
(* moments start together.                                                        *)
MeetingOnLine == <<1, 2, 2>>
OffsetOnLine == <<0, 1, 1>>
StartOnLine == <<1, 3>>

TwoStages == <<"moments", "extract">>

(* The gate is shown the rows of one moment more than was retrieved. *)
Cut == INSTANCE Passages
UpTo(n, S) == UNION {[1..k -> S] : k \in 0..n}
Sides == [meeting : {1, 2}, moment : {0, 1}, start : 0..1, end : 0..2]

(* Weights that tie, an age past one half-life, a reason with nothing to show. *)
Weigh(kind) == IF kind \in {"risk", "due", "adr"} THEN 2 ELSE 1
Cards == INSTANCE Feed WITH
  Weight <- Weigh, Decay <- LAMBDA age : <<2, 1>>[age], Urgency <- LAMBDA due : <<2, 0>>[due],
  Alphabetical <- LAMBDA label : CHOOSE i \in 1..4 : <<"", "met", "x", "y">>[i] = label,
  MaxSignalReasons <- 1, MaxThreadReasons <- 1, MaxLimit <- 2
Item(kind, title, due, at) ==
  [id |-> 1, kind |-> kind, title |-> title, timed |-> due # None, due |-> due, published |-> at]
Signal(id, label) == [id |-> id, kind |-> "risk", label |-> label, anchor |-> id]
Card(id, artifacts, signals, threads, age) ==
  [id |-> id, meeting |-> 1, resolves |-> TRUE, artifacts |-> artifacts, signals |-> signals,
   threads |-> threads, age |-> age]
Drawn == {<<>>, <<Item("adr", "x", None, None)>>, <<Item("adr", "", None, 2)>>,
          <<Item("action-item", "x", 1, 1), [Item("action-item", "y", 2, None) EXCEPT !.id = 2]>>}
Signals == {<<>>, <<Signal(1, ""), Signal(2, "x")>>, <<Signal(1, "x")>>}
Threads == {<<>>, <<[id |-> 1, name |-> ""], [id |-> 2, name |-> "x"]>>}
Candidates ==
  {<<Card(1, a, s, t, age), [Card(2, b, <<>>, <<>>, 2) EXCEPT !.resolves = there], Card(3, a, s, <<>>, 1)>> :
     a \in Drawn, s \in Signals, t \in Threads, age \in {1, 2, None}, b \in Drawn, there \in BOOLEAN}

SmallInputs ==
  [gate |-> UpTo(4, Questions!Marks \union Questions!Prose) \X {{m1}} \X SUBSET {m1, m2},
   chunks |-> UpTo(4, 1..5) \X {4, 6} \X (0..2),
   markup |-> UpTo(5, {"<", ">", "c"}) \X {<<>>, <<"c">>},
   sides |-> UpTo(2, Sides),
   feed |-> Candidates \X {None, "thread", "risk"}]

-----------------------------------------------------------------------------
\* Passages: turns packed into chunks, a hit split into highlighted runs and a traversal
\* folded into meetings keep all of it, once and in order (chunk_turns,
\* parse_highlight_runs, thread_timeline).
PassagesKeepTheText ==
  /\ scene = "chunks" => Cut!ChunksCover(input[1], input[2], input[3])
  /\ scene = "markup" => Cut!RunsKeepTheText(input[1], input[2])
  /\ scene = "sides" => Cut!TimelineKeepsRows(input)

\* Feed.FeedServesWhatItCounts: following the pages meets every card once, best first.
FeedServesWhatItCounts == scene = "feed" => Cards!FeedServesWhatItCounts(input[1], input[2], 1)
===============================================================================
