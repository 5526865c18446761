------------------------------ MODULE MC_Keeping ------------------------------
(***************************************************************************)
(* TLC: the keeping of the corpus, with one, two or three of everything;   *)
(* and the pure half of three stages, over small inputs.                   *)
(***************************************************************************)
EXTENDS Keeping, TLC

CONSTANT v1

Symmetry == Permutations(Runs) \union Permutations(Contents) \union Permutations(Roots)

(* An edited file and a published video, one lock file for all; an info without and *)
(* with a picture, too long or not, dated or not; a supply with each kind of file.  *)
SmallListings == {<<v1>>, <<v1, NotVideo>>}
OneShard == [source \in Contents \union Videos |-> 0]
Info(format, seconds, release, upload) ==
  [id |-> v1, formats |-> {format}, duration |-> seconds, release |-> release, upload |-> upload,
   channel |-> Unknown, uploader |-> "u", format |-> "22", manual |-> {}, auto |-> {"en"}]
SmallInfos ==
  {Info("avc1", 1, 5, 4), Info("avc1", 1, Unknown, 4), Info("avc1", 1, Unknown, Unknown),
   Info("avc1", 3, 5, 4), Info("avc1", Unknown, 5, 4), Info("none", 1, 5, 4)}
SmallSupplies ==
  [files : SUBSET [name : {"recording.mp4", "transcript.txt", "document.docx"}, readable : {TRUE}, empty : {FALSE}, video : BOOLEAN],
   argument : {"absent", "date"}, container : {"epoch", "instant"}]

(* Two requests, one of them unreadable, and an api that may come back under either id. *)
OneByte(role) == 1

(* A first name, a slot, and graphs in which that name is one person's or two people's. *)
SmallLabels == {<<"slot">>, <<"ann">>}
SmallSlots == {<<"slot">>}
Itself(token) == token
Person(key, name) == [key |-> <<"mail", key>>, name |-> name]
SmallRosters ==
  {{Person("a", <<"ann", "lee">>), Person("b", <<"bob">>)}, {Person("a", <<"ann", "lee">>), Person("b", <<"ann", "lee">>)}}
SmallNames == {<<"dana">>}

(* 1 is close to 2 and 2 to 3, under one threshold of the two. *)
InTurn == <<1, 2>>
AsWritten == <<1, 2, 3>>
Closeness ==
  [pair \in (1..3) \X (1..3) |-> IF pair[1] = pair[2] THEN 9 ELSE
     IF 2 \notin {pair[1], pair[2]} THEN 1 ELSE IF 1 \in {pair[1], pair[2]} THEN 8 ELSE 6]

(* One job; of its source a drop without a recording and one with another transcript,  *)
(* and of another source a drop that says it adds to this one; all files of one size.  *)
SmallSources == [x \in {"j2", "d1", "d2", "d3"} |-> IF x = "d1" THEN "s1" ELSE "s2"]
SmallAugments == [d \in Drops |-> IF d = "d1" THEN "s2" ELSE None]
SmallTranscripts == [d \in Drops |-> IF d = "d3" THEN "b2" ELSE "b1"]
SmallRecordings == [d \in Drops |-> IF d = "d2" THEN None ELSE "b1"]
OneSize == [bytes \in Bytes |-> 1]

(* Two checkouts whose names hash to one base, two commands, one mishap of docker. *)
Listing == [slug \in {"a", "b"} |-> IF slug = "a" THEN 1 ELSE 2]
OneHome(slug) == 0

(* Two turns without an end, two cues before, at or after them, the last one open. *)
Turn == [start : 0..2, end : {Unknown}, words : {{}, {"w1"}, {"w1", "w2"}}]
Cue == [start : 0..2, end : {1, 3}, words : {{}, {"w1"}, {"w1", "w2"}}]

(* Lines that head, label, define and repeat items of every kind, in tables and lists. *)
Document == INSTANCE Extraction WITH
  Holds <- LAMBDA word, marker : \/ word = marker
                                 \/ <<word, marker>> \in {<<"decisions", "decision">>, <<"topics", "topic">>, <<"time to go", "time">>},
  Short <- {"ok"}, Long <- {"a long line"}, Superseded <- {"old"}, Approved <- {"approved"}, Nul <- {"nul"},
  MomentAt <- LAMBDA instant : CASE instant = 9 -> None [] instant = 2 -> "old" [] instant = 3 -> "approved" [] OTHER -> "moment"
Cell(word) == Document!Word(word)
Cited(word, instant) == [Document!Word(word) EXCEPT !.at = <<instant>>]
Id(letter, n) == [Document!Blank EXCEPT !.item = <<letter, n>>]
Heading(text) == [shape |-> "heading", says |-> text, cells |-> <<>>]
Line(shape, cells) == [shape |-> shape, says |-> "", cells |-> cells]
Lines ==
  {Heading("reported done"), Heading("tom"), Line("prose", <<>>),
   Line("table", <<Cell("id"), Cell("topic"), Cell("gist"), Cell("timestamp")>>),
   Line("table", <<Cell("time to go"), Cell("tom")>>),
   Line("table", <<Document!Blank, Id("D", 1), Cell("do that"), Cell("tom"), Cited("", 3)>>),
   Line("bullet", <<Id("T", 1), Cell("it"), Cell("ok")>>),
   Line("table", <<Id("R", 1), Cell("do it"), Cited("", 9)>>)}
  \union {Line(of[1], <<Id(of[2], 1), Cited("do it", 1), Cell("gist of it"), Cited("around", 2)>>) :
            of \in {<<"table", "D">>, <<"table", "A">>, <<"bullet", "T">>, <<"bullet", "R">>}}

(* Up to four frames a moment apart, of three looks, or three that a slate may open;  *)
(* and a screen of an earlier meeting and one of an earlier run.                      *)
Apart(look, other) == IF look > other THEN look - other ELSE other - look
Says == <<<<>>, <<"a">>, <<"b">>, <<"a", "b">>>>
Shot(at, look, blocks, tone) ==
  [at |-> at, look |-> look, blocks |-> blocks, words |-> Says[blocks + 1], tone |-> tone, sparse |-> TRUE, tall |-> TRUE]
Shots(views, tone) ==
  [i \in DOMAIN views |-> Shot(i, views[i][1], views[i][2], IF i = 1 THEN tone ELSE "bright")]
Earlier == [key |-> [text |-> <<"a", "c">>], signature |-> <<"a", "c">>, view |-> "slide"]
Stale == [key |-> [meeting |-> "meeting", ordinal |-> 2], signature |-> <<>>, view |-> "slide"]
Views(blocks, n) == UNION {[1..k -> {0, 1, 3} \X blocks] : k \in 1..n}
Frames ==
  {Shots(views, "bright") : views \in Views({0, 3}, 4)} \union {Shots(views, "slate") : views \in Views({0, 1, 3}, 3)}

UpTo(n, S) == UNION {[1..k -> S] : k \in 0..n}
Documents == {<<h>> \o lines : h \in {Heading("decisions"), Heading("topics"), Heading("tom")}, lines \in UpTo(3, Lines)}
Texts ==
  {<<Heading(text)>> \o lines : text \in {"decisions", "topics"}, lines \in UpTo(1, Lines)}
  \union {<<Heading("decisions"), Line("table", <<Id("D", 1), Cited("nul", 1)>>)>>}
Reads == [had : {TRUE}, text : Texts] \union [had : {FALSE}, text : {<<>>}]
SmallInputs ==
  [align |-> (Turn \X Turn) \X (Cue \X Cue),
   document |-> Documents \X Document!Kinds,
   retained |-> Reads \X Reads \X BOOLEAN \X BOOLEAN \X Document!Kinds,
   screens |-> Frames \X {<<Stale, Earlier>>} \X {"meeting"}]

-----------------------------------------------------------------------------
\* Extraction.ItemsAreAccountedFor, AnchorsKeepTheirColumn, RowsComeFromTheKeptText: no
\* item is lost, doubled or made up; in a table with one header row it cites the
\* timestamp column; and rows are committed with the text they came from.
ItemsAreAccountedFor ==
  /\ scene = "document" =>
       /\ Document!ItemsAreAccountedFor(input[1], input[2])
       /\ (\A i \in DOMAIN input[1] : Document!OneHeader(input[1], i)) => Document!AnchorsKeepTheirColumn(input[1], input[2])
  /\ scene = "retained" =>
       Document!RowsComeFromTheKeptText(Document!Document(input[3], input[4], input[1], input[2], input[5]), input[5])
\* Extraction.AnchorsKeepTheirColumn: the same of any table, which a short row may relabel.
AnchorsKeepTheirColumn == scene = "document" => Document!AnchorsKeepTheirColumn(input[1], input[2])
===============================================================================
