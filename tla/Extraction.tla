----------------------------- MODULE Extraction -----------------------------
(***************************************************************************)
(* The summariser's documents: how one is read line by line into items,    *)
(* asked for again when it does not read, and kept.  A line is a heading,  *)
(* a table row or a bullet, already split into its cells; a cell is the    *)
(* words it carries and the instants of its timestamps.                    *)
(***************************************************************************)
EXTENDS Naturals, Sequences, FiniteSets, FiniteSetsExt, SequencesExt

CONSTANTS Holds(_, _),      \* a word holds a marker, folded to lower case
          Short,            \* words of at most two characters
          Long,             \* words over forty characters
          MomentAt(_),      \* the moment covering an instant, or None
          Superseded,       \* moments no reader is shown
          Approved,         \* moments whose artifacts somebody approved
          Nul,              \* words that hold a NUL
          None

ARCH_SUMMARY == "arch-summary"
ACTION_ITEMS == "action-items"
TOPICS == "topics"
RANKING_SIGNALS == "ranking-signals"
Kinds == {ARCH_SUMMARY, ACTION_ITEMS, TOPICS, RANKING_SIGNALS}

-----------------------------------------------------------------------------
(* Cells.  "broken" is a timestamp no clock shows.                         *)

Blank == [says |-> "", at |-> <<>>, broken |-> FALSE, item |-> None]
Word(w) == [Blank EXCEPT !.says = w]
Empty(cell) == cell = Blank
BareStamp(cell) == cell.says = "" /\ cell.item = None
StatusCell(cell) == cell.says = "Confirmed"

Where(cells, Wanted(_)) == {i \in DOMAIN cells : Wanted(cells[i])}
Least(found) == IF found = {} THEN 0 ELSE Min(found)
First(cells, Wanted(_)) == Least(Where(cells, Wanted))

\* The column a header labels: by containment, or by its whole label.
Labelled(headers, markers) == First(headers, LAMBDA h : \E m \in markers : Holds(h.says, m))
ExactLabelled(headers, labels) == First(headers, LAMBDA h : h.says \in labels)
At(cells, i) == IF i \in DOMAIN cells THEN cells[i] ELSE Blank
Without(cells, i) == SubSeq(cells, 1, i - 1) \o SubSeq(cells, i + 1, Len(cells))

TIMESTAMP_HEADERS == {"timestamp", "time", "when", "stamp"}
OWNER_HEADERS == {"owner", "assignee", "who"}
TOPIC_NAME_HEADERS == {"topic", "theme", "subject"}
TOPIC_GIST_HEADERS == {"gist", "summary"}
SIGNAL_LABEL_HEADERS == {"risk", "question", "issue"}
SIGNAL_DETAIL_HEADERS == {"detail", "notes", "context"}

-----------------------------------------------------------------------------
(* One row.                                                                *)

ID_SCAN_CELLS == 3
FindItemId(cells) == First(SubSeq(cells, 1, Min({ID_SCAN_CELLS, Len(cells)})), LAMBDA c : c.item # None)

KindFor(item, kind) ==
  CASE kind = ACTION_ITEMS -> "action-item"
    [] kind = TOPICS /\ item[1] = "T" -> "topic"
    [] kind = RANKING_SIGNALS /\ item[1] = "R" -> "risk"
    [] kind = RANKING_SIGNALS /\ item[1] = "Q" -> "question"
    [] kind = ARCH_SUMMARY /\ item[1] = "D" -> "adr"
    [] OTHER -> None

Excluded(section, kind) == kind = ACTION_ITEMS /\ (Holds(section, "reported done") \/ Holds(section, "watch item"))
Target(section, kind) ==
  /\ section # "" /\ ~Excluded(section, kind)
  /\ kind = ARCH_SUMMARY => Holds(section, "decision") \/ Holds(section, "summary")

IsHeaderRow(cells) == Len(cells) > 1 /\ \A i \in DOMAIN cells : ~Empty(cells[i]) /\ cells[i].says \notin Long
HasTopicSemantics(section, headers) ==
  \/ Holds(section, "topic") \/ Holds(section, "theme")
  \/ ExactLabelled(headers, {"topic"}) # 0 /\ ExactLabelled(headers, {"gist"}) # 0

Stamps(cells) == FlattenSeq([i \in DOMAIN cells |-> cells[i].at])

\* The labelled cell, else a cell that is only timestamps, else the whole row.
TimestampColumn(headers, kind) ==
  IF kind = TOPICS THEN ExactLabelled(headers, TIMESTAMP_HEADERS) ELSE Labelled(headers, TIMESTAMP_HEADERS)
Strict(cell) == IF BareStamp(cell) /\ ~cell.broken THEN cell.at ELSE <<>>
WholeRow(cells, column, bare, kind) == Stamps(cells)   \* mutant of the next
StampsOf(cells, column, bare, kind) ==
  IF kind = TOPICS /\ column # 0 THEN Strict(At(cells, column))
  ELSE IF column # 0 /\ At(cells, column).at # <<>> THEN At(cells, column).at
  ELSE IF bare # 0 THEN cells[bare].at
  ELSE Stamps(cells)
AnchorStamps(cells, headers, kind) ==
  StampsOf(cells, TimestampColumn(headers, kind), First(cells, LAMBDA c : BareStamp(c) /\ c.at # <<>>), kind)

\* The Owner column, else the section the row stands in.
Named(word) == IF word = "" \/ Holds(word, "unowned") THEN None ELSE word
Filled(cells, i) == IF Empty(At(cells, i)) THEN 0 ELSE i
OwnerIndex(cells, headers, kind) ==
  IF kind = ACTION_ITEMS THEN Filled(cells, Labelled(headers, OWNER_HEADERS)) ELSE 0
Owner(cells, i, section, kind) ==
  IF kind # ACTION_ITEMS THEN None ELSE Named(IF i = 0 THEN section ELSE cells[i].says)

\* The first cell of substance, else the first that is anything but a timestamp.
Loose(cell) == ~Empty(cell) /\ ~BareStamp(cell)
Substance(cells, owner) ==
  {i \in Where(cells, Loose) : i # owner /\ cells[i].says \notin Short /\ ~StatusCell(cells[i])}
TitleOf(cells, candidates) == At(cells, IF candidates = {} THEN First(cells, Loose) ELSE Min(candidates)).says
Title(cells, owner) == TitleOf(cells, Substance(cells, owner))

\* A topic's name and gist are both required; a signal's text is.
NameAndGist(cells, name, gist) == IF BareStamp(At(cells, gist)) THEN "" ELSE At(cells, name).says
Pinned(cells, name, gist) ==
  IF name = 0 \/ gist = 0 THEN NameAndGist(cells, 1, 2) ELSE NameAndGist(cells, name, gist)
TopicTitle(cells, headers) ==
  Pinned(cells, ExactLabelled(headers, TOPIC_NAME_HEADERS), ExactLabelled(headers, TOPIC_GIST_HEADERS))
LabelColumn(headers) == Max({1, ExactLabelled(headers, SIGNAL_LABEL_HEADERS)})
SignalTitle(cells, headers) == At(cells, LabelColumn(headers)).says
DetailOf(cells, label, detail) == At(cells, IF detail \in {0, label} THEN label + 1 ELSE detail).says
SignalDetail(cells, headers) ==
  DetailOf(cells, LabelColumn(headers), ExactLabelled(headers, SIGNAL_DETAIL_HEADERS))

ItemOf(line, item, cells, labels, owner, section, kind) ==
  [kind |-> KindFor(item, kind), id |-> item, layout |-> line.shape,
   section |-> IF kind = ACTION_ITEMS THEN section ELSE "",
   anchors |-> AnchorStamps(cells, labels, kind),
   owner |-> Owner(cells, owner, section, kind),
   title |-> CASE kind = TOPICS -> TopicTitle(cells, labels)
               [] kind = RANKING_SIGNALS -> SignalTitle(cells, labels)
               [] OTHER -> Title(cells, owner),
   detail |-> IF kind = RANKING_SIGNALS THEN SignalDetail(cells, labels) ELSE ""]
OwnedItem(line, item, cells, labels, section, kind) ==
  ItemOf(line, item, cells, labels, OwnerIndex(cells, labels, kind), section, kind)
ItemAtCell(line, index, headers, section, kind) ==
  OwnedItem(line, line.cells[index].item, Without(line.cells, index),
            IF line.shape = "table" /\ headers # <<>> THEN Without(headers, index) ELSE <<>>, section, kind)
Item(line, headers, section, kind) == ItemAtCell(line, FindItemId(line.cells), headers, section, kind)
Anchor(item) == Min(Range(item.anchors))

-----------------------------------------------------------------------------
(* The whole document.                                                     *)

Start == [section |-> "", headers |-> <<>>, populated |-> {}, items |-> <<>>,
          structure |-> FALSE, refused |-> FALSE]
Refused(s) == [s EXCEPT !.refused = TRUE]

\* Owners may each have an A1: an action item is known by its section too.
ByNumberAlone(s, item) == \E i \in DOMAIN s.items : s.items[i].id = item.id   \* mutant of the next
Seen(s, item) == \E i \in DOMAIN s.items : s.items[i].id = item.id /\ s.items[i].section = item.section

Defined(s, item, kind) ==
  CASE item.kind = None \/ Excluded(s.section, kind) -> s
    [] Seen(s, item) -> IF kind \in {TOPICS, RANKING_SIGNALS} THEN Refused(s) ELSE s
    [] item.anchors = <<>> \/ item.title = "" -> Refused(s)
    [] OTHER -> [s EXCEPT !.items = Append(s.items, item)]

Populated(s, kind) == IF Target(s.section, kind) THEN [s EXCEPT !.populated = @ \union {s.section}] ELSE s
ContentRead(s, line, item, kind) ==
  IF item THEN Defined(s, Item(line, s.headers, s.section, kind), kind) ELSE s
RowRead(s, line, item, kind) ==
  IF /\ ~item /\ line.shape = "table" /\ IsHeaderRow(line.cells)
     /\ kind = TOPICS => s.headers = <<>> \/ HasTopicSemantics(s.section, line.cells)
  THEN [s EXCEPT !.headers = line.cells]
  ELSE IF kind = TOPICS /\ ~HasTopicSemantics(s.section, IF line.shape = "table" THEN s.headers ELSE <<>>)
       THEN Refused(s)
       ELSE ContentRead(Populated(s, kind), line, item, kind)

LineRead(s, line, kind) ==
  CASE s.refused -> s
    [] line.shape = "heading" -> [s EXCEPT !.section = line.says, !.headers = <<>>]
    [] line.shape = "prose" -> s
    [] OTHER -> RowRead([s EXCEPT !.structure = @ \/ Target(s.section, kind)], line, FindItemId(line.cells) # 0, kind)

\* A document with no table or list where its kind keeps them is no document.
Structured(s) == IF s.structure THEN s ELSE Refused(s)
ParseExtractionDocument(document, kind) ==
  Structured(FoldLeft(LAMBDA state, line : LineRead(state, line, kind), Start, document))

Layout(s) ==
  LET layouts == {s.items[i].layout : i \in DOMAIN s.items}
  IN CASE layouts = {} -> "none" [] Cardinality(layouts) = 2 -> "mixed" [] OTHER -> CHOOSE l \in layouts : TRUE

-----------------------------------------------------------------------------
(* Asking for a document, or taking the drop's, and what is kept of it.    *)

NoDocument == [from |-> "nowhere"]
Kept(from, parsed, digest, text) ==
  [from |-> from, parsed |-> parsed, digest |-> digest, text |-> text]

\* The drop's file is read twice, once for its digest and once for its text; not
\* to be had is a failed read, or bytes that are no text.
AdoptParsed(first, second, parsed) ==
  IF first.had /\ second.had /\ ~parsed.refused THEN Kept("drop", parsed, first.text, second.text) ELSE NoDocument
Adopt(first, second, kind) == AdoptParsed(first, second, ParseExtractionDocument(second.text, kind))

\* A reply that does not read is asked for once more; one that cannot be had, or
\* that has no bytes, fails the stage there.
ReadsAs(reply, parsed) == reply.had /\ ~parsed.refused
Replied(reply, parsed) == Kept("model", parsed, reply.text, reply.text)
Answered(first, parsed, second, again) ==
  CASE ReadsAs(first, parsed) -> Replied(first, parsed)
    [] ~ReadsAs(first, parsed) /\ first.had /\ ReadsAs(second, again) -> Replied(second, again)
    [] OTHER -> NoDocument
Generate(first, second, kind) ==
  Answered(first, ParseExtractionDocument(first.text, kind), second, ParseExtractionDocument(second.text, kind))

\* A drop that declares a document must carry it; topics and signals no drop has.
Document(declared, carried, first, second, kind) ==
  CASE carried -> Adopt(first, second, kind)
    [] declared /\ ~carried -> NoDocument
    [] OTHER -> Generate(first, second, kind)

\* The text kept must be the bytes the digest is of, and a text the database takes.
HoldsNul(document) == \E i \in DOMAIN document : \E c \in DOMAIN document[i].cells : document[i].cells[c].says \in Nul
Unchecked(d) == TRUE   \* mutant of the next
Retained(d) == d.text = d.digest /\ ~HoldsNul(d.text)

\* An artifact or a signal stands where its first anchor does, a topic where each of
\* its anchors does.  An instant no moment covers fails the stage; a superseded moment
\* takes no row, and an approved one no artifact.
Standing(item, kind) == IF kind = TOPICS THEN Range(item.anchors) ELSE {Anchor(item)}
Landed(d, kind) == \A i \in DOMAIN d.parsed.items : \A at \in Standing(d.parsed.items[i], kind) : MomentAt(at) # None
Takes(moment, kind) == moment \notin Superseded /\ (kind \in {TOPICS, RANKING_SIGNALS} \/ moment \notin Approved)
RowsOf(d, kind) ==
  SelectSeq(d.parsed.items, LAMBDA item : \E at \in Standing(item, kind) : Takes(MomentAt(at), kind))
Committed(d, kind) == d # NoDocument /\ Landed(d, kind) /\ Retained(d)

-----------------------------------------------------------------------------
IsRow(line) == line.shape \in {"table", "bullet"}
Headings(document, i) == {j \in 1 .. i : document[j].shape = "heading"}
SectionAt(document, i) == IF Headings(document, i) = {} THEN "" ELSE document[Max(Headings(document, i))].says
ItemAt(document, i) == document[i].cells[FindItemId(document[i].cells)].item

\* No silent zero: a document that is read has exactly one item for every id its
\* rows define - per owner, for action items - the first row that defines it wins,
\* what the item says and cites stands in that row, and a section with content is
\* named when nothing came of it.
SameItem(document, i, j, kind) ==
  /\ ItemAt(document, i) = ItemAt(document, j)
  /\ kind = ACTION_ITEMS => SectionAt(document, i) = SectionAt(document, j)
StandsIn(item, cells, id) ==
  /\ item.id = id
  /\ item.anchors # <<>> /\ Range(item.anchors) \subseteq Range(Stamps(cells))
  /\ item.title \in {cells[c].says : c \in DOMAIN cells} \ {""}
ComeFrom(s, document, own, firsts, rows, kind) ==
  /\ Len(s.items) = Len(rows)
  /\ \A n \in DOMAIN s.items : StandsIn(s.items[n], document[rows[n]].cells, ItemAt(document, rows[n]))
  /\ kind \in {TOPICS, RANKING_SIGNALS} => firsts = own
  /\ (\E i \in own : Target(SectionAt(document, i), kind)) => s.populated # {}
Firsts(document, own, kind) == {i \in own : \A j \in own : SameItem(document, i, j, kind) => i <= j}
AccountedFor(s, document, own, firsts, kind) ==
  ~s.refused => ComeFrom(s, document, own, firsts, SetToSortSeq(firsts, <), kind)
Own(document, kind) ==
  {i \in DOMAIN document : /\ IsRow(document[i]) /\ FindItemId(document[i].cells) # 0
                           /\ KindFor(ItemAt(document, i), kind) # None
                           /\ ~Excluded(SectionAt(document, i), kind)}
ItemsAreAccountedFor(document, kind) ==
  AccountedFor(ParseExtractionDocument(document, kind), document, Own(document, kind),
               Firsts(document, Own(document, kind), kind), kind)

\* An item of a table cites the instants of the table's own timestamp column, and
\* not one mentioned in passing, whatever other rows the table has.
HeaderOf(document, i) == Max(Headings(document, i) \union {0}) + 1
IsTable(document, i) ==
  LET h == HeaderOf(document, i)
  IN /\ document[i].shape = "table" /\ document[h].shape = "table"
     /\ FindItemId(document[i].cells) = 1 /\ FindItemId(document[h].cells) = 0 /\ IsHeaderRow(document[h].cells)
OneHeader(document, i) ==
  \A j \in HeaderOf(document, i) + 1 .. i : document[j].shape = "table" => FindItemId(document[j].cells) # 0
AnchorsKeepTheirColumn(document, kind) ==
  LET s == ParseExtractionDocument(document, kind)
      column(i) == ExactLabelled(document[HeaderOf(document, i)].cells, {"timestamp"})
  IN ~s.refused =>
       \A i \in DOMAIN document : IsTable(document, i) /\ column(i) > 1 =>
         LET cell == At(document[i].cells, column(i))
         IN \A n \in DOMAIN s.items :
              /\ s.items[n].id = ItemAt(document, i)
              /\ s.items[n].section \in {"", SectionAt(document, i)}
              /\ \A j \in 1 .. i - 1 : IsRow(document[j]) => FindItemId(document[j].cells) = 0
              /\ cell.at # <<>>
              => s.items[n].anchors = cell.at

\* Rows are committed only with the very text they were read from: a line of it that
\* cites only moments taking rows has its row, and every row is of a line citing one.
RowsComeFrom(document, rows, firsts, kind) ==
  LET takes(i) == {at \in Range(Stamps(document[i].cells)) : Takes(MomentAt(at), kind)}
  IN /\ \A i \in firsts : takes(i) = Range(Stamps(document[i].cells)) => \E row \in rows : row.id = ItemAt(document, i)
     /\ \A row \in rows : \E i \in firsts : row.id = ItemAt(document, i) /\ takes(i) # {}
RowsComeFromTheKeptText(d, kind) ==
  Committed(d, kind) =>
    /\ d.parsed = ParseExtractionDocument(d.digest, kind)
    /\ RowsComeFrom(d.digest, Range(RowsOf(d, kind)), Firsts(d.digest, Own(d.digest, kind), kind), kind)
=============================================================================
