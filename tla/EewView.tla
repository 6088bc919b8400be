------------------------------ MODULE EewView ------------------------------
(***************************************************************************)
(* The archive viewer: internal/eewview's list and detail handlers, which  *)
(* read the archive while the notifier goes on writing to it.  The         *)
(* notifier's side is Finalize (internal/eewlog/store.go): it makes the    *)
(* directories one by one and renames the telegram into the last.          *)
(*                                                                         *)
(* A directory is the sequence of the numbers in its path, <<>> the data   *)
(* directory; FinalPath writes them with their full width, so number and   *)
(* name tell the same and sort the same.  A file's name is the earthquake  *)
(* and the report's number.  What does not have such a name, temporary     *)
(* files among it, the viewer passes over.                                 *)
(***************************************************************************)
EXTENDS Decoder

CONSTANTS
    Body,       \* telegrams that may come: sequences of lines
    Query,      \* [year, month, day] as browsers may send them
    Absent,     \* a parameter that is not there
    Word        \* a parameter that is no number

VARIABLES
    dirs,       \* the directories below the data directory
    files,      \* [dir, name] -> body
    storing,    \* the body Finalize is about, or None
    handler,    \* where the handler is
    seen,       \* the saturated query, as <<year, month, day>>
    level,      \* the directory level looked at
    pending,    \* names the list handler has yet to read
    page,       \* the page: finished, or the rows so far
    before,     \* the day's names when the request came (history)
    unread      \* names that could not be read (history)

\* An eqID is fourteen digits, and here the first eight of them are a date
\* that no clamp of the viewer changes.
Date == (2000..3000) \X (1..12) \X (1..31)

Quakes == [date : Date, rest : Nat]

ASSUME BodyAssumption ==
    /\ Body \subseteq Seq(Line)
    /\ \A line \in Line : line.nd # None => line.nd.eqID \in Quakes

ASSUME ParameterAssumption ==
    Absent \notin Int /\ Word \notin Int /\ Absent # Word

archiveVars == <<dirs, files, storing>>
viewVars == <<handler, seen, level, pending, page, before, unread>>
vars == <<archiveVars, viewVars>>

NoPage == [kind |-> "none"]

NoDay == <<0, 0, 0>>

\* The archive is empty and no request is being served.
Init ==
    /\ dirs = {} /\ files = <<>> /\ storing = None
    /\ handler = "idle" /\ seen = NoDay /\ level = 1 /\ pending = <<>>
    /\ page = NoPage /\ before = {} /\ unread = {}

-----------------------------------------------------------------------------
(* The notifier                                                            *)

Name(t) == [id |-> t.eqID, num |-> t.num]

\* FinalPath: an eqID that is too short to hold a date goes to the top.
FinalPath(t) ==
    [dir |-> IF t.eqID = NoQuake THEN <<>> ELSE t.eqID.date, name |-> Name(t)]

Target == FinalPath(Decode(storing))

Finalize(body) ==
    /\ storing = None
    /\ storing' = body
    /\ UNCHANGED <<dirs, files, viewVars>>

\* os.MkdirAll makes what is missing from the top.
Missing == {k \in DOMAIN Target.dir : SubSeq(Target.dir, 1, k) \notin dirs}

MakeDir ==
    /\ storing # None
    /\ Missing # {}
    /\ dirs' = dirs \union {SubSeq(Target.dir, 1, Min(Missing))}
    /\ UNCHANGED <<files, storing, viewVars>>

Rename ==
    /\ storing # None
    /\ Missing = {}
    /\ files' = [f \in DOMAIN files \union {Target} |->
                   IF f = Target THEN storing ELSE files[f]]
    /\ storing' = None
    /\ UNCHANGED <<dirs, viewVars>>

\* MkdirAll or Rename returns an error; directories that were made stay.
FinalizeFails ==
    /\ storing # None
    /\ storing' = None
    /\ UNCHANGED <<dirs, files, viewVars>>

-----------------------------------------------------------------------------
(* The list                                                                *)

\* Absent stays out of the range, so that the level above is listed.
Saturate(raw, min, max) ==
    IF raw = Absent THEN 0
    ELSE IF raw = Word THEN min
    ELSE IF raw > max THEN max
    ELSE IF raw < min THEN min ELSE raw

\* mutant: a December that is none
ElevenMonths(q) ==
    <<Saturate(q.year, 2000, 3000), Saturate(q.month, 1, 11), Saturate(q.day, 1, 31)>>

Saturated(q) ==
    <<Saturate(q.year, 2000, 3000), Saturate(q.month, 1, 12), Saturate(q.day, 1, 31)>>

Digits(n) == IF n < 10 THEN <<n>> ELSE <<n \div 10, n % 10>>

IDLess(a, b) ==
    \E k \in 1..4 :
        LET x == Append(a.date, a.rest)  y == Append(b.date, b.rest)
        IN  x[k] < y[k] /\ \A j \in 1..(k - 1) : x[j] = y[j]

\* mutant: numbers compared as text
TextLess(a, b) ==
    IF a.id = b.id
    THEN LET x == Digits(a.num)  y == Digits(b.num)
         IN  x[1] < y[1] \/ (x[1] = y[1] /\ Len(x) < Len(y))
    ELSE IDLess(a.id, b.id)

\* lessEEWFile.  Names of different earthquakes are compared as text, which
\* their dates and times decide.
Less(a, b) == IF a.id = b.id THEN a.num < b.num ELSE IDLess(a.id, b.id)

\* sort.Slice: the order is strict, so there is one way to sort names.
Sorted(names) ==
    CHOOSE s \in SetToSeqs(names) : \A i, j \in DOMAIN s : i < j => Less(s[i], s[j])

Subdirs(dir) ==
    {k \in UNION {{d[i] : i \in DOMAIN d} : d \in dirs} : Append(dir, k) \in dirs}

Links(dir) == SetToSortSeq(Subdirs(dir), <)

Names(dir) == {f.name : f \in {f \in DOMAIN files : f.dir = dir /\ f.name.id # NoQuake}}

Request(q) ==
    /\ handler = "idle"
    /\ handler' = "stat"
    /\ seen' = Saturated(q)
    /\ before' = Names(seen')
    /\ UNCHANGED <<archiveVars, level, pending, page, unread>>

\* dirExists: the year's, the month's, the day's
Found ==
    /\ handler = "stat"
    /\ SubSeq(seen, 1, level) \in dirs
    /\ \/ level < 3 /\ level' = level + 1 /\ UNCHANGED handler
       \/ level = 3 /\ handler' = "readDir" /\ UNCHANGED level
    /\ UNCHANGED <<archiveVars, seen, pending, page, before, unread>>

\* It is not there, or os.Stat fails.
NotFound ==
    /\ handler = "stat"
    /\ handler' = "subdirs"
    /\ UNCHANGED <<archiveVars, seen, level, pending, page, before, unread>>

\* The page of links to the last level that exists.
ShowSubdirs ==
    /\ handler = "subdirs"
    /\ LET dir == SubSeq(seen, 1, level - 1) IN
       page' = [kind |-> "links", dir |-> dir, links |-> Links(dir)]
    /\ handler' = "reply"
    /\ UNCHANGED <<archiveVars, seen, level, pending, before, unread>>

ReadDir ==
    /\ handler = "readDir"
    /\ pending' = Sorted(Names(seen))
    /\ page' = [kind |-> "day", rows |-> <<>>]
    /\ handler' = "readFiles"
    /\ UNCHANGED <<archiveVars, seen, level, before, unread>>

\* os.ReadDir returns an error: no links, or status 500.
ReadDirFails ==
    /\ handler \in {"subdirs", "readDir"}
    /\ page' = IF handler = "subdirs"
               THEN [kind |-> "links", dir |-> SubSeq(seen, 1, level - 1), links |-> <<>>]
               ELSE [kind |-> "error"]
    /\ handler' = "reply"
    /\ UNCHANGED <<archiveVars, seen, level, pending, before, unread>>

\* What a row tells of a telegram, and the detail page.  Here a report is
\* final if its NCN_type is 8 or more.
Summary(t) == [num |-> t.num, final |-> t.ncn >= 8, cancelled |-> IsCancellation(t)]

Detail(t) ==
    [summary |-> Summary(t), located |-> ~IsCancellation(t) /\ t.center # None,
     id |-> t.eqID, areas |-> DOMAIN t.ebi]

ReadFile ==
    /\ handler = "readFiles" /\ pending # <<>>
    /\ LET body == files[[dir |-> seen, name |-> pending[1]]] IN
       page' = [page EXCEPT !.rows =
                   Append(@, [name |-> pending[1], shows |-> Summary(Decode(body))])]
    /\ pending' = Tail(pending)
    /\ UNCHANGED <<archiveVars, handler, seen, level, before, unread>>

\* os.ReadFile returns an error: the row is left out.
ReadFileFails ==
    /\ handler = "readFiles" /\ pending # <<>>
    /\ unread' = unread \union {pending[1]}
    /\ pending' = Tail(pending)
    /\ UNCHANGED <<archiveVars, handler, seen, level, page, before>>

RenderList ==
    /\ handler = "readFiles" /\ pending = <<>>
    /\ handler' = "reply"
    /\ UNCHANGED <<archiveVars, seen, level, pending, page, before, unread>>

\* The page is on its way, and the handler keeps nothing for the next request.
Reply ==
    /\ handler = "reply"
    /\ handler' = "idle" /\ seen' = NoDay /\ level' = 1 /\ pending' = <<>>
    /\ page' = NoPage /\ before' = {} /\ unread' = {}
    /\ UNCHANGED archiveVars

-----------------------------------------------------------------------------
(* The detail page                                                         *)

\* detailNameRE: fourteen digits, a dot, and one to four digits
DetailName(name) == name.id # NoQuake /\ name.num < 10000

\* mutant: month and day change places
Swapped(name) ==
    [dir |-> <<name.id.date[1], name.id.date[3], name.id.date[2]>>, name |-> name]

TelegramPath(name) == [dir |-> name.id.date, name |-> name]

DetailPage(name) ==
    IF ~DetailName(name) THEN [kind |-> "badRequest"]
    ELSE IF TelegramPath(name) \notin DOMAIN files THEN [kind |-> "notFound"]
    ELSE [kind |-> "detail", back |-> name.id.date,
          shows |-> Detail(Decode(files[TelegramPath(name)]))]

ShowDetail(name) ==
    /\ handler = "idle"
    /\ handler' = "reply"
    /\ \/ page' = DetailPage(name)
       \/ DetailName(name) /\ page' = [kind |-> "notFound"]    \* os.ReadFile fails
    /\ UNCHANGED <<archiveVars, seen, level, pending, before, unread>>

-----------------------------------------------------------------------------
ListStep ==
    \/ Found \/ NotFound \/ ShowSubdirs
    \/ ReadDir \/ ReadDirFails \/ ReadFile \/ ReadFileFails \/ RenderList \/ Reply

NotifierStep == MakeDir \/ Rename \/ FinalizeFails

Next ==
    \/ \E body \in Body : Finalize(body) \/ ShowDetail(Name(Decode(body)))
    \/ \E q \in Query : Request(q)
    \/ NotifierStep
    \/ ListStep

Spec == Init /\ [][Next]_vars

-----------------------------------------------------------------------------
(* Properties                                                              *)

\* decoder.go:79-94: the fold over the lines gives what the body says, for
\* every short body and every telegram in the archive.
DecodeAgrees ==
    /\ Misread = {}
    /\ \A f \in DOMAIN files : Says(Decode(files[f]), files[f])

Rows == IF page.kind = "day" THEN page.rows ELSE <<>>

Earlier(a, b) ==
    \/ IDLess(a.id, b.id)
    \/ a.id = b.id /\ a.num < b.num

\* The row tells what a telegram of its name tells: number, final, cancelled.
IsTrue(row) ==
    \E b \in Body : row.name = Name(Decode(b)) /\ row.shows = Summary(Decode(b))

\* list.go:55-64, 153-180: whatever the notifier does between the steps of the
\* handler, a day's list is complete as of the time it was asked for, has every
\* report once, by earthquake and by number, and tells of each what a telegram
\* of that name tells.
ListIsFaithful ==
    /\ \A i, j \in DOMAIN Rows : i < j => Earlier(Rows[i].name, Rows[j].name)
    /\ \A i \in DOMAIN Rows :
          /\ IsTrue(Rows[i])
          /\ [dir |-> seen, name |-> Rows[i].name] \in DOMAIN files
    /\ handler = "reply" /\ page.kind = "day" =>
          before \ unread \subseteq {Rows[i].name : i \in DOMAIN Rows}

LinkTo(dir) ==
    [year |-> dir[1],
     month |-> IF Len(dir) > 1 THEN dir[2] ELSE Absent,
     day |-> IF Len(dir) > 2 THEN dir[3] ELSE Absent]

\* The list handler asked for a link to dir stops one level below dir.
LeadsTo(q, dir) ==
    LET path == Saturated(q) IN
    /\ SubSeq(path, 1, Len(dir)) = dir
    /\ Len(dir) < 3 => SubSeq(path, 1, Len(dir) + 1) \notin dirs

\* eewlog/store.go:49-52, list.go:99-182, detail.go:88-119: the viewer finds
\* what the notifier wrote.  From the top, links lead to the day of every
\* telegram with a date; its row opens the page about the same report; and the
\* link back leads to its day.
EveryReportReached ==
    \A f \in DOMAIN files : f.dir # <<>> =>
        /\ \A k \in 1..3 :
              /\ f.dir[k] \in Subdirs(SubSeq(f.dir, 1, k - 1))
              /\ LeadsTo(LinkTo(SubSeq(f.dir, 1, k)), SubSeq(f.dir, 1, k))
        /\ LET opened == DetailPage(f.name) IN
              /\ opened.kind = "detail"
              /\ opened.shows.id = f.name.id
              /\ opened.shows.summary.num = f.name.num
              /\ LeadsTo(LinkTo(opened.back), f.dir)
=============================================================================
