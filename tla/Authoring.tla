------------------------------ MODULE Authoring ------------------------------
(***************************************************************************)
(* Creating a document, a presentation or a spreadsheet                    *)
(* (googleops/authoring).  The first two are created empty and then filled *)
(* by one batch, so a creation may leave a resource without its content;   *)
(* a spreadsheet is created with its cells.  Neither call is repeated.     *)
(* The batch addresses paragraphs by positions in the text, counted in     *)
(* UTF-16 units, which the code computes.                                  *)
(***************************************************************************)
EXTENDS Naturals, Sequences, FiniteSets, Functions, GoSlices

CONSTANTS
    Documents,        \* requests: sequences of paragraphs, each its characters and a style
    Presentations,    \* requests: sequences of slides, each a title and lines
    Spreadsheets,     \* requests: header, rows of cells
    MaxCreations      \* bound: calls started

ASSUME MaxCreationsAssumption == MaxCreations \in Nat

\* what a request holds are lists
ASSUME RequestsAssumption ==
    /\ \A in \in Documents :
          /\ in.paragraphs \in Seq(Range(in.paragraphs))
          /\ \A i \in DOMAIN in.paragraphs : in.paragraphs[i].text \in Seq(Range(in.paragraphs[i].text))
    /\ \A in \in Presentations : in.slides \in Seq(Range(in.slides))
    /\ \A in \in Spreadsheets :
          /\ in.rows \in Seq(Range(in.rows))
          /\ \A r \in DOMAIN in.rows : in.rows[r] \in Seq(Range(in.rows[r]))

VARIABLES
    creations,        \* the calls, in the order they started
    resources         \* what they made at Google

authoringVars == <<creations, resources>>

Unsaid == ""              \* a style that is not asked for, a title or an outcome there is not

(***************************************************************************)
(* Documents                                                               *)
(***************************************************************************)

\* a paragraph holds no line break of its own; the limits on size are left out
ValidDocument(in) ==
    Len(in.paragraphs) >= 1 /\ \A i \in DOMAIN in.paragraphs : "break" \notin Range(in.paragraphs[i].text)

Width(ch) == IF ch = "wide" THEN 2 ELSE 1      \* UTF-16 units of a character

\* fault seeded in Units: characters are counted
Characters(text) == Len(text)
Units(text) ==
    LET upTo[n \in 0 .. Len(text)] == IF n = 0 THEN 0 ELSE upTo[n - 1] + Width(text[n])
    IN  upTo[Len(text)]

\* where paragraph i begins: texts are inserted at 1, each with its line break
Starts(lengths) ==
    LET from[i \in 1 .. Len(lengths) + 1] == IF i = 1 THEN 1 ELSE from[i - 1] + lengths[i - 1] + 1
    IN  from

StyleOf(p) == IF p.style = Unsaid THEN "NORMAL_TEXT" ELSE p.style

\* the batch: a range and a style for each paragraph
StyleRequests(paragraphs) ==
    LET at == Starts([i \in DOMAIN paragraphs |-> Units(paragraphs[i].text)])
    IN  [i \in DOMAIN paragraphs |-> [start |-> at[i], end |-> at[i + 1], style |-> StyleOf(paragraphs[i])]]

\* Docs styles every paragraph that a range meets, in the order of the requests
TrueUnits(text) == Len(text) + Cardinality({i \in DOMAIN text : text[i] = "wide"})
StyledBy(paragraphs, requests) ==
    [i \in DOMAIN paragraphs |->
        LET at    == Starts([p \in DOMAIN paragraphs |-> TrueUnits(paragraphs[p].text)])
            meets == {j \in DOMAIN requests : requests[j].start < at[i + 1] /\ at[i] < requests[j].end}
        IN  IF meets = {} THEN "NORMAL_TEXT"
            ELSE requests[CHOOSE j \in meets : \A l \in meets : l <= j].style]

(***************************************************************************)
(* Presentations and spreadsheets                                          *)
(***************************************************************************)

\* what Slides put there is deleted, if each has an id, before the slides asked for
NoId == 0
Slide(id, s) == [id |-> id, title |-> s.title, body |-> s.body]
Ids(slides)  == {slides[i].id : i \in DOMAIN slides}
SlidesNamed(initial) == NoId \notin Ids(initial)
Refilled(there, deletes, slides) ==
    Filtered(there, {i \in DOMAIN there : there[i].id \notin deletes}) \o [i \in DOMAIN slides |-> Slide(i, slides[i])]

ValidPresentation(in) ==
    /\ Len(in.slides) >= 1
    /\ \A i \in DOMAIN in.slides : in.slides[i].title # Unsaid /\ "break" \notin Range(in.slides[i].body)

\* a cell holds at most one kind of value, and a text never becomes a formula
CellValue(c) ==
    IF c.text THEN "string" ELSE IF c.number THEN "number" ELSE IF c.boolean THEN "bool"
    ELSE IF c.formula THEN "formula" ELSE "empty"
ValidCell(c) == \A f, g \in {"text", "number", "boolean", "formula"} : c[f] /\ c[g] => f = g

Larger(a, b) == IF a > b THEN a ELSE b
Widest(rows) ==
    LET upTo[n \in 0 .. Len(rows)] == IF n = 0 THEN 1 ELSE Larger(upTo[n - 1], Len(rows[n]))
    IN  upTo[Len(rows)]

\* a frozen header needs a row below it
Grid(in) ==
    [rows |-> IF in.header THEN Larger(Len(in.rows), 2) ELSE Len(in.rows), columns |-> Widest(in.rows),
     frozen |-> IF in.header THEN 1 ELSE 0,
     cells |-> [r \in DOMAIN in.rows |-> [c \in DOMAIN in.rows[r] |->
                  [value |-> CellValue(in.rows[r][c]), bold |-> in.header /\ r = 1]]]]
ValidSpreadsheet(in) ==
    Len(in.rows) >= 1 /\ \A r \in DOMAIN in.rows : \A c \in DOMAIN in.rows[r] : ValidCell(in.rows[r][c])

(***************************************************************************)
(* Calls                                                                   *)
(***************************************************************************)

Resource(kind, k, content) == [kind |-> kind, by |-> k, filled |-> 0, content |-> content]

StartCreation(kind, in) ==
    /\ Len(creations) < MaxCreations
    /\ creations' = Append(creations, [kind |-> kind, in |-> in, stage |-> "create", id |-> 0, deletes |-> {},
                                       outcome |-> Unsaid, populated |-> FALSE])
    /\ UNCHANGED resources

Ends(k, outcome, id, populated) ==
    creations' = [creations EXCEPT ![k].stage = "done", ![k].outcome = outcome, ![k].id = id,
                    ![k].populated = populated]

\* nothing is made, or the answer does not tell
CreateFails(k) ==
    /\ creations[k].stage = "create"
    /\ \/ Ends(k, "failed", 0, FALSE)
       \/ Ends(k, "unknown", 0, FALSE)
    /\ UNCHANGED resources

\* Google makes it; the answer may be lost or name nothing
Create(k, initial) ==
    /\ creations[k].stage = "create"
    /\ LET kind == creations[k].kind
           in   == creations[k].in
           id   == Len(resources) + 1
       IN  /\ resources' = Append(resources, Resource(kind, k, IF kind = "spreadsheet" THEN Grid(in)
                                                   ELSE IF kind = "presentation" THEN initial ELSE <<>>))
           /\ \/ Ends(k, "unknown", 0, FALSE)
              \/ IF kind = "spreadsheet" THEN Ends(k, "done", id, TRUE)
                 ELSE IF kind = "presentation" /\ ~SlidesNamed(initial) THEN Ends(k, "partial", id, FALSE)
                 ELSE creations' = [creations EXCEPT ![k].stage = "populate", ![k].id = id,
                                      ![k].deletes = Ids(initial)]

Content(k) ==
    LET c == creations[k]
    IN  IF c.kind = "document" THEN StyledBy(c.in.paragraphs, StyleRequests(c.in.paragraphs))
        ELSE Refilled(resources[c.id].content, c.deletes, c.in.slides)

\* one batch, done or not; a failure leaves the resource named in a partial result
Populate(k) ==
    /\ creations[k].stage = "populate"
    /\ LET filled == [resources EXCEPT ![creations[k].id].filled = @ + 1,
                        ![creations[k].id].content = Content(k)]
       IN  \/ resources' = filled /\ Ends(k, "done", creations[k].id, TRUE)
           \/ resources' \in {resources, filled} /\ Ends(k, "partial", creations[k].id, FALSE)

\* a presentation is created with starter slides, or none
InitialSlides == {[i \in 1 .. Len(ids) |-> [id |-> ids[i], title |-> Unsaid, body |-> <<>>]] :
                    ids \in {<<>>, <<101>>, <<101, NoId>>}}

AuthoringInit == creations = <<>> /\ resources = <<>>

AuthoringNext ==
    \/ \E in \in {x \in Documents : ValidDocument(x)} : StartCreation("document", in)
    \/ \E in \in {x \in Presentations : ValidPresentation(x)} : StartCreation("presentation", in)
    \/ \E in \in {x \in Spreadsheets : ValidSpreadsheet(x)} : StartCreation("spreadsheet", in)
    \/ \E k \in DOMAIN creations :
          \/ CreateFails(k) \/ Populate(k)
          \/ \E initial \in InitialSlides : Create(k, initial)

(***************************************************************************)
(* Properties                                                              *)
(***************************************************************************)

\* each paragraph has the style asked for, each slide is there and no other
AsAsked(kind, in, content) ==
    CASE kind = "document"     -> content = [i \in DOMAIN in.paragraphs |-> StyleOf(in.paragraphs[i])]
      [] kind = "presentation" -> content = [i \in DOMAIN in.slides |-> Slide(i, in.slides[i])]
      [] kind = "spreadsheet"  -> /\ content.columns >= 1 /\ content.frozen < content.rows
                                  /\ Len(content.cells) <= content.rows
                                  /\ \A r \in DOMAIN content.cells : Len(content.cells[r]) <= content.columns

\* A call makes at most one resource and fills it at most once; "populated" means
\* that it holds what was asked, styles by paragraph included; a partial result
\* names the resource that was made, and a failure means that there is none
\* (create.go:37 createDocument, :90 createPresentation, authoring.go:182 partial).
CreatedAsReported ==
    /\ \A i \in DOMAIN resources :
          LET r == resources[i]
          IN  /\ r.filled <= 1
              /\ creations[r.by].outcome # "failed"
              /\ \A j \in DOMAIN resources : resources[j].by = r.by => i = j
    /\ \A k \in DOMAIN creations :
          LET c == creations[k]
          IN  /\ c.outcome \in {"done", "partial"} => c.id \in DOMAIN resources /\ resources[c.id].by = k
              /\ c.populated = (c.outcome = "done")
              /\ c.populated => AsAsked(c.kind, c.in, resources[c.id].content)
=============================================================================
