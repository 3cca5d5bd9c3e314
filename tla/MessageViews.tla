---------------------------- MODULE MessageViews ----------------------------
(***************************************************************************)
(* What a caller sees of a Gmail message (newMessageView in                *)
(* googleops/gmail/operations.go, and mime.go): the body chosen among its  *)
(* parts, cut to a number of bytes; its attachments, up to a number; flags *)
(* that say what was left out.  The tree of parts is given in the order    *)
(* the code walks it, a text as the widths in bytes of its characters, and *)
(* Tag for a tag of HTML.                                                  *)
(***************************************************************************)
EXTENDS Naturals, Sequences, Functions, GoSlices

CONSTANTS
    MessageParts,        \* sequences of parts
    BodyLimits,          \* the values of max_body_bytes
    DefaultBodyBytes,    \* defaultBodyBytes
    MaxBodyBytes,        \* maxBodyBytes
    MaxAttachments,      \* maxAttachments
    Subjects,            \* texts
    MaxHeaderBytes       \* maxHeaderBytes

NoName == ""             \* a label, a file or a body kept apart that there is none of

ASSUME ViewBounds ==
    DefaultBodyBytes \in Nat /\ MaxBodyBytes \in Nat /\ MaxAttachments \in Nat /\ MaxHeaderBytes \in Nat

\* a message has a list of parts, and its texts have characters
ASSUME TextsAssumption ==
    /\ \A parts \in MessageParts :
          /\ parts \in Seq(Range(parts))
          /\ \A i \in DOMAIN parts : parts[i].data \in Seq(Nat) /\ parts[i].stored \in Seq(Nat)
    /\ Subjects \subseteq Seq(Nat)

VARIABLE viewed          \* the last message asked for and the view that was given

messageVars == <<viewed>>

(***************************************************************************)
(* Text                                                                    *)
(***************************************************************************)

Tag == 0
StripHTMLTags(text) == Filtered(text, {i \in DOMAIN text : text[i] # Tag})

\* a text as its bytes: TRUE where a character starts
BytesOf(text) ==
    LET from[n \in 0 .. Len(text)] ==
            IF n = 0 THEN <<>> ELSE from[n - 1] \o [b \in 1 .. (IF text[n] = Tag THEN 1 ELSE text[n]) |-> b = 1]
    IN  from[Len(text)]

\* fault seeded in BoundedBytes: the cut is not moved back to a character
CutAnywhere(bytes, limit) ==
    [text |-> [i \in DOMAIN bytes \cap 1 .. limit |-> bytes[i]], truncated |-> Len(bytes) > limit]

BoundedBytes(bytes, limit) ==
    IF Len(bytes) <= limit THEN [text |-> bytes, truncated |-> FALSE]
    ELSE LET starts == {c \in 0 .. limit : c = 0 \/ bytes[c + 1]}   \* where a cut may be
             cut    == CHOOSE c \in starts : \A d \in starts : d <= c
         IN  [text |-> SubSeq(bytes, 1, cut), truncated |-> TRUE]

(***************************************************************************)
(* The body                                                                *)
(***************************************************************************)

IsAttachmentPart(p) == p.filename \/ p.disposition = "attachment"
HasBodyData(p)      == p.data # <<>> \/ p.external # NoName

\* the first part of the type, among those that are not attachments
FindBodyPart(parts, type) ==
    {i \in DOMAIN parts :
        LET fits(j) == parts[j].type = type /\ ~IsAttachmentPart(parts[j]) /\ HasBodyData(parts[j])
        IN  fits(i) /\ \A j \in DOMAIN parts : fits(j) => i <= j}

\* plain text before HTML
BestBodyPart(parts) ==
    IF FindBodyPart(parts, "text/plain") # {} THEN FindBodyPart(parts, "text/plain")
    ELSE FindBodyPart(parts, "text/html")

\* plain text may be HTML by the look of it
Shown(p) ==
    LET text == IF p.data = <<>> THEN p.stored ELSE p.data
    IN  IF p.type = "text/html" \/ p.markup THEN StripHTMLTags(text) ELSE text

NoBody == [text |-> <<>>, truncated |-> FALSE, selected |-> NoName, fails |-> FALSE]

\* a body kept apart is fetched unless it is too large; what cannot be decoded fails
BoundedBody(parts, limit) ==
    IF BestBodyPart(parts) = {} THEN NoBody
    ELSE LET p == parts[CHOOSE i \in BestBodyPart(parts) : TRUE]
             apart == p.external # NoName /\ p.data = <<>>
             cut   == BoundedBytes(BytesOf(Shown(p)), limit)
         IN  IF apart /\ p.size > MaxBodyBytes
             THEN [NoBody EXCEPT !.truncated = TRUE, !.selected = p.external]
             ELSE [text |-> cut.text, truncated |-> cut.truncated, selected |-> IF apart THEN p.external ELSE NoName,
                   fails |-> ~p.decodes]

(***************************************************************************)
(* The view                                                                *)
(***************************************************************************)

\* attachments in order, but for the one that holds the body
CollectAttachments(parts, selected) ==
    Filtered([i \in DOMAIN parts |-> i],
        {i \in DOMAIN parts : IsAttachmentPart(parts[i]) /\ ~(parts[i].external # NoName /\ parts[i].external = selected)})

AttachmentViews(parts, selected) ==
    LET all == CollectAttachments(parts, selected)
    IN  [items |-> SubSeq(all, 1, IF Len(all) > MaxAttachments THEN MaxAttachments ELSE Len(all)),
         truncated |-> Len(all) > MaxAttachments]

ValidBodyBytes(limit) == limit \in 0 .. MaxBodyBytes
LimitOrDefault(limit) == IF limit = 0 THEN DefaultBodyBytes ELSE limit

\* labels without an id, twice or without a name are left out; those of a message
\* read on its own have no names
StableStrings(ids) ==
    LET upTo[n \in 0 .. Len(ids)] ==
            IF n = 0 THEN <<>>
            ELSE IF ids[n] = NoName \/ ids[n] \in Range(upTo[n - 1]) THEN upTo[n - 1] ELSE Append(upTo[n - 1], ids[n])
    IN  upTo[Len(ids)]
LabelViews(ids, names) ==
    LET stable == StableStrings(ids) IN Filtered(stable, {i \in DOMAIN stable : stable[i] \in names})

\* a message read without its body is fetched with its headers only
Fetched(parts, includeBody) == IF includeBody THEN parts ELSE <<>>

\* parts are those that were fetched
NewMessageView(parts, subject, ids, names, includeBody, limit) ==
    LET header == BoundedBytes(BytesOf(subject), MaxHeaderBytes)
        body  == IF includeBody THEN BoundedBody(parts, LimitOrDefault(limit)) ELSE NoBody
        files == AttachmentViews(parts, body.selected)
    IN  [fails |-> body.fails, subject |-> header.text, body |-> body.text, bodyTruncated |-> body.truncated, attachments |-> files.items,
         labels |-> LabelViews(ids, names), attachmentsTruncated |-> files.truncated,
         truncated |-> header.truncated \/ body.truncated \/ files.truncated]

LabelIds == {<<>>, <<"l1", "l2", "l1">>, <<NoName, "l2">>}

ViewMessage(parts, subject, ids, names, includeBody, limit) ==
    /\ ValidBodyBytes(limit)
    /\ viewed' = {[parts |-> parts, subject |-> subject, ids |-> ids, names |-> names, includeBody |-> includeBody, limit |-> limit,
                   view |-> NewMessageView(Fetched(parts, includeBody), subject, ids, names, includeBody, limit)]}

MessageInit == viewed = {}
MessageNext ==
    /\ viewed = {}
    /\ \E parts \in MessageParts, subject \in Subjects, ids \in LabelIds, names \in SUBSET {"l1", "l2"}, includeBody \in BOOLEAN,
          limit \in BodyLimits : ViewMessage(parts, subject, ids, names, includeBody, limit)

(***************************************************************************)
(* Properties                                                              *)
(***************************************************************************)

WholeCharacters(text, bytes) == Len(text) = Len(bytes) \/ bytes[Len(text) + 1]

\* A view is not larger than was asked for and ends with a whole character; one
\* with the body that is not marked truncated leaves out neither bytes of the body it
\* chose nor an attachment; a plain body is preferred and is never listed as an
\* attachment; each label is shown once.  A view without the body says nothing of
\* parts it never fetched: it lists no attachment, and marks none as left out
\* (mime.go:259 boundedBytes, :65 bestBodyPart, operations.go:226 getMessage,
\* :541 newMessageView, :687 collectAttachments).
ViewFaithful(q) ==
    LET best  == BestBodyPart(q.parts)
        plain == {i \in DOMAIN q.parts : q.parts[i].type = "text/plain" /\ ~IsAttachmentPart(q.parts[i])
                                         /\ HasBodyData(q.parts[i])}
    IN  ~q.view.fails =>
          /\ Len(q.view.body) <= LimitOrDefault(q.limit) /\ Len(q.view.subject) <= MaxHeaderBytes
          /\ WholeCharacters(q.view.subject, BytesOf(q.subject))
          /\ q.includeBody => \A i \in best :
                /\ plain # {} => i \in plain
                /\ q.view.body = <<>> \/ WholeCharacters(q.view.body, BytesOf(Shown(q.parts[i])))
                /\ ~q.view.truncated => q.view.body = BytesOf(Shown(q.parts[i]))
          /\ ~q.view.truncated => q.view.subject = BytesOf(q.subject)
          /\ q.includeBody /\ ~q.view.truncated =>
                \A i \in DOMAIN q.parts : IsAttachmentPart(q.parts[i]) =>
                   \/ i \in Range(q.view.attachments)
                   \/ \E j \in best : q.parts[j].external = q.parts[i].external
          /\ ~q.includeBody => q.view.body = <<>> /\ q.view.attachments = <<>> /\ ~q.view.attachmentsTruncated
          /\ Range(q.view.attachments) \cap best = {}
          /\ \A i, j \in DOMAIN q.view.labels : q.view.labels[i] = q.view.labels[j] => i = j
ViewsFaithful == \A q \in viewed : ViewFaithful(q)
=============================================================================
