---------------------------- MODULE MailWorkflow ----------------------------
(***************************************************************************)
(* Preparing, drafting and sending a message (googleops/mailworkflow).     *)
(* Nothing is kept between calls: each resolves the sender, the signature  *)
(* and the message replied to afresh, while the owner may change them, and *)
(* composes the message again.  A draft or a send may carry the digest of  *)
(* an earlier preview.  A request refused before its first call is not a   *)
(* step; what reserving the calls of a workflow gives is in CallPath.      *)
(***************************************************************************)
EXTENDS Naturals, Sequences, Functions

CONSTANTS
    OwnAddress,       \* the account's own address
    SettingsStates,   \* what sendAs.list may answer: sets of aliases
    Sources,          \* what the message replied to may be
    EmailRequests,    \* the requests of callers
    MaxEmails         \* bound: calls started

ASSUME MaxEmailsAssumption == MaxEmails \in Nat

VARIABLES
    settings, source, \* at Google
    emails,           \* the calls, in the order they started
    mailbox           \* the drafts and messages Google accepted

mailVars == <<settings, source, emails, mailbox>>

NoAlias   == [email |-> "", name |-> "", primary |-> FALSE, status |-> "", signature |-> ""]
NoContext == [id |-> "", thread |-> "", subject |-> ""]                    \* a request that is no reply
NoSummary == [inReplyTo |-> "", thread |-> "", references |-> <<>>]
BadReference == "bad"

\* validateEmailRequest; semantic stands for mailcompose.ValidateSemantic
ValidReply(reply) == reply = NoContext \/ (reply.id # "" /\ reply.thread # "" /\ reply.subject # "")
ValidEmail(in)    == in.semantic /\ ValidReply(in.reply)

(***************************************************************************)
(* Resolution                                                              *)
(***************************************************************************)

Wanted(in) == IF in.from = "" THEN OwnAddress ELSE in.from

\* the alias with the address wanted, if the account may send as it
ResolveSender(in) == {a \in settings : a.email = Wanted(in) /\ (a.primary \/ a.status = "accepted")}

\* an included signature must be there
ResolveSignature(alias, include) == IF include THEN alias.signature ELSE ""
SignatureResolves(alias, in)     == in.include => alias.signature # ""

ParseReferences(s) == BadReference \notin Range(s)

SourceMatches(in) ==
    /\ source.id = in.reply.id /\ source.thread = in.reply.thread
    /\ source.subject = in.reply.subject /\ in.subject = in.reply.subject
    /\ source.messageID # ""
    /\ ParseReferences(source.references)

ResolveReply ==
    [inReplyTo  |-> source.messageID,
     thread     |-> source.thread,
     references |-> IF source.messageID \in Range(source.references) THEN source.references
                    ELSE Append(source.references, source.messageID)]

(***************************************************************************)
(* Composition                                                             *)
(***************************************************************************)

\* the message as its recipients get it; the date is that of the call
Compose(k) ==
    LET e == emails[k]
    IN  [sender |-> e.alias.email, name |-> e.alias.name, primary |-> e.alias.primary, status |-> e.alias.status,
         signature |-> ResolveSignature(e.alias, e.in.include),
         subject |-> e.in.subject, body |-> e.in.body, to |-> e.in.to, files |-> e.in.files,
         reply |-> e.reply, date |-> k]

\* fault seeded in ContentDigest: the signature is left out
DigestOfBody(content) == [content EXCEPT !.date = 0, !.signature = ""]

\* a hash of the sender, the signature, the subject and bodies, the addresses, the
\* reply and the attachments, taken to have no collisions; the date is left out
ContentDigest(content) == [content EXCEPT !.date = 0]

\* the digest a caller sends back, if any, in either case of its letters
PreviewCurrent(k) == \A d \in emails[k].expected : d = ContentDigest(Compose(k))

(***************************************************************************)
(* Calls                                                                   *)
(***************************************************************************)

Previews == {k \in DOMAIN emails : emails[k].outcome = "prepared"}
Digests  == {ContentDigest(Compose(k)) : k \in Previews}

StartEmail(op, in, expected) ==
    /\ Len(emails) < MaxEmails
    /\ ValidEmail(in)
    /\ op = "prepare" => expected = {}
    /\ emails' = Append(emails, [op |-> op, in |-> in, expected |-> expected, stage |-> "sender",
                                 alias |-> NoAlias, reply |-> NoSummary, outcome |-> ""])
    /\ UNCHANGED <<settings, source, mailbox>>

EndEmail(k, outcome) == emails' = [emails EXCEPT ![k].stage = "done", ![k].outcome = outcome]

\* the read fails, or what it says refuses the request
ReadSender(k) ==
    /\ emails[k].stage = "sender"
    /\ \/ EndEmail(k, "refused")
       \/ \E alias \in ResolveSender(emails[k].in) :
            /\ SignatureResolves(alias, emails[k].in)
            /\ emails' = [emails EXCEPT ![k].alias = alias,
                            ![k].stage = IF emails[k].in.reply = NoContext THEN "compose" ELSE "source"]
    /\ UNCHANGED <<settings, source, mailbox>>

ReadSource(k) ==
    /\ emails[k].stage = "source"
    /\ \/ EndEmail(k, "refused")
       \/ /\ SourceMatches(emails[k].in)
          /\ emails' = [emails EXCEPT ![k].reply = ResolveReply, ![k].stage = "compose"]
    /\ UNCHANGED <<settings, source, mailbox>>

\* composing needs no call; a preview ends here
ResolvePreflight(k) ==
    /\ emails[k].stage = "compose"
    /\ IF ~PreviewCurrent(k) THEN EndEmail(k, "refused")
       ELSE IF emails[k].op = "prepare" THEN EndEmail(k, "prepared")
       ELSE emails' = [emails EXCEPT ![k].stage = "write"]
    /\ UNCHANGED <<settings, source, mailbox>>

\* one write, never repeated.  Google takes it and names it, takes it and the answer
\* is lost or names nothing, or does not take it, which the caller may not learn
WriteEmail(k) ==
    /\ emails[k].stage = "write"
    /\ \/ /\ mailbox' = Append(mailbox, [call |-> k, kind |-> emails[k].op, content |-> Compose(k),
                                         thread |-> emails[k].reply.thread])
          /\ \/ EndEmail(k, "written")
             \/ EndEmail(k, "unknown")
       \/ /\ \/ EndEmail(k, "failed")
             \/ EndEmail(k, "unknown")
          /\ UNCHANGED mailbox
    /\ UNCHANGED <<settings, source>>

\* the owner changes an alias, or the message replied to
OwnerChanges ==
    /\ settings' \in SettingsStates /\ source' \in Sources
    /\ (settings' = settings) # (source' = source)
    /\ UNCHANGED <<emails, mailbox>>

MailInit ==
    /\ settings \in SettingsStates /\ source \in Sources
    /\ emails = <<>> /\ mailbox = <<>>

MailNext ==
    \/ \E op \in {"prepare", "draft", "send"}, in \in EmailRequests, expected \in {{}} \cup {{d} : d \in Digests} :
          StartEmail(op, in, expected)
    \/ \E k \in DOMAIN emails : ReadSender(k) \/ ReadSource(k) \/ ResolvePreflight(k) \/ WriteEmail(k)
    \/ OwnerChanges

(***************************************************************************)
(* Properties                                                              *)
(***************************************************************************)

Undated(content) == [content EXCEPT !.date = 0]

\* What is written with a digest is, but for its date, a message some caller was
\* shown; every message is written once, comes from an address that could send
\* when it was read and answers the thread the request named; a call that reports
\* a failure wrote nothing (mailworkflow.go:196 send, :230 resolvePreflight).
MailAsPreviewed ==
    /\ \A i \in DOMAIN mailbox :
          LET w == mailbox[i]
              e == emails[w.call]
          IN  /\ e.expected # {} => \E k \in Previews : Undated(Compose(k)) = Undated(w.content)
              /\ \A j \in DOMAIN mailbox : mailbox[j].call = w.call => i = j
              /\ e.alias.primary \/ e.alias.status = "accepted"
              /\ w.thread = e.in.reply.thread
              /\ w.kind = e.op /\ e.outcome \in {"written", "unknown"}
    /\ \A k \in DOMAIN emails :
          emails[k].outcome = "written" => \E i \in DOMAIN mailbox : mailbox[i].call = k
=============================================================================
