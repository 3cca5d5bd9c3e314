--------------------------- MODULE MediaTransfers ---------------------------
(***************************************************************************)
(* Reading and writing whole files (googleops/media): Gmail attachments,   *)
(* Drive downloads and exports within a size, files created under an id    *)
(* the caller may choose, and updates that may name the version they       *)
(* replace.  A download with metadata and an update with a version make    *)
(* two calls, between which others write.  Sizes stand for contents.  How  *)
(* a call's answer becomes an outcome is in CallPath; where an artifact is *)
(* kept is MediaArtifacts.                                                 *)
(***************************************************************************)
EXTENDS Integers, Sequences, FiniteSets, GoMaps

CONSTANTS
    FileIds,                 \* names a file may get
    DefaultBytes, MaxBytes,  \* defaultMaxBytes, maxDecodedBytes
    ByteLimits,              \* the values of max_bytes
    MaxSize,                 \* bound: the size of a file
    MaxVersion,              \* bound: the versions others write and callers expect
    MaxTransfers             \* bound: calls started

ASSUME TransferBounds ==
    DefaultBytes \in Nat /\ MaxBytes \in Nat /\ MaxSize \in Nat /\ MaxVersion \in Nat /\ MaxTransfers \in Nat

VARIABLES
    store,      \* an artifact store is configured
    files,      \* Drive's files: version and size; an ETag names one version
    transfers,  \* the calls, in the order they started
    writes      \* what each accepted write replaced and left

transferVars == <<store, files, transfers, writes>>

Nothing == [inline |-> FALSE, artifact |-> FALSE, bytes |-> 0]
NewTransfer(op, in) == [op |-> op, in |-> in, stage |-> "first", etag |-> 0, outcome |-> "", data |-> Nothing]

(***************************************************************************)
(* Requests                                                                *)
(***************************************************************************)

Deliveries == {"", "inline", "artifact"}

ValidDelivery(delivery) == delivery = "artifact" => store
ValidateMaxBytes(n)     == n \in 0 .. MaxBytes
MaxBytesOrDefault(n)    == IF n = 0 THEN DefaultBytes ELSE n
DecodesPayload(size)    == size \in 1 .. MaxBytes     \* an empty payload is refused
WantsInline(delivery)   == delivery = "inline" \/ (delivery = "" /\ ~store)

ReadRequests ==
    {[id |-> id, max |-> n, metadata |-> m, delivery |-> d] :
       id \in FileIds, n \in ByteLimits, m \in BOOLEAN, d \in Deliveries}
ValidRead(in)   == ValidDelivery(in.delivery) /\ ValidateMaxBytes(in.max)

CreateRequests == [id : FileIds \cup {""}, size : 0 .. MaxSize]
UpdateRequests == [id : FileIds, size : 0 .. MaxSize, expected : -1 .. MaxVersion]
ValidCreate(in) == DecodesPayload(in.size)
ValidUpdate(in) == in.expected >= 0 /\ DecodesPayload(in.size)

(***************************************************************************)
(* Results                                                                 *)
(***************************************************************************)

Bounded(k, size) == size <= MaxBytesOrDefault(transfers[k].in.max)

End(k, outcome) == transfers' = [transfers EXCEPT ![k].stage = "done", ![k].outcome = outcome]

\* the store may refuse the bytes
DeliverBytes(k, size) ==
    LET inline == WantsInline(transfers[k].in.delivery)
    IN  \/ transfers' = [transfers EXCEPT ![k].stage = "done", ![k].outcome = "done",
                           ![k].data = [inline |-> inline, artifact |-> ~inline, bytes |-> size]]
        \/ ~inline /\ End(k, "refused")

Start(op, in) ==
    /\ Len(transfers) < MaxTransfers
    /\ transfers' = Append(transfers, NewTransfer(op, in))
    /\ UNCHANGED <<store, files, writes>>

(***************************************************************************)
(* Reads                                                                   *)
(***************************************************************************)

\* metadata of a size known to be too large ends the download; Drive may not know it
ReadMetadata(k) ==
    /\ transfers[k].op = "download" /\ transfers[k].in.metadata /\ transfers[k].stage = "first"
    /\ \/ End(k, "refused")
       \/ /\ transfers[k].in.id \in DOMAIN files
          /\ \E known \in {0, files[transfers[k].in.id].size} : Bounded(k, known)
          /\ transfers' = [transfers EXCEPT ![k].stage = "content"]
    /\ UNCHANGED <<store, files, writes>>

\* the body is read up to one byte beyond the limit
ReadContent(k) ==
    /\ transfers[k].op \in {"download", "export"}
    /\ transfers[k].stage = IF transfers[k].op = "download" /\ transfers[k].in.metadata THEN "content" ELSE "first"
    /\ \/ End(k, "refused")
       \/ /\ transfers[k].in.id \in DOMAIN files
          /\ Bounded(k, files[transfers[k].in.id].size)
          /\ DeliverBytes(k, files[transfers[k].in.id].size)
    /\ UNCHANGED <<store, files, writes>>

\* Gmail states a size next to the bytes, and either may be too large or missing
GetAttachment(k, declared, size) ==
    /\ transfers[k].op = "attachment" /\ transfers[k].stage = "first"
    /\ \/ End(k, "refused")
       \/ /\ Bounded(k, declared) /\ Bounded(k, size)
          /\ size = 0 => declared = 0
          /\ DeliverBytes(k, size)
    /\ UNCHANGED <<store, files, writes>>

(***************************************************************************)
(* Writes                                                                  *)
(***************************************************************************)

Replaced(id) == IF id \in DOMAIN files THEN files[id].version ELSE 0

\* Drive takes a write, and the answer names the file, is lost, or names no file or
\* another; or it does not take it, which the caller may not learn
Accept(k, id, version, size) ==
    /\ files' = SetKey(files, id, [version |-> version, size |-> size])
    /\ writes' = Append(writes, [call |-> k, id |-> id, replaced |-> Replaced(id), size |-> size])
    /\ \/ End(k, "done")
       \/ End(k, "unknown")

Reject(k) ==
    /\ \/ End(k, "refused")
       \/ End(k, "unknown")
    /\ UNCHANGED <<files, writes>>

\* Drive keeps an id for one file; without one it chooses
CreateFile(k, id) ==
    /\ transfers[k].op = "create" /\ transfers[k].stage = "first"
    /\ transfers[k].in.id \in {"", id}
    /\ IF id \in DOMAIN files THEN Reject(k)
       ELSE Reject(k) \/ Accept(k, id, 1, transfers[k].in.size)
    /\ UNCHANGED store

\* only a file at the expected version is written, under the ETag that came with it
LookUpVersion(k) ==
    /\ transfers[k].op = "update" /\ transfers[k].in.expected > 0 /\ transfers[k].stage = "first"
    /\ \/ End(k, "refused")
       \/ /\ Replaced(transfers[k].in.id) = transfers[k].in.expected
          /\ transfers' = [transfers EXCEPT ![k].stage = "write", ![k].etag = transfers[k].in.expected]
    /\ UNCHANGED <<store, files, writes>>

\* fault seeded in Precondition: the upload carries no If-Match
NoPrecondition(k) == TRUE
Precondition(k) == transfers[k].etag # 0 => transfers[k].etag = Replaced(transfers[k].in.id)

UpdateFile(k) ==
    /\ transfers[k].op = "update"
    /\ transfers[k].stage = IF transfers[k].in.expected > 0 THEN "write" ELSE "first"
    /\ LET id == transfers[k].in.id
       IN  IF id \in DOMAIN files /\ Precondition(k)
           THEN Reject(k) \/ Accept(k, id, files[id].version + 1, transfers[k].in.size)
           ELSE Reject(k)
    /\ UNCHANGED store

\* someone else writes the file, with any size
OthersWrite(id, size) ==
    /\ id \in DOMAIN files /\ files[id].version < MaxVersion
    /\ files' = [files EXCEPT ![id] = [version |-> @.version + 1, size |-> size]]
    /\ UNCHANGED <<store, transfers, writes>>

TransferInit ==
    /\ store \in BOOLEAN
    /\ files \in {EmptyMap} \cup {[id \in {x} |-> [version |-> 1, size |-> n]] : x \in FileIds, n \in 0 .. MaxSize}
    /\ transfers = <<>> /\ writes = <<>>

TransferNext ==
    \/ \E op \in {"attachment", "download", "export"}, in \in {x \in ReadRequests : ValidRead(x)} :
          (op # "download" => ~in.metadata) /\ Start(op, in)
    \/ \E in \in {x \in CreateRequests : ValidCreate(x)} : Start("create", in)
    \/ \E in \in {x \in UpdateRequests : ValidUpdate(x)} : Start("update", in)
    \/ \E k \in DOMAIN transfers :
          \/ ReadMetadata(k) \/ ReadContent(k) \/ LookUpVersion(k) \/ UpdateFile(k)
          \/ \E declared \in 0 .. MaxSize, size \in 0 .. MaxSize : GetAttachment(k, declared, size)
          \/ \E id \in FileIds : CreateFile(k, id)
    \/ \E id \in FileIds, size \in 0 .. MaxSize : OthersWrite(id, size)

(***************************************************************************)
(* Properties                                                              *)
(***************************************************************************)

\* A write replaces the version its call expected, a created file replaces none
\* and no id is created twice, a call that reports a refusal wrote nothing; what
\* is delivered is within what was asked for, and in one place, whatever was
\* written between two calls (drive.go:171 updateFile, :119
\* createFile, :30 downloadFile).
FilesAsAsked ==
    /\ \A i \in DOMAIN writes :
          LET w == writes[i]
              t == transfers[w.call]
          IN  /\ t.outcome \in {"done", "unknown"}
              /\ t.op = "update" /\ t.in.expected > 0 => w.replaced = t.in.expected
              /\ t.op = "create" => w.replaced = 0 /\ t.in.id \in {"", w.id}
              /\ \A j \in DOMAIN writes : writes[j].call = w.call => i = j
    /\ \A k \in DOMAIN transfers :
          LET t == transfers[k]
          IN  /\ t.data # Nothing =>
                    /\ t.data.bytes <= MaxBytesOrDefault(t.in.max) /\ t.data.inline # t.data.artifact
                    /\ t.data.artifact => store
              /\ t.op \in {"create", "update"} /\ t.outcome = "done" => \E i \in DOMAIN writes : writes[i].call = k
=============================================================================
