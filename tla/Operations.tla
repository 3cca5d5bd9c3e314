----------------------------- MODULE Operations -----------------------------
(***************************************************************************)
(* The stores and the operations beside the call path, and the two claims  *)
(* that several of them make in the same way.                              *)
(***************************************************************************)
EXTENDS ConnectPages, KeyringStore, MailWorkflow, MediaTransfers, Authoring, GmailSearch,
        MessageViews, WorkflowRecipes

\* What callers were shown, or asked to replace, is what a write changes
\* (mailworkflow.go:230 resolvePreflight, drive.go:171 updateFile).
WrittenAsSeen == MailAsPreviewed /\ FilesAsAsked

\* What a read reports is what was there, within the bounds asked for
\* (gmail/operations.go:140 search, :541 newMessageView).
ReadAsThere == LabelsCurrent /\ ViewsFaithful
=============================================================================
