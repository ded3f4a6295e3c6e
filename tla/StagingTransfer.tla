---- MODULE StagingTransfer ----
(***************************************************************************)
(* The staging of one file uploaded from the console (staging-transfer.ts):*)
(* a lease is issued, the bytes arrive once on the transfer socket, and    *)
(* the upload is recorded in several commits of its own, the lease last.   *)
(* What is known of the lease's token is in Core's memory only.            *)
(***************************************************************************)
EXTENDS Naturals

CONSTANT MaxUploads   \* bound on the uploads asked for: 0 or 1

VARIABLES
    staging,   \* staging_leases: none, active or consumed
    awaited,   \* the token is known to this Core
    stored     \* what the upload has written: file, blob, source, asset

stagingVars == <<staging, awaited, stored>>

StagingInit == staging = "none" /\ awaited = FALSE /\ stored = {}

IssueStaging ==
    /\ MaxUploads > 0
    /\ staging = "none"
    /\ staging' = "active"
    /\ awaited' = TRUE
    /\ UNCHANGED stored

UploadAllowed == awaited /\ staging = "active"

\* What an upload must have written before each of its commits.
Before == [file |-> {}, blob |-> {"file"}, source |-> {"file", "blob"},
           asset |-> {"file", "blob", "source"}]

Parts == DOMAIN Before

\* A part that is there already is written again with the same content.
Store(part) ==
    /\ stored = Before[part]
    /\ stored' = stored \cup {part}
    /\ UNCHANGED <<staging, awaited>>

\* Mutant: the lease is consumed before the asset is recorded.
ConsumeEarly ==
    /\ stored = Before["asset"]
    /\ staging' = "consumed"
    /\ awaited' = FALSE
    /\ UNCHANGED stored

Consume ==
    /\ stored = Parts
    /\ staging' = "consumed"
    /\ awaited' = FALSE
    /\ UNCHANGED stored

StagingCrash == awaited' = FALSE /\ UNCHANGED <<staging, stored>>

StagingTypeOK ==
    /\ staging \in {"none", "active", "consumed"}
    /\ awaited \in BOOLEAN
    /\ stored \in SUBSET Parts
====
