-------------------------- MODULE ReportAuthority --------------------------
(***************************************************************************)
(* Who may report progress for which operation                             *)
(* (crates/operations/src/authority.rs and `bound_to_its_operation' in     *)
(* projection.rs).  Every report of every worker arrives on one shared     *)
(* subject, except those of the two archive importers, so these operators  *)
(* are all that ties a report to the operation it names.                   *)
(***************************************************************************)

CONSTANT NoOne                  \* the absent value: no reporter, tenant, ...

CaptureProducers == {"extractor", "x", "instagram", "threads"}

\* The table AUTHORITY; "provider" stands for Producers::ProviderBound.
Authority ==
  [kind \in {"content.capture.submit", "channel_digest.subscription.set",
             "channel_digest.run", "channel_digest.schedule.occurrence",
             "notes.connection.connect", "notes.file.write",
             "notes.connection.write_mode", "sites.release.build",
             "ai_archive.import"} |->
    CASE kind = "content.capture.submit" -> CaptureProducers
      [] kind = "ai_archive.import" -> {}
      [] kind = "sites.release.build" -> {"sites"}
      [] kind \in {"notes.connection.connect", "notes.file.write",
                   "notes.connection.write_mode"} -> {"notes"}
      [] OTHER -> {"channel-digests"}]

ProviderBound == {"ai_archive.import"}

Listed(kind) == kind \in DOMAIN Authority \ ProviderBound

\* authority.rs `allows'
Allows(kind, producer) == Listed(kind) /\ producer \in Authority[kind]

\* Variant: any producer of the lane, not the one the work was handed to.
AuthorizeLane(kind, producer, tenant, owner, reporter, bound) ==
  \/ /\ Listed(kind)
     /\ tenant = owner
     /\ producer \in Authority[kind]
  \/ /\ kind \in ProviderBound
     /\ IF tenant # NoOne THEN tenant = owner ELSE bound

\* authority.rs `authorize': `reporter' is what acceptance recorded, and
\* `bound' says whether Platform's own acceptance record was found.
Authorize(kind, producer, tenant, owner, reporter, bound) ==
  \/ /\ Listed(kind)
     /\ tenant = owner
     /\ producer \in Authority[kind]
     /\ reporter = producer
  \/ /\ kind \in ProviderBound
     /\ IF tenant # NoOne THEN tenant = owner ELSE bound

\* The subject and the producer of each archive importer.
ArchiveSubject == [chatgpt |-> "evt.ai-archive.chatgpt",
                   claude  |-> "evt.ai-archive.claude"]
ArchiveSubjects == {"evt.ai-archive.chatgpt", "evt.ai-archive.claude"}
SharedSubject == "evt.platform"

\* projection.rs `bound_to_its_operation'.  `op' is the stored operation,
\* whose `provider' is NoOne without an acceptance record of its owner.
Bound(op, report) ==
  /\ Authorize(op.kind, report.producer, report.tenant, op.owner,
               op.reporter, op.provider # NoOne)
  /\ IF op.provider # NoOne
     THEN /\ op.provider \in DOMAIN ArchiveSubject
          /\ report.subject = ArchiveSubject[op.provider]
          /\ report.producer = op.provider
     ELSE report.subject \notin ArchiveSubjects
=============================================================================
