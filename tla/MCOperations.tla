---------------------------- MODULE MCOperations ----------------------------
(* Small instances of Operations: which operations exist, and which reports
   their workers, late ones, forged ones and unreadable ones, may send. *)
EXTENDS Operations

MCOperation ==
  [capture |-> [kind |-> "content.capture.submit", owner |-> "ana",
                reporter |-> "extractor", provider |-> NoOne],
   import  |-> [kind |-> "ai_archive.import", owner |-> "ana",
                reporter |-> NoOne, provider |-> "claude"],
   connect |-> [kind |-> "notes.connection.connect", owner |-> "ana",
                reporter |-> "notes", provider |-> NoOne]]

Base(o, s) ==
  [op |-> o, status |-> s,
   subject |-> IF o = "import" THEN ArchiveSubject["claude"] ELSE SharedSubject,
   producer |-> CASE o = "import" -> "claude" [] o = "connect" -> "notes"
                  [] OTHER -> "extractor",
   tenant |-> IF o = "import" THEN NoOne ELSE "ana",
   error |-> "none", warning |-> FALSE, result |-> FALSE]

MCReport ==
  [running   |-> [Base("capture", "running") EXCEPT !.warning = TRUE],
   again     |-> [Base("capture", "running") EXCEPT !.result = TRUE],
   hiccup    |-> [Base("capture", "running") EXCEPT !.error = "retryable"],
   done      |-> [Base("capture", "succeeded") EXCEPT !.result = TRUE],
   partial   |-> [Base("capture", "partially_succeeded") EXCEPT !.warning = TRUE],
   broken    |-> [Base("capture", "failed") EXCEPT !.error = "final"],
   stopped   |-> [Base("capture", "cancelled") EXCEPT !.error = "retryable"],
   mute      |-> Base("capture", "failed"),
   forged    |-> [Base("capture", "failed") EXCEPT !.error = "final", !.producer = "x"],
   foreign   |-> [Base("capture", "running") EXCEPT !.tenant = "bob"],
   lost      |-> [Base("capture", "running") EXCEPT !.op = Stranger],
   imported  |-> [Base("import", "succeeded") EXCEPT !.result = TRUE],
   importing |-> Base("import", "running"),
   misrouted |-> [Base("import", "failed") EXCEPT !.error = "final",
                                                   !.subject = SharedSubject],
   usurped   |-> [Base("import", "failed") EXCEPT !.error = "final", !.producer = "x",
                                                   !.tenant = "ana",
                                                   !.subject = SharedSubject],
   linked    |-> Base("connect", "succeeded"),
   linking   |-> Base("connect", "running")]

AllMsgs == DOMAIN MCReport

(* The run plays several scenes, each of its own operations and reports, and
   never mixes two: a sound bound for the safety properties, since it only takes
   steps away, and for the liveness one, since nobody is bound to submit or to
   report anything.  The last scene is the reaper's: two operations, of which it
   examines one per pass. *)
Scene(ops, msgs) == [ops |-> ops, msgs |-> msgs]
Scenes ==
  {Scene({"capture"}, {"running", "done", "broken"}),
   Scene({"capture"}, {"running", "partial", "done"}),
   Scene({"capture"}, {"running", "again"}),
   Scene({"capture"}, {"hiccup", "done", "broken"}),
   Scene({"capture"}, {"running", "forged", "mute"}),
   Scene({"capture"}, {"foreign", "lost", "stopped"}),
   Scene({"import"}, {"imported", "misrouted"}),
   Scene({"import"}, {"importing", "usurped"}),
   Scene({"connect"}, {"linking", "linked"}),
   Scene({"capture", "connect"}, {"running"})}

InOneScene ==
  \E scene \in Scenes :
    /\ \A o \in Ops : status[o] # "absent" => o \in scene.ops
    /\ \A m \in Msgs : bus[m] # "unpublished" => m \in scene.msgs

MCNext == (Arrival /\ InOneScene') \/ Handling

MCSpec == Init /\ [][MCNext]_vars /\ Fairness
=============================================================================
