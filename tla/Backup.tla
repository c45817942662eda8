------------------------------- MODULE Backup -------------------------------
(***************************************************************************)
(* transform (panel/backup_crypto.py): runs of encryption or decryption,   *)
(* in any number at a time, towards one target.  Each writes a file of its *)
(* own at the one path <target>.partial and publishes it under the         *)
(* target's name with a hard link.                                         *)
(*                                                                         *)
(* A file is named after the run that made it: a directory entry is a run, *)
(* or NoRun.  Every call to the file system is a step and may raise.       *)
(***************************************************************************)
CONSTANTS Runs, NoRun

ASSUME BackupAssumption == NoRun \notin Runs

VARIABLES
  target,   \* directory: the file published
  partial,  \* directory: the file at <target>.partial
  file,     \* what each run's file holds: "empty", "part", "whole"
  genuine,  \* whether each run's source and password match
  pc,       \* each run's next step
  ended,    \* how each run ended last: "ok", "failed", or "never"
  broken    \* history: a run was killed and nobody has tidied up since

vars == <<target, partial, file, genuine, pc, ended, broken>>

Writing == {"write", "link", "unlink", "clean"}   \* created is true

TypeOK ==
  /\ target \in Runs \cup {NoRun} /\ partial \in Runs \cup {NoRun}
  /\ file \in [Runs -> {"empty", "part", "whole"}]
  /\ genuine \in [Runs -> BOOLEAN]
  /\ pc \in [Runs -> {"idle", "create"} \cup Writing]
  /\ ended \in [Runs -> {"ok", "failed", "never"}]
  /\ broken \in BOOLEAN

Go(r, step) == pc' = [pc EXCEPT ![r] = step]
\* Mutation of Finish: the outcome takes the place of the step.
FinishConfused(r, result) == Go(r, result) /\ ended' = [ended EXCEPT ![r] = result]
Finish(r, result) == Go(r, "idle") /\ ended' = [ended EXCEPT ![r] = result]

-----------------------------------------------------------------------------
Refuse(r) ==
  /\ pc[r] = "idle" /\ target # NoRun
  /\ Finish(r, "failed")
  /\ UNCHANGED <<target, partial, file, genuine, broken>>

\* The password and the source are whatever the caller gave.
Start(r) ==
  /\ pc[r] = "idle" /\ target = NoRun
  /\ \E g \in BOOLEAN : genuine' = [genuine EXCEPT ![r] = g]
  /\ Go(r, "create")
  /\ UNCHANGED <<target, partial, file, ended, broken>>

Create(r) ==
  /\ pc[r] = "create" /\ partial = NoRun
  /\ partial' = r /\ file' = [file EXCEPT ![r] = "empty"]
  /\ Go(r, "write")
  /\ UNCHANGED <<target, genuine, ended, broken>>

\* No source, or a partial file that is another's: it is left alone.
CreateFails(r) ==
  /\ pc[r] = "create"
  /\ Finish(r, "failed")
  /\ UNCHANGED <<target, partial, file, genuine, broken>>

Write(r) ==
  /\ pc[r] = "write"
  /\ file' = [file EXCEPT ![r] = "part"]
  /\ UNCHANGED <<target, partial, genuine, pc, ended, broken>>

\* Mutation of Seal: the tag is not compared.
SealAny(r) ==
  /\ pc[r] = "write"
  /\ file' = [file EXCEPT ![r] = "whole"]
  /\ Go(r, "link")
  /\ UNCHANGED <<target, partial, genuine, ended, broken>>

\* finalize raises unless the tag fits; then the file is flushed and closed.
Seal(r) ==
  /\ pc[r] = "write" /\ genuine[r]
  /\ file' = [file EXCEPT ![r] = "whole"]
  /\ Go(r, "link")
  /\ UNCHANGED <<target, partial, genuine, ended, broken>>

\* Mutation of Link: publication by os.replace.
LinkOver(r) ==
  /\ pc[r] = "link"
  /\ target' = r
  /\ Go(r, "unlink")
  /\ UNCHANGED <<partial, file, genuine, ended, broken>>

\* os.link names the file the partial path leads to, and never overwrites.
Link(r) ==
  /\ pc[r] = "link" /\ target = NoRun
  /\ target' = partial
  /\ Go(r, "unlink")
  /\ UNCHANGED <<partial, file, genuine, ended, broken>>

Unlink(r) ==
  /\ pc[r] = "unlink"
  /\ partial' = NoRun
  /\ Finish(r, "ok")
  /\ UNCHANGED <<target, file, genuine, broken>>

\* Mutation of Fail: the error goes to the caller at once.
FailAtOnce(r) ==
  /\ pc[r] \in {"write", "link", "unlink"}
  /\ Finish(r, "failed")
  /\ UNCHANGED <<target, partial, file, genuine, broken>>

\* Any exception: a bad header or tag, a truncated source, a full disk, a
\* target that was created meanwhile.
Fail(r) ==
  /\ pc[r] \in {"write", "link", "unlink"}
  /\ Go(r, "clean")
  /\ UNCHANGED <<target, partial, file, genuine, ended, broken>>

Clean(r) ==
  /\ pc[r] = "clean"
  /\ partial' = NoRun
  /\ Finish(r, "failed")
  /\ UNCHANGED <<target, file, genuine, broken>>

\* A signal or Ctrl-C: no "except Exception" runs.
Kill(r) ==
  /\ pc[r] # "idle"
  /\ Finish(r, "never")
  /\ broken' = TRUE
  /\ UNCHANGED <<target, partial, file, genuine>>

\* Somebody removes what killed runs left, when no run is under way.
Tidy ==
  /\ broken /\ \A r \in Runs : pc[r] = "idle"
  /\ partial' = NoRun /\ broken' = FALSE
  /\ UNCHANGED <<target, file, genuine, pc, ended>>

Init ==
  /\ target = NoRun /\ partial = NoRun
  /\ file = [r \in Runs |-> "empty"]
  /\ genuine = [r \in Runs |-> FALSE]
  /\ pc = [r \in Runs |-> "idle"]
  /\ ended = [r \in Runs |-> "never"]
  /\ broken = FALSE

Transform(r) ==
  \/ Refuse(r) \/ Start(r) \/ Create(r) \/ CreateFails(r) \/ Write(r) \/ Seal(r)
  \/ Link(r) \/ Unlink(r) \/ Fail(r) \/ Clean(r) \/ Kill(r)

Next == (\E r \in Runs : Transform(r)) \/ Tidy

Spec == Init /\ [][Next]_vars

-----------------------------------------------------------------------------
(* The target is one run's complete and authenticated output, and never a  *)
(* mixture, an unfinished file or unverified plaintext, whoever else was   *)
(* running, failing or killed; and who was told "ok" finds its own there.  *)
PublishedWhole ==
  /\ target # NoRun => file[target] = "whole" /\ genuine[target]
  /\ \A r \in Runs : ended[r] = "ok" => target = r

(* What was published is never replaced (the comment at line 51).          *)
NeverReplaced == [][target # NoRun => target' = target]_vars

(* While a run works, the partial path leads to its own file: no other run *)
(* removes or takes it over (tests/test_backup.py:27).                     *)
OwnPartial == \A r \in Runs : pc[r] \in Writing => partial = r

(* Unless a run was killed, nothing is left when all have ended: no        *)
(* partial file blocks the next one or keeps unverified plaintext.         *)
NothingLeft == ~broken /\ (\A r \in Runs : pc[r] = "idle") => partial = NoRun
=============================================================================
