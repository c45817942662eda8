------------------------------ MODULE AuditList ------------------------------
(***************************************************************************)
(* The audit log page: pages of Limit entries, "Refresh", and "Load older",*)
(* which continues after the last entry shown and adds to whatever is      *)
(* shown when its answer arrives.  Pages says on which screen answers may  *)
(* arrive; here the administrator stays on this one.                       *)
(*                                                                         *)
(* The log's entries are their row ids, 1 to `log`; none is ever deleted.  *)
(***************************************************************************)
EXTENDS Naturals, Sequences, SequencesExt

CONSTANTS Requests,   \* in flight at once, at most
          Limit,      \* entries in an answer
          MaxLog,     \* entries, at most
          MaxShown    \* entries on the screen, at most

VARIABLES log,      \* the last row id
          shown,    \* auditRows
          table,    \* they are on the screen
          request,
          latest    \* the load that holds refreshSerial

vars == <<log, shown, table, request, latest>>

Newest == MaxLog + 1    \* `before` when there is none
Idle == [kind |-> "idle", before |-> Newest, answer |-> <<>>, done |-> FALSE]
Ask(kind, before) == [Idle EXCEPT !.kind = kind, !.before = before]

Init ==
  /\ log \in 0..MaxLog /\ shown = <<>> /\ table = FALSE
  /\ request = [i \in Requests |-> Idle] /\ latest \in Requests

-----------------------------------------------------------------------------
\* Entries are written by whatever the administrators do.
Happen ==
  /\ log < MaxLog /\ log' = log + 1
  /\ UNCHANGED <<shown, table, request, latest>>

\* A variant that a property must tell apart: `id<=?`.
OlderInclusive(before) ==
  LET top == IF before > log THEN log ELSE before
      n == IF top > Limit THEN Limit ELSE top
  IN [k \in 1..n |-> top + 1 - k]

\* SELECT * FROM audit WHERE id<? ORDER BY id DESC LIMIT 100.
Older(before) ==
  LET top == IF before > log THEN log ELSE before - 1
      n == IF top > Limit THEN Limit ELSE top
  IN [k \in 1..n |-> top + 1 - k]

\* "Load older" is enabled: what is shown is a number of whole pages.
Offered == Len(shown) % Limit = 0 /\ shown # <<>>

Refresh(i) ==
  /\ request[i] = Idle
  /\ request' = [request EXCEPT ![i] = Ask("page", Newest)]
  /\ latest' = i /\ table' = FALSE
  /\ UNCHANGED <<log, shown>>

\* The button is not disabled while its answer is awaited.
More(i) ==
  /\ table /\ Offered /\ Len(shown) + Limit <= MaxShown
  /\ request[i] = Idle
  /\ request' = [request EXCEPT ![i] = Ask("more", Last(shown))]
  /\ UNCHANGED <<log, shown, table, latest>>

Answer(i) ==
  /\ request[i] # Idle /\ ~request[i].done
  /\ request' = [request EXCEPT ![i].answer = Older(request[i].before), ![i].done = TRUE]
  /\ UNCHANGED <<log, shown, table, latest>>

Arrives(i, kind) == request[i].kind = kind /\ request[i].done
Finish(i) == request' = [request EXCEPT ![i] = Idle]

\* Variant that a property must tell apart: no serial number.
SupersededNever(i) == FALSE
Superseded(i) == latest # i

ShowPage(i) ==
  /\ Arrives(i, "page") /\ ~Superseded(i)
  /\ shown' = request[i].answer /\ table' = TRUE
  /\ Finish(i)
  /\ UNCHANGED <<log, latest>>

DropPage(i) ==
  /\ Arrives(i, "page") /\ Superseded(i)
  /\ Finish(i)
  /\ UNCHANGED <<log, shown, table, latest>>

\* auditRows.push(...more); an empty answer disables a button that has been replaced.
Extend(i) ==
  /\ Arrives(i, "more") /\ Len(shown) + Limit <= MaxShown
  /\ shown' = shown \o request[i].answer /\ table' = TRUE
  /\ Finish(i)
  /\ UNCHANGED <<log, latest>>

\* A message for "Load older", the error page for a load.
Fails(i) ==
  /\ request[i] # Idle /\ ~request[i].done
  /\ table' = (table /\ (request[i].kind = "page" => Superseded(i)))
  /\ Finish(i)
  /\ UNCHANGED <<log, shown, latest>>

Next ==
  \/ Happen
  \/ \E i \in Requests : \/ Refresh(i) \/ More(i) \/ Answer(i)
                         \/ ShowPage(i) \/ DropPage(i) \/ Extend(i) \/ Fails(i)

Spec == Init /\ [][Next]_vars

\* An administrator who waits for each answer.
Quiet == \A i \in Requests : request[i] = Idle
Patient == (\E i \in Requests : request[i] = Idle /\ request'[i] # Idle) => Quiet
PatientSpec == Init /\ [][Next /\ Patient]_vars

-----------------------------------------------------------------------------
Entries == 1..MaxLog
Answers == BoundedSeq(Entries, Limit)

TypeOK ==
  /\ log \in 0..MaxLog /\ Len(shown) <= MaxShown /\ ToSet(shown) \subseteq Entries
  /\ table \in BOOLEAN /\ latest \in Requests
  /\ \A i \in Requests :
       /\ request[i].kind \in {"idle", "page", "more"} /\ request[i].before \in 1..Newest
       /\ request[i].answer \in Answers /\ request[i].done \in BOOLEAN

\* The screen never goes back to an older log, whatever the order of the answers.
HeadMovesForward == [][shown # <<>> => shown' # <<>> /\ shown'[1] >= shown[1]]_shown

\* To who waits for each answer the log is shown without a gap and without a repetition,
\* although entries are added while it is read.
Contiguous == \A k \in 1..(Len(shown) - 1) : shown[k + 1] = shown[k] - 1

\* ... and "Load older" ends only where the log does.
EndsAtTheEnd == table /\ Quiet /\ shown # <<>> /\ ~Offered => Last(shown) = 1

\* What is shown to who waits is the log, as far as he has asked for it.
LogIsComplete == Contiguous /\ EndsAtTheEnd

\* "Load older": what it adds is older than all that is shown.  (TLC refutes this:
\* README.md, section 7.)
LoadsOlder ==
  [][\A i \in Requests : request[i].kind = "more" /\ request'[i] = Idle =>
       \A k \in 1..Len(shown'), j \in 1..Len(shown') : k < j => shown'[k] > shown'[j]]_vars
=============================================================================
