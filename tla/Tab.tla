-------------------------------- MODULE Tab --------------------------------
(***************************************************************************)
(* One tab: its pages (Pages), the activity log on one of them             *)
(* (AuditList), the dialogs in front of them (Dialogs), and the expiry in  *)
(* the edit form (Fields).  The four are modelled apart and share no       *)
(* state, so that one of them moving beside another shows nothing that it  *)
(* does not show alone: part says which one moves.  "patient" is the log   *)
(* with an administrator who waits for an answer before the next click.    *)
(***************************************************************************)
EXTENDS Pages

CONSTANTS Requests, Limit, MaxLog, MaxShown,
          Names, Tasks, MaxOthers,
          Zones, Moments, Minute

VARIABLES part, log, shown, list, asked, serial,
          agent, known, loading, modal, closing, task, others,
          expires, saved

activity == <<log, shown, list, asked, serial>>
dialogs == <<agent, known, loading, modal, closing, task, others>>
form == <<expires, saved>>

A == INSTANCE AuditList WITH table <- list, request <- asked, latest <- serial
D == INSTANCE Dialogs WITH server <- agent, rows <- known
F == INSTANCE Fields

\* An answer holds at least one entry, and the screen has room for one; nobody is no
\* handler; clocks are changed at a full minute of the local time, before and after
\* (getTimezoneOffset counts in minutes).
AuditAssumption ==
  Limit \in Nat \ {0} /\ MaxLog \in Nat /\ MaxShown \in Nat /\ Limit <= MaxShown
DialogsAssumption == MaxOthers \in Nat /\ D!None \notin Tasks
Zone(z) ==
  /\ z.at \in Int /\ z.before \in Int /\ z.after \in Int
  /\ (z.at + z.before) % Minute = 0 /\ (z.at + z.after) % Minute = 0
FieldsAssumption == Minute \in Nat \ {0} /\ Moments \subseteq Int /\ \A z \in Zones : Zone(z)
ASSUME TabAssumed == AuditAssumption /\ DialogsAssumption /\ FieldsAssumption

\* What does not move is at one of its initial states.
AtRest ==
  /\ part \notin {"log", "patient"} => log = 0 /\ serial = CHOOSE i \in Requests : TRUE
  /\ part # "dialogs" => \A n \in Names : agent[n] = "active"
  /\ part # "form" => expires = F!Never

TabInit ==
  /\ part \in {"pages", "log", "patient", "dialogs", "form"}
  /\ Init /\ A!Init /\ D!Init /\ F!Init /\ AtRest

TabNext ==
  /\ UNCHANGED part
  /\ \/ part = "pages" /\ Next /\ UNCHANGED <<activity, dialogs, form>>
     \/ part = "log" /\ A!Next /\ UNCHANGED <<vars, dialogs, form>>
     \/ part = "patient" /\ A!Next /\ A!Patient /\ UNCHANGED <<vars, dialogs, form>>
     \/ part = "dialogs" /\ D!Next /\ UNCHANGED <<vars, activity, form>>
     \/ part = "form" /\ F!Next /\ UNCHANGED <<vars, activity, dialogs>>

TabSpec == TabInit /\ [][TabNext]_<<part, vars, activity, dialogs, form>>

-----------------------------------------------------------------------------
\* Pages, loads, the log, dialogs, their handlers and the form keep their types.
TabTypeOK == TypeOK /\ A!TypeOK /\ D!TypeOK

\* The screen never goes back to an older log, whatever the order of the answers
\* (AuditList; app.js:46-51, 99).
HeadMovesForward == A!HeadMovesForward

\* To who waits for each answer the log is shown without a gap and without a repetition,
\* although entries are added while it is read, and "Load older" ends only where the log
\* does (AuditList; app.js:68, 99).
LogIsComplete == part = "patient" => A!LogIsComplete

\* What is sent after a confirmation is what the dialog said that the user accepted,
\* whatever rows, dialogs and answers arrived while it was open (Dialogs; app.js:96, 97).
AsAgreed == D!AsAgreed

\* No handler waits for a question that cannot be answered any more: one confirmation
\* waits at most, and then a dialog is open or its "close" event is on its way
\* (Dialogs; app.js:40).
PendingEnds == D!PendingEnds

\* Saving the edit form for another field's sake, in any time zone and on the days that
\* the clocks change, prolongs nobody's access; it shortens it by less than a minute, but
\* for the second of two local times that are alike; and the next form in the same zone
\* changes nothing further (Fields; app.js:62, 103).
EditKeepsExpiry == F!EditKeepsExpiry
=============================================================================
