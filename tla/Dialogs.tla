------------------------------ MODULE Dialogs ------------------------------
(***************************************************************************)
(* The browser's one dialog and the handlers that wait behind it.          *)
(*                                                                         *)
(* Every form, confirmation and profile is written into the same <dialog>. *)
(* A task is a handler at one of its awaits: for the user's answer to a    *)
(* confirmation, for the panel's answer to a request, or for that answer's *)
(* turn to run.  A client is its state; other administrators, and requests *)
(* already on their way, change it while a dialog is open.                 *)
(***************************************************************************)
EXTENDS Naturals

CONSTANTS Names, Tasks, MaxOthers

VARIABLES server,   \* the agent's rows
          rows,     \* clientRows
          loading,  \* a load of the rows is on its way
          modal,    \* the dialog
          closing,  \* its "close" event is queued
          task,     \* the handlers
          others    \* changes by other administrators, bounded by MaxOthers

vars == <<server, rows, loading, modal, closing, task, others>>
rowsVars == <<server, rows, loading, others>>

None == "none"
Editable == {"active", "suspended"}
States == Editable \cup {"revoked"}
Confirmed == {"suspend", "kill", "revoke", "share"}   \* "kill" stands for "reset" too

\* `state` is the client's when the dialog was rendered, `code` and `qr` whose profile it shows,
\* `task` the handler that waits for it.
Dialog(kind, n, t) == [kind |-> kind, name |-> n, task |-> t, op |-> None,
                       state |-> "active", code |-> None, qr |-> None]
NoDialog == Dialog(None, None, None)

\* `agreed` is what the confirmation said that the user accepted, `meant` that
\* the user chose the state the request writes.
Task(step, op, n) == [step |-> step, op |-> op, name |-> n,
                      state |-> "active", agreed |-> None, meant |-> FALSE]
Idle == Task("idle", None, None)

Init ==
  /\ server \in [Names -> Editable] /\ rows = server /\ loading = FALSE
  /\ modal = NoDialog /\ closing = FALSE
  /\ task = [t \in Tasks |-> Idle] /\ others = 0

-----------------------------------------------------------------------------
Send(t, op, n) == task[t] = Idle /\ task' = [task EXCEPT ![t] = Task("sent", op, n)]
Pending == {t \in Tasks : task[t].step = "confirm"}

\* A click in the page: the open dialog makes the page inert.
Page == modal = NoDialog /\ ~closing
In(kind) == modal.kind = kind /\ ~closing

OpenDetails(n) ==
  /\ Page
  /\ modal' = [Dialog("details", n, None) EXCEPT !.state = rows[n]]
  /\ UNCHANGED <<closing, task, rowsVars>>

OpenEdit(n) ==
  /\ Page /\ rows[n] \in Editable
  /\ modal' = [Dialog("edit", n, None) EXCEPT !.state = rows[n]]
  /\ UNCHANGED <<closing, task, rowsVars>>

\* A new client's form waits for the settings and opens over whatever is open by then.
ClickNew(t) ==
  /\ Page
  /\ Send(t, "settings", None)
  /\ UNCHANGED <<modal, closing, rowsVars>>

OpenProfile(t, n) ==
  /\ Page /\ rows[n] # "revoked"
  /\ modal' = Dialog("profile", n, None)
  /\ Send(t, "profile", n)
  /\ UNCHANGED <<closing, rowsVars>>

ClickQr(t) ==
  /\ In("profile")
  /\ Send(t, "qr", modal.name)
  /\ UNCHANGED <<modal, closing, rowsVars>>

\* confirmAction: the handler waits with what it read before.
Confirm(t, op) ==
  /\ task[t] = Idle
  /\ task' = [task EXCEPT ![t] = Task("confirm", op, modal.name)]
  /\ modal' = [Dialog("confirm", modal.name, t) EXCEPT !.op = op]

\* The one button for both directions: its label is the state that was rendered,
\* what it does is decided by the row there is now.
ClickToggle(t) ==
  /\ In("details") /\ modal.state \in Editable
  /\ \/ /\ rows[modal.name] = "suspended"
        /\ task[t] = Idle
        /\ task' = [task EXCEPT ![t] = [Task("sent", "enable", modal.name) EXCEPT !.meant = TRUE]]
        /\ UNCHANGED modal
     \/ /\ rows[modal.name] # "suspended"
        /\ Confirm(t, "suspend")
  /\ UNCHANGED <<closing, rowsVars>>

ClickDanger(t, op) ==
  /\ \/ In("details") /\ op = "kill" /\ modal.state \in Editable
     \/ In("details") /\ op = "revoke" /\ modal.state # "revoked"
     \/ In("profile") /\ op = "share"
  /\ Confirm(t, op)
  /\ UNCHANGED <<closing, rowsVars>>

\* A variant that a property must tell apart: the toggle looks at the row again after the await.
YesReread(t) ==
  /\ In("confirm") /\ modal.task = t /\ t \in Pending
  /\ task' = [task EXCEPT ![t].step = "sent", ![t].agreed = modal.op,
                          ![t].op = IF @ = "suspend" /\ rows[task[t].name] = "suspended" THEN "enable" ELSE @]
  /\ modal' = NoDialog /\ closing' = TRUE
  /\ UNCHANGED rowsVars

Yes(t) ==
  /\ In("confirm") /\ modal.task = t /\ t \in Pending
  /\ task' = [task EXCEPT ![t].step = "sent", ![t].agreed = modal.op]
  /\ modal' = NoDialog /\ closing' = TRUE
  /\ UNCHANGED rowsVars

\* finish(false): the dialog closes and the handler returns; a refused link goes back to the profile.
Cancel(t) ==
  IF task[t].op = "share"
  THEN /\ modal' = Dialog("profile", task[t].name, None)
       /\ task' = [task EXCEPT ![t] = Task("sent", "profile", task[t].name)]
  ELSE modal' = NoDialog /\ task' = [task EXCEPT ![t] = Idle]

No(t) ==
  /\ In("confirm") /\ modal.task = t /\ t \in Pending
  /\ Cancel(t)
  /\ closing' = TRUE
  /\ UNCHANGED rowsVars

\* The close button, Escape, a new language.
Close ==
  /\ modal # NoDialog /\ ~closing
  /\ modal' = NoDialog /\ closing' = TRUE
  /\ UNCHANGED <<task, rowsVars>>

\* A variant that a property must tell apart: no listener for "close".
CloseEventUnheard ==
  /\ closing /\ closing' = FALSE
  /\ UNCHANGED <<task, modal, rowsVars>>

\* The event runs after other callbacks may have: it ends the confirmations that
\* still wait, and each of them closes whatever is open.
CloseEvent ==
  /\ closing
  /\ \/ /\ Pending = {}
        /\ closing' = FALSE
        /\ UNCHANGED <<task, modal>>
     \/ \E t \in Pending : Cancel(t) /\ closing' = (Pending # {t})
  /\ UNCHANGED rowsVars

\* The form of an edit, with the button disabled until the answer is there.
Submit(t, s) ==
  /\ In("edit") /\ modal.task = None
  /\ task[t] = Idle
  /\ task' = [task EXCEPT ![t] = [Task("sent", "edit", modal.name)
                                   EXCEPT !.state = s, !.meant = (s # modal.state)]]
  /\ modal' = [modal EXCEPT !.task = t]
  /\ UNCHANGED <<closing, rowsVars>>

SubmitNew(t) ==
  /\ In("new") /\ modal.task = None
  /\ Send(t, "create", None)
  /\ modal' = [modal EXCEPT !.task = t]
  /\ UNCHANGED <<closing, rowsVars>>

-----------------------------------------------------------------------------
\* What a request writes: the whole record, as the browser knew it.
Written(t) ==
  CASE task[t].op = "suspend" -> "suspended"
    [] task[t].op = "enable" -> "active"
    [] task[t].op = "edit" -> task[t].state
    [] task[t].op = "revoke" -> "revoked"
Writes == {"suspend", "enable", "edit", "revoke"}

\* The agent's handler; it refuses to edit a revoked client.
Serve(t) ==
  /\ task[t].step = "sent"
  /\ task[t].op \in Writes /\ (server[task[t].name] = "revoked" => task[t].op = "revoke")
  /\ server' = [server EXCEPT ![task[t].name] = Written(t)]
  /\ task' = [task EXCEPT ![t].step = "done"]
  /\ UNCHANGED <<rows, loading, modal, closing, others>>

ServeOther(t) ==
  /\ task[t].step = "sent" /\ task[t].op \notin Writes
  /\ task' = [task EXCEPT ![t].step = "done"]
  /\ UNCHANGED <<modal, closing, rowsVars>>

ServeFails(t) ==
  /\ task[t].step = "sent"
  /\ task' = [task EXCEPT ![t].step = "failed"]
  /\ UNCHANGED <<modal, closing, rowsVars>>

Answered(t, ops) == task[t].step = "done" /\ task[t].op \in ops
Return(t) == task' = [task EXCEPT ![t] = Idle]
Reload == loading' = TRUE /\ UNCHANGED <<server, rows, others>>

\* After an edit, a creation or "Enable access": close the dialog, whichever it is by now.
Saved(t) ==
  /\ Answered(t, {"edit", "enable", "create"})
  /\ modal' = NoDialog /\ closing' = (closing \/ modal # NoDialog)
  /\ Return(t) /\ Reload

Done(t) ==
  /\ Answered(t, {"suspend", "kill", "revoke"})
  /\ Return(t) /\ Reload
  /\ UNCHANGED <<modal, closing>>

\* openModal by a handler that was waiting: the form of a new client, whether the
\* settings came or not, and the link.
OpenNew(t) ==
  /\ task[t].op = "settings" /\ task[t].step \in {"done", "failed"}
  /\ modal' = Dialog("new", None, None)
  /\ Return(t)
  /\ UNCHANGED <<closing, rowsVars>>

OpenShare(t) ==
  /\ Answered(t, {"share"})
  /\ modal' = Dialog("share", task[t].name, None)
  /\ Return(t)
  /\ UNCHANGED <<closing, rowsVars>>

\* The profile and its QR code go into the dialog that is open, if it has a place for them.
FillProfile(t) ==
  /\ Answered(t, {"profile", "qr"})
  /\ modal' = IF modal.kind # "profile" THEN modal
              ELSE IF task[t].op = "qr" THEN [modal EXCEPT !.qr = task[t].name]
              ELSE [modal EXCEPT !.code = task[t].name]
  /\ Return(t)
  /\ UNCHANGED <<closing, rowsVars>>

\* An error is shown, and a form that waited can be sent again.
Failed(t) ==
  /\ task[t].step = "failed" /\ task[t].op # "settings"
  /\ modal' = IF modal.task = t THEN [modal EXCEPT !.task = None] ELSE modal
  /\ Return(t)
  /\ UNCHANGED <<closing, rowsVars>>

\* The timer does not start a load behind an open dialog, but one may be on its way.
Poll ==
  /\ modal = NoDialog
  /\ loading' = TRUE
  /\ UNCHANGED <<server, rows, others, modal, closing, task>>

RowsArrive ==
  /\ loading /\ loading' = FALSE
  /\ rows' = server
  /\ UNCHANGED <<server, others, modal, closing, task>>

\* Another administrator suspends a client.
OtherSuspends(n) ==
  /\ others < MaxOthers /\ others' = others + 1
  /\ server[n] = "active"
  /\ server' = [server EXCEPT ![n] = "suspended"]
  /\ UNCHANGED <<rows, loading, modal, closing, task>>

User(t) == \/ ClickNew(t) \/ ClickQr(t) \/ ClickToggle(t) \/ Yes(t) \/ No(t) \/ SubmitNew(t)
           \/ \E n \in Names : OpenProfile(t, n)
           \/ \E op \in {"kill", "revoke", "share"} : ClickDanger(t, op)
           \/ \E s \in Editable : Submit(t, s)

Resume(t) == \/ Serve(t) \/ ServeOther(t) \/ ServeFails(t)
             \/ Saved(t) \/ Done(t) \/ OpenNew(t) \/ OpenShare(t) \/ FillProfile(t) \/ Failed(t)

Next ==
  \/ \E t \in Tasks : User(t) \/ Resume(t)
  \/ \E n \in Names : OpenDetails(n) \/ OpenEdit(n) \/ OtherSuspends(n)
  \/ Close \/ CloseEvent \/ Poll \/ RowsArrive

Spec == Init /\ [][Next]_vars

-----------------------------------------------------------------------------
Ops == Confirmed \cup {None, "enable", "edit", "create", "settings", "profile", "qr"}

TypeOK ==
  /\ server \in [Names -> States] /\ rows \in [Names -> States]
  /\ loading \in BOOLEAN /\ closing \in BOOLEAN /\ others \in 0..MaxOthers
  /\ modal \in [kind : {None, "details", "edit", "new", "profile", "confirm", "share"},
                name : Names \cup {None}, task : Tasks \cup {None}, op : Ops, state : States,
                code : Names \cup {None}, qr : Names \cup {None}]
  /\ task \in [Tasks -> [step : {"idle", "confirm", "sent", "done", "failed"}, op : Ops,
                         name : Names \cup {None}, state : Editable, agreed : Ops, meant : BOOLEAN]]

\* What is sent after a confirmation is what the dialog said that the user
\* accepted, whatever rows, dialogs and answers arrived while it was open; and
\* nothing that needs a confirmation is sent without one (app.js:96, 97).
AsAgreed ==
  \A t \in Tasks : task[t].step \in {"sent", "done", "failed"} =>
    task[t].agreed = IF task[t].op \in Confirmed THEN task[t].op ELSE None

\* No handler waits for a question that cannot be answered any more: one
\* confirmation waits at most, and then a dialog is open, or its "close" event is
\* on its way, that will end it (app.js:40).
PendingEnds ==
  /\ \A t, u \in Pending : t = u
  /\ Pending # {} => modal # NoDialog \/ closing

\* "Reconnecting is blocked until you enable access": a suspended client
\* becomes active only by a request whose user chose so.  (TLC refutes this: README.md,
\* section 7.)
SuspendedUntilEnabled ==
  [][\A n \in Names : server[n] = "suspended" /\ server'[n] = "active" =>
       \E t \in Tasks : task[t].step = "sent" /\ task'[t].step = "done" /\ task[t].name = n /\ task[t].meant]_vars

\* A button labelled "Suspend access" never enables access.  (TLC refutes this:
\* README.md, section 7.)
LabelIsHonoured ==
  [][\A t \in Tasks : task[t].step = "idle" /\ task'[t].op = "enable" => modal.state = "suspended"]_vars

\* A dialog titled with a client's name shows that client's profile.  (TLC refutes this:
\* README.md, section 7.)
ProfileIsItsClients == modal.kind = "profile" => {modal.code, modal.qr} \subseteq {None, modal.name}
=============================================================================
