---------------------------- MODULE PagesProofs ----------------------------
(***************************************************************************)
(* Theorems about Pages, for any number of requests in flight and of       *)
(* changes to the clients; about Dialogs, for any clients and handlers;    *)
(* about AuditList, for any length of the log and of an answer; and about  *)
(* Fields, for any time zones and moments.                                 *)
(***************************************************************************)
EXTENDS Tab, SequenceTheorems, TLAPS

(* A request that starts or goes on is a well-formed one without answer.   *)
LEMMA RequestType ==
  ASSUME NEW kind \in {"idle", "page", "rows", "log", "more"}, NEW p \in Screens, NEW live \in BOOLEAN
  PROVE  /\ Request(kind, p, live) \in LoadState
         /\ Request(kind, p, live).answer = "none"
         /\ Request(kind, p, live).part = kind
         /\ Request(kind, p, live).page = p
BY DEF Request, Idle, LoadState, Screens, Nothing

\* A request that is not under way.
LEMMA IdleType == Idle \in LoadState /\ Idle.answer = "none" /\ Idle.part = "idle"
BY DEF Idle, LoadState, Screens, Nothing

\* Requests that are to be refused keep their answers and places.
LEMMA DoomedType ==
  ASSUME TypeOK
  PROVE  /\ Doomed \in [Loads -> LoadState]
         /\ \A i \in Loads : /\ Doomed[i].answer = load[i].answer
                             /\ Doomed[i].seen = load[i].seen
                             /\ Doomed[i].part = load[i].part
                             /\ Doomed[i].page = load[i].page
BY DEF Doomed, TypeOK, LoadState

(* What the timer does to the requests that wait.                          *)
LEMMA WaitedType ==
  ASSUME TypeOK
  PROVE  [j \in Loads |-> [load[j] EXCEPT !.waited = load[j] # Idle /\ outage = "hung"]]
           \in [Loads -> LoadState]
BY DEF TypeOK, LoadState

\* A load that starts takes the serial number and has no answer yet.
LEMMA StartType ==
  ASSUME TypeOK, NEW i \in Loads, NEW p \in Screens, NEW live \in BOOLEAN,
         NEW rest \in [Loads -> LoadState], Start(i, p, live, rest)
  PROVE  /\ load' \in [Loads -> LoadState] /\ latest' = i
         /\ load'[i].answer = "none" /\ load'[i].part = "page"
<1>1. /\ Request("page", p, live) \in LoadState
      /\ Request("page", p, live).answer = "none" /\ Request("page", p, live).part = "page"
  BY RequestType
<1> QED BY <1>1 DEF Start

\* A load that ends leaves the others alone.
LEMMA FinishType ==
  ASSUME TypeOK, NEW i \in Loads, Finish(i)
  PROVE  /\ load' \in [Loads -> LoadState] /\ load'[i].answer = "none" /\ load'[i].part = "idle"
         /\ \A j \in Loads \ {i} : load'[j] = load[j]
BY IdleType DEF Finish, TypeOK

\* A load that goes on to its next request leaves the others alone.
LEMMA ContinueType ==
  ASSUME TypeOK, NEW i \in Loads, NEW kind \in {"rows", "log"}, Continue(i, kind)
  PROVE  /\ load' \in [Loads -> LoadState] /\ load'[i].answer = "none"
         /\ load'[i].part = kind /\ load'[i].page = load[i].page
         /\ \A j \in Loads \ {i} : load'[j] = load[j]
<1>1. load[i].page \in Screens /\ session \in BOOLEAN
  BY DEF TypeOK, LoadState
<1>2. LET new == Request(kind, load[i].page, session)
      IN  new \in LoadState /\ new.answer = "none" /\ new.part = kind /\ new.page = load[i].page
  BY <1>1, RequestType
<1> QED BY <1>2 DEF Continue, TypeOK

(* Every answer that arrived was read from a list no newer than the        *)
(* server's, and the load that holds the serial number brings nothing      *)
(* older than the rows the page has, until a superseded dashboard writes   *)
(* them.                                                                   *)
Current ==
  /\ rows <= version
  /\ \A i \in Loads : load[i].answer = "ok" => load[i].seen \in 0..version
  /\ ~crossed =>
       /\ table \in {Nothing, rows}
       /\ load[latest].answer = "ok" /\ load[latest].part \in {"page", "rows"}
            => rows <= load[latest].seen

(* The client list is on the two pages that have one, and a dashboard that *)
(* holds the serial number while it waits for its rows is the page chosen. *)
Placed ==
  /\ table # Nothing => content \in Polled
  /\ \A i \in Loads : load[i].part = "rows" => load[i].page = "dashboard"
  /\ load[latest].part = "rows" => page = "dashboard"

Inv == TypeOK /\ ContentFollowsPage /\ LoginShown /\ Placed /\ Current

\* Nothing is on the screen at first.
LEMMA InitInv == Init => Inv
<1> SUFFICES ASSUME Init PROVE Inv
  OBVIOUS
<1>1. load \in [Loads -> LoadState] /\ latest \in Loads /\ \A i \in Loads : load[i].answer = "none"
  BY IdleType DEF Init
<1>2. TypeOK
  <2>1. 0 \in Versions
    BY BoundsAssumption DEF Versions
  <2> QED BY <1>1, <2>1 DEF Init, TypeOK, Screens
<1>3. ContentFollowsPage /\ LoginShown
  BY DEF Init, ContentFollowsPage, LoginShown, Screens
<1>4. Current /\ Placed
  BY <1>1 DEF Init, Current, Placed, Idle
<1> QED BY <1>2, <1>3, <1>4 DEF Inv

\* An answer holds the rows of a version of the client list.
LEMMA SeenType ==
  ASSUME Inv, NEW i \in Loads, load[i].answer = "ok" PROVE load[i].seen \in Versions
<1>1. version \in 0..MaxVersion /\ load[i].seen \in 0..version
  BY DEF Inv, TypeOK, Current, Versions
<1> QED BY <1>1, BoundsAssumption DEF Versions

(* A load starts, and takes the serial number.                             *)
LEMMA StartStep ==
  ASSUME Inv, NEW i \in Loads, NEW p \in Screens,
         SignIn(i) \/ Open(i, p) \/ Poll(i)
  PROVE  Inv'
<1> USE DEF Inv, ContentFollowsPage, LoginShown, server, Skeleton
<1>1. TypeOK
  OBVIOUS
<1>2. load' \in [Loads -> LoadState] /\ latest' = i /\ load'[i].answer = "none" /\ load'[i].part = "page"
  <2>1. CASE SignIn(i)
    BY <1>1, <2>1, StartType DEF SignIn, TypeOK
  <2>2. CASE Open(i, p)
    BY <1>1, <2>2, StartType DEF Open, TypeOK
  <2>3. CASE Poll(i)
    BY <1>1, <2>3, StartType, WaitedType DEF Poll, TypeOK
  <2> QED BY <2>1, <2>2, <2>3
<1>3. \A j \in Loads \ {i} : /\ load'[j].answer = load[j].answer /\ load'[j].seen = load[j].seen
                             /\ load'[j].part = load[j].part /\ load'[j].page = load[j].page
  <2>1. CASE SignIn(i) \/ Open(i, p)
    BY <2>1 DEF SignIn, Open, Start, TypeOK
  <2>2. CASE Poll(i)
    BY <2>2 DEF Poll, Start, TypeOK, LoadState
  <2> QED BY <2>1, <2>2
<1>4. TypeOK'
  BY <1>2 DEF SignIn, Open, Poll, TypeOK
<1>5. ContentFollowsPage' /\ LoginShown'
  BY DEF SignIn, Open, Poll, TypeOK, Screens
<1>6. Current'
  BY <1>2, <1>3 DEF SignIn, Open, Poll, Current, TypeOK, Versions, LoadState
<1>7. Placed'
  BY <1>2, <1>3 DEF SignIn, Open, Poll, Placed
<1> QED BY <1>4, <1>5, <1>6, <1>7

(* The panel answers.                                                      *)
LEMMA AnswerStep == ASSUME Inv, NEW i \in Loads, Answer(i) PROVE Inv'
<1> USE DEF Inv, server
<1>1. /\ load' \in [Loads -> LoadState]
      /\ \A j \in Loads \ {i} : load'[j] = load[j]
      /\ load'[i].answer = "ok" => load'[i].seen = version
      /\ load'[i].part = load[i].part /\ load'[i].page = load[i].page
  BY DEF Answer, TypeOK, LoadState
<1>2. TypeOK' /\ ContentFollowsPage' /\ LoginShown'
  BY <1>1 DEF Answer, TypeOK, ContentFollowsPage, LoginShown
<1>3. Current'
  BY <1>1 DEF Answer, Current, TypeOK, Versions
<1>4. Placed'
  BY <1>1 DEF Answer, Placed, TypeOK
<1> QED BY <1>2, <1>3, <1>4

(* An answer arrives and its request ends.                                 *)
LEMMA FinishStep ==
  ASSUME Inv, NEW i \in Loads, Finish(i),
         \/ Refused(i) \/ DropPage(i) \/ ShowError(i) \/ ShowClients(i) \/ ShowAudit(i)
         \/ FillActivity(i) \/ AppendAudit(i) \/ AppendFails(i)
  PROVE  Inv'
<1> USE DEF Inv, server
<1>1. /\ load' \in [Loads -> LoadState] /\ load'[i].answer = "none" /\ load'[i].part = "idle"
      /\ \A j \in Loads \ {i} : load'[j] = load[j]
  BY FinishType
<1> USE DEF Refused, DropPage, ShowError, ShowClients, ShowAudit, FillActivity, AppendAudit, AppendFails,
            Arrived, Superseded, Leave
<1>2. TypeOK'
  <2>1. load[i].answer = "ok" => load[i].seen \in Versions
    BY SeenType
  <2> QED BY <1>1, <2>1 DEF TypeOK, Screens
<1>3. ContentFollowsPage' /\ LoginShown'
  BY DEF TypeOK, ContentFollowsPage, LoginShown, Screens
<1>4. Current'
  BY <1>1, BoundsAssumption DEF Current, TypeOK, Versions, Nothing
<1>5. Placed'
  BY <1>1 DEF Placed, TypeOK, Polled
<1> QED BY <1>2, <1>3, <1>4, <1>5

(* An answer of the dashboard arrives and the next request goes out.       *)
LEMMA ContinueStep ==
  ASSUME Inv, NEW i \in Loads, ShowDashboard(i) \/ FillRecent(i) \/ FailRecent(i)
  PROVE  Inv'
<1> USE DEF Inv, server
<1>1. /\ load' \in [Loads -> LoadState] /\ load'[i].answer = "none" /\ load'[i].page = load[i].page
      /\ load'[i].part = "rows" => ShowDashboard(i)
      /\ \A j \in Loads \ {i} : load'[j] = load[j]
  BY ContinueType DEF ShowDashboard, FillRecent, FailRecent
<1> USE DEF ShowDashboard, FillRecent, FailRecent, Arrived, Superseded
<1>2. TypeOK'
  <2>1. load[i].answer = "ok" => load[i].seen \in Versions
    BY SeenType
  <2> QED BY <1>1, <2>1 DEF TypeOK, Screens
<1>3. ContentFollowsPage' /\ LoginShown'
  BY DEF TypeOK, ContentFollowsPage, LoginShown, Screens
<1>4. Current'
  <2>1. \A j \in Loads : load'[j].answer = "ok" => j # i /\ load'[j] = load[j]
    BY <1>1
  <2>2. rows' <= version' /\ version' = version /\ latest' = latest
    <3>1. CASE FillRecent(i)
      <4>1. version \in Int
        BY BoundsAssumption DEF TypeOK, Versions
      <4>2. load[i].seen \in 0..version
        BY <3>1 DEF Current
      <4> QED BY <3>1, <4>1, <4>2
    <3>2. CASE ShowDashboard(i) \/ FailRecent(i)
      BY <3>2 DEF Current
    <3> QED BY <3>1, <3>2
  <2>4. ~crossed' => ~crossed /\ table' \in {Nothing, rows'}
    <3>1. CASE FillRecent(i)
      <4>1. ~crossed' => ~crossed /\ latest = i
        BY <3>1, Zenon
      <4>2. latest = i => table' \in {Nothing, rows'}
        BY <3>1 DEF Placed, Polled, Screens, ContentFollowsPage
      <4> QED BY <4>1, <4>2
    <3>2. CASE ShowDashboard(i) \/ FailRecent(i)
      BY <3>2 DEF Current
    <3> QED BY <3>1, <3>2
  <2> QED BY <2>1, <2>2, <2>4 DEF Current, TypeOK
<1>5. Placed'
  BY <1>1 DEF Placed, TypeOK, Polled
<1> QED BY <1>2, <1>3, <1>4, <1>5

(* The steps that no answer is part of.                                    *)
LEMMA OtherStep ==
  ASSUME Inv, SignOut \/ Retype \/ Outside \/ (\E i \in Loads : MoreAudit(i)) \/ UNCHANGED vars
  PROVE  Inv'
<1> USE DEF Inv, server
<1>1. CASE SignOut \/ SessionEnds
  <2>1. /\ load' \in [Loads -> LoadState]
        /\ \A i \in Loads : /\ load'[i].answer = load[i].answer /\ load'[i].seen = load[i].seen
                              /\ load'[i].part = load[i].part /\ load'[i].page = load[i].page
    BY <1>1, DoomedType DEF SignOut, SessionEnds
  <2>2. TypeOK'
    BY <1>1, <2>1 DEF SignOut, SessionEnds, Leave, TypeOK
  <2>3. ContentFollowsPage' /\ LoginShown'
    BY <1>1 DEF SignOut, SessionEnds, Leave, ContentFollowsPage, LoginShown, Screens
  <2>4. Current'
    BY <1>1, <2>1 DEF SignOut, SessionEnds, Leave, Current, TypeOK
  <2>5. Placed'
    BY <1>1, <2>1 DEF SignOut, SessionEnds, Leave, Placed, TypeOK
  <2> QED BY <2>2, <2>3, <2>4, <2>5
<1>2. ASSUME NEW i \in Loads, MoreAudit(i) PROVE Inv'
  <2>1. page \in Screens /\ session \in BOOLEAN
    BY DEF TypeOK
  <2>2. LET new == Request("more", page, session)
        IN  new \in LoadState /\ new.answer = "none" /\ new.part = "more"
    BY <2>1, RequestType
  <2>3. /\ load' \in [Loads -> LoadState] /\ load'[i].answer = "none" /\ load'[i].part = "more"
        /\ \A j \in Loads \ {i} : load'[j] = load[j]
    BY <1>2, <2>2 DEF MoreAudit, TypeOK
  <2> QED BY <1>2, <2>3 DEF MoreAudit, TypeOK, ContentFollowsPage, LoginShown, Current, Placed
<1>3. CASE Retype \/ UNCHANGED vars
  BY <1>3 DEF Retype, vars, TypeOK, ContentFollowsPage, LoginShown, Current, Versions, Placed, Polled
<1>4. CASE ChangeClients
  <2>1. version \in Int /\ version' = version + 1 /\ version' \in Versions
    BY <1>4, BoundsAssumption DEF ChangeClients, TypeOK, Versions
  <2>2. TypeOK' /\ ContentFollowsPage' /\ LoginShown'
    BY <1>4, <2>1 DEF ChangeClients, TypeOK, ContentFollowsPage, LoginShown
  <2>3. rows' <= version' /\ \A i \in Loads : load'[i].answer = "ok" => load'[i].seen \in 0..version'
    BY <1>4, <2>1, BoundsAssumption DEF ChangeClients, Current, TypeOK, Versions
  <2> QED BY <1>4, <2>2, <2>3 DEF ChangeClients, Current, Placed
<1>5. CASE OutageBegins \/ OutageEnds
  <2>1. TypeOK'
    BY <1>5, BoundsAssumption DEF OutageBegins, OutageEnds, TypeOK
  <2> QED BY <1>5, <2>1 DEF OutageBegins, OutageEnds, ContentFollowsPage, LoginShown, Current, Placed
<1> QED BY <1>1, <1>2, <1>3, <1>4, <1>5 DEF Outside

\* Every step keeps the invariant.
LEMMA InvStep == Inv /\ [Next]_vars => Inv'
<1> SUFFICES ASSUME Inv, [Next]_vars PROVE Inv'
  OBVIOUS
<1>1. ASSUME NEW i \in Loads, SignIn(i) \/ Poll(i) \/ (\E p \in Screens : Open(i, p)) PROVE Inv'
  BY <1>1, StartStep DEF Screens
<1>2. ASSUME NEW i \in Loads, Answer(i) PROVE Inv'
  BY <1>2, AnswerStep
<1>3. ASSUME NEW i \in Loads, Deliver(i) PROVE Inv'
  <2>1. CASE ShowDashboard(i) \/ FillRecent(i) \/ FailRecent(i)
    BY <2>1, ContinueStep
  <2>2. CASE ~(ShowDashboard(i) \/ FillRecent(i) \/ FailRecent(i))
    <3>1. Finish(i)
      BY <1>3, <2>2
         DEF Deliver, Refused, DropPage, ShowError, ShowClients, ShowAudit, FillActivity, AppendAudit, AppendFails
    <3> QED BY <1>3, <2>2, <3>1, FinishStep DEF Deliver
  <2> QED BY <2>1, <2>2
<1> QED BY <1>1, <1>2, <1>3, OtherStep DEF Next

(* THEOREM: in every state of a tab the screen shows the page that was     *)
(* chosen, a signed-out tab shows the login form, and the rows and answers *)
(* held by loadPage and its polls are placed and dated as Inv says.        *)
THEOREM Invariance == Spec => []Inv
BY InitInv, InvStep, PTL DEF Spec

(* Loads, rows and screens keep their types.                               *)
THEOREM TypeCorrect == Spec => []TypeOK
BY Invariance, PTL DEF Inv

(* What a load puts on the screen, the log included, is the page chosen;   *)
(* what "Load older" puts there is not meant (app.js:46-51, 99).           *)
THEOREM ContentFollowsPageHolds == Spec => []ContentFollowsPage
BY Invariance, PTL DEF Inv

(* The sign-in form is on the screen exactly while nobody is signed in.    *)
THEOREM LoginShownHolds == Spec => []LoginShown
BY Invariance, PTL DEF Inv

(* A step that keeps the page does not take its client list back.          *)
LEMMA ForwardStep ==
  Inv /\ Inv' /\ [Next]_vars =>
    [content' = content /\ Nothing \notin {table, table'} /\ ~crossed' => table' >= table]_vars
<1> SUFFICES ASSUME Inv, Inv', [Next]_vars, ~crossed', Nothing \notin {table, table'}
             PROVE  table' >= table
  OBVIOUS
<1>1. ~crossed /\ rows' >= rows
  <2>1. rows \in Int
    BY BoundsAssumption DEF Inv, TypeOK, Versions
  <2>2. ASSUME NEW i \in Loads, ShowClients(i) \/ FillRecent(i) PROVE ~crossed /\ rows' >= rows
    <3>1. CASE ShowClients(i)
      BY <3>1 DEF ShowClients, Superseded, Arrived, Inv, Current
    <3>2. CASE FillRecent(i)
      <4>1. ~crossed /\ latest = i
        BY <3>2, Zenon DEF FillRecent
      <4> QED BY <3>2, <4>1 DEF FillRecent, Arrived, Inv, Current
    <3> QED BY <2>2, <3>1, <3>2
  <2>3. ASSUME UNCHANGED <<rows, crossed>> PROVE ~crossed /\ rows' >= rows
    BY <2>1, <2>3
  <2> QED
    BY <2>2, <2>3
       DEF Next, vars, server, SignIn, Open, Poll, SignOut, Answer, Deliver, Refused, DropPage, ShowError,
           ShowDashboard, ShowAudit, FailRecent, FillActivity, MoreAudit, AppendAudit, AppendFails, Retype,
           Outside, ChangeClients, SessionEnds, OutageBegins, OutageEnds
<1>2. table = rows /\ table' = rows'
  BY <1>1 DEF Inv, Current
<1> QED BY <1>1, <1>2

(* The client list on the screen only moves forward.                       *)
THEOREM TableMovesForwardHolds == Spec => TableMovesForward
BY Invariance, InvStep, ForwardStep, PTL DEF Spec, TableMovesForward
-----------------------------------------------------------------------------
(***************************************************************************)
(* The dialog and the handlers that wait behind it (Dialogs), for any      *)
(* number of clients, of handlers and of changes by others.                *)
(***************************************************************************)
Kinds == {D!None, "details", "edit", "new", "profile", "confirm", "share"}
ModalType == [kind : Kinds, name : Names \cup {D!None}, task : Tasks \cup {D!None}, op : D!Ops,
              state : D!States, code : Names \cup {D!None}, qr : Names \cup {D!None}]
TaskType == [step : {"idle", "confirm", "sent", "done", "failed"}, op : D!Ops,
             name : Names \cup {D!None}, state : D!Editable, agreed : D!Ops, meant : BOOLEAN]

(* What a question says is what its handler waits to do.                   *)
Question ==
  modal.kind = "confirm" =>
    \A t \in Tasks : modal.task = t /\ task[t].step = "confirm" => modal.op = task[t].op

(* Who waits does so for an answer it needs and has not got; who does not  *)
(* wait any more has got it.                                               *)
Agreement ==
  \A t \in Tasks :
    /\ task[t].step = "confirm" => task[t].op \in D!Confirmed /\ task[t].agreed = D!None
    /\ task[t].step \in {"sent", "done", "failed"} =>
         task[t].agreed = IF task[t].op \in D!Confirmed THEN task[t].op ELSE D!None

(* While a handler waits, no dialog that could start another one is open,  *)
(* unless it is being closed.                                              *)
OneWaits ==
  /\ \A t, u \in Tasks : task[t].step = "confirm" /\ task[u].step = "confirm" => t = u
  /\ \A t \in Tasks : task[t].step = "confirm" => closing \/ modal.kind \in {"confirm", "new", "share"}

Waiting == Question /\ Agreement /\ OneWaits

\* A confirmation that is given up keeps the types.
LEMMA CancelTypes ==
  ASSUME modal \in ModalType, task \in [Tasks -> TaskType], NEW t \in Tasks, D!Cancel(t)
  PROVE  modal' \in ModalType /\ task' \in [Tasks -> TaskType]
<1> USE DEF ModalType, TaskType, Kinds, D!Task, D!Dialog, D!NoDialog, D!Idle, D!None, D!Ops,
            D!Confirmed, D!States, D!Editable
<1>1. CASE task[t].op = "share"
  <2>1. D!Task("sent", "profile", task[t].name) \in TaskType /\ D!Dialog("profile", task[t].name, D!None) \in ModalType
    OBVIOUS
  <2> HIDE DEF TaskType, ModalType, D!Task, D!Dialog
  <2> QED BY <1>1, <2>1 DEF D!Cancel
<1>2. CASE task[t].op # "share"
  <2>1. D!Idle \in TaskType /\ D!NoDialog \in ModalType
    OBVIOUS
  <2> HIDE DEF TaskType, ModalType, D!Idle, D!NoDialog
  <2> QED BY <1>2, <2>1 DEF D!Cancel
<1> QED BY <1>1, <1>2

\* Every step of the handlers and of the administrator keeps the types.
LEMMA DialogTypes == DialogsAssumption /\ D!TypeOK /\ [D!Next]_D!vars => D!TypeOK'
<1> SUFFICES ASSUME MaxOthers \in Nat, D!TypeOK, [D!Next]_D!vars PROVE D!TypeOK'
  BY DEF DialogsAssumption
<1> DEFINE Rows == agent \in [Names -> D!States] /\ known \in [Names -> D!States]
           Flags == loading \in BOOLEAN /\ closing \in BOOLEAN /\ others \in 0..MaxOthers
           Modal == modal \in ModalType
           Handlers == task \in [Tasks -> TaskType]
<1>a. Rows /\ Flags /\ Modal /\ Handlers
  BY DEF D!TypeOK, ModalType, TaskType, Kinds
<1>b. Rows' /\ Flags' /\ Modal' /\ Handlers' => D!TypeOK'
  BY DEF D!TypeOK, ModalType, TaskType, Kinds
<1> USE <1>a DEF ModalType, TaskType, Kinds, D!Task, D!Dialog, D!NoDialog, D!Idle, D!None, D!Ops,
                 D!Confirmed, D!States, D!Editable, D!rowsVars
<1>1. ASSUME NEW t \in Tasks, D!User(t) PROVE D!TypeOK'
  <2>1. CASE D!ClickNew(t)
    <3>1. Rows'
      BY <1>1, <2>1 DEF D!ClickNew, D!Page, D!Send
    <3>2. Flags'
      BY <1>1, <2>1 DEF D!ClickNew, D!Page, D!Send
    <3>3. Modal'
      BY <1>1, <2>1 DEF D!ClickNew, D!Page, D!Send
    <3>4. Handlers'
      BY <1>1, <2>1 DEF D!ClickNew, D!Page, D!Send
    <3> QED BY <1>b, <3>1, <3>2, <3>3, <3>4
  <2>2. CASE D!ClickQr(t)
    <3>1. Rows'
      BY <1>1, <2>2 DEF D!ClickQr, D!In, D!Send
    <3>2. Flags'
      BY <1>1, <2>2 DEF D!ClickQr, D!In, D!Send
    <3>3. Modal'
      BY <1>1, <2>2 DEF D!ClickQr, D!In, D!Send
    <3>4. Handlers'
      BY <1>1, <2>2 DEF D!ClickQr, D!In, D!Send
    <3> QED BY <1>b, <3>1, <3>2, <3>3, <3>4
  <2>3. CASE D!ClickToggle(t)
    <3>1. Rows'
      BY <1>1, <2>3 DEF D!ClickToggle, D!In, D!Confirm
    <3>2. Flags'
      BY <1>1, <2>3 DEF D!ClickToggle, D!In, D!Confirm
    <3>3. Modal'
      BY <1>1, <2>3 DEF D!ClickToggle, D!In, D!Confirm
    <3>4. Handlers'
      <4>1. CASE known[modal.name] = "suspended"
        <5>1. [D!Task("sent", "enable", modal.name) EXCEPT !.meant = TRUE] \in TaskType
          OBVIOUS
        <5>2. task' = [task EXCEPT ![t] = [D!Task("sent", "enable", modal.name) EXCEPT !.meant = TRUE]]
          BY <1>1, <2>3, <4>1 DEF D!ClickToggle
        <5> HIDE DEF TaskType, D!Task
        <5> QED BY <5>1, <5>2
      <4>2. CASE known[modal.name] # "suspended"
        <5>1. D!Task("confirm", "suspend", modal.name) \in TaskType
          OBVIOUS
        <5>2. task' = [task EXCEPT ![t] = D!Task("confirm", "suspend", modal.name)]
          BY <1>1, <2>3, <4>2 DEF D!ClickToggle, D!Confirm
        <5> HIDE DEF TaskType, D!Task
        <5> QED BY <5>1, <5>2
      <4> QED BY <4>1, <4>2
    <3> QED BY <1>b, <3>1, <3>2, <3>3, <3>4
  <2>4. CASE D!Yes(t)
    <3>1. Rows'
      BY <1>1, <2>4 DEF D!Yes, D!In
    <3>2. Flags'
      BY <1>1, <2>4 DEF D!Yes, D!In
    <3>3. Modal'
      BY <1>1, <2>4 DEF D!Yes, D!In
    <3>4. Handlers'
      <4>1. [task[t] EXCEPT !.step = "sent", !.agreed = modal.op] \in TaskType
        <5>1. modal.op \in D!Ops /\ task[t] \in TaskType
          BY <1>1
        <5> HIDE <1>a DEF D!Ops
        <5> QED BY <5>1
      <4>2. task' = [task EXCEPT ![t] = [task[t] EXCEPT !.step = "sent", !.agreed = modal.op]]
        BY <1>1, <2>4 DEF D!Yes
      <4> HIDE DEF TaskType
      <4> QED BY <4>1, <4>2
    <3> QED BY <1>b, <3>1, <3>2, <3>3, <3>4
  <2>5. CASE D!No(t)
    <3>1. Rows'
      BY <1>1, <2>5 DEF D!No, D!In, D!Cancel
    <3>2. Flags'
      BY <1>1, <2>5 DEF D!No, D!In, D!Cancel
    <3>3. Modal'
      BY <1>1, <2>5, CancelTypes DEF D!No
    <3>4. Handlers'
      BY <1>1, <2>5, CancelTypes DEF D!No
    <3> QED BY <1>b, <3>1, <3>2, <3>3, <3>4
  <2>6. CASE D!SubmitNew(t)
    <3>1. Rows'
      BY <1>1, <2>6 DEF D!SubmitNew, D!In, D!Send
    <3>2. Flags'
      BY <1>1, <2>6 DEF D!SubmitNew, D!In, D!Send
    <3>3. Modal'
      BY <1>1, <2>6 DEF D!SubmitNew, D!In, D!Send
    <3>4. Handlers'
      BY <1>1, <2>6 DEF D!SubmitNew, D!In, D!Send
    <3> QED BY <1>b, <3>1, <3>2, <3>3, <3>4
  <2>7. ASSUME NEW n \in Names, D!OpenProfile(t, n) PROVE D!TypeOK'
    <3>1. Rows'
      BY <1>1, <2>7 DEF D!OpenProfile, D!Page, D!Send
    <3>2. Flags'
      BY <1>1, <2>7 DEF D!OpenProfile, D!Page, D!Send
    <3>3. Modal'
      BY <1>1, <2>7 DEF D!OpenProfile, D!Page, D!Send
    <3>4. Handlers'
      BY <1>1, <2>7 DEF D!OpenProfile, D!Page, D!Send
    <3> QED BY <1>b, <3>1, <3>2, <3>3, <3>4
  <2>8. ASSUME NEW op \in {"kill", "revoke", "share"}, D!ClickDanger(t, op) PROVE D!TypeOK'
    <3>1. Rows'
      BY <1>1, <2>8 DEF D!ClickDanger, D!In, D!Confirm
    <3>2. Flags'
      BY <1>1, <2>8 DEF D!ClickDanger, D!In, D!Confirm
    <3>3. Modal'
      BY <1>1, <2>8 DEF D!ClickDanger, D!In, D!Confirm
    <3>4. Handlers'
      BY <1>1, <2>8 DEF D!ClickDanger, D!In, D!Confirm
    <3> QED BY <1>b, <3>1, <3>2, <3>3, <3>4
  <2>9. ASSUME NEW s \in D!Editable, D!Submit(t, s) PROVE D!TypeOK'
    <3>1. Rows'
      BY <1>1, <2>9 DEF D!Submit, D!In
    <3>2. Flags'
      BY <1>1, <2>9 DEF D!Submit, D!In
    <3>3. Modal'
      BY <1>1, <2>9 DEF D!Submit, D!In
    <3>4. Handlers'
      BY <1>1, <2>9 DEF D!Submit, D!In
    <3> QED BY <1>b, <3>1, <3>2, <3>3, <3>4
  <2> QED BY <1>1, <2>1, <2>2, <2>3, <2>4, <2>5, <2>6, <2>7, <2>8, <2>9 DEF D!User
<1>2. ASSUME NEW t \in Tasks, D!Resume(t) PROVE D!TypeOK'
  <2>1. CASE D!Serve(t)
    <3>1. Rows'
      BY <1>2, <2>1 DEF D!Serve, D!Written, D!Writes
    <3>2. Flags'
      BY <1>2, <2>1 DEF D!Serve, D!Written, D!Writes
    <3>3. Modal'
      BY <1>2, <2>1 DEF D!Serve, D!Written, D!Writes
    <3>4. Handlers'
      BY <1>2, <2>1 DEF D!Serve, D!Written, D!Writes
    <3> QED BY <1>b, <3>1, <3>2, <3>3, <3>4
  <2>2. CASE D!ServeOther(t)
    <3>1. Rows'
      BY <1>2, <2>2 DEF D!ServeOther
    <3>2. Flags'
      BY <1>2, <2>2 DEF D!ServeOther
    <3>3. Modal'
      BY <1>2, <2>2 DEF D!ServeOther
    <3>4. Handlers'
      BY <1>2, <2>2 DEF D!ServeOther
    <3> QED BY <1>b, <3>1, <3>2, <3>3, <3>4
  <2>3. CASE D!ServeFails(t)
    <3>1. Rows'
      BY <1>2, <2>3 DEF D!ServeFails
    <3>2. Flags'
      BY <1>2, <2>3 DEF D!ServeFails
    <3>3. Modal'
      BY <1>2, <2>3 DEF D!ServeFails
    <3>4. Handlers'
      BY <1>2, <2>3 DEF D!ServeFails
    <3> QED BY <1>b, <3>1, <3>2, <3>3, <3>4
  <2>4. CASE D!Saved(t)
    <3>1. Rows'
      BY <1>2, <2>4 DEF D!Saved, D!Answered, D!Return, D!Reload
    <3>2. Flags'
      BY <1>2, <2>4 DEF D!Saved, D!Answered, D!Return, D!Reload
    <3>3. Modal'
      BY <1>2, <2>4 DEF D!Saved, D!Answered, D!Return, D!Reload
    <3>4. Handlers'
      BY <1>2, <2>4 DEF D!Saved, D!Answered, D!Return, D!Reload
    <3> QED BY <1>b, <3>1, <3>2, <3>3, <3>4
  <2>5. CASE D!Done(t)
    <3>1. Rows'
      BY <1>2, <2>5 DEF D!Done, D!Answered, D!Return, D!Reload
    <3>2. Flags'
      BY <1>2, <2>5 DEF D!Done, D!Answered, D!Return, D!Reload
    <3>3. Modal'
      BY <1>2, <2>5 DEF D!Done, D!Answered, D!Return, D!Reload
    <3>4. Handlers'
      BY <1>2, <2>5 DEF D!Done, D!Answered, D!Return, D!Reload
    <3> QED BY <1>b, <3>1, <3>2, <3>3, <3>4
  <2>6. CASE D!OpenNew(t)
    <3>1. Rows'
      BY <1>2, <2>6 DEF D!OpenNew, D!Return
    <3>2. Flags'
      BY <1>2, <2>6 DEF D!OpenNew, D!Return
    <3>3. Modal'
      BY <1>2, <2>6 DEF D!OpenNew, D!Return
    <3>4. Handlers'
      BY <1>2, <2>6 DEF D!OpenNew, D!Return
    <3> QED BY <1>b, <3>1, <3>2, <3>3, <3>4
  <2>7. CASE D!OpenShare(t)
    <3>1. Rows'
      BY <1>2, <2>7 DEF D!OpenShare, D!Answered, D!Return
    <3>2. Flags'
      BY <1>2, <2>7 DEF D!OpenShare, D!Answered, D!Return
    <3>3. Modal'
      BY <1>2, <2>7 DEF D!OpenShare, D!Answered, D!Return
    <3>4. Handlers'
      BY <1>2, <2>7 DEF D!OpenShare, D!Answered, D!Return
    <3> QED BY <1>b, <3>1, <3>2, <3>3, <3>4
  <2>8. CASE D!FillProfile(t)
    <3>1. Rows'
      BY <1>2, <2>8 DEF D!FillProfile, D!Answered, D!Return
    <3>2. Flags'
      BY <1>2, <2>8 DEF D!FillProfile, D!Answered, D!Return
    <3>3. Modal'
      BY <1>2, <2>8 DEF D!FillProfile, D!Answered, D!Return
    <3>4. Handlers'
      BY <1>2, <2>8 DEF D!FillProfile, D!Answered, D!Return
    <3> QED BY <1>b, <3>1, <3>2, <3>3, <3>4
  <2>9. CASE D!Failed(t)
    <3>1. Rows'
      BY <1>2, <2>9 DEF D!Failed, D!Return
    <3>2. Flags'
      BY <1>2, <2>9 DEF D!Failed, D!Return
    <3>3. Modal'
      BY <1>2, <2>9 DEF D!Failed, D!Return
    <3>4. Handlers'
      BY <1>2, <2>9 DEF D!Failed, D!Return
    <3> QED BY <1>b, <3>1, <3>2, <3>3, <3>4
  <2> QED BY <1>2, <2>1, <2>2, <2>3, <2>4, <2>5, <2>6, <2>7, <2>8, <2>9 DEF D!Resume
<1>3. ASSUME NEW n \in Names, D!OpenDetails(n) PROVE D!TypeOK'
  <2>1. Rows'
    BY <1>3 DEF D!OpenDetails, D!Page
  <2>2. Flags'
    BY <1>3 DEF D!OpenDetails, D!Page
  <2>3. Modal'
    BY <1>3 DEF D!OpenDetails, D!Page
  <2>4. Handlers'
    BY <1>3 DEF D!OpenDetails, D!Page
  <2> QED BY <1>b, <2>1, <2>2, <2>3, <2>4
<1>4. ASSUME NEW n \in Names, D!OpenEdit(n) PROVE D!TypeOK'
  <2>1. Rows'
    BY <1>4 DEF D!OpenEdit, D!Page
  <2>2. Flags'
    BY <1>4 DEF D!OpenEdit, D!Page
  <2>3. Modal'
    BY <1>4 DEF D!OpenEdit, D!Page
  <2>4. Handlers'
    BY <1>4 DEF D!OpenEdit, D!Page
  <2> QED BY <1>b, <2>1, <2>2, <2>3, <2>4
<1>5. ASSUME NEW n \in Names, D!OtherSuspends(n) PROVE D!TypeOK'
  <2>1. Rows'
    BY <1>5 DEF D!OtherSuspends
  <2>2. Flags'
    BY <1>5 DEF D!OtherSuspends
  <2>3. Modal'
    BY <1>5 DEF D!OtherSuspends
  <2>4. Handlers'
    BY <1>5 DEF D!OtherSuspends
  <2> QED BY <1>b, <2>1, <2>2, <2>3, <2>4
<1>6. CASE D!Close
  <2>1. Rows'
    BY <1>6 DEF D!Close
  <2>2. Flags'
    BY <1>6 DEF D!Close
  <2>3. Modal'
    BY <1>6 DEF D!Close
  <2>4. Handlers'
    BY <1>6 DEF D!Close
  <2> QED BY <1>b, <2>1, <2>2, <2>3, <2>4
<1>7. CASE D!CloseEvent
  <2>1. Rows'
    BY <1>7 DEF D!CloseEvent, D!Cancel
  <2>2. Flags'
    BY <1>7 DEF D!CloseEvent, D!Cancel
  <2>3. Modal'
    BY <1>7, CancelTypes DEF D!CloseEvent, D!Pending
  <2>4. Handlers'
    BY <1>7, CancelTypes DEF D!CloseEvent, D!Pending
  <2> QED BY <1>b, <2>1, <2>2, <2>3, <2>4
<1>8. CASE D!Poll
  <2>1. Rows'
    BY <1>8 DEF D!Poll
  <2>2. Flags'
    BY <1>8 DEF D!Poll
  <2>3. Modal'
    BY <1>8 DEF D!Poll
  <2>4. Handlers'
    BY <1>8 DEF D!Poll
  <2> QED BY <1>b, <2>1, <2>2, <2>3, <2>4
<1>9. CASE D!RowsArrive
  <2>1. Rows'
    BY <1>9 DEF D!RowsArrive
  <2>2. Flags'
    BY <1>9 DEF D!RowsArrive
  <2>3. Modal'
    BY <1>9 DEF D!RowsArrive
  <2>4. Handlers'
    BY <1>9 DEF D!RowsArrive
  <2> QED BY <1>b, <2>1, <2>2, <2>3, <2>4
<1>10. CASE UNCHANGED D!vars
  <2>1. Rows'
    BY <1>10 DEF D!vars
  <2>2. Flags'
    BY <1>10 DEF D!vars
  <2>3. Modal'
    BY <1>10 DEF D!vars
  <2>4. Handlers'
    BY <1>10 DEF D!vars
  <2> QED BY <1>b, <2>1, <2>2, <2>3, <2>4
<1> QED BY <1>1, <1>2, <1>3, <1>4, <1>5, <1>6, <1>7, <1>8, <1>9, <1>10 DEF D!Next

\* Every step keeps the promise of a confirmation with the dialog that shows it.
LEMMA DialogStep == DialogsAssumption /\ D!TypeOK /\ Waiting /\ [D!Next]_D!vars => Waiting'
<1> SUFFICES ASSUME D!None \notin Tasks, D!TypeOK, Waiting, [D!Next]_D!vars PROVE Waiting'
  BY DEF DialogsAssumption
<1>a. modal \in ModalType /\ task \in [Tasks -> TaskType]
  BY DEF D!TypeOK, ModalType, TaskType, Kinds
<1> USE <1>a DEF Waiting, Question, Agreement, OneWaits, ModalType, TaskType, D!Task, D!Dialog, D!NoDialog,
                 D!Idle, D!None, D!Confirmed, D!rowsVars, D!Pending
<1>1. ASSUME NEW t \in Tasks, D!User(t) PROVE Waiting'
  <2>1. CASE D!ClickNew(t)
    <3>1. Question'
      BY <1>1, <2>1 DEF D!ClickNew, D!Page, D!Send
    <3>2. Agreement'
      BY <1>1, <2>1 DEF D!ClickNew, D!Page, D!Send
    <3>3. OneWaits'
      BY <1>1, <2>1 DEF D!ClickNew, D!Page, D!Send
    <3> QED BY <3>1, <3>2, <3>3
  <2>2. CASE D!ClickQr(t)
    <3>1. Question'
      BY <1>1, <2>2 DEF D!ClickQr, D!In, D!Send
    <3>2. Agreement'
      BY <1>1, <2>2 DEF D!ClickQr, D!In, D!Send
    <3>3. OneWaits'
      BY <1>1, <2>2 DEF D!ClickQr, D!In, D!Send
    <3> QED BY <3>1, <3>2, <3>3
  <2>3. CASE D!ClickToggle(t)
    <3>1. Question'
      BY <1>1, <2>3 DEF D!ClickToggle, D!In, D!Confirm
    <3>2. Agreement'
      BY <1>1, <2>3 DEF D!ClickToggle, D!In, D!Confirm
    <3>3. OneWaits'
      BY <1>1, <2>3 DEF D!ClickToggle, D!In, D!Confirm
    <3> QED BY <3>1, <3>2, <3>3
  <2>4. CASE D!Yes(t)
    <3>1. Question'
      BY <1>1, <2>4 DEF D!Yes, D!In
    <3>2. Agreement'
      BY <1>1, <2>4 DEF D!Yes, D!In
    <3>3. OneWaits'
      BY <1>1, <2>4 DEF D!Yes, D!In
    <3> QED BY <3>1, <3>2, <3>3
  <2>5. CASE D!No(t)
    <3>1. Question'
      BY <1>1, <2>5 DEF D!No, D!In, D!Cancel
    <3>2. Agreement'
      BY <1>1, <2>5 DEF D!No, D!In, D!Cancel
    <3>3. OneWaits'
      BY <1>1, <2>5 DEF D!No, D!In, D!Cancel
    <3> QED BY <3>1, <3>2, <3>3
  <2>6. CASE D!SubmitNew(t)
    <3>1. Question'
      BY <1>1, <2>6 DEF D!SubmitNew, D!In, D!Send
    <3>2. Agreement'
      BY <1>1, <2>6 DEF D!SubmitNew, D!In, D!Send
    <3>3. OneWaits'
      BY <1>1, <2>6 DEF D!SubmitNew, D!In, D!Send
    <3> QED BY <3>1, <3>2, <3>3
  <2>7. ASSUME NEW n \in Names, D!OpenProfile(t, n) PROVE Waiting'
    <3>1. Question'
      BY <1>1, <2>7 DEF D!OpenProfile, D!Page, D!Send
    <3>2. Agreement'
      BY <1>1, <2>7 DEF D!OpenProfile, D!Page, D!Send
    <3>3. OneWaits'
      BY <1>1, <2>7 DEF D!OpenProfile, D!Page, D!Send
    <3> QED BY <3>1, <3>2, <3>3
  <2>8. ASSUME NEW op \in {"kill", "revoke", "share"}, D!ClickDanger(t, op) PROVE Waiting'
    <3>1. Question'
      BY <1>1, <2>8 DEF D!ClickDanger, D!In, D!Confirm
    <3>2. Agreement'
      BY <1>1, <2>8 DEF D!ClickDanger, D!In, D!Confirm
    <3>3. OneWaits'
      BY <1>1, <2>8 DEF D!ClickDanger, D!In, D!Confirm
    <3> QED BY <3>1, <3>2, <3>3
  <2>9. ASSUME NEW s \in D!Editable, D!Submit(t, s) PROVE Waiting'
    <3>1. Question'
      BY <1>1, <2>9 DEF D!Submit, D!In
    <3>2. Agreement'
      BY <1>1, <2>9 DEF D!Submit, D!In
    <3>3. OneWaits'
      BY <1>1, <2>9 DEF D!Submit, D!In
    <3> QED BY <3>1, <3>2, <3>3
  <2> QED BY <1>1, <2>1, <2>2, <2>3, <2>4, <2>5, <2>6, <2>7, <2>8, <2>9 DEF D!User
<1>2. ASSUME NEW t \in Tasks, D!Resume(t) PROVE Waiting'
  <2>1. CASE D!Serve(t)
    <3>1. Question'
      BY <1>2, <2>1 DEF D!Serve, D!Written, D!Writes
    <3>2. Agreement'
      BY <1>2, <2>1 DEF D!Serve, D!Written, D!Writes
    <3>3. OneWaits'
      BY <1>2, <2>1 DEF D!Serve, D!Written, D!Writes
    <3> QED BY <3>1, <3>2, <3>3
  <2>2. CASE D!ServeOther(t)
    <3>1. Question'
      BY <1>2, <2>2 DEF D!ServeOther
    <3>2. Agreement'
      BY <1>2, <2>2 DEF D!ServeOther
    <3>3. OneWaits'
      BY <1>2, <2>2 DEF D!ServeOther
    <3> QED BY <3>1, <3>2, <3>3
  <2>3. CASE D!ServeFails(t)
    <3>1. Question'
      BY <1>2, <2>3 DEF D!ServeFails
    <3>2. Agreement'
      BY <1>2, <2>3 DEF D!ServeFails
    <3>3. OneWaits'
      BY <1>2, <2>3 DEF D!ServeFails
    <3> QED BY <3>1, <3>2, <3>3
  <2>4. CASE D!Saved(t)
    <3>1. Question'
      BY <1>2, <2>4 DEF D!Saved, D!Answered, D!Return, D!Reload
    <3>2. Agreement'
      BY <1>2, <2>4 DEF D!Saved, D!Answered, D!Return, D!Reload
    <3>3. OneWaits'
      <4>1. \A u \in Tasks : task[u].step = "confirm" => closing \/ modal # D!NoDialog
        OBVIOUS
      <4>2. \A u \in Tasks : task'[u].step = "confirm" => task[u].step = "confirm"
        BY <1>2, <2>4 DEF D!Saved, D!Return
      <4>3. closing' = (closing \/ modal # D!NoDialog)
        BY <2>4 DEF D!Saved
      <4>4. \A u \in Tasks : task'[u].step = "confirm" => closing'
        BY <4>1, <4>2, <4>3
      <4>5. \A u, v \in Tasks : task'[u].step = "confirm" /\ task'[v].step = "confirm" => u = v
        BY <4>2
      <4> HIDE DEF D!Return
      <4> QED BY <4>4, <4>5
    <3> QED BY <3>1, <3>2, <3>3
  <2>5. CASE D!Done(t)
    <3>1. Question'
      BY <1>2, <2>5 DEF D!Done, D!Answered, D!Return, D!Reload
    <3>2. Agreement'
      BY <1>2, <2>5 DEF D!Done, D!Answered, D!Return, D!Reload
    <3>3. OneWaits'
      BY <1>2, <2>5 DEF D!Done, D!Answered, D!Return, D!Reload
    <3> QED BY <3>1, <3>2, <3>3
  <2>6. CASE D!OpenNew(t)
    <3>1. Question'
      BY <1>2, <2>6 DEF D!OpenNew, D!Return
    <3>2. Agreement'
      BY <1>2, <2>6 DEF D!OpenNew, D!Return
    <3>3. OneWaits'
      BY <1>2, <2>6 DEF D!OpenNew, D!Return
    <3> QED BY <3>1, <3>2, <3>3
  <2>7. CASE D!OpenShare(t)
    <3>1. Question'
      BY <1>2, <2>7 DEF D!OpenShare, D!Answered, D!Return
    <3>2. Agreement'
      BY <1>2, <2>7 DEF D!OpenShare, D!Answered, D!Return
    <3>3. OneWaits'
      BY <1>2, <2>7 DEF D!OpenShare, D!Answered, D!Return
    <3> QED BY <3>1, <3>2, <3>3
  <2>8. CASE D!FillProfile(t)
    <3>1. Question'
      BY <1>2, <2>8 DEF D!FillProfile, D!Answered, D!Return
    <3>2. Agreement'
      BY <1>2, <2>8 DEF D!FillProfile, D!Answered, D!Return
    <3>3. OneWaits'
      BY <1>2, <2>8 DEF D!FillProfile, D!Answered, D!Return
    <3> QED BY <3>1, <3>2, <3>3
  <2>9. CASE D!Failed(t)
    <3>1. Question'
      BY <1>2, <2>9 DEF D!Failed, D!Return
    <3>2. Agreement'
      BY <1>2, <2>9 DEF D!Failed, D!Return
    <3>3. OneWaits'
      BY <1>2, <2>9 DEF D!Failed, D!Return
    <3> QED BY <3>1, <3>2, <3>3
  <2> QED BY <1>2, <2>1, <2>2, <2>3, <2>4, <2>5, <2>6, <2>7, <2>8, <2>9 DEF D!Resume
<1>3. ASSUME NEW n \in Names, D!OpenDetails(n) PROVE Waiting'
  <2>1. Question'
    BY <1>3 DEF D!OpenDetails, D!Page
  <2>2. Agreement'
    BY <1>3 DEF D!OpenDetails, D!Page
  <2>3. OneWaits'
    BY <1>3 DEF D!OpenDetails, D!Page
  <2> QED BY <2>1, <2>2, <2>3
<1>4. ASSUME NEW n \in Names, D!OpenEdit(n) PROVE Waiting'
  <2>1. Question'
    BY <1>4 DEF D!OpenEdit, D!Page
  <2>2. Agreement'
    BY <1>4 DEF D!OpenEdit, D!Page
  <2>3. OneWaits'
    BY <1>4 DEF D!OpenEdit, D!Page
  <2> QED BY <2>1, <2>2, <2>3
<1>5. ASSUME NEW n \in Names, D!OtherSuspends(n) PROVE Waiting'
  <2>1. Question'
    BY <1>5 DEF D!OtherSuspends
  <2>2. Agreement'
    BY <1>5 DEF D!OtherSuspends
  <2>3. OneWaits'
    BY <1>5 DEF D!OtherSuspends
  <2> QED BY <2>1, <2>2, <2>3
<1>6. CASE D!Close
  <2>1. Question'
    BY <1>6 DEF D!Close
  <2>2. Agreement'
    BY <1>6 DEF D!Close
  <2>3. OneWaits'
    BY <1>6 DEF D!Close
  <2> QED BY <2>1, <2>2, <2>3
<1>7. CASE D!CloseEvent
  <2>1. Question'
    BY <1>7 DEF D!CloseEvent, D!Cancel
  <2>2. Agreement'
    BY <1>7 DEF D!CloseEvent, D!Cancel
  <2>3. OneWaits'
    BY <1>7 DEF D!CloseEvent, D!Cancel
  <2> QED BY <2>1, <2>2, <2>3
<1>8. CASE D!Poll
  <2>1. Question'
    BY <1>8 DEF D!Poll
  <2>2. Agreement'
    BY <1>8 DEF D!Poll
  <2>3. OneWaits'
    BY <1>8 DEF D!Poll
  <2> QED BY <2>1, <2>2, <2>3
<1>9. CASE D!RowsArrive
  <2>1. Question'
    BY <1>9 DEF D!RowsArrive
  <2>2. Agreement'
    BY <1>9 DEF D!RowsArrive
  <2>3. OneWaits'
    BY <1>9 DEF D!RowsArrive
  <2> QED BY <2>1, <2>2, <2>3
<1>10. CASE UNCHANGED D!vars
  <2>1. Question'
    BY <1>10 DEF D!vars
  <2>2. Agreement'
    BY <1>10 DEF D!vars
  <2>3. OneWaits'
    BY <1>10 DEF D!vars
  <2> QED BY <2>1, <2>2, <2>3
<1> QED BY <1>1, <1>2, <1>3, <1>4, <1>5, <1>6, <1>7, <1>8, <1>9, <1>10 DEF D!Next

DialogsInv == D!TypeOK /\ Waiting

\* Both hold in every state of the dialog.
LEMMA DialogsInvariant == TabSpec => []DialogsInv
<1> USE TabAssumed
<1>1. D!Init => D!TypeOK
  <2> SUFFICES ASSUME D!Init PROVE D!TypeOK
    OBVIOUS
  <2> USE DEF D!Init, D!None, D!Ops, D!Confirmed, D!States, D!Editable
  <2>1. agent \in [Names -> D!States] /\ known \in [Names -> D!States]
    OBVIOUS
  <2>2. loading \in BOOLEAN /\ closing \in BOOLEAN /\ others \in 0..MaxOthers
    <3>1. others = 0 /\ MaxOthers \in Nat /\ loading = FALSE /\ closing = FALSE
      BY DEF DialogsAssumption
    <3>2. others \in 0..MaxOthers
      <4> HIDE DEF D!Init
      <4> QED BY <3>1
    <3> QED BY <3>1, <3>2
  <2>3. modal \in ModalType
    BY DEF ModalType, Kinds, D!NoDialog, D!Dialog
  <2>4. task \in [Tasks -> TaskType]
    BY DEF TaskType, D!Idle, D!Task
  <2> QED BY <2>1, <2>2, <2>3, <2>4 DEF D!TypeOK, ModalType, TaskType, Kinds
<1>2. D!Init => Waiting
  BY DEF D!Init, Waiting, Question, Agreement, OneWaits, D!Task, D!Dialog, D!NoDialog, D!Idle, D!None
<1>3. DialogsInv /\ [D!Next]_D!vars => DialogsInv'
  BY DialogTypes, DialogStep DEF DialogsInv
<1>4. TabInit => DialogsInv
  BY <1>1, <1>2 DEF TabInit, DialogsInv
<1>5. [TabNext]_<<part, vars, activity, dialogs, form>> => [D!Next]_D!vars
  BY DEF TabNext, dialogs, D!vars
<1> QED BY <1>3, <1>4, <1>5, PTL DEF TabSpec

(* What is sent after a confirmation is what the dialog said that the user *)
(* accepted, and nothing that needs one is sent without it (app.js:96,     *)
(* 97), whatever arrived while it was open.                                *)
THEOREM AsAgreedHolds == TabSpec => []AsAgreed
<1>1. DialogsInv => AsAgreed
  BY DEF AsAgreed, DialogsInv, Waiting, Agreement, D!AsAgreed
<1> QED BY <1>1, DialogsInvariant, PTL

(* One handler waits for an answer at most, and a dialog is open then, or  *)
(* the event is on its way that will end it (app.js:40).                   *)
THEOREM PendingEndsHolds == TabSpec => []PendingEnds
<1>1. DialogsInv => PendingEnds
  <2> SUFFICES ASSUME DialogsInv PROVE D!PendingEnds
    BY DEF PendingEnds
  <2>1. \A t, u \in D!Pending : t = u
    BY DEF DialogsInv, Waiting, OneWaits, D!Pending
  <2>2. D!Pending # {} => modal # D!NoDialog \/ closing
    BY DEF DialogsInv, Waiting, OneWaits, D!Pending, D!NoDialog, D!Dialog, D!None
  <2> QED BY <2>1, <2>2 DEF D!PendingEnds
<1> QED BY <1>1, DialogsInvariant, PTL
-----------------------------------------------------------------------------
(***************************************************************************)
(* The audit log's page (AuditList), for any number of requests in flight, *)
(* of entries in an answer, in the log and on the screen.                  *)
(***************************************************************************)
AskedType == [kind : {"idle", "page", "more"}, before : 1..A!Newest, answer : Seq(Nat), done : BOOLEAN]

(* What is shown, and what was answered, is in the log.                    *)
InTheLog(entries) == \A k \in 1..Len(entries) : entries[k] \in 1..log

ListTypes ==
  /\ log \in 0..MaxLog /\ shown \in Seq(Nat) /\ asked \in [Requests -> AskedType]
  /\ InTheLog(shown) /\ \A i \in Requests : InTheLog(asked[i].answer)

(* "Load older" is asked with something on the screen, and a page that may *)
(* still be shown is no older than what is.                                *)
Newer ==
  \A i \in Requests :
    /\ asked[i].kind = "more" => shown # <<>>
    /\ asked[i].kind = "page" => asked[i].before = A!Newest
    /\ asked[i].kind = "page" /\ asked[i].done /\ serial = i /\ shown # <<>> =>
         asked[i].answer # <<>> /\ asked[i].answer[1] >= shown[1]

(* To who waits for each answer: one request at a time, whose answer       *)
(* follows on what is shown or stands for itself, and the end of whatever  *)
(* is no whole number of pages is the end of the log.                      *)
Descends(entries) == \A k \in 1..(Len(entries) - 1) : entries[k + 1] = entries[k] - 1
WholeOrEnd(entries) == entries # <<>> => Len(entries) % Limit = 0 \/ entries[Len(entries)] = 1
Follows(i) ==
  /\ shown # <<>> /\ Len(shown) % Limit = 0 /\ asked[i].before = shown[Len(shown)]
  /\ asked[i].done => /\ \A k \in 1..Len(asked[i].answer) : asked[i].answer[k] = asked[i].before - k
                      /\ Len(asked[i].answer) \in {Limit, asked[i].before - 1}
Alone(i) ==
  /\ asked[i].before = A!Newest
  /\ asked[i].done => Descends(asked[i].answer) /\ WholeOrEnd(asked[i].answer)

Orderly ==
  /\ \A i, j \in Requests : asked[i] # A!Idle /\ asked[j] # A!Idle => i = j
  /\ \A i \in Requests : (asked[i].kind = "more" => Follows(i)) /\ (asked[i].kind = "page" => Alone(i))
  /\ Descends(shown) /\ WholeOrEnd(shown)

(* The last entry of an answer, and how many there are.                    *)
Top(before) == IF before > log THEN log ELSE before - 1
Size(before) == IF Top(before) > Limit THEN Limit ELSE Top(before)

\* An answer holds the newest entries below the one it was asked for.
LEMMA OlderAnswer ==
  ASSUME AuditAssumption, log \in 0..MaxLog, NEW before \in 1..A!Newest
  PROVE  /\ A!Older(before) \in Seq(Nat) /\ Len(A!Older(before)) = Size(before)
         /\ \A k \in 1..Size(before) : A!Older(before)[k] = Top(before) + 1 - k
         /\ InTheLog(A!Older(before))
         /\ Size(before) \in Nat /\ Top(before) \in 0..log
<1> DEFINE a == [k \in 1..Size(before) |-> Top(before) + 1 - k]
<1>1. Top(before) \in 0..log /\ Size(before) \in Nat /\ Size(before) <= Top(before)
  BY DEF AuditAssumption, Top, Size, A!Newest
<1>2. A!Older(before) = a
  BY DEF A!Older, Top, Size
<1>3. \A k \in 1..Size(before) : Top(before) + 1 - k \in 1..log
  BY <1>1
<1>4. a \in [1..Size(before) -> Nat]
  BY <1>3
<1>5. a \in Seq(Nat)
  BY <1>1, <1>4, SeqDef
<1>6. Len(a) = Size(before)
  BY <1>1, <1>4, <1>5
<1> QED BY <1>1, <1>2, <1>3, <1>5, <1>6 DEF InTheLog

\* A whole page more keeps a list a number of whole pages.
LEMMA LengthPlus ==
  ASSUME NEW n \in Nat, NEW m \in Nat \ {0}, n % m = 0
  PROVE  (n + m) % m = 0 /\ m % m = 0
<1>1. n = (n \div m) * m
  BY Z3
<1>2. PICK q \in Int : n = q * m
  BY <1>1
<1>3. n + m = (q + 1) * m
  BY <1>2
<1>4. ASSUME NEW p \in Int PROVE (p * m) % m = 0
  OBVIOUS
<1>5. ((q + 1) * m) % m = 0
  BY <1>4
<1>6. m % m = 0
  OBVIOUS
<1> QED BY <1>3, <1>5, <1>6

\* One further down is one less.
LEMMA OneFurther ==
  ASSUME NEW x \in Int, NEW y \in Int PROVE x - (y + 1) = (x - y) - 1
OBVIOUS

\* A list with an answer at its end.
LEMMA Appended ==
  ASSUME NEW s \in Seq(Nat), NEW e \in Seq(Nat), InTheLog(s), InTheLog(e)
  PROVE  /\ s \o e \in Seq(Nat) /\ Len(s \o e) = Len(s) + Len(e) /\ InTheLog(s \o e)
         /\ \A k \in 1..Len(s) : (s \o e)[k] = s[k]
         /\ \A k \in 1..Len(e) : (s \o e)[Len(s) + k] = e[k]
<1>1. Len(s) \in Nat /\ Len(e) \in Nat
  BY LenProperties
<1>2. /\ s \o e \in Seq(Nat) /\ Len(s \o e) = Len(s) + Len(e)
      /\ \A k \in 1..(Len(s) + Len(e)) : (s \o e)[k] = IF k <= Len(s) THEN s[k] ELSE e[k - Len(s)]
  BY ConcatProperties
<1>3. \A k \in 1..Len(s) : (s \o e)[k] = s[k]
  BY <1>1, <1>2
<1>4. ASSUME NEW k \in 1..Len(e) PROVE (s \o e)[Len(s) + k] = e[k]
  <2>1. Len(s) + k \in 1..(Len(s) + Len(e)) /\ ~(Len(s) + k <= Len(s)) /\ (Len(s) + k) - Len(s) = k
    BY <1>1
  <2> QED BY <1>2, <2>1
<1>5. ASSUME NEW k \in 1..(Len(s) + Len(e)) PROVE (s \o e)[k] \in 1..log
  <2>1. CASE k <= Len(s)
    BY <1>1, <1>2, <2>1 DEF InTheLog
  <2>2. CASE ~(k <= Len(s))
    <3>1. k - Len(s) \in 1..Len(e)
      BY <1>1, <2>2
    <3> QED BY <1>2, <2>2, <3>1 DEF InTheLog
  <2> QED BY <2>1, <2>2
<1> QED BY <1>2, <1>3, <1>4, <1>5 DEF InTheLog

\* Every step of the log, the page and its requests keeps the types.
LEMMA ListTypesStep == AuditAssumption /\ ListTypes /\ Newer /\ [A!Next]_A!vars => ListTypes'
<1> SUFFICES ASSUME AuditAssumption, ListTypes, Newer, [A!Next]_A!vars PROVE ListTypes'
  OBVIOUS
<1>a. /\ log \in 0..MaxLog /\ shown \in Seq(Nat) /\ asked \in [Requests -> AskedType] /\ log \in Nat
      /\ InTheLog(shown) /\ \A i \in Requests : InTheLog(asked[i].answer)
  BY DEF ListTypes, AuditAssumption
<1>b. A!Newest \in 1..A!Newest /\ A!Newest = MaxLog + 1 /\ <<>> \in Seq(Nat)
  BY DEF AuditAssumption, A!Newest
<1>c. A!Idle \in AskedType /\ A!Idle.answer = <<>> /\ InTheLog(<<>>)
  BY <1>b DEF A!Idle, AskedType, InTheLog
<1>d. ASSUME NEW i \in Requests, NEW r \in AskedType, InTheLog(r.answer), asked' = [asked EXCEPT ![i] = r],
             UNCHANGED log
      PROVE  asked' \in [Requests -> AskedType] /\ \A j \in Requests : InTheLog(asked[j].answer)'
  <2>1. \A j \in Requests : asked'[j] = IF j = i THEN r ELSE asked[j]
    BY <1>a, <1>d
  <2> QED BY <1>a, <1>d, <2>1 DEF InTheLog
<1>1. CASE A!Happen
  BY <1>a, <1>1 DEF A!Happen, ListTypes, InTheLog, AuditAssumption
<1>2. ASSUME NEW i \in Requests, A!Refresh(i) PROVE ListTypes'
  <2>1. A!Ask("page", A!Newest) \in AskedType /\ A!Ask("page", A!Newest).answer = <<>>
    BY <1>b DEF A!Ask, A!Idle, AskedType
  <2> QED BY <1>a, <1>c, <1>d, <1>2, <2>1 DEF A!Refresh, ListTypes, InTheLog
<1>3. ASSUME NEW i \in Requests, A!More(i) PROVE ListTypes'
  <2>1. shown[Len(shown)] \in 1..A!Newest
    <3>1. Len(shown) \in 1..Len(shown)
      BY <1>a, <1>3, EmptySeq DEF A!More, A!Offered
    <3> QED BY <1>a, <1>b, <3>1 DEF InTheLog, AuditAssumption
  <2>2. A!Ask("more", A!Last(shown)) \in AskedType /\ A!Ask("more", A!Last(shown)).answer = <<>>
    BY <1>b, <2>1 DEF A!Ask, A!Idle, AskedType, A!Last
  <2> QED BY <1>a, <1>c, <1>d, <1>3, <2>2 DEF A!More, ListTypes, InTheLog
<1>4. ASSUME NEW i \in Requests, A!Answer(i) PROVE ListTypes'
  <2> DEFINE r == [asked[i] EXCEPT !.answer = A!Older(asked[i].before), !.done = TRUE]
  <2>1. A!Older(asked[i].before) \in Seq(Nat) /\ InTheLog(A!Older(asked[i].before))
    BY <1>a, OlderAnswer DEF AskedType
  <2>2. r \in AskedType /\ r.answer = A!Older(asked[i].before)
    BY <1>a, <2>1 DEF AskedType
  <2>3. asked' = [asked EXCEPT ![i] = r] /\ UNCHANGED <<log, shown>>
    BY <1>4 DEF A!Answer
  <2> HIDE DEF r
  <2> QED BY <1>a, <1>d, <2>1, <2>2, <2>3 DEF ListTypes, InTheLog
<1>5. ASSUME NEW i \in Requests, A!ShowPage(i) PROVE ListTypes'
  <2>1. asked[i].answer \in Seq(Nat)
    BY <1>a DEF AskedType
  <2> QED BY <1>a, <1>c, <1>d, <1>5, <2>1 DEF A!ShowPage, A!Finish, ListTypes, InTheLog
<1>6. ASSUME NEW i \in Requests, A!DropPage(i) PROVE ListTypes'
  BY <1>a, <1>c, <1>d, <1>6 DEF A!DropPage, A!Finish, ListTypes, InTheLog
<1>7. ASSUME NEW i \in Requests, A!Extend(i) PROVE ListTypes'
  <2>1. asked[i].answer \in Seq(Nat)
    BY <1>a DEF AskedType
  <2>2. shown' \in Seq(Nat) /\ InTheLog(shown')
    BY <1>a, <1>7, <2>1, Appended DEF A!Extend
  <2> QED BY <1>a, <1>c, <1>d, <1>7, <2>2 DEF A!Extend, A!Finish, ListTypes, InTheLog
<1>8. ASSUME NEW i \in Requests, A!Fails(i) PROVE ListTypes'
  BY <1>a, <1>c, <1>d, <1>8 DEF A!Fails, A!Finish, ListTypes, InTheLog
<1>9. CASE UNCHANGED A!vars
  BY <1>a, <1>9 DEF A!vars, ListTypes, InTheLog
<1> QED BY <1>1, <1>2, <1>3, <1>4, <1>5, <1>6, <1>7, <1>8, <1>9 DEF A!Next

(* An answer to "Load older" is added behind what is shown.                *)
LEMMA HeadStays ==
  ASSUME AuditAssumption, ListTypes, Newer, NEW i \in Requests, A!Extend(i)
  PROVE  shown # <<>> /\ shown' # <<>> /\ shown'[1] = shown[1]
<1>1. shown \in Seq(Nat) /\ asked[i].answer \in Seq(Nat) /\ InTheLog(shown) /\ InTheLog(asked[i].answer)
  BY DEF ListTypes, AskedType
<1>2. shown # <<>> /\ shown' = shown \o asked[i].answer
  BY DEF Newer, A!Extend, A!Arrives
<1>3. Len(shown) \in Nat \ {0} /\ Len(asked[i].answer) \in Nat
  BY <1>1, <1>2, EmptySeq, LenProperties
<1>4. Len(shown') # 0 /\ shown'[1] = shown[1]
  BY <1>1, <1>2, <1>3, Appended
<1>5. Len(<<>>) = 0
  OBVIOUS
<1> QED BY <1>2, <1>4, <1>5

\* Every step keeps what is on the screen no older than what was asked before.
LEMMA NewerStep == AuditAssumption /\ ListTypes /\ Newer /\ [A!Next]_A!vars => Newer'
<1> SUFFICES ASSUME AuditAssumption, ListTypes, Newer, [A!Next]_A!vars PROVE Newer'
  OBVIOUS
<1>a. /\ log \in 0..MaxLog /\ shown \in Seq(Nat) /\ asked \in [Requests -> AskedType]
      /\ InTheLog(shown)
  BY DEF ListTypes
<1>b. A!Idle.kind = "idle"
  BY DEF A!Idle
<1>1. CASE A!Happen
  BY <1>1 DEF A!Happen, Newer
<1>2. ASSUME NEW i \in Requests, A!Refresh(i) PROVE Newer'
  BY <1>a, <1>2 DEF A!Refresh, A!Ask, A!Idle, Newer
<1>3. ASSUME NEW i \in Requests, A!More(i) PROVE Newer'
  BY <1>a, <1>3 DEF A!More, A!Offered, A!Ask, A!Idle, Newer
<1>4. ASSUME NEW i \in Requests, A!Answer(i) PROVE Newer'
  <2> DEFINE a == A!Older(asked[i].before)
  <2>1. asked[i].kind = "page" /\ shown # <<>> => a # <<>> /\ a[1] >= shown[1]
    <3> SUFFICES ASSUME asked[i].kind = "page", shown # <<>> PROVE a # <<>> /\ a[1] >= shown[1]
      OBVIOUS
    <3>1. shown[1] \in 1..log
      BY <1>a, EmptySeq DEF InTheLog
    <3>2. asked[i].before = A!Newest /\ A!Newest \in 1..A!Newest /\ A!Newest > log
      BY <1>a DEF Newer, A!Newest, AuditAssumption
    <3>3. Size(A!Newest) \in Nat \ {0} /\ Top(A!Newest) = log
      BY <1>a, <3>1, <3>2 DEF Size, Top, AuditAssumption
    <3>4. Len(a) # 0 /\ a[1] = log
      <4>1. /\ Len(a) = Size(A!Newest)
            /\ \A k \in 1..Size(A!Newest) : a[k] = Top(A!Newest) + 1 - k
        BY <1>a, <3>2, OlderAnswer
      <4> HIDE DEF a
      <4>2. a[1] = Top(A!Newest) + 1 - 1
        BY <3>3, <4>1
      <4> QED BY <1>a, <3>3, <4>1, <4>2
    <3>5. Len(<<>>) = 0
      OBVIOUS
    <3> HIDE DEF a
    <3> QED BY <1>a, <3>1, <3>4, <3>5
  <2>2. asked' = [asked EXCEPT ![i] = [asked[i] EXCEPT !.answer = a, !.done = TRUE]] /\ UNCHANGED <<shown, serial>>
    BY <1>4 DEF A!Answer
  <2> HIDE DEF a
  <2>3. \A j \in Requests : asked'[j] = IF j = i THEN [asked[i] EXCEPT !.answer = a, !.done = TRUE] ELSE asked[j]
    BY <1>a, <2>2
  <2>4. asked'[i].kind = asked[i].kind /\ asked'[i].before = asked[i].before /\ asked'[i].answer = a
    BY <1>a, <2>3 DEF AskedType
  <2> QED BY <2>1, <2>2, <2>3, <2>4 DEF Newer
<1>5. ASSUME NEW i \in Requests, A!ShowPage(i) PROVE Newer'
  <2>1. /\ serial = i /\ serial' = i /\ shown' = asked[i].answer
        /\ asked' = [asked EXCEPT ![i] = A!Idle]
        /\ shown # <<>> => shown' # <<>>
    BY <1>5 DEF A!ShowPage, A!Arrives, A!Finish, A!Superseded, Newer
  <2>2. \A j \in Requests : asked'[j] = IF j = i THEN A!Idle ELSE asked[j]
    BY <1>a, <2>1
  <2> QED BY <1>b, <2>1, <2>2 DEF Newer
<1>6. ASSUME NEW i \in Requests, A!DropPage(i) \/ A!Fails(i) PROVE Newer'
  <2>1. asked' = [asked EXCEPT ![i] = A!Idle] /\ UNCHANGED <<shown, serial>>
    BY <1>6 DEF A!DropPage, A!Fails, A!Finish
  <2>2. \A j \in Requests : asked'[j] = IF j = i THEN A!Idle ELSE asked[j]
    BY <1>a, <2>1
  <2> QED BY <1>b, <2>1, <2>2 DEF Newer
<1>7. ASSUME NEW i \in Requests, A!Extend(i) PROVE Newer'
  <2>1. asked' = [asked EXCEPT ![i] = A!Idle] /\ UNCHANGED serial
    BY <1>7 DEF A!Extend, A!Finish
  <2>2. \A j \in Requests : asked'[j] = IF j = i THEN A!Idle ELSE asked[j]
    BY <1>a, <2>1
  <2>3. shown # <<>> /\ shown' # <<>> /\ shown'[1] = shown[1]
    BY <1>7, HeadStays
  <2> QED BY <1>b, <2>1, <2>2, <2>3 DEF Newer
<1>8. CASE UNCHANGED A!vars
  BY <1>8 DEF A!vars, Newer
<1> QED BY <1>1, <1>2, <1>3, <1>4, <1>5, <1>6, <1>7, <1>8 DEF A!Next

ListInv == ListTypes /\ Newer

\* The list is empty at first.
LEMMA ListInit == AuditAssumption /\ A!Init => ListInv
<1> SUFFICES ASSUME AuditAssumption, A!Init PROVE ListInv
  OBVIOUS
<1>1. <<>> \in Seq(Nat) /\ InTheLog(<<>>)
  BY DEF InTheLog
<1>2. A!Idle \in AskedType /\ A!Idle.answer = <<>> /\ A!Idle.kind = "idle"
  BY <1>1 DEF A!Idle, AskedType, A!Newest, AuditAssumption
<1>3. ListTypes
  BY <1>1, <1>2 DEF A!Init, ListTypes
<1>4. Newer
  BY <1>2 DEF A!Init, Newer
<1> QED BY <1>3, <1>4 DEF ListInv

(* The screen never goes back to an older log, whatever the order of the   *)
(* answers (app.js:46-51, 99): a page that is shown was answered after the *)
(* one before it was asked for.                                            *)
THEOREM HeadMovesForwardHolds == TabSpec => HeadMovesForward
<1> USE TabAssumed
<1>1. ListInv /\ [A!Next]_A!vars => ListInv'
  BY ListTypesStep, NewerStep DEF ListInv
<1>2. ListInv /\ [A!Next]_A!vars =>
        [shown # <<>> => shown' # <<>> /\ shown'[1] >= shown[1]]_shown
  <2> SUFFICES ASSUME ListInv, [A!Next]_A!vars, shown # <<>>, shown' # shown
               PROVE  shown' # <<>> /\ shown'[1] >= shown[1]
    OBVIOUS
  <2>1. shown[1] \in Nat
    BY EmptySeq DEF ListInv, ListTypes
  <2>2. PICK i \in Requests : A!ShowPage(i) \/ A!Extend(i)
    BY DEF A!Next, A!vars, A!Happen, A!Refresh, A!More, A!Answer, A!DropPage, A!Fails
  <2>3. CASE A!ShowPage(i)
    BY <2>3 DEF A!ShowPage, A!Arrives, A!Superseded, ListInv, Newer
  <2>4. CASE A!Extend(i)
    BY <2>1, <2>4, HeadStays DEF ListInv
  <2> QED BY <2>2, <2>3, <2>4
<1>3. [TabNext]_<<part, vars, activity, dialogs, form>> => [A!Next]_A!vars
  BY DEF TabNext, activity, A!vars
<1>4. TabInit => ListInv
  BY ListInit DEF TabInit
<1> QED BY <1>1, <1>2, <1>3, <1>4, PTL DEF TabSpec, HeadMovesForward, A!HeadMovesForward

-----------------------------------------------------------------------------
(* What is answered stands for itself, or follows on what is shown.        *)
LEMMA AnswerStands ==
  ASSUME AuditAssumption, ListTypes
  PROVE  LET a == A!Older(A!Newest) IN Descends(a) /\ WholeOrEnd(a)
<1> DEFINE a == A!Older(A!Newest)
<1>1. log \in 0..MaxLog /\ log \in Nat /\ Limit \in Nat \ {0}
  BY DEF ListTypes, AuditAssumption
<1>2. A!Newest \in 1..A!Newest /\ Top(A!Newest) = log /\ Size(A!Newest) = IF log > Limit THEN Limit ELSE log
  BY <1>1 DEF A!Newest, AuditAssumption, Top, Size
<1>3. /\ a \in Seq(Nat) /\ Len(a) = Size(A!Newest)
      /\ \A k \in 1..Len(a) : a[k] = log + 1 - k
  BY <1>1, <1>2, OlderAnswer
<1> HIDE DEF a
<1>4. Descends(a)
  BY <1>1, <1>2, <1>3 DEF Descends
<1>5. ASSUME a # <<>> PROVE Len(a) % Limit = 0 \/ a[Len(a)] = 1
  <2>1. Len(a) \in Nat \ {0}
    BY <1>3, <1>5, EmptySeq
  <2>2. CASE log > Limit
    <3>1. 0 % Limit = 0
      BY <1>1
    <3> QED BY <1>1, <1>2, <1>3, <2>2, <3>1, LengthPlus
  <2>3. CASE ~(log > Limit)
    BY <1>1, <1>2, <1>3, <2>1, <2>3
  <2> QED BY <2>2, <2>3
<1> QED BY <1>4, <1>5 DEF WholeOrEnd, a

\* An answer goes on, without a gap, where it was asked to.
LEMMA AnswerFollows ==
  ASSUME AuditAssumption, ListTypes, NEW before \in 1..log
  PROVE  /\ \A k \in 1..Len(A!Older(before)) : A!Older(before)[k] = before - k
         /\ Len(A!Older(before)) \in {Limit, before - 1}
<1>1. log \in 0..MaxLog /\ log \in Nat /\ Limit \in Nat \ {0} /\ before \in 1..A!Newest
  BY DEF ListTypes, AuditAssumption, A!Newest
<1>2. Top(before) = before - 1 /\ Size(before) \in {Limit, before - 1}
  BY <1>1 DEF Top, Size
<1>3. /\ Len(A!Older(before)) = Size(before)
      /\ \A k \in 1..Size(before) : A!Older(before)[k] = Top(before) + 1 - k
  BY <1>1, OlderAnswer
<1>4. \A k \in 1..Size(before) : Top(before) + 1 - k = before - k
  BY <1>1, <1>2
<1> QED BY <1>2, <1>3, <1>4

(* ... and what follows is no gap and no repetition.                       *)
LEMMA ExtendedList ==
  ASSUME AuditAssumption, NEW s \in Seq(Nat), NEW e \in Seq(Nat), InTheLog(s), InTheLog(e),
         s # <<>>, Len(s) % Limit = 0, Descends(s),
         \A k \in 1..Len(e) : e[k] = s[Len(s)] - k, Len(e) \in {Limit, s[Len(s)] - 1}
  PROVE  Descends(s \o e) /\ WholeOrEnd(s \o e)
<1> DEFINE n == Len(s)
           m == Len(e)
           t == s \o e
<1>1. n \in Nat \ {0} /\ m \in Nat /\ s[n] \in Nat /\ Limit \in Nat \ {0}
  BY EmptySeq, LenProperties DEF AuditAssumption
<1>2. Len(t) = n + m /\ (\A k \in 1..n : t[k] = s[k]) /\ (\A k \in 1..m : t[n + k] = e[k])
  BY Appended
<1>3. (\A k \in 1..m : e[k] = s[n] - k) /\ m \in {Limit, s[n] - 1} /\ n % Limit = 0
  OBVIOUS
<1>4. \A k \in 1..(n - 1) : s[k + 1] = s[k] - 1
  BY DEF Descends
<1> HIDE DEF n, m, t
<1>5. ASSUME NEW k \in 1..(n + m - 1) PROVE t[k + 1] = t[k] - 1
  <2>1. CASE k < n
    <3>1. k \in 1..n /\ k + 1 \in 1..n /\ k \in 1..(n - 1)
      BY <1>1, <2>1
    <3> QED BY <1>2, <1>4, <3>1
  <2>2. CASE k = n
    <3>1. 1 \in 1..m /\ n \in 1..n
      BY <1>1, <1>5, <2>2
    <3>2. t[n + 1] = e[1] /\ e[1] = s[n] - 1 /\ t[n] = s[n]
      BY <1>2, <1>3, <3>1
    <3> QED BY <2>2, <3>2
  <2>3. CASE k > n
    <3>1. k - n \in 1..m /\ (k - n) + 1 \in 1..m /\ n + (k - n) = k /\ n + ((k - n) + 1) = k + 1
      BY <1>1, <1>5, <2>3
    <3>2. t[k] = e[k - n] /\ t[k + 1] = e[(k - n) + 1]
      BY <1>2, <3>1
    <3>3. e[k - n] = s[n] - (k - n) /\ e[(k - n) + 1] = s[n] - ((k - n) + 1)
      BY <1>3, <3>1
    <3>4. s[n] \in Int /\ k - n \in Int
      BY <1>1, <3>1
    <3>5. s[n] - ((k - n) + 1) = (s[n] - (k - n)) - 1
      BY <3>4, OneFurther
    <3> QED BY <3>2, <3>3, <3>5
  <2> QED BY <1>1, <2>1, <2>2, <2>3
<1>6. Len(t) % Limit = 0 \/ t[Len(t)] = 1
  <2>1. CASE m = Limit
    <3>1. (n + Limit) % Limit = 0
      BY <1>1, <1>3, LengthPlus
    <3>2. Len(t) = n + Limit
      BY <1>2, <2>1
    <3> QED BY <3>1, <3>2
  <2>2. CASE m = s[n] - 1 /\ m = 0
    <3>1. Len(t) = n /\ n \in 1..n /\ s[n] = 1
      BY <1>1, <1>2, <2>2
    <3> QED BY <1>2, <3>1
  <2>3. CASE m = s[n] - 1 /\ m # 0
    <3>1. m \in 1..m /\ s[n] - m = 1
      BY <1>1, <2>3
    <3>2. t[n + m] = e[m] /\ e[m] = s[n] - m
      BY <1>2, <1>3, <3>1
    <3> QED BY <1>2, <3>1, <3>2
  <2> QED BY <1>3, <2>1, <2>2, <2>3
<1>7. Descends(t)
  <2> SUFFICES ASSUME NEW k \in 1..(Len(t) - 1) PROVE t[k + 1] = t[k] - 1
    BY DEF Descends
  <2>1. k \in 1..(n + m - 1)
    BY <1>1, <1>2
  <2> QED BY <1>5, <2>1
<1>8. WholeOrEnd(t)
  BY <1>6 DEF WholeOrEnd
<1> QED BY <1>7, <1>8 DEF t

\* Steps of an administrator who waits for each answer keep the list without gaps.
LEMMA OrderlyStep ==
  AuditAssumption /\ ListTypes /\ Newer /\ Orderly /\ [A!Next /\ A!Patient]_A!vars => Orderly'
<1> SUFFICES ASSUME AuditAssumption, ListTypes, Newer, Orderly, [A!Next /\ A!Patient]_A!vars PROVE Orderly'
  OBVIOUS
<1>a. /\ log \in 0..MaxLog /\ shown \in Seq(Nat) /\ asked \in [Requests -> AskedType]
      /\ InTheLog(shown) /\ \A j \in Requests : InTheLog(asked[j].answer)
  BY DEF ListTypes
<1>b. A!Idle.kind = "idle"
  BY DEF A!Idle
<1>c. \A j \in Requests : asked[j].kind \in {"more", "page"} => asked[j] # A!Idle
  BY <1>b
(* A request that ends leaves none behind.                                 *)
<1>d. ASSUME NEW i \in Requests, asked[i] # A!Idle, asked' = [asked EXCEPT ![i] = A!Idle],
             Descends(shown)', WholeOrEnd(shown)'
      PROVE  Orderly'
  <2>1. \A j \in Requests : asked'[j] = IF j = i THEN A!Idle ELSE asked[j]
    BY <1>a, <1>d
  <2>2. \A j \in Requests : asked'[j].kind \notin {"more", "page"}
    BY <1>b, <1>c, <1>d, <2>1 DEF Orderly
  <2>3. \A j, l \in Requests : asked'[j] # A!Idle /\ asked'[l] # A!Idle => j = l
    BY <2>1 DEF Orderly
  <2> QED BY <1>d, <2>2, <2>3 DEF Orderly
(* One that starts is the only one.                                        *)
<1>e. ASSUME NEW i \in Requests, NEW kind \in {"page", "more"}, NEW before \in 1..A!Newest, asked[i] = A!Idle,
             asked' = [asked EXCEPT ![i] = A!Ask(kind, before)], A!Patient, UNCHANGED shown,
             kind = "page" => before = A!Newest,
             kind = "more" => shown # <<>> /\ Len(shown) % Limit = 0 /\ before = shown[Len(shown)]
      PROVE  Orderly'
  <2>1. \A j \in Requests : asked'[j] = IF j = i THEN A!Ask(kind, before) ELSE asked[j]
    BY <1>a, <1>e
  <2>2. LET r == A!Ask(kind, before) IN r.kind = kind /\ r.before = before /\ ~r.done /\ r # A!Idle
    BY DEF A!Ask, A!Idle
  <2>3. A!Quiet
    BY <1>e, <2>1, <2>2 DEF A!Patient
  <2>4. \A j \in Requests : asked'[j] # A!Idle => j = i
    BY <2>1, <2>3 DEF A!Quiet
  <2>5. \A j \in Requests : asked'[j].kind \in {"page", "more"} => j = i
    BY <1>b, <2>1, <2>3 DEF A!Quiet
  <2>6. (kind = "more" => Follows(i)') /\ (kind = "page" => Alone(i)')
    BY <1>e, <2>1, <2>2 DEF Follows, Alone
  <2> QED BY <1>e, <2>1, <2>2, <2>4, <2>5, <2>6 DEF Orderly, Descends, WholeOrEnd
<1>1. CASE A!Happen
  BY <1>1 DEF A!Happen, Orderly, Follows, Alone, Descends, WholeOrEnd
<1>2. ASSUME NEW i \in Requests, A!Refresh(i), A!Patient PROVE Orderly'
  <2>1. A!Newest \in 1..A!Newest
    BY DEF A!Newest, AuditAssumption
  <2> QED BY <1>2, <1>e, <2>1 DEF A!Refresh
<1>3. ASSUME NEW i \in Requests, A!More(i), A!Patient PROVE Orderly'
  <2>1. shown # <<>> /\ Len(shown) % Limit = 0
    BY <1>3 DEF A!More, A!Offered
  <2>2. shown[Len(shown)] \in 1..A!Newest
    <3>1. Len(shown) \in 1..Len(shown)
      BY <1>a, <2>1, EmptySeq
    <3> QED BY <1>a, <3>1 DEF InTheLog, AuditAssumption, A!Newest
  <2> QED BY <1>3, <1>e, <2>1, <2>2 DEF A!More, A!Last
<1>4. ASSUME NEW i \in Requests, A!Answer(i) PROVE Orderly'
  <2> DEFINE a == A!Older(asked[i].before)
  <2>1. /\ asked[i] # A!Idle /\ UNCHANGED shown
        /\ asked' = [asked EXCEPT ![i] = [asked[i] EXCEPT !.answer = a, !.done = TRUE]]
    BY <1>4 DEF A!Answer
  <2>2. asked[i].kind = "page" => asked[i].before = A!Newest /\ Descends(a) /\ WholeOrEnd(a)
    BY AnswerStands DEF Orderly, Alone
  <2>3. asked[i].kind = "more" => /\ \A k \in 1..Len(a) : a[k] = asked[i].before - k
                                  /\ Len(a) \in {Limit, asked[i].before - 1}
    <3> SUFFICES ASSUME asked[i].kind = "more"
                 PROVE  /\ \A k \in 1..Len(a) : a[k] = asked[i].before - k
                        /\ Len(a) \in {Limit, asked[i].before - 1}
      OBVIOUS
    <3>1. shown # <<>> /\ asked[i].before = shown[Len(shown)]
      BY DEF Orderly, Follows
    <3>2. Len(shown) \in 1..Len(shown)
      BY <1>a, <3>1, EmptySeq
    <3>3. asked[i].before \in 1..log
      BY <1>a, <3>1, <3>2 DEF InTheLog
    <3> QED BY <3>3, AnswerFollows
  <2> HIDE DEF a
  <2>4. \A j \in Requests : asked'[j] = IF j = i THEN [asked[i] EXCEPT !.answer = a, !.done = TRUE] ELSE asked[j]
    BY <1>a, <2>1
  <2>5. asked'[i].kind = asked[i].kind /\ asked'[i].before = asked[i].before /\ asked'[i].answer = a
    BY <1>a, <2>4 DEF AskedType
  <2>6. \A j \in Requests : asked'[j] # A!Idle => asked[j] # A!Idle
    BY <2>1, <2>4
  <2>7. \A j \in Requests : asked'[j].kind = "more" => Follows(j)'
    BY <2>1, <2>3, <2>4, <2>5 DEF Orderly, Follows
  <2>8. \A j \in Requests : asked'[j].kind = "page" => Alone(j)'
    BY <2>1, <2>2, <2>4, <2>5 DEF Orderly, Alone, Descends, WholeOrEnd
  <2>9. Descends(shown)' /\ WholeOrEnd(shown)'
    BY <2>1 DEF Orderly, Descends, WholeOrEnd
  <2> QED BY <2>6, <2>7, <2>8, <2>9 DEF Orderly
<1>5. ASSUME NEW i \in Requests, A!ShowPage(i) PROVE Orderly'
  <2>1. asked[i].kind = "page" /\ asked[i].done /\ shown' = asked[i].answer /\ asked' = [asked EXCEPT ![i] = A!Idle]
    BY <1>5 DEF A!ShowPage, A!Arrives, A!Finish
  <2>2. Descends(shown)' /\ WholeOrEnd(shown)'
    BY <2>1 DEF Orderly, Alone, Descends, WholeOrEnd
  <2> QED BY <1>c, <1>d, <2>1, <2>2
<1>6. ASSUME NEW i \in Requests, A!DropPage(i) \/ A!Fails(i) PROVE Orderly'
  <2>1. asked[i] # A!Idle /\ UNCHANGED shown /\ asked' = [asked EXCEPT ![i] = A!Idle]
    BY <1>6, <1>c DEF A!DropPage, A!Fails, A!Arrives, A!Finish
  <2>2. Descends(shown)' /\ WholeOrEnd(shown)'
    BY <2>1 DEF Orderly, Descends, WholeOrEnd
  <2> QED BY <1>d, <2>1, <2>2
<1>7. ASSUME NEW i \in Requests, A!Extend(i) PROVE Orderly'
  <2>1. /\ asked[i].kind = "more" /\ asked[i].done /\ asked' = [asked EXCEPT ![i] = A!Idle]
        /\ shown' = shown \o asked[i].answer
    BY <1>7 DEF A!Extend, A!Arrives, A!Finish
  <2>2. asked[i].answer \in Seq(Nat) /\ Follows(i) /\ Descends(shown)
    BY <1>a, <2>1 DEF AskedType, Orderly
  <2>3. Descends(shown \o asked[i].answer) /\ WholeOrEnd(shown \o asked[i].answer)
    BY <1>a, <2>1, <2>2, ExtendedList DEF Follows
  <2>4. Descends(shown)' /\ WholeOrEnd(shown)'
    BY <2>1, <2>3 DEF Descends, WholeOrEnd
  <2> QED BY <1>c, <1>d, <2>1, <2>4
<1>8. CASE UNCHANGED A!vars
  BY <1>8 DEF A!vars, Orderly, Follows, Alone, Descends, WholeOrEnd
<1> QED BY <1>1, <1>2, <1>3, <1>4, <1>5, <1>6, <1>7, <1>8 DEF A!Next

(* To who waits for each answer the log is shown without a gap and without *)
(* a repetition, and "Load older" ends only where the log does (app.js:68, *)
(* 99).                                                                    *)
THEOREM LogIsCompleteHolds == TabSpec => []LogIsComplete
<1> DEFINE PatientInv == ListInv /\ (part = "patient" => Orderly)
<1> USE TabAssumed
<1>1. A!Init => Orderly
  <2> SUFFICES ASSUME A!Init PROVE Orderly
    OBVIOUS
  <2>1. shown = <<>> /\ Len(<<>>) = 0 /\ \A i \in Requests : asked[i] = A!Idle /\ A!Idle.kind = "idle"
    BY DEF A!Init, A!Idle
  <2> QED BY <2>1 DEF Orderly, Descends, WholeOrEnd
<1>2. ListInv /\ Orderly /\ [A!Next /\ A!Patient]_A!vars => ListInv' /\ Orderly'
  BY ListTypesStep, NewerStep, OrderlyStep DEF ListInv
<1>3. ListInv /\ Orderly => A!LogIsComplete
  BY DEF Orderly, Descends, WholeOrEnd, A!LogIsComplete, A!Contiguous, A!EndsAtTheEnd, A!Offered, A!Last
<1>4. [TabNext]_<<part, vars, activity, dialogs, form>> =>
        /\ part' = part /\ [A!Next]_A!vars
        /\ part = "patient" => [A!Next /\ A!Patient]_A!vars
  BY DEF TabNext, activity, A!vars
<1>5. TabInit => PatientInv
  BY <1>1, ListInit DEF TabInit
<1>6. PatientInv /\ [TabNext]_<<part, vars, activity, dialogs, form>> => PatientInv'
  BY <1>2, <1>4, ListTypesStep, NewerStep DEF ListInv
<1>7. PatientInv => LogIsComplete
  BY <1>3 DEF LogIsComplete
<1> QED BY <1>5, <1>6, <1>7, PTL DEF TabSpec

-----------------------------------------------------------------------------
(***************************************************************************)
(* The expiry in the edit form (Fields), for any moments and any time      *)
(* zones whose clocks change at full minutes.                              *)
(***************************************************************************)
(* The minute that a moment is in: it begins at a full minute, and no      *)
(* other full minute lies within it.                                       *)
LEMMA MinuteOf ==
  ASSUME NEW m \in Nat \ {0}, NEW l \in Int
  PROVE  /\ l % m \in 0..(m - 1)
         /\ (l - (l % m)) % m = 0
         /\ \A a \in Int : a % m = 0 => /\ a <= l => a <= l - (l % m)
                                        /\ l - (l % m) < a => l < a
<1>1. l % m \in 0..(m - 1)
  OBVIOUS
<1>2. \A a \in Int : a = (a \div m) * m + (a % m)
  BY Z3
<1>a. \A a \in Int : a \div m \in Int
  OBVIOUS
<1>3. PICK q \in Int : l = q * m + (l % m)
  BY <1>2, <1>a
<1>4. ASSUME NEW p \in Int PROVE (p * m) % m = 0
  OBVIOUS
<1>5. (l - (l % m)) % m = 0
  <2>1. l - (l % m) = q * m
    BY <1>1, <1>3
  <2> QED BY <1>4, <2>1
<1>6. ASSUME NEW a \in Int, a % m = 0 PROVE (a <= l => a <= l - (l % m)) /\ (l - (l % m) < a => l < a)
  <2>1. PICK p \in Int : a = p * m
    <3>1. a = (a \div m) * m
      BY <1>2, <1>6
    <3> QED BY <1>a, <3>1
  <2>2. CASE p <= q
    <3>1. p * m <= q * m
      BY <2>2
    <3> QED BY <1>1, <1>3, <2>1, <3>1
  <2>3. CASE q + 1 <= p
    <3>1. (q + 1) * m <= p * m
      BY <2>3
    <3>2. q * m + m <= a
      BY <2>1, <3>1
    <3> QED BY <1>1, <1>3, <3>2
  <2> QED BY <2>2, <2>3
<1> QED BY <1>1, <1>5, <1>6

(* What saving makes of a moment: it goes back to the full minute, or      *)
(* across the change of the clocks, to the first of two times alike.       *)
LEMMA SavedMoment ==
  ASSUME FieldsAssumption, NEW z \in Zones, NEW t \in Int, t # F!Never
  PROVE  /\ F!Saved(z, t) \in Int /\ F!Saved(z, t) <= t
         /\ t - F!Saved(z, t) < Minute + (IF F!Repeated(z, t) THEN z.before - z.after ELSE 0)
         /\ F!Saved(z, F!Saved(z, t)) = F!Saved(z, t)
<1> DEFINE s == F!Saved(z, t)
           l == t + F!Offset(z, t)
           d == l % Minute
<1>a. Minute \in Nat \ {0} /\ z.at \in Int /\ z.before \in Int /\ z.after \in Int
  BY DEF FieldsAssumption, Zone
<1>b. l \in Int /\ (t < z.at => l = t + z.before) /\ (~(t < z.at) => l = t + z.after)
  BY <1>a DEF F!Offset
<1>c. /\ d \in 0..(Minute - 1) /\ (l - d) % Minute = 0
      /\ z.at + z.before <= l => z.at + z.before <= l - d
      /\ z.at + z.after <= l => z.at + z.after <= l - d
      /\ l - d < z.at + z.before => l < z.at + z.before
  <2>1. d \in 0..(Minute - 1) /\ (l - d) % Minute = 0
    BY <1>a, <1>b, MinuteOf
  <2>2. \A a \in Int : a % Minute = 0 => (a <= l => a <= l - d) /\ (l - d < a => l < a)
    BY <1>a, <1>b, MinuteOf
  <2>3. /\ z.at + z.before \in Int /\ (z.at + z.before) % Minute = 0
        /\ z.at + z.after \in Int /\ (z.at + z.after) % Minute = 0
    BY <1>a DEF FieldsAssumption, Zone
  <2> HIDE DEF d, l
  <2> QED BY <2>1, <2>2, <2>3
<1>d. /\ l - d - z.before >= z.at /\ l - d - z.after >= z.at => s = l - d - z.after
      /\ ~(l - d - z.before >= z.at /\ l - d - z.after >= z.at) => s = l - d - z.before
  BY DEF F!Saved, F!Date, F!LocalDate
(* The time shown again is the one that was saved.                         *)
<1>e. ASSUME s \in Int, s # F!Never, s + F!Offset(z, s) = l - d PROVE F!Saved(z, s) = s
  <2>1. F!LocalDate(z, s) = l - d
    BY <1>a, <1>b, <1>c, <1>e DEF F!LocalDate
  <2> QED BY <1>e, <2>1 DEF F!Saved, F!LocalDate
<1>f. F!Saved(z, F!Never) = F!Never
  BY DEF F!Saved
<1>g. F!Repeated(z, t) => z.before - z.after > 0
  BY <1>a DEF F!Repeated
<1> DEFINE back == IF F!Repeated(z, t) THEN z.before - z.after ELSE 0
<1>h. back \in Int /\ back >= 0 /\ (F!Repeated(z, t) => back = z.before - z.after)
  BY <1>a, <1>g
<1>i. SUFFICES s \in Int /\ s <= t /\ t - s < Minute + back /\ s + F!Offset(z, s) = l - d
  BY <1>e, <1>f
<1> HIDE DEF d, l, s, back
<1>1. CASE t < z.at
  <2>1. l = t + z.before /\ s = l - d - z.before
    BY <1>1, <1>a, <1>b, <1>c, <1>d
  <2>2. s \in Int /\ s = t - d /\ s < z.at
    BY <1>1, <1>a, <1>b, <1>c, <2>1
  <2>3. s + F!Offset(z, s) = l - d
    BY <1>a, <1>b, <1>c, <2>1, <2>2 DEF F!Offset
  <2> QED BY <1>a, <1>c, <1>h, <2>2, <2>3
<1>2. CASE ~(t < z.at) /\ l - d - z.before >= z.at
  <2>1. l = t + z.after /\ s = l - d - z.after /\ l - d - z.after >= z.at
    BY <1>2, <1>a, <1>b, <1>c, <1>d
  <2>2. s \in Int /\ s = t - d /\ ~(s < z.at)
    BY <1>a, <1>b, <1>c, <2>1
  <2>3. s + F!Offset(z, s) = l - d
    BY <1>a, <1>b, <1>c, <2>1, <2>2 DEF F!Offset
  <2> QED BY <1>a, <1>c, <1>h, <2>2, <2>3
<1>3. CASE ~(t < z.at) /\ ~(l - d - z.before >= z.at)
  <2>1. l = t + z.after /\ s = l - d - z.before
    BY <1>3, <1>b, <1>d
  <2>2. s \in Int /\ s < z.at /\ s <= t /\ t - s = d + (z.before - z.after)
    BY <1>3, <1>a, <1>b, <1>c, <2>1
  <2>3. s + F!Offset(z, s) = l - d
    BY <1>a, <1>b, <1>c, <2>1, <2>2 DEF F!Offset
  <2>4. F!Repeated(z, t)
    <3> DEFINE u == t - z.before + z.after
    <3>1. u \in Int /\ u < z.at /\ u + z.before = t + z.after
      BY <1>3, <1>a, <1>b, <1>c, <2>1
    <3>2. u \in (t - z.before + z.after)..(t - 1)
      BY <1>3, <1>a, <3>1
    <3>3. u + F!Offset(z, u) = t + F!Offset(z, t)
      BY <1>3, <3>1 DEF F!Offset
    <3> HIDE DEF u
    <3> QED BY <3>2, <3>3 DEF F!Repeated
  <2> QED BY <1>a, <1>c, <1>h, <2>2, <2>3, <2>4
<1> QED BY <1>1, <1>2, <1>3

(* The expiry is a moment, or there is none; where the form was saved last *)
(* the next one will not move it.                                          *)
FieldsInv == expires \in Int /\ saved \subseteq Zones /\ F!Settles

(* Saving a form for another field's sake prolongs nobody's access, in no  *)
(* time zone, also when the clocks change; it takes less than a minute,    *)
(* but for the second of two times alike, and it does so once (app.js:62,  *)
(* 103).                                                                   *)
THEOREM EditKeepsExpiryHolds == TabSpec => []EditKeepsExpiry
<1> USE TabAssumed
<1>1. F!Init => FieldsInv
  BY DEF F!Init, FieldsInv, F!Settles, F!Never, FieldsAssumption
<1>2. FieldsInv /\ [F!Next]_F!vars => FieldsInv'
  <2> SUFFICES ASSUME FieldsInv, [F!Next]_F!vars PROVE FieldsInv'
    OBVIOUS
  <2>1. F!Never \in Int /\ \A z \in Zones : F!Saved(z, F!Never) = F!Never
    BY DEF F!Never, F!Saved
  <2>2. \A z \in Zones, t \in Int : F!Saved(z, t) \in Int /\ F!Saved(z, F!Saved(z, t)) = F!Saved(z, t)
    BY <2>1, SavedMoment
  <2>3. ASSUME NEW z \in Zones, F!SaveUntouched(z) PROVE FieldsInv'
    BY <2>2, <2>3 DEF F!SaveUntouched, FieldsInv, F!Settles
  <2>4. ASSUME NEW z \in Zones, NEW t \in {F!Saved(z, m) : m \in Moments} \cup {F!Never}, F!SaveDate(z, t)
        PROVE  FieldsInv'
    <3>1. t \in Int /\ F!Saved(z, t) = t
      BY <2>1, <2>2 DEF FieldsAssumption
    <3> QED BY <2>4, <3>1 DEF F!SaveDate, FieldsInv, F!Settles
  <2>5. CASE UNCHANGED F!vars
    BY <2>5 DEF F!vars, FieldsInv, F!Settles
  <2> QED BY <2>3, <2>4, <2>5 DEF F!Next
<1>3. FieldsInv => EditKeepsExpiry
  BY SavedMoment DEF FieldsInv, EditKeepsExpiry, F!EditKeepsExpiry, F!NeverProlongs, F!LosesAMinute
<1>4. TabInit => FieldsInv
  BY <1>1 DEF TabInit
<1>5. [TabNext]_<<part, vars, activity, dialogs, form>> => [F!Next]_F!vars
  BY DEF TabNext, form, F!vars
<1> QED BY <1>2, <1>3, <1>4, <1>5, PTL DEF TabSpec

(* An answer is no longer than Limit, and what is shown has its room.      *)
Sizes ==
  /\ list \in BOOLEAN /\ serial \in Requests
  /\ Len(shown) <= MaxShown /\ \A i \in Requests : Len(asked[i].answer) <= Limit

\* Every step keeps these sizes.
LEMMA SizesStep == AuditAssumption /\ ListTypes /\ Sizes /\ [A!Next]_A!vars => Sizes'
<1> SUFFICES ASSUME AuditAssumption, ListTypes, Sizes, [A!Next]_A!vars PROVE Sizes'
  OBVIOUS
<1>a. /\ log \in 0..MaxLog /\ shown \in Seq(Nat) /\ asked \in [Requests -> AskedType]
      /\ InTheLog(shown) /\ \A i \in Requests : InTheLog(asked[i].answer)
      /\ Limit \in Nat \ {0} /\ MaxShown \in Nat /\ Limit <= MaxShown
  BY DEF ListTypes, AuditAssumption
<1>b. /\ list \in BOOLEAN /\ serial \in Requests
      /\ Len(shown) <= MaxShown /\ \A i \in Requests : Len(asked[i].answer) <= Limit
  BY DEF Sizes
<1>c. A!Idle.answer = <<>> /\ Len(<<>>) = 0 /\ 0 <= Limit
  BY <1>a DEF A!Idle
<1>d. ASSUME NEW i \in Requests, NEW r, asked' = [asked EXCEPT ![i] = r], Len(r.answer) <= Limit
      PROVE  \A j \in Requests : Len(asked'[j].answer) <= Limit
  BY <1>a, <1>b, <1>d
<1>e. ASSUME NEW i \in Requests, A!Finish(i)
      PROVE  \A j \in Requests : Len(asked'[j].answer) <= Limit
  BY <1>c, <1>d, <1>e DEF A!Finish
<1>1. CASE A!Happen
  BY <1>b, <1>1 DEF A!Happen, Sizes
<1>2. ASSUME NEW i \in Requests, A!Refresh(i) \/ A!More(i) PROVE Sizes'
  <2>1. /\ \E before : asked' = [asked EXCEPT ![i] = A!Ask("page", before)]
                    \/ asked' = [asked EXCEPT ![i] = A!Ask("more", before)]
        /\ shown' = shown /\ list' \in BOOLEAN /\ serial' \in Requests
    BY <1>2, <1>b DEF A!Refresh, A!More
  <2>2. \A before : A!Ask("page", before).answer = <<>> /\ A!Ask("more", before).answer = <<>>
    BY DEF A!Ask, A!Idle
  <2>3. \A j \in Requests : Len(asked'[j].answer) <= Limit
    BY <1>2, <1>c, <1>d, <2>1, <2>2
  <2> QED BY <1>b, <2>1, <2>3 DEF Sizes
<1>3. ASSUME NEW i \in Requests, A!Answer(i) PROVE Sizes'
  <2> DEFINE a == A!Older(asked[i].before)
             r == [asked[i] EXCEPT !.answer = a, !.done = TRUE]
  <2>1. asked[i].before \in 1..A!Newest /\ asked[i] \in AskedType
    BY <1>a DEF AskedType
  <2>2. Len(a) = Size(asked[i].before) /\ Top(asked[i].before) \in 0..log
    BY <1>a, <2>1, OlderAnswer
  <2>3. Size(asked[i].before) <= Limit
    BY <1>a, <2>2 DEF Size
  <2>4. asked' = [asked EXCEPT ![i] = r] /\ UNCHANGED <<shown, list, serial>>
    BY <1>3 DEF A!Answer
  <2> HIDE DEF a
  <2>5. r.answer = a
    BY <2>1 DEF AskedType
  <2> HIDE DEF r
  <2>6. \A j \in Requests : Len(asked'[j].answer) <= Limit
    BY <1>d, <2>2, <2>3, <2>4, <2>5
  <2> QED BY <1>b, <2>4, <2>6 DEF Sizes
<1>4. ASSUME NEW i \in Requests, A!ShowPage(i) PROVE Sizes'
  <2>1. asked[i].answer \in Seq(Nat) /\ Len(asked[i].answer) \in Nat
    BY <1>a, LenProperties DEF AskedType
  <2>2. shown' = asked[i].answer /\ list' = TRUE /\ serial' = serial /\ A!Finish(i)
    BY <1>4 DEF A!ShowPage
  <2>3. Len(shown') <= MaxShown
    BY <1>a, <1>b, <2>1, <2>2
  <2> QED BY <1>b, <1>e, <2>2, <2>3 DEF Sizes
<1>5. ASSUME NEW i \in Requests, A!DropPage(i) PROVE Sizes'
  BY <1>b, <1>e, <1>5 DEF A!DropPage, Sizes
<1>6. ASSUME NEW i \in Requests, A!Extend(i) PROVE Sizes'
  <2>1. asked[i].answer \in Seq(Nat) /\ Len(asked[i].answer) \in Nat /\ Len(shown) \in Nat
    BY <1>a, LenProperties DEF AskedType
  <2>2. /\ shown' = shown \o asked[i].answer /\ list' = TRUE /\ serial' = serial /\ A!Finish(i)
        /\ Len(shown) + Limit <= MaxShown
    BY <1>6 DEF A!Extend
  <2>3. Len(shown') = Len(shown) + Len(asked[i].answer)
    BY <1>a, <2>1, <2>2, ConcatProperties
  <2>4. Len(shown') <= MaxShown
    BY <1>a, <1>b, <2>1, <2>2, <2>3
  <2> QED BY <1>b, <1>e, <2>2, <2>4 DEF Sizes
<1>7. ASSUME NEW i \in Requests, A!Fails(i) PROVE Sizes'
  <2>1. list' \in BOOLEAN /\ shown' = shown /\ serial' = serial /\ A!Finish(i)
    BY <1>7, Zenon DEF A!Fails
  <2> QED BY <1>b, <1>e, <2>1 DEF Sizes
<1>8. CASE UNCHANGED A!vars
  BY <1>b, <1>8 DEF A!vars, Sizes
<1> QED BY <1>1, <1>2, <1>3, <1>4, <1>5, <1>6, <1>7, <1>8 DEF A!Next

\* With them, the log's page has its type.
LEMMA AuditTypes == AuditAssumption /\ ListInv /\ Sizes => A!TypeOK
<1> SUFFICES ASSUME AuditAssumption, ListInv, Sizes PROVE A!TypeOK
  OBVIOUS
<1>1. /\ log \in 0..MaxLog /\ MaxLog \in Nat /\ shown \in Seq(Nat) /\ asked \in [Requests -> AskedType]
      /\ InTheLog(shown) /\ \A i \in Requests : InTheLog(asked[i].answer)
      /\ Limit \in Nat
  BY DEF ListInv, ListTypes, AuditAssumption
<1>2. ASSUME NEW s \in Seq(Nat), InTheLog(s)
      PROVE  /\ s \in [1..Len(s) -> A!Entries] /\ Len(s) \in Nat
             /\ A!ToSet(s) \subseteq A!Entries
  <2>1. Len(s) \in Nat /\ s \in [1..Len(s) -> Nat]
    BY LenProperties
  <2>2. \A k \in 1..Len(s) : s[k] \in A!Entries
    BY <1>1, <1>2, <2>1 DEF InTheLog, A!Entries
  <2> QED BY <2>1, <2>2 DEF A!ToSet
<1>3. ASSUME NEW i \in Requests
      PROVE  /\ asked[i].kind \in {"idle", "page", "more"} /\ asked[i].before \in 1..A!Newest
             /\ asked[i].answer \in A!Answers /\ asked[i].done \in BOOLEAN
  <2>1. asked[i] \in AskedType
    BY <1>1
  <2>2. asked[i].answer \in Seq(Nat) /\ Len(asked[i].answer) <= Limit
    BY <2>1 DEF AskedType, Sizes
  <2>3. asked[i].answer \in A!Answers
    <3>1. /\ asked[i].answer \in [1..Len(asked[i].answer) -> A!Entries]
          /\ Len(asked[i].answer) \in 0..Limit
      BY <1>1, <1>2, <2>2
    <3> QED BY <3>1, Zenon DEF A!Answers, A!BoundedSeq, A!SeqOf
  <2> QED BY <2>1, <2>3 DEF AskedType
<1>4. A!ToSet(shown) \subseteq A!Entries
  BY <1>1, <1>2
<1> QED BY <1>1, <1>3, <1>4 DEF A!TypeOK, Sizes

(* The pages behave as Pages says, so what was proved of them holds beside *)
(* the log, the dialogs and the form; all of it keeps its types.           *)
THEOREM TabTypesHold == TabSpec => []TabTypeOK
<1> USE TabAssumed
<1> DEFINE ListSizes == ListInv /\ Sizes
<1>1. TabInit => ListSizes
  <2> SUFFICES ASSUME TabInit PROVE Sizes
    BY ListInit DEF TabInit
  <2>1. A!Idle.answer = <<>> /\ Len(<<>>) = 0
    BY DEF A!Idle
  <2>2. shown = <<>> /\ list = FALSE /\ asked = [i \in Requests |-> A!Idle] /\ serial \in Requests
    BY DEF TabInit, A!Init
  <2>3. 0 <= Limit /\ 0 <= MaxShown
    BY DEF AuditAssumption
  <2> QED BY <2>1, <2>2, <2>3 DEF Sizes
<1>2. ListSizes /\ [TabNext]_<<part, vars, activity, dialogs, form>> => ListSizes'
  <2>1. [TabNext]_<<part, vars, activity, dialogs, form>> => [A!Next]_A!vars
    BY DEF TabNext, activity, A!vars
  <2>2. ListInv /\ [A!Next]_A!vars => ListInv'
    BY ListTypesStep, NewerStep DEF ListInv
  <2>3. ListSizes /\ [A!Next]_A!vars => Sizes'
    BY SizesStep DEF ListInv
  <2> QED BY <2>1, <2>2, <2>3
<1>3. TabSpec => []ListSizes
  BY <1>1, <1>2, PTL DEF TabSpec
<1>4. TabSpec => Spec
  <2>1. TabInit => Init
    BY DEF TabInit
  <2>2. [TabNext]_<<part, vars, activity, dialogs, form>> => [Next]_vars
    BY DEF TabNext, vars
  <2> QED BY <2>1, <2>2, PTL DEF TabSpec, Spec
<1>5. TypeOK /\ ListSizes /\ DialogsInv => TabTypeOK
  BY AuditTypes DEF DialogsInv, TabTypeOK
<1> QED BY <1>3, <1>4, <1>5, TypeCorrect, DialogsInvariant, PTL
=============================================================================
