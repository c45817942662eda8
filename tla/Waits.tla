-------------------------------- MODULE Waits --------------------------------
(***************************************************************************)
(* Who waits for whom.  The agent's threads hold and wait for three things *)
(* (the database's write lock, pki_lock, the management socket), OpenVPN's *)
(* single thread waits for its scripts, and these for a hook handler, that *)
(* is, for a thread of the agent.  Every wait has a timeout of its own (5, *)
(* 10, 15, 40 s); what is asked here is whether any of them is ever needed.*)
(*                                                                         *)
(* A thread is the list of what it has yet to do.  Consecutive             *)
(* transactions, and consecutive kills, count as one: they wait alike.     *)
(***************************************************************************)
EXTENDS Naturals, Sequences

CONSTANTS Monitor,    \* the agent's main thread
          Handlers,   \* requests of the panel at once, at most
          Hooks,      \* hook handlers at once, at most: late ones included
          Sessions

Workers == {Monitor} \cup Handlers \cup Hooks
Free == "free"

VARIABLES todo,     \* thread -> its steps
          db,       \* who writes: BEGIN IMMEDIATE to COMMIT
          pki,      \* who holds pki_lock
          management,  \* who holds Management.lock, and the connection
          reply,    \* ... and its answer
          event,    \* what OpenVPN is dealing with
          script,   \* the hook handler its script waits for, or Free
          session

vars == <<todo, db, pki, management, reply, event, script, session>>
locks == <<db, pki, management, reply>>
openvpn == <<event, script, session>>

Rounds == {<<"status", "db">>, <<"status", "db", "kill">>, <<"stop">>}
Requests == {<<"db">>,                                  \* list, reset, update
             <<"db", "kill">>,                          \* update of a client now blocked
             <<"kill">>, <<"stop">>,                    \* kill, restart
             <<"pki", "db", "easyrsa", "db">>,          \* create
             <<"pki", "db", "easyrsa", "db", "kill">>}  \* revoke
\* A variant that a property must tell apart: hooks wait for certificate operations.
HookUnderPki == <<"pki", "db">>
Hook == <<"db">>

Init ==
  /\ todo = [t \in Workers |-> <<>>]
  /\ db = Free /\ pki = Free /\ management = Free /\ reply = "none"
  /\ event = "none" /\ script = Free
  /\ session = [s \in Sessions |-> "out"]

-----------------------------------------------------------------------------
Busy(t) == todo[t] # <<>>
At(t, steps) == Busy(t) /\ Head(todo[t]) \in steps

\* The step is done; `with pki_lock` ends with the list.
Advance(t) ==
  /\ todo' = [todo EXCEPT ![t] = Tail(@)]
  /\ pki' = IF pki = t /\ Len(todo[t]) = 1 THEN Free ELSE pki

Arrive(t, list) ==
  /\ ~Busy(t) /\ todo' = [todo EXCEPT ![t] = list]
  /\ UNCHANGED <<locks, openvpn>>

Begin(t) ==
  /\ At(t, {"db"}) /\ db = Free /\ db' = t
  /\ UNCHANGED <<todo, pki, management, reply, openvpn>>
Commit(t) ==
  /\ At(t, {"db"}) /\ db = t /\ db' = Free /\ Advance(t)
  /\ UNCHANGED <<management, reply, openvpn>>

TakePki(t) ==
  /\ At(t, {"pki"}) /\ pki = Free
  /\ todo' = [todo EXCEPT ![t] = Tail(@)] /\ pki' = t
  /\ UNCHANGED <<db, management, reply, openvpn>>
EasyRsa(t) ==
  /\ At(t, {"easyrsa"}) /\ Advance(t)
  /\ UNCHANGED <<db, management, reply, openvpn>>

Connect(t) ==
  /\ At(t, {"status", "kill"}) /\ management = Free
  /\ management' = t /\ reply' = "none"
  /\ UNCHANGED <<todo, db, pki, openvpn>>
Replied(t) ==
  /\ At(t, {"status", "kill"}) /\ management = t /\ reply = "done"
  /\ management' = Free /\ reply' = "none" /\ Advance(t)
  /\ UNCHANGED <<db, openvpn>>

\* systemctl: OpenVPN ends its sessions, and the thread waits.
Stop(t) ==
  /\ At(t, {"stop"}) /\ event = "none"
  /\ event' = "stop"
  /\ session' = [s \in Sessions |-> IF session[s] = "in" THEN "closing" ELSE "out"]
  /\ todo' = [todo EXCEPT ![t] = <<"stopped">> \o Tail(@)]
  /\ UNCHANGED <<locks, script>>
Closed == \A s \in Sessions : session[s] \in {"out", "in"}
Stopped(t) ==
  /\ At(t, {"stopped"}) /\ event = "stop" /\ Closed /\ script = Free
  /\ event' = "none" /\ reply' = IF management = Free THEN "none" ELSE "closed"
  /\ Advance(t)
  /\ UNCHANGED <<db, management, script, session>>

\* An exception: every `with` releases.
Abort(t) ==
  /\ todo' = [todo EXCEPT ![t] = <<>>]
  /\ db' = IF db = t THEN Free ELSE db
  /\ pki' = IF pki = t THEN Free ELSE pki
  /\ management' = IF management = t THEN Free ELSE management
  /\ reply' = IF management = t THEN "none" ELSE reply
  /\ UNCHANGED openvpn

\* The connection was closed by a stopping OpenVPN.
Disconnected(t) == management = t /\ reply = "closed" /\ Abort(t)
\* A failure or a timeout, anywhere but while OpenVPN is being stopped.
Fails(t) == Busy(t) /\ Head(todo[t]) # "stopped" /\ Abort(t)

Thread(t) ==
  \/ Begin(t) \/ Commit(t) \/ TakePki(t) \/ EasyRsa(t) \/ Connect(t) \/ Replied(t)
  \/ Stop(t) \/ Stopped(t) \/ Disconnected(t)

-----------------------------------------------------------------------------
(* OpenVPN: one event at a time, its scripts included.                     *)

\* It takes up a command; a kill ends some sessions, and is answered after them.
Serve ==
  /\ event = "none" /\ management # Free /\ reply = "none"
  /\ IF At(management, {"status"})
     THEN reply' = "done" /\ UNCHANGED <<event, session>>
     ELSE /\ event' = "kill" /\ reply' = "taken"
          /\ \E killed \in SUBSET {s \in Sessions : session[s] = "in"} :
               session' = [s \in Sessions |-> IF s \in killed THEN "closing" ELSE session[s]]
  /\ UNCHANGED <<todo, db, pki, management, script>>
Killed ==
  /\ event = "kill" /\ Closed /\ script = Free
  /\ event' = "none" /\ reply' = IF reply = "taken" THEN "done" ELSE reply
  /\ UNCHANGED <<todo, db, pki, management, script, session>>

\* A client connects, or leaves.
Client(s) ==
  /\ event = "none" /\ event' = "client"
  /\ session' = [session EXCEPT ![s] = IF @ = "out" THEN "connecting" ELSE "closing"]
  /\ UNCHANGED <<todo, locks, script>>
ClientDone ==
  /\ event = "client" /\ Closed /\ script = Free /\ event' = "none"
  /\ UNCHANGED <<todo, locks, script, session>>

\* The script of a session calls the agent.
Call(s, h) ==
  /\ script = Free /\ session[s] \in {"connecting", "closing"}
  /\ ~Busy(h) /\ todo' = [todo EXCEPT ![h] = Hook] /\ script' = h
  /\ session' = [session EXCEPT ![s] = IF @ = "connecting" THEN "in" ELSE "out"]
  /\ UNCHANGED <<locks, event>>
Answered ==
  /\ script # Free /\ ~Busy(script) /\ script' = Free
  /\ UNCHANGED <<todo, locks, event, session>>
\* After 10 s the script gives up; its handler goes on.
GivesUp ==
  /\ script # Free /\ Busy(script) /\ script' = Free
  /\ UNCHANGED <<todo, locks, event, session>>

Next ==
  \/ \E t \in Workers : Thread(t) \/ Fails(t)
  \/ \E list \in Rounds : Arrive(Monitor, list)
  \/ \E t \in Handlers, list \in Requests : Arrive(t, list)
  \/ Serve \/ Killed \/ ClientDone \/ Answered \/ GivesUp
  \/ \E s \in Sessions : Client(s) \/ \E h \in Hooks : Call(s, h)

Spec == Init /\ [][Next]_vars

-----------------------------------------------------------------------------
Steps == {"db", "pki", "easyrsa", "status", "kill", "stop", "stopped"}

TypeOK ==
  /\ \A t \in Workers : Len(todo[t]) <= 5 /\ \A k \in 1..Len(todo[t]) : todo[t][k] \in Steps
  /\ {db, pki, management} \subseteq Workers \cup {Free} /\ reply \in {"none", "taken", "done", "closed"}
  /\ (db # Free => At(db, {"db"})) /\ (management # Free => At(management, {"status", "kill"}))
  /\ event \in {"none", "kill", "stop", "client"} /\ script \in Hooks \cup {Free}
  /\ session \in [Sessions -> {"out", "connecting", "in", "closing"}]

OpenVpn == "OpenVPN"
Parties == Workers \cup {OpenVpn}
WaitsFor(a) ==
  CASE a = Free -> Free
    [] a = OpenVpn -> script
    [] a \in Workers /\ At(a, {"db"}) -> IF db = a THEN Free ELSE db
    [] a \in Workers /\ At(a, {"pki"}) -> pki
    [] a \in Workers /\ At(a, {"status", "kill"}) ->
         IF management = a THEN OpenVpn ELSE management
    [] a \in Workers /\ At(a, {"stop", "stopped"}) -> OpenVpn
    [] OTHER -> Free

\* No circle of threads and scripts in which each waits for the next: who waits, waits
\* in the end for somebody who does not.  The longest line is a request before pki_lock,
\* its holder, the holder of the management socket, OpenVPN, a hook handler, the writer.
Ahead(a) == WaitsFor(WaitsFor(a))
NoCircle == \A a \in Parties : Ahead(Ahead(Ahead(a))) = Free
=============================================================================
