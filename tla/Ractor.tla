------------------------------- MODULE Ractor -------------------------------
(***************************************************************************)
(* The end of a Ractor and those who wait for it (ractor.rs): the body and *)
(* the Threads it started receive on the default port; finish publishes    *)
(* the outcome, the status, an emptied port table and the termination      *)
(* tokens, in this order; Ractor#join, #value and .select wait for a token *)
(* on a fresh monitor port and take the value.                             *)
(***************************************************************************)
EXTENDS Naturals, FiniteSets

CONSTANTS
  Body,        \* the Ractor's own thread
  Helpers,     \* Threads the body started, of the same Ractor
  Takers,      \* threads of other Ractors
  Home,        \* the Ractor a taker belongs to
  Nobody,      \* successor's 0
  MaxWaits,    \* bound: waits for the end per taker
  MaxSends     \* bound: messages to the default port

Own == {Body} \cup Helpers
Members == Own \cup Takers
Ops == {"join", "value", "select"}
Ports == Takers \X (1..MaxWaits)

ASSUME OwnApart == Own \cap Takers = {} /\ Body \notin Helpers
ASSUME NobodyApart == \A t \in Takers : Home[t] # Nobody
ASSUME BoundsAreNat == MaxWaits \in Nat /\ MaxSends \in Nat

VARIABLES
  state,       \* the lifecycle: Live, or how it Terminated
  crossed,     \* whether the result has crossed
  object,      \* which object the result is; 0 is the body's own
  objects,     \* how many copies cross_boundary has made
  status,      \* the atomic status word
  table,       \* the default port: open, closed, or cleared by finish
  items,       \* messages in it
  sent,        \* messages ever sent
  monitors,    \* registered monitor ports
  owed,        \* ports finish has yet to feed
  wait,        \* the number of a taker's latest monitor port
  exists,      \* takers whose latest monitor port is in its table
  tokens,      \* tokens in it
  successor,
  at,
  op,          \* what a taker is doing
  got          \* objects a taker's calls have answered

endVars == <<state, status>>
portVars == <<table, items, sent>>
monitorVars == <<monitors, owed, wait, exists, tokens>>
valueVars == <<crossed, object, objects, successor, got>>
ractorVars == <<endVars, portVars, monitorVars, valueVars, at, op>>

OwnPcs == {"new", "run", "parked", "look", "status", "clear", "tokens", "feed", "gone"}
TakerPcs == {"idle", "monitor", "token", "receive", "cleanup", "received", "drop",
             "claim", "read", "cross", "taken"}

RactorTypeOK ==
  /\ state \in {"live", "exited", "aborted"}
  /\ crossed \in BOOLEAN
  /\ object \in 0..objects /\ objects \in Nat
  /\ status \in {"created", "running", "blocking", "terminated"}
  /\ table \in {"open", "closed", "cleared"}
  /\ items \in Nat /\ sent \in 0..MaxSends
  /\ monitors \subseteq Ports /\ owed \subseteq Ports
  /\ wait \in [Takers -> 0..MaxWaits]
  /\ exists \subseteq Takers
  /\ tokens \in [Takers -> Nat]
  /\ successor \in {Nobody} \cup {Home[t] : t \in Takers}
  /\ at \in [Members -> OwnPcs \cup TakerPcs]
  /\ op \in [Takers -> Ops]
  /\ got \in [Takers -> SUBSET Nat]

RactorInit ==
  /\ state = "live" /\ status = "created"
  /\ crossed = FALSE /\ object = 0 /\ objects = 0
  /\ table = "open" /\ items = 0 /\ sent = 0
  /\ monitors = {} /\ owed = {} /\ exists = {}
  /\ wait = [t \in Takers |-> 0]
  /\ tokens = [t \in Takers |-> 0]
  /\ successor = Nobody
  /\ at = [t \in Members |-> IF t \in Takers THEN "idle" ELSE "new"]
  /\ op = [t \in Takers |-> "join"]
  /\ got = [t \in Takers |-> {}]

MoveTo(t, where) == at' = [at EXCEPT ![t] = where]

-----------------------------------------------------------------------------
(* The Ractor's own threads. *)

\* ractor_new's thread stores the status and calls the body.
Start ==
  /\ at[Body] = "new"
  /\ status' = "running"
  /\ MoveTo(Body, "run")
  /\ UNCHANGED <<state, portVars, monitorVars, valueVars, op>>

\* The body starts one of its Threads.
StartHelper(t) ==
  /\ at[Body] = "run" /\ at[t] = "new"
  /\ MoveTo(t, "run")
  /\ UNCHANGED <<endVars, portVars, monitorVars, valueVars, op>>

\* One round of port_receive_locked: a cleared port, an item, a closed port,
\* or BLOCKING and the timed wait.
Look(t) ==
  /\ at[t] \in {"run", "look"}
  /\ \/ /\ table # "cleared" /\ items > 0
        /\ items' = items - 1
        /\ MoveTo(t, "run")
        /\ UNCHANGED status
     \/ /\ table = "cleared" \/ (table = "closed" /\ items = 0)
        /\ MoveTo(t, "run")
        /\ UNCHANGED <<items, status>>
     \/ /\ table = "open" /\ items = 0
        /\ status' = "blocking"
        /\ MoveTo(t, "parked")
        /\ UNCHANGED items
  /\ UNCHANGED <<state, table, sent, monitorVars, valueVars, op>>

\* The wait ends, notified or after its 2ms, and stores RUNNING.
ReceiveWoken(t) ==
  /\ at[t] = "parked"
  /\ status' = "running"
  /\ MoveTo(t, "look")
  /\ UNCHANGED <<state, portVars, monitorVars, valueVars, op>>

\* A kill or raise is delivered to the receiver after its wait.
Interrupted(t) ==
  /\ at[t] = "look"
  /\ MoveTo(t, "run")
  /\ UNCHANGED <<endVars, portVars, monitorVars, valueVars, op>>

\* port_close, allowed to the creator's threads only.
Close(t) ==
  /\ at[t] = "run"
  /\ table' = IF table = "cleared" THEN table ELSE "closed"
  /\ UNCHANGED <<endVars, items, sent, monitorVars, valueVars, at, op>>

\* The body returns, raises or panics: finish stores the outcome,
End(how) ==
  /\ at[Body] = "run"
  /\ state' = how
  /\ MoveTo(Body, "status")
  /\ UNCHANGED <<status, portVars, monitorVars, valueVars, op>>

\* then the status,
StoreStatus ==
  /\ at[Body] = "status"
  /\ status' = "terminated"
  /\ MoveTo(Body, "clear")
  /\ UNCHANGED <<state, portVars, monitorVars, valueVars, op>>

\* then empties the port table,
ClearPorts ==
  /\ at[Body] = "clear"
  /\ table' = "cleared" /\ items' = 0
  /\ MoveTo(Body, "tokens")
  /\ UNCHANGED <<endVars, sent, monitorVars, valueVars, op>>

\* Mutant: the registrations are cleared with the ports.
TakeMonitorsLost ==
  /\ at[Body] = "tokens"
  /\ owed' = {} /\ monitors' = {}
  /\ MoveTo(Body, "feed")
  /\ UNCHANGED <<endVars, portVars, wait, exists, tokens, valueVars, op>>

\* then takes the registrations,
TakeMonitors ==
  /\ at[Body] = "tokens"
  /\ owed' = monitors /\ monitors' = {}
  /\ MoveTo(Body, "feed")
  /\ UNCHANGED <<endVars, portVars, wait, exists, tokens, valueVars, op>>

\* port_send of a token; a port that is gone answers an error nobody reads.
Feed(p) ==
  tokens' = [tokens EXCEPT ![p[1]] =
               IF p[1] \in exists /\ wait[p[1]] = p[2] THEN @ + 1 ELSE @]

\* then feeds them one by one.
FeedMonitor ==
  /\ at[Body] = "feed"
  /\ \E p \in owed : Feed(p) /\ owed' = owed \ {p}
  /\ UNCHANGED <<endVars, portVars, monitors, wait, exists, valueVars, at, op>>

Gone ==
  /\ at[Body] = "feed" /\ owed = {}
  /\ MoveTo(Body, "gone")
  /\ UNCHANGED <<endVars, portVars, monitorVars, valueVars, op>>

-----------------------------------------------------------------------------
(* Threads of other Ractors. *)

\* Ractor#send on the default port; a closed or cleared one refuses.
PortSend(t) ==
  /\ at[t] = "idle"
  /\ table = "open" /\ sent < MaxSends
  /\ items' = items + 1 /\ sent' = sent + 1
  /\ UNCHANGED <<endVars, table, monitorVars, valueVars, at, op>>

\* wait_for_termination and select create a monitor port.
Begin(t, what) ==
  /\ at[t] = "idle"
  /\ wait[t] < MaxWaits
  /\ wait' = [wait EXCEPT ![t] = @ + 1]
  /\ exists' = exists \cup {t}
  /\ op' = [op EXCEPT ![t] = what]
  /\ MoveTo(t, "monitor")
  /\ UNCHANGED <<endVars, portVars, monitors, owed, tokens, valueVars>>

\* Mutant: the port is registered also with a terminated target.
MonitorAlways(t) ==
  /\ at[t] = "monitor"
  /\ monitors' = monitors \cup {<<t, wait[t]>>}
  /\ MoveTo(t, IF status = "terminated" THEN "token" ELSE "receive")
  /\ UNCHANGED <<endVars, portVars, owed, wait, exists, tokens, valueVars, op>>

\* ractor_monitor reads the status under the monitors lock.
Monitor(t) ==
  /\ at[t] = "monitor"
  /\ \/ /\ status = "terminated"
        /\ MoveTo(t, "token")
        /\ UNCHANGED monitors
     \/ /\ status # "terminated"
        /\ monitors' = monitors \cup {<<t, wait[t]>>}
        /\ MoveTo(t, "receive")
  /\ UNCHANGED <<endVars, portVars, owed, wait, exists, tokens, valueVars, op>>

\* It sends the token itself, without the lock.
Token(t) ==
  /\ at[t] = "token"
  /\ Feed(<<t, wait[t]>>)
  /\ MoveTo(t, "receive")
  /\ UNCHANGED <<endVars, portVars, monitors, owed, wait, exists, valueVars, op>>

\* The token arrives; select takes the value before it cleans up.
Received(t) ==
  /\ at[t] = "receive" /\ tokens[t] > 0
  /\ tokens' = [tokens EXCEPT ![t] = @ - 1]
  /\ MoveTo(t, IF op[t] = "select" THEN "claim" ELSE "received")
  /\ UNCHANGED <<endVars, portVars, monitors, owed, wait, exists, valueVars, op>>

\* A kill or raise ends the wait with an error.
Fail(t) ==
  /\ at[t] = "receive"
  /\ MoveTo(t, "cleanup")
  /\ UNCHANGED <<endVars, portVars, monitorVars, valueVars, op>>

\* Mutant: the error of the wait is dropped, and the call goes on.
AfterWaitAlways(t) == "drop"

\* Where a taker goes once its port is unregistered and dropped.
AfterWait(t) == IF at[t] = "received" THEN "drop" ELSE "taken"

\* Mutant: the error path skips the unregistration.
UnmonitorReceived(t) ==
  /\ at[t] \in {"received", "cleanup"}
  /\ monitors' = IF at[t] = "cleanup" THEN monitors ELSE monitors \ {<<t, wait[t]>>}
  /\ MoveTo(t, AfterWait(t))
  /\ UNCHANGED <<endVars, portVars, owed, wait, exists, tokens, valueVars, op>>

\* ractor_unmonitor, on every exit path.
Unmonitor(t) ==
  /\ at[t] \in {"received", "cleanup"}
  /\ monitors' = monitors \ {<<t, wait[t]>>}
  /\ MoveTo(t, AfterWait(t))
  /\ UNCHANGED <<endVars, portVars, owed, wait, exists, tokens, valueVars, op>>

\* drop_port.  A join of a Ractor that exited is over; otherwise the value is
\* taken, unless the wait failed or select took it already.
Drop(t) ==
  /\ at[t] \in {"drop", "taken"}
  /\ exists' = exists \ {t}
  /\ tokens' = [tokens EXCEPT ![t] = 0]
  /\ MoveTo(t, IF at[t] = "drop" /\ (op[t] = "value" \/ state = "aborted")
               THEN "claim" ELSE "idle")
  /\ UNCHANGED <<endVars, portVars, monitors, owed, wait, valueVars, op>>

\* Where a take ends: select still has its port to clean up.
Return(t) == MoveTo(t, IF op[t] = "select" THEN "cleanup" ELSE "idle")

\* take_value: only one Ractor may claim the slot.
Claim(t) ==
  /\ at[t] = "claim"
  /\ \/ /\ successor \in {Nobody, Home[t]}
        /\ successor' = Home[t]
        /\ MoveTo(t, "read")
     \/ /\ successor \notin {Nobody, Home[t]}
        /\ Return(t)
        /\ UNCHANGED successor
  /\ UNCHANGED <<endVars, portVars, monitorVars, crossed, object, objects, got, op>>

\* It clones the result under the state lock; an error is raised, a crossed
\* result answered.
Read(t) ==
  /\ at[t] = "read"
  /\ \/ /\ state = "exited" /\ ~crossed
        /\ MoveTo(t, "cross")
        /\ UNCHANGED got
     \/ /\ state = "exited" /\ crossed
        /\ got' = [got EXCEPT ![t] = @ \cup {object}]
        /\ Return(t)
     \/ /\ state = "aborted"
        /\ Return(t)
        /\ UNCHANGED got
  /\ UNCHANGED <<endVars, portVars, monitorVars, crossed, object, objects, successor, op>>

\* The copy is made without the lock, then stored.
Cross(t) ==
  /\ at[t] = "cross"
  /\ objects' = objects + 1
  /\ object' = objects + 1 /\ crossed' = TRUE
  /\ got' = [got EXCEPT ![t] = @ \cup {objects + 1}]
  /\ Return(t)
  /\ UNCHANGED <<endVars, portVars, monitorVars, successor, op>>

\* The value cannot cross, and the call raises.
CrossRefused(t) ==
  /\ at[t] = "cross"
  /\ Return(t)
  /\ UNCHANGED <<endVars, portVars, monitorVars, valueVars, op>>

-----------------------------------------------------------------------------

Finish == StoreStatus \/ ClearPorts \/ TakeMonitors \/ FeedMonitor \/ Gone

OwnStep ==
  \/ Start \/ Finish \/ \E how \in {"exited", "aborted"} : End(how)
  \/ \E t \in Helpers : StartHelper(t)
  \/ \E t \in Own : Look(t) \/ ReceiveWoken(t) \/ Interrupted(t) \/ Close(t)

TakerAdvance(t) ==
  \/ Monitor(t) \/ Token(t) \/ Received(t) \/ Unmonitor(t) \/ Drop(t)
  \/ Claim(t) \/ Read(t) \/ Cross(t) \/ CrossRefused(t)

TakerStep(t) ==
  \/ PortSend(t) \/ Fail(t) \/ TakerAdvance(t) \/ \E what \in Ops : Begin(t, what)

RactorNext == OwnStep \/ \E t \in Takers : TakerStep(t)

RactorSpec == RactorInit /\ [][RactorNext]_ractorVars

-----------------------------------------------------------------------------
(* Properties. *)

Taking == {"claim", "read", "cross"}

\* take_value's unreachable!: a taker that got past its wait finds the
\* outcome, though it saw only a token and finish runs beside it.
TakeAfterEnd == \A t \in Takers : at[t] \in Taking => state # "live"

\* "a SeqCst read of 3 guarantees the outcome is present" (the status field's
\* comment), whoever else stores to the status.
TerminatedHasOutcome == status = "terminated" => state # "live"

\* ractor_monitor "can neither race past termination nor double-deliver", the
\* second half: a monitor port gets its token once, from finish or from the
\* registration, also when waits fail and are retried.
TokenOnce ==
  \A t \in Takers :
    /\ tokens[t] <= 1
    /\ tokens[t] = 1 => <<t, wait[t]>> \notin monitors \cup owed
    /\ at[t] \in {"received", "claim", "read", "cross"} => tokens[t] = 0

\* No registration outlives its port: a wait that fails or returns leaves
\* nothing in the target's monitors.
MonitorsLive == \A p \in monitors : p[1] \in exists /\ wait[p[1]] = p[2]

\* The value goes to one Ractor only.
OneSuccessor ==
  \A t, u \in Takers : got[t] # {} /\ got[u] # {} => Home[t] = Home[u]

\* "`#value` crosses ONCE, so a re-take (same successor) answers the SAME
\* object" (RactorLifecycle's comment).
SameObject == \A t, u \in Takers : \A x \in got[t], y \in got[u] : x = y

\* The first half: once the Ractor has finished, and no Thread of it stored
\* over its status, whoever still waits for its end has the token in its port,
\* however the registration raced with the end.
TokenArrives ==
  at[Body] = "gone" /\ status = "terminated" =>
    \A t \in Takers : at[t] = "receive" => tokens[t] = 1

\* "a registration can neither race past termination" (ractor_monitor's
\* comment), whatever the Ractor's own Threads still do.
NeverRacesPast ==
  at[Body] = "gone" => \A t \in Takers : at[t] = "receive" => tokens[t] = 1
=============================================================================
