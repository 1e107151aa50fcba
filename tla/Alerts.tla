------------------------------- MODULE Alerts -------------------------------
(***************************************************************************)
(* The alert store of the control plane: emit with its suppression window,  *)
(* acknowledge, resolve, and the escalation ladder that GET /alerts climbs. *)
(* An emit awaits the routing of its alert before it publishes it, so other *)
(* requests run in between.  Time is counted in units of some minutes.       *)
(***************************************************************************)
EXTENDS Integers, Sequences, SequencesExt

CONSTANTS
    AlertIds,      \* ids a client can give its alerts
    Messages,      \* service, category and message of emitted alerts
    Levels,        \* severities of emitted alerts
    Ladder,        \* _ESCALATION_LADDER_MINUTES
    Windows,       \* _SUPPRESSION_WINDOWS_SECONDS by severity
    MaxAlerts,     \* bound: alerts, the seeded two included
    MaxRecords,    \* bound: lifecycle records of an alert, its escalations apart
    LastTime       \* bound: time

ASSUME AlertConstants ==
    /\ Ladder \in Seq(Nat) /\ Windows \in [DOMAIN Windows -> Nat] /\ Levels \subseteq DOMAIN Windows
    /\ MaxAlerts \in Nat /\ MaxRecords \in Nat /\ LastTime \in Nat

VARIABLES
    objects,      \* the alert objects, in the order they were made
    alertStore,   \* id -> the object stored under it
    lastEmitted,  \* <<message, level>> -> time
    climbed,      \* _escalation_levels
    lifecycle,    \* id -> its records
    routing,      \* objects whose emit awaits _route_alert
    published,    \* history: id -> the status published last on topic "alerts"
    emissions,    \* history: what was emitted, [what, at]
    clock

alertVars == <<objects, alertStore, lastEmitted, climbed, lifecycle, routing,
               published, emissions, clock>>

Assigned(f, k, v) == [x \in DOMAIN f \cup {k} |-> IF x = k THEN v ELSE f[x]]
RecordsOf(id) == IF id \in DOMAIN lifecycle THEN lifecycle[id] ELSE <<>>
Recorded(id, type, rung) ==
    Append(RecordsOf(id), [type |-> type, rung |-> rung, at |-> IF type = "escalated" THEN clock ELSE 0])
Of(id) == objects[alertStore[id]]

-----------------------------------------------------------------------------
\* _seed_alerts, which the first request of any kind calls.
Seeded == <<[id |-> "risk", what |-> <<"risk", "critical">>, level |-> "critical",
             born |-> 0, status |-> "active"],
            [id |-> "data", what |-> <<"data", "warning">>, level |-> "warning",
             born |-> 0, status |-> "active"]>>

AlertsInit ==
    /\ objects = Seeded
    /\ alertStore = [id \in {"risk", "data"} |-> IF id = "risk" THEN 1 ELSE 2]
    /\ lastEmitted = <<>> /\ published = <<>> /\ emissions = {}
    /\ climbed = [id \in {"risk", "data"} |-> 0]
    /\ lifecycle = [id \in {"risk", "data"} |->
                        <<[type |-> "triggered", rung |-> 0, at |-> 0]>>]
    /\ routing = {} /\ clock = 0

ShouldSuppress(what, level) ==
    what \in DOMAIN lastEmitted /\ clock - lastEmitted[what] < Windows[level]

\* Mutant of EmitAlert: the emission is noted when it is published.
EmitNotedLater(id, m, level, born) ==
    /\ Len(objects) < MaxAlerts /\ ~ShouldSuppress(<<m, level>>, level)
    /\ objects' = Append(objects, [id |-> id, what |-> <<m, level>>, level |-> level,
                                   born |-> born, status |-> "active"])
    /\ alertStore' = Assigned(alertStore, id, Len(objects) + 1)
    /\ climbed' = Assigned(climbed, id, 0)
    /\ lifecycle' = Assigned(lifecycle, id, Recorded(id, "triggered", 0))
    /\ routing' = routing \cup {Len(objects) + 1}
    /\ emissions' = emissions \cup {[what |-> <<m, level>>, at |-> clock, n |-> Len(objects) + 1]}
    /\ UNCHANGED <<published, clock, lastEmitted>>

\* POST /alerts/emit up to its await.  Id and timestamp are the client's.  The
\* two triggered records it leaves are one here.
EmitAlert(id, m, level, born) ==
    /\ Len(objects) < MaxAlerts /\ ~ShouldSuppress(<<m, level>>, level)
    /\ objects' = Append(objects, [id |-> id, what |-> <<m, level>>, level |-> level,
                                   born |-> born, status |-> "active"])
    /\ alertStore' = Assigned(alertStore, id, Len(objects) + 1)
    /\ lastEmitted' = Assigned(lastEmitted, <<m, level>>, clock)
    /\ climbed' = Assigned(climbed, id, 0)
    /\ lifecycle' = Assigned(lifecycle, id, Recorded(id, "triggered", 0))
    /\ routing' = routing \cup {Len(objects) + 1}
    /\ emissions' = emissions \cup {[what |-> <<m, level>>, at |-> clock, n |-> Len(objects) + 1]}
    /\ UNCHANGED <<published, clock>>

\* ... and after it: the request's own object, with the status it has by now.
PublishEmitted(n) ==
    /\ routing' = routing \ {n}
    /\ published' = Assigned(published, objects[n].id, objects[n].status)
    /\ UNCHANGED <<objects, alertStore, lastEmitted, climbed, lifecycle, emissions, clock>>

\* A resolved alert can be acknowledged.
Settle(id, status, type) ==
    /\ Len(SelectSeq(RecordsOf(id), LAMBDA r : r.type # "escalated")) < MaxRecords
    /\ objects' = [objects EXCEPT ![alertStore[id]].status = status]
    /\ lifecycle' = Assigned(lifecycle, id, Recorded(id, type, 0))
    /\ published' = Assigned(published, id, status)
    /\ UNCHANGED <<alertStore, lastEmitted, climbed, routing, emissions, clock>>

Acknowledge(id) == Of(id).status # "acknowledged" /\ Settle(id, "acknowledged", "acknowledged")
Resolve(id) == Settle(id, "resolved", "resolved")

Climbs(id) ==
    /\ Of(id).level = "critical" /\ Of(id).status \notin {"acknowledged", "resolved"}
    /\ climbed[id] < Len(Ladder) /\ clock - Of(id).born >= Ladder[climbed[id] + 1]

\* GET /alerts: one rung for each alert that is due.  Nothing is published.
ListAlerts ==
    LET due == {id \in DOMAIN alertStore : Climbs(id)}
    IN  /\ due # {}
        /\ climbed' = [id \in DOMAIN climbed |-> IF id \in due THEN climbed[id] + 1 ELSE climbed[id]]
        /\ objects' = [n \in DOMAIN objects |->
                        IF \E id \in due : alertStore[id] = n
                        THEN [objects[n] EXCEPT !.status = "escalated"] ELSE objects[n]]
        /\ lifecycle' = [id \in DOMAIN lifecycle |->
                          IF id \in due THEN Recorded(id, "escalated", climbed[id] + 1)
                          ELSE lifecycle[id]]
        /\ UNCHANGED <<alertStore, lastEmitted, routing, published, emissions, clock>>

AlertTime == clock < LastTime /\ clock' = clock + 1
             /\ UNCHANGED <<objects, alertStore, lastEmitted, climbed, lifecycle, routing,
                            published, emissions>>

AlertsNext ==
    \/ \E id \in AlertIds, m \in Messages, level \in Levels, born \in {0, clock} :
        EmitAlert(id, m, level, born)
    \/ \E n \in routing : PublishEmitted(n)
    \/ \E id \in DOMAIN alertStore : Acknowledge(id) \/ Resolve(id)
    \/ ListAlerts
    \/ AlertTime

AlertsSpec == AlertsInit /\ [][AlertsNext]_alertVars

-----------------------------------------------------------------------------
Statuses == {"active", "acknowledged", "resolved", "escalated"}

\* Every stored alert has an object with its id, a rung and a lifecycle.
AlertsTypeOK ==
    /\ DOMAIN alertStore = DOMAIN climbed /\ DOMAIN alertStore = DOMAIN lifecycle
    /\ \A id \in DOMAIN alertStore :
        /\ Of(id).id = id /\ Of(id).status \in Statuses
        /\ climbed[id] \in 0 .. Len(Ladder)
    /\ routing \subseteq DOMAIN objects

\* However emits interleave with the awaits of others, two alerts of one message
\* and severity are a suppression window apart.
SuppressionHolds ==
    \A e, f \in emissions :
        e.what = f.what /\ e.n < f.n => f.at - e.at >= Windows[e.what[2]]

\* Since an alert was last triggered it climbed the ladder rung by rung, no rung
\* before its time, and not any more once it was acknowledged or resolved.
ClimbsFrom(id, i) ==
    /\ lifecycle[id][i].type = "triggered" /\ i + climbed[id] <= Len(lifecycle[id])
    /\ \A k \in i + 1 .. Len(lifecycle[id]) :
        LET r == lifecycle[id][k]
        IN  /\ r.type # "triggered"
            /\ r.type = "escalated" <=> k - i <= climbed[id]
            /\ r.type = "escalated" => r.rung = k - i /\ r.at - Of(id).born >= Ladder[k - i]

LadderInOrder ==
    \A id \in DOMAIN alertStore : \E i \in DOMAIN lifecycle[id] : ClimbsFrom(id, i)

\* What subscribers saw last is what the store says, also for an alert that was
\* acknowledged or resolved while its emit was still routing it.  Escalations
\* are not published, and an id used for two alerts is excepted: its emits
\* publish objects of their own.
EmittedOnce(id) == \A n, k \in DOMAIN objects : objects[n].id = id /\ objects[k].id = id => n = k

PublishedIsCurrent ==
    \A id \in DOMAIN published :
        EmittedOnce(id) /\ alertStore[id] \notin routing
        => published[id] = Of(id).status \/ Of(id).status = "escalated"

\* Alerts come no closer than their window, climb the ladder rung by rung while nobody has
\* acted, and subscribers are told their present status.
AlertsOrderly ==
    /\ AlertsTypeOK
    /\ SuppressionHolds
    /\ LadderInOrder
    /\ PublishedIsCurrent
=============================================================================
