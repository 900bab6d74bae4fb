---------------------------- MODULE ReportOutbox ----------------------------
(***************************************************************************)
(* What EpsService promises of its reports, with nothing of tables, passes *)
(* and goroutines: a message is sent only once it is due, an acceptance is *)
(* followed by another only if it was hidden from the sender, by an answer *)
(* that was lost, a failed update or a crash, and a message is closed only *)
(* on an acceptance the sender knows of, and then never sent again.        *)
(***************************************************************************)
EXTENDS Naturals

CONSTANT Messages

VARIABLES
  due,       \* the messages to be delivered
  accepted,  \* accepted[m]: how often the receiver accepted m
  hidden,    \* hidden[m]: the acceptances the sender does not know of
  closed     \* the messages that were delivered, as the sender knows

outboxVars == <<due, accepted, hidden, closed>>

OutboxInit == /\ due = {} /\ closed = {}
              /\ accepted = [m \in Messages |-> 0] /\ hidden = [m \in Messages |-> 0]

FallDue(m) == /\ due' = due \cup {m}
              /\ UNCHANGED <<accepted, hidden, closed>>

HideOne(m) == hidden' = [hidden EXCEPT ![m] = @ + 1]

\* All acceptances so far are hidden; so may this one be.
Deliver(m) == /\ m \in due \ closed
              /\ accepted[m] = hidden[m]
              /\ accepted' = [accepted EXCEPT ![m] = @ + 1]
              /\ UNCHANGED hidden \/ HideOne(m)
              /\ UNCHANGED <<due, closed>>

Hide(m) == /\ m \notin closed
           /\ accepted[m] > hidden[m]
           /\ HideOne(m)
           /\ UNCHANGED <<due, accepted, closed>>

Close(m) == /\ accepted[m] > hidden[m]
            /\ closed' = closed \cup {m}
            /\ UNCHANGED <<due, accepted, hidden>>

OutboxNext == \E m \in Messages : FallDue(m) \/ Deliver(m) \/ Hide(m) \/ Close(m)

OutboxSpec == OutboxInit /\ [][OutboxNext]_outboxVars
=============================================================================
