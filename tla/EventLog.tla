------------------------------ MODULE EventLog ------------------------------
(***************************************************************************)
(* What the event pipeline promises of one Session: one append-only log.   *)
(* The events of a Turn form one block, in Turn order, closed by exactly   *)
(* one terminal event, and every reader moves forward through that log.    *)
(* EventStream shows that spool, broker, projector and gateway implement *)
(* it.                                                                     *)
(***************************************************************************)
EXTENDS Naturals, Sequences

CONSTANTS Turns,      \* the Turns of the Session, 1..n in queue order
          Readers     \* the open browsers

VARIABLES log,        \* the accepted events
          position    \* how far each reader has got

Worker(t)   == [by |-> t, kind |-> "worker"]
Terminal(t) == [by |-> t, kind |-> "terminal"]

Occurs(e)  == \E i \in DOMAIN log : log[i] = e
Closed(t)  == Occurs(Terminal(t))

(* A Turn may add to the log only once every earlier Turn is closed (or    *)
(* never wrote anything and never will).                                   *)
Open(t) == /\ ~Closed(t)
           /\ \A i \in DOMAIN log : log[i].by <= t
           /\ \A u \in Turns : u < t /\ Occurs(Worker(u)) => Closed(u)

Init == /\ log = << >>
        /\ position = [r \in Readers |-> 0]

Accept(t) == /\ Open(t)
             /\ Len(log') > Len(log)
             /\ log' = [i \in 1..Len(log') |-> IF i \in DOMAIN log THEN log[i] ELSE Worker(t)]
             /\ UNCHANGED position

Close(t) == /\ Open(t)
            /\ log' = Append(log, Terminal(t))
            /\ UNCHANGED position

Observe(r) == /\ \E p \in position[r]..Len(log) :
                     position' = [position EXCEPT ![r] = p]
              /\ UNCHANGED log

Next == \/ \E t \in Turns : Accept(t) \/ Close(t)
        \/ \E r \in Readers : Observe(r)

Spec == Init /\ [][Next]_<<log, position>>
=============================================================================
