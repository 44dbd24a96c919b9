---------------------------- MODULE MCRofConnRx ----------------------------
(* RofConnRx on small instances. *)
EXTENDS RofConnRx

CONSTANTS m1, m2

One(classes) == [msgs |-> {m1}, classes |-> classes, weight |-> 1, sessions |-> 1,
                 controller |-> FALSE, closes |-> FALSE, throws |-> FALSE]
\* Back pressure over two classes: turns change as often as possible.
Flow == One({QUEUE_MGMT, QUEUE_PKT})
\* Two messages of one class that can be told apart, in case they overtake.
Order == [One({QUEUE_PKT}) EXCEPT !.msgs = {m1, m2}]
\* A controller over two sessions whose handlers throw.
Sessions == [One({QUEUE_PKT}) EXCEPT !.weight = 2, !.sessions = 2, !.controller = TRUE,
                                     !.closes = TRUE, !.throws = TRUE]
MCScenarios == {Flow, Order, Sessions}

\* The situations of single claims: one class; the same for a controller, with
\* a second session, with a close, and two classes with a handler that throws.
Plain == {One({QUEUE_PKT})}
Negotiated == {[c EXCEPT !.controller = TRUE] : c \in Plain}
Restarted == {[c EXCEPT !.sessions = 2, !.closes = TRUE] : c \in Plain}
Closed == {[c EXCEPT !.closes = TRUE] : c \in Plain}
Thrown == {[One({QUEUE_MGMT, QUEUE_PKT}) EXCEPT !.throws = TRUE]}
=============================================================================
