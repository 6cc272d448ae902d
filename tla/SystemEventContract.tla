-------------------------- MODULE SystemEventContract --------------------------
(***************************************************************************)
(* What h2_pal_system_event.h promises of subscriptions: a handler is      *)
(* called only while it is subscribed, and an external unsubscribe returns *)
(* only when no call of that subscription is left ("so handler_user can    *)
(* then be freed").  Subscriptions are numbered in the order they are made.*)
(***************************************************************************)
EXTENDS Naturals

CONSTANTS Callers,   \* places a call can be in: a thread and a nesting depth
          MaxSubs    \* bound on the subscriptions made

Subs == 1 .. MaxSubs

VARIABLES made,    \* number of subscriptions made
          live,    \* subscriptions that may be called
          done,    \* subscriptions whose external unsubscribe has returned
          call     \* per caller: the subscription being called, or 0

cvars == <<made, live, done, call>>

CInit ==
  /\ made = 0 /\ live = {} /\ done = {}
  /\ call = [c \in Callers |-> 0]

CSubscribe ==
  /\ made' = made + 1 /\ live' = live \cup {made + 1}
  /\ UNCHANGED <<done, call>>

CCall(c) ==
  /\ \E g \in live : call' = [call EXCEPT ![c] = g]
  /\ call[c] = 0
  /\ UNCHANGED <<made, live, done>>

CReturn(c) ==
  /\ call[c] # 0
  /\ call' = [call EXCEPT ![c] = 0]
  /\ UNCHANGED <<made, live, done>>

(* unsubscribe stops admission; an external one that finds no call in      *)
(* flight returns at once.                                                 *)
Quiet(g) == \A c \in Callers : call[c] # g

CStop(g) ==
  /\ g \in live
  /\ live' = live \ {g}
  /\ \/ UNCHANGED done
     \/ Quiet(g) /\ done' = done \cup {g}
  /\ UNCHANGED <<made, call>>

CUnsubscribed(g) ==
  /\ g \in 1 .. made /\ g \notin live /\ g \notin done
  /\ Quiet(g)
  /\ done' = done \cup {g}
  /\ UNCHANGED <<made, live, call>>

(* deinit ends every subscription that is left, when nothing is called.    *)
CDeinit ==
  /\ \A g \in live : Quiet(g)
  /\ live' = {}
  /\ UNCHANGED <<made, done, call>>

CNext ==
  \/ CSubscribe \/ CDeinit
  \/ \E c \in Callers : CCall(c) \/ CReturn(c)
  \/ \E g \in Subs : CStop(g) \/ CUnsubscribed(g)

CSpec == CInit /\ [][CNext]_cvars

(* After an external unsubscribe has returned its handler is not running,  *)
(* and never will be.                                                      *)
NoCallAfterDone ==
  /\ live \cap done = {}
  /\ \A c \in Callers : call[c] \notin done
=============================================================================
