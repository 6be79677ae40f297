--------------------------- MODULE ActionLifecycle ---------------------------
(***************************************************************************)
(* What the light bulb promises about an action, whatever the action does  *)
(* to the lamp: it is accepted once, runs at most once, never at the same  *)
(* time as another action of its executor ("light" for Fade, On, Off and   *)
(* Blink, "power" for Toggle), never after it was cancelled while waiting; *)
(* its resource appears at most once and does not come back.               *)
(***************************************************************************)
CONSTANT Tasks

VARIABLES phase,    \* "absent", "accepted", "active" or "over"
          lane,     \* the executor that runs it
          visible   \* its resource: "never" seen, listed ("yes"), gone ("no")

avars == <<phase, lane, visible>>

AInit ==
  /\ phase = [t \in Tasks |-> "absent"]
  /\ lane = [t \in Tasks |-> "none"]
  /\ visible = [t \in Tasks |-> "never"]

Accept(t, l) ==
  /\ phase[t] = "absent"
  /\ phase' = [phase EXCEPT ![t] = "accepted"]
  /\ lane' = [lane EXCEPT ![t] = l]
  /\ UNCHANGED visible

Start(t) ==
  /\ phase[t] = "accepted"
  /\ \A u \in Tasks : lane[u] = lane[t] => phase[u] # "active"
  /\ phase' = [phase EXCEPT ![t] = "active"]
  /\ UNCHANGED <<lane, visible>>

\* A task that ends removes its resource, unless it is not listed or was
\* interrupted (the DELETE that interrupted it removes it).
End(t) ==
  /\ phase[t] = "active"
  /\ phase' = [phase EXCEPT ![t] = "over"]
  /\ \/ UNCHANGED visible
     \/ visible[t] = "yes" /\ visible' = [visible EXCEPT ![t] = "no"]
  /\ UNCHANGED lane

\* Only a resource that can be seen can be deleted.
Cancel(t) ==
  /\ phase[t] = "accepted" /\ visible[t] = "yes"
  /\ phase' = [phase EXCEPT ![t] = "over"]
  /\ UNCHANGED <<lane, visible>>

Publish(t) ==
  /\ phase[t] # "absent" /\ visible[t] = "never"
  /\ visible' = [visible EXCEPT ![t] = "yes"]
  /\ UNCHANGED <<phase, lane>>

Withdraw(t) ==
  /\ visible[t] = "yes"
  /\ visible' = [visible EXCEPT ![t] = "no"]
  /\ UNCHANGED <<phase, lane>>

ANext ==
  \E t \in Tasks :
    \/ \E l \in {"light", "power"} : Accept(t, l)
    \/ Start(t) \/ End(t) \/ Cancel(t) \/ Publish(t) \/ Withdraw(t)

ASpec == AInit /\ [][ANext]_avars
==============================================================================
