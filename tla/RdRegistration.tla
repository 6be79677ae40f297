--------------------------- MODULE RdRegistration ---------------------------
(***************************************************************************)
(* How the device servers of a Java process stay in the resource directory *)
(* (utils.devices, DeviceServer.java).  A server looks for the directory   *)
(* once, registers once, and then POSTs to the location it was given every *)
(* RD_LIFETIME seconds, whatever the directory answers.                    *)
(*                                                                         *)
(* All servers share one timer thread, tasks.  Discovery and refresh block *)
(* it until there is an answer or the client's timeout is over.  The       *)
(* registration is an asynchronous request, which that timeout does not    *)
(* concern: its answer, or the end of the retransmissions without one,     *)
(* comes at any later time on a thread of the server.  Requests and        *)
(* answers can be lost; the directory, which is external, drops an entry   *)
(* that is not refreshed in time and forgets all of them when it restarts. *)
(* Time is counted in steps of as many seconds as one likes.               *)
(***************************************************************************)
EXTENDS Integers, FiniteSets

CONSTANTS Servers,      \* the DeviceServers of the process
          Delay,        \* from the constructor to registerSelf, 1 s
          Lifetime,     \* RD_LIFETIME, 20 s
          Timeout,      \* setTimeout, 5 s, of the requests that a thread waits for
          Minimum,      \* the lifetime that the directory grants, 60 s
          Stagger,      \* a bound on the time between two constructors
          MaxRestarts,  \* a bound on the directory's restarts
          MaxCount,     \* where lost stops counting
          Never

ASSUME RegistrationAssumption ==
  /\ IsFiniteSet(Servers)
  /\ Delay \in Nat /\ Stagger \in Nat /\ MaxRestarts \in Nat
  /\ MaxCount \in Nat \ {0, 1}
  /\ Lifetime \in Nat \ {0} /\ Timeout \in Nat \ {0} /\ Minimum \in Nat
  /\ Lifetime <= Minimum
  /\ Never \notin Int

VARIABLES
  due,        \* per server, the steps until its task of tasks is due, negative
              \* when it is late, or Never
  handle,     \* rdHandle: "null", "entry", or "root" when the answer had no
              \* Location-Path
  worker,     \* what the timer thread waits for
  post,       \* the registration under way: "none", "sent", "granted", "refused"
  entry,      \* the steps until the directory drops the entry, 0 for no entry
  lost,       \* history: refreshes in a row that did not reach the directory
  spent,      \* history: what of the entry's first lifetime had passed when the
              \* answer to the registration came, 0 once the entry is refreshed
  restarts

vars == <<due, handle, worker, post, entry, lost, spent, restarts>>

Idle == [for |-> "nothing", at |-> "idle"]
\* Mutant: the client's default timeout, twice as long.
WaitsLonger(s, task) == [for |-> task, server |-> s, at |-> "sent", left |-> 2 * Timeout]

\* A request was sent, and the thread waits for its answer.
Waits(s, task) == [for |-> task, server |-> s, at |-> "sent", left |-> Timeout]
Handles == {"null", "entry", "root"}
Counted(n) == IF n < MaxCount THEN n + 1 ELSE n

Init ==
  /\ due \in [Servers -> Delay..(Delay + Stagger)]
  /\ handle = [s \in Servers |-> "null"]
  /\ worker = Idle
  /\ post = [s \in Servers |-> "none"]
  /\ entry = [s \in Servers |-> 0]
  /\ lost = [s \in Servers |-> 0] /\ spent = [s \in Servers |-> 0]
  /\ restarts = 0

-----------------------------------------------------------------------------
\* The timer thread takes the task that is due for longest: registerSelf, which
\* asks for the directory, or the refresh, which repeats at a fixed rate.
Scheduled == {s \in Servers : due[s] # Never}
Ready     == {s \in Scheduled : due[s] <= 0}
First(s)  == s \in Ready /\ \A r \in Ready : due[s] <= due[r]

Discover(s) ==
  /\ worker = Idle /\ First(s) /\ handle[s] = "null"
  /\ worker' = Waits(s, "discover")
  /\ due' = [due EXCEPT ![s] = Never]
  /\ UNCHANGED <<handle, post, entry, lost, spent, restarts>>

Refresh(s) ==
  /\ worker = Idle /\ First(s) /\ handle[s] # "null"
  /\ worker' = Waits(s, "refresh")
  /\ due' = [due EXCEPT ![s] = @ + Lifetime]
  /\ UNCHANGED <<handle, post, entry, lost, spent, restarts>>

\* registerSelf goes on: without a directory, after a timeout as well, it is over.
Found ==
  /\ worker.for = "discover"
  /\ worker' = Idle
  /\ post' = [post EXCEPT ![worker.server] = "sent"]
  /\ UNCHANGED <<due, handle, entry, lost, spent, restarts>>

NotFound ==
  /\ worker.for = "discover"
  /\ worker' = Idle
  /\ UNCHANGED <<due, handle, post, entry, lost, spent, restarts>>

\* onLoad, for every answer; onError, when the answer was lost for good or never
\* sent.  Neither is bound to a time.
OnLoad(s) ==
  /\ post[s] \in {"granted", "refused"}
  /\ handle' = [handle EXCEPT ![s] = IF post[s] = "granted" THEN "entry" ELSE "root"]
  /\ due' = [due EXCEPT ![s] = Lifetime]
  /\ post' = [post EXCEPT ![s] = "none"]
  /\ spent' = [spent EXCEPT ![s] = Minimum - entry[s]]
  /\ UNCHANGED <<worker, entry, lost, restarts>>

OnError(s) ==
  /\ post[s] # "none"
  /\ post' = [post EXCEPT ![s] = "none"]
  /\ UNCHANGED <<due, handle, worker, entry, lost, spent, restarts>>

\* Mutant: a refresh that timed out is the last one.
RefreshTimesOutForGood ==
  /\ worker.for = "refresh" /\ worker.left = 0
  /\ worker' = Idle
  /\ due' = [due EXCEPT ![worker.server] = Never]
  /\ lost' = [lost EXCEPT ![worker.server] = IF worker.at = "sent" THEN Counted(@) ELSE @]
  /\ UNCHANGED <<handle, post, entry, spent, restarts>>

\* client.post returns: with an answer, which nobody looks at, or without.
RefreshTimesOut ==
  /\ worker.for = "refresh" /\ worker.left = 0
  /\ worker' = Idle
  /\ lost' = [lost EXCEPT ![worker.server] = IF worker.at = "sent" THEN Counted(@) ELSE @]
  /\ UNCHANGED <<due, handle, post, entry, spent, restarts>>

RefreshReturns ==
  /\ worker.for = "refresh" /\ worker.at = "answered"
  /\ worker' = Idle
  /\ UNCHANGED <<due, handle, post, entry, lost, spent, restarts>>

-----------------------------------------------------------------------------
\* The directory.  It knows an entry's location as long as there is the entry.
Grants(s) ==
  /\ post[s] = "sent"
  /\ post' = [post EXCEPT ![s] = "granted"]
  /\ entry' = [entry EXCEPT ![s] = Minimum]
  /\ UNCHANGED <<due, handle, worker, lost, spent, restarts>>

Refuses(s) ==
  /\ post[s] = "sent"
  /\ post' = [post EXCEPT ![s] = "refused"]
  /\ UNCHANGED <<due, handle, worker, entry, lost, spent, restarts>>

Refreshed ==
  /\ worker.for = "refresh" /\ worker.at = "sent"
  /\ LET s == worker.server
     IN /\ entry' = [entry EXCEPT ![s] =
                       IF handle[s] = "entry" /\ @ > 0 THEN Minimum ELSE @]
        /\ spent' = [spent EXCEPT ![s] =
                       IF handle[s] = "entry" /\ entry[s] > 0 THEN 0 ELSE @]
        /\ lost' = [lost EXCEPT ![s] = 0]
  /\ worker' = [worker EXCEPT !.at = "answered"]
  /\ UNCHANGED <<due, handle, post, restarts>>

Restart ==
  /\ restarts < MaxRestarts
  /\ restarts' = restarts + 1
  /\ entry' = [s \in Servers |-> 0]
  /\ UNCHANGED <<due, handle, worker, post, lost, spent>>

\* Time passes, unless a thread has something to do at once.
Tick ==
  /\ worker = Idle => Ready = {}
  /\ worker # Idle => worker.left > 0
  /\ due' = [s \in Servers |-> IF s \in Scheduled THEN due[s] - 1 ELSE Never]
  /\ worker' = IF worker = Idle THEN Idle ELSE [worker EXCEPT !.left = @ - 1]
  /\ entry' = [s \in Servers |-> IF entry[s] > 0 THEN entry[s] - 1 ELSE 0]
  /\ UNCHANGED <<handle, post, lost, spent, restarts>>

Thread == (\E s \in Servers : Discover(s) \/ Refresh(s))
            \/ Found \/ NotFound \/ RefreshTimesOut \/ RefreshReturns
Answer == \E s \in Servers : OnLoad(s) \/ OnError(s)
Directory == (\E s \in Servers : Grants(s) \/ Refuses(s)) \/ Refreshed \/ Restart

Next == Thread \/ Answer \/ Directory \/ Tick

\* The threads run, and time goes on.
Fairness == WF_vars(Thread) /\ WF_vars(Answer) /\ WF_vars(Tick)
Spec == Init /\ [][Next]_vars /\ Fairness

-----------------------------------------------------------------------------
\* The values each variable takes.
TypeOK ==
  /\ due \in [Servers -> Int \union {Never}]
  /\ handle \in [Servers -> Handles]
  /\ worker = Idle \/ worker \in [for : {"discover", "refresh"}, server : Servers,
                                  at : {"sent", "answered"}, left : 0..Timeout]
  /\ post \in [Servers -> {"none", "sent", "granted", "refused"}]
  /\ entry \in [Servers -> 0..Minimum]
  /\ lost \in [Servers -> 0..MaxCount] /\ spent \in [Servers -> 0..Minimum]
  /\ restarts \in 0..MaxRestarts

\* The longest that a refresh may take to arrive after n lost ones: their periods,
\* and one timeout per server that the shared thread waits for.
Worst(n) == (n + 1) * Lifetime + Timeout * Cardinality(Servers)

\* One refresh may be lost: the directory drops the entry of a server that
\* refreshes it only after two refreshes in a row did not arrive, although other
\* servers keep the timer thread waiting (RD_LIFETIME against the minimum that
\* its comment names), or after a restart.  Only before the first refresh arrives
\* is less enough: the refreshes are counted from the answer to the registration
\* (onLoad), and a late answer has spent so much of the lifetime that what is left
\* of it does not cover the refreshes that were lost.
OneLossTolerated ==
  [][\A s \in Servers :
       entry[s] > 0 /\ entry'[s] = 0 /\ handle[s] = "entry" /\ restarts' = restarts
         => lost[s] > 1 \/ spent[s] + Worst(lost[s]) >= Minimum]_vars

\* The shared timer thread keeps up: no task waits for longer than each of the
\* others takes when none of them is answered.
KeepsUp ==
  \A s \in Scheduled : due[s] >= -(Timeout * (Cardinality(Servers) - 1))

\* A server that has an answer to its registration POSTs to its handle for ever.
RefreshesForEver ==
  \A s \in Servers :
    (handle[s] # "null") ~> []<>(worker.for = "refresh" /\ worker.server = s)
=============================================================================
