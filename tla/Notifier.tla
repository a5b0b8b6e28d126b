------------------------------- MODULE Notifier ------------------------------
(***************************************************************************)
(* notify.Router and the throttle around a receiver: the goroutines of all *)
(* chains send through one throttled value per receiver, whose mutex is    *)
(* held from reading the time to setting lastSent, not while the transport *)
(* works.                                                                  *)
(***************************************************************************)
EXTENDS Integers, Sequences, FiniteSets

CONSTANTS
    Sender,         \* the goroutines that call Router.SendEnv
    Receiver,       \* the receivers of the configuration
    MinInterval,    \* their throttle.min_interval; 0 for none
    Alert,          \* each is sent as firing and may be sent as reverted
    MaxFails,       \* bound: how many sends the transport refuses
    MaxClock        \* bound: how long the model runs

ASSUME NotifierAssumption ==
    /\ MinInterval \in [Receiver -> Nat]
    /\ {MaxFails, MaxClock} \subseteq Nat

VARIABLES
    clock,
    mu,         \* the sender that holds the mutex of a receiver
    lastSent,   \* throttled.lastSent, or Zero
    task,       \* where each sender is
    fails,      \* how many sends the transport refused
    called,     \* history: the notices each receiver was sent
    got,        \* history: the notices the transport took
    admitted,   \* history: when a notice passed the throttle
    dropped     \* history: the notices it dropped, and when

notifyVars == <<clock, mu, lastSent, task, fails, called, got, admitted, dropped>>

Zero    == -1
Nobody  == "nobody"
Notice  == Alert \X {"firing", "reverted"}
Out     == [at |-> "out"]

ASSUME SenderAssumption == Nobody \notin Sender

\* BuildRouter wraps a receiver only if its interval is positive.
Throttled(r) == MinInterval[r] > 0

NotifierInit ==
    /\ clock = 0
    /\ mu = [r \in Receiver |-> Nobody]
    /\ lastSent = [r \in Receiver |-> Zero]
    /\ task = [s \in Sender |-> Out]
    /\ fails = 0
    /\ called = [r \in Receiver |-> {}]
    /\ got = [r \in Receiver |-> {}]
    /\ admitted = [r \in Receiver |-> <<>>]
    /\ dropped = [r \in Receiver |-> {}]

Tick ==
    /\ clock < MaxClock
    /\ clock' = clock + 1
    /\ UNCHANGED <<mu, lastSent, task, fails, called, got, admitted, dropped>>

Returned(r, m) ==
    /\ m \in called[r]
    /\ ~ \E s \in Sender : task[s] # Out /\ task[s].r = r /\ task[s].m = m

\* Router.SendEnv.  main.go sends the reverted notice of an alert after the
\* firing one.
SendEnv(s, r, m) ==
    /\ task[s] = Out
    /\ m \notin called[r]
    /\ m[2] = "reverted" => Returned(r, <<m[1], "firing">>)
    /\ task' = [task EXCEPT ![s] =
                  [at |-> IF Throttled(r) THEN "lock" ELSE "inner", r |-> r, m |-> m, now |-> 0]]
    /\ called' = [called EXCEPT ![r] = @ \cup {m}]
    /\ UNCHANGED <<clock, mu, lastSent, fails, got, admitted, dropped>>

Lock(s) ==
    /\ task[s].at = "lock"
    /\ mu[task[s].r] = Nobody
    /\ mu' = [mu EXCEPT ![task[s].r] = s]
    /\ task' = [task EXCEPT ![s].at = "now"]
    /\ UNCHANGED <<clock, lastSent, fails, called, got, admitted, dropped>>

Now(s) ==
    /\ task[s].at = "now"
    /\ task' = [task EXCEPT ![s].at = "check", ![s].now = clock]
    /\ UNCHANGED <<clock, mu, lastSent, fails, called, got, admitted, dropped>>

TooSoon(s) ==
    /\ lastSent[task[s].r] # Zero
    /\ task[s].now - lastSent[task[s].r] < MinInterval[task[s].r]

\* Mutant: a dropped notice starts the interval again.
DropSliding(s) ==
    /\ task[s].at = "check"
    /\ TooSoon(s)
    /\ mu' = [mu EXCEPT ![task[s].r] = Nobody]
    /\ lastSent' = [lastSent EXCEPT ![task[s].r] = task[s].now]
    /\ dropped' = [dropped EXCEPT ![task[s].r] = @ \cup {<<task[s].m, task[s].now>>}]
    /\ task' = [task EXCEPT ![s] = Out]
    /\ UNCHANGED <<clock, fails, called, got, admitted>>

\* The caller is not told.
Drop(s) ==
    /\ task[s].at = "check"
    /\ TooSoon(s)
    /\ mu' = [mu EXCEPT ![task[s].r] = Nobody]
    /\ dropped' = [dropped EXCEPT ![task[s].r] = @ \cup {<<task[s].m, task[s].now>>}]
    /\ task' = [task EXCEPT ![s] = Out]
    /\ UNCHANGED <<clock, lastSent, fails, called, got, admitted>>

\* Mutant: the mutex is released before lastSent is set.
PassUnlocked(s) ==
    /\ task[s].at = "check"
    /\ ~TooSoon(s)
    /\ mu' = [mu EXCEPT ![task[s].r] = Nobody]
    /\ task' = [task EXCEPT ![s].at = "admit"]
    /\ UNCHANGED <<clock, lastSent, fails, called, got, admitted, dropped>>

Pass(s) ==
    /\ task[s].at = "check"
    /\ ~TooSoon(s)
    /\ task' = [task EXCEPT ![s].at = "admit"]
    /\ UNCHANGED <<clock, mu, lastSent, fails, called, got, admitted, dropped>>

\* Mutant: the mutex is kept until the transport is done.
AdmitHolding(s) ==
    /\ task[s].at = "admit"
    /\ lastSent' = [lastSent EXCEPT ![task[s].r] = task[s].now]
    /\ admitted' = [admitted EXCEPT ![task[s].r] = Append(@, task[s].now)]
    /\ task' = [task EXCEPT ![s].at = "inner"]
    /\ UNCHANGED <<clock, mu, fails, called, got, dropped>>

Admit(s) ==
    /\ task[s].at = "admit"
    /\ lastSent' = [lastSent EXCEPT ![task[s].r] = task[s].now]
    /\ mu' = [mu EXCEPT ![task[s].r] = Nobody]
    /\ admitted' = [admitted EXCEPT ![task[s].r] = Append(@, task[s].now)]
    /\ task' = [task EXCEPT ![s].at = "inner"]
    /\ UNCHANGED <<clock, fails, called, got, dropped>>

\* inner.SendEnv: the transport takes the message, or refuses it.  lastSent
\* stays as it is.
Inner(s) ==
    /\ task[s].at = "inner"
    /\ \/ /\ got' = [got EXCEPT ![task[s].r] = @ \cup {task[s].m}]
          /\ UNCHANGED fails
       \/ /\ fails < MaxFails
          /\ fails' = fails + 1
          /\ UNCHANGED got
    /\ task' = [task EXCEPT ![s] = Out]
    /\ UNCHANGED <<clock, mu, lastSent, called, admitted, dropped>>

InThrottle(s) == Lock(s) \/ Now(s) \/ Drop(s) \/ Pass(s) \/ Admit(s)

NotifierNext ==
    \/ Tick
    \/ \E s \in Sender : InThrottle(s) \/ Inner(s)
    \/ \E s \in Sender, r \in Receiver, m \in Notice : SendEnv(s, r, m)

\* A goroutine that can run does; nothing is said of the transport.
NotifierSpec ==
    NotifierInit /\ [][NotifierNext]_notifyVars /\ \A s \in Sender : WF_notifyVars(InThrottle(s))

------------------------------------------------------------------------------

\* Two notices that pass the throttle of a receiver are an interval apart,
\* whichever goroutines they come from (throttle_test.go: "expected 1 send
\* (second dropped)").
AdmittedApart ==
    \A r \in Receiver : \A i, j \in DOMAIN admitted[r] :
        i < j => admitted[r][j] - admitted[r][i] >= MinInterval[r]

\* A notice is dropped only within an interval of one that passed: a burst that
\* goes on does not silence a receiver.
DropsAreEarned ==
    \A r \in Receiver : \A d \in dropped[r] : \E i \in DOMAIN admitted[r] :
        d[2] - admitted[r][i] \in 0..(MinInterval[r] - 1)

\* A goroutine that waits for the throttle gets through it, although the
\* transport may never answer the one before.
NobodyWaitsForTheTransport ==
    \A s \in Sender : (task[s].at = "lock") ~> (task[s].at # "lock")
==============================================================================
