--------------------------- MODULE NotifierProofs ----------------------------
(***************************************************************************)
(* The throttle of notify.throttled, for any number of goroutines and      *)
(* receivers, every interval and every interleaving: because the mutex is  *)
(* held from reading the time to setting lastSent, the sends that pass are *)
(* an interval apart, and only a send within an interval of one that       *)
(* passed is dropped.                                                      *)
(***************************************************************************)
EXTENDS Notifier, TLAPS

\* The stages in which a sender holds the mutex of its receiver.
Holds(s) == task[s].at \in {"now", "check", "admit"}

Working == [at : {"lock", "now", "check", "admit", "inner"}, r : Receiver, m : Notice, now : Nat]

NotifierTypeOK ==
    /\ clock \in Nat
    /\ mu \in [Receiver -> Sender \cup {Nobody}]
    /\ lastSent \in [Receiver -> Nat \cup {Zero}]
    /\ task \in [Sender -> Working \cup {Out}]
    /\ admitted \in [Receiver -> Seq(Nat)]
    /\ DOMAIN dropped = Receiver

\* The mutex of a receiver is held by the sender that is inside.
MutexInv == \A s \in Sender : Holds(s) => mu[task[s].r] = s

\* lastSent is the time of the last notice that passed.
LastInv ==
    \A r \in Receiver :
        /\ lastSent[r] = Zero => admitted[r] = <<>>
        /\ lastSent[r] # Zero => /\ lastSent[r] <= clock
                                 /\ \E i \in DOMAIN admitted[r] : admitted[r][i] = lastSent[r]
        /\ \A i \in DOMAIN admitted[r] : admitted[r][i] <= lastSent[r]

\* The time a sender read under the mutex is not before lastSent, and what the
\* sender found out about the two still holds when it acts on it.
TimeInv ==
    \A s \in Sender :
        /\ task[s].at \in {"check", "admit"} =>
             task[s].now <= clock /\ lastSent[task[s].r] <= task[s].now
        /\ task[s].at = "admit" => ~TooSoon(s)

NotifierInv ==
    /\ NotifierTypeOK
    /\ MutexInv
    /\ LastInv
    /\ TimeInv
    /\ AdmittedApart
    /\ DropsAreEarned

\* Appending to a sequence of times.
LEMMA AppendFacts ==
    ASSUME NEW q \in Seq(Nat), NEW x \in Nat
    PROVE  /\ Append(q, x) \in Seq(Nat)
           /\ DOMAIN q = 1..Len(q) /\ Len(q) \in Nat
           /\ DOMAIN Append(q, x) = 1..(Len(q) + 1)
           /\ \A i \in 1..Len(q) : Append(q, x)[i] = q[i] /\ q[i] \in Nat
           /\ Append(q, x)[Len(q) + 1] = x
  OBVIOUS

\* A working sender is not out, and has its fields.
LEMMA WorkingFacts ==
    ASSUME NotifierTypeOK, NEW s \in Sender
    PROVE  /\ task[s].at # "out" => task[s] \in Working
           /\ Holds(s) => task[s] \in Working
  <1>1. Out.at = "out"
    BY DEF Out
  <1>. QED BY <1>1 DEF NotifierTypeOK, Holds

LEMMA NotifierStart == NotifierInit => NotifierInv
  <1> SUFFICES ASSUME NotifierInit PROVE NotifierInv
    OBVIOUS
  <1>1. Out.at = "out"
    BY DEF Out
  <1>2. \A s \in Sender : task[s].at = "out"
    BY <1>1 DEF NotifierInit
  <1>3. NotifierTypeOK
    BY DEF NotifierInit, NotifierTypeOK
  <1>4. \A r \in Receiver : admitted[r] = <<>> /\ DOMAIN admitted[r] = {} /\ lastSent[r] = Zero
                            /\ dropped[r] = {}
    BY DEF NotifierInit
  <1>. QED
    BY <1>2, <1>3, <1>4
       DEF NotifierInv, MutexInv, LastInv, TimeInv, AdmittedApart, DropsAreEarned, Holds

\* Every other sender stays where it is.
OthersStay(s) == \A q \in Sender \ {s} : task'[q] = task[q]

\* A sender that moves on to stage "at" with the time "now".
MovesTo(s, at, now) ==
    /\ task'[s] \in Working /\ OthersStay(s)
    /\ task'[s].at = at /\ task'[s].r = task[s].r /\ task'[s].m = task[s].m
    /\ task'[s].now = now

LEMMA MoveFacts ==
    ASSUME NotifierTypeOK, NEW s \in Sender, task[s] \in Working,
           NEW at \in {"lock", "now", "check", "admit", "inner"}
    PROVE  /\ task' = [task EXCEPT ![s].at = at] =>
                MovesTo(s, at, task[s].now) /\ task' \in [Sender -> Working \cup {Out}]
           /\ task' = [task EXCEPT ![s].at = at, ![s].now = clock] =>
                MovesTo(s, at, clock) /\ task' \in [Sender -> Working \cup {Out}]
  <1>1. ASSUME task' = [task EXCEPT ![s].at = at]
        PROVE  MovesTo(s, at, task[s].now) /\ task' \in [Sender -> Working \cup {Out}]
    <2>1. task'[s] = [task[s] EXCEPT !.at = at] /\ OthersStay(s) /\ DOMAIN task' = Sender
      BY <1>1 DEF NotifierTypeOK, OthersStay
    <2>. QED BY <1>1, <2>1 DEF NotifierTypeOK, MovesTo, Working
  <1>2. ASSUME task' = [task EXCEPT ![s].at = at, ![s].now = clock]
        PROVE  MovesTo(s, at, clock) /\ task' \in [Sender -> Working \cup {Out}]
    <2>1. /\ task'[s] = [task[s] EXCEPT !.at = at, !.now = clock] /\ OthersStay(s)
          /\ DOMAIN task' = Sender
      BY <1>2 DEF NotifierTypeOK, OthersStay
    <2>. QED BY <1>2, <2>1 DEF NotifierTypeOK, MovesTo, Working
  <1>. QED BY <1>1, <1>2

\* Two senders are never inside the throttle of one receiver.
LEMMA HoldersDiffer ==
    ASSUME MutexInv, NEW s \in Sender, NEW q \in Sender, Holds(s), Holds(q), q # s
    PROVE  task[q].r # task[s].r
  BY DEF MutexInv

\* Reading the time and comparing it: nothing but the sender moves.
LEMMA QuietKeepsInv ==
    ASSUME NotifierInv, NEW s \in Sender, Now(s) \/ Pass(s)
    PROVE  NotifierInv'
  <1>0. /\ NotifierTypeOK /\ MutexInv /\ LastInv /\ TimeInv /\ AdmittedApart /\ DropsAreEarned
    BY DEF NotifierInv
  <1>1. /\ task[s] \in Working /\ Holds(s)
        /\ clock' = clock /\ mu' = mu /\ lastSent' = lastSent
        /\ admitted' = admitted /\ dropped' = dropped
    BY <1>0, WorkingFacts DEF Now, Pass, Holds
  <1>2. /\ task' \in [Sender -> Working \cup {Out}] /\ OthersStay(s)
        /\ \/ MovesTo(s, "check", clock)
           \/ MovesTo(s, "admit", task[s].now) /\ task[s].at = "check" /\ ~TooSoon(s)
    BY <1>0, <1>1, MoveFacts DEF Now, Pass, MovesTo
  <1>3. /\ task'[s].r = task[s].r /\ task'[s].at \in {"check", "admit"}
        /\ task[s].r \in Receiver /\ task[s].now \in Nat
    BY <1>1, <1>2 DEF MovesTo, Working
  <1>4. NotifierTypeOK'
    BY <1>0, <1>1, <1>2 DEF NotifierTypeOK
  <1>5. MutexInv'
    BY <1>0, <1>1, <1>2, <1>3 DEF MutexInv, Holds, OthersStay
  <1>6. LastInv' /\ AdmittedApart' /\ DropsAreEarned'
    BY <1>0, <1>1 DEF LastInv, AdmittedApart, DropsAreEarned
  <1>7. TimeInv'
    <2>1. lastSent[task[s].r] <= clock
      <3>1. lastSent[task[s].r] # Zero => lastSent[task[s].r] <= clock
        BY <1>0, <1>3 DEF LastInv
      <3>. QED BY <1>0, <3>1 DEF NotifierTypeOK, Zero
    <2>2. /\ task'[s].now <= clock /\ lastSent[task[s].r] <= task'[s].now
          /\ task'[s].at = "admit" => ~TooSoon(s)'
      BY <1>0, <1>1, <1>2, <1>3, <2>1 DEF MovesTo, TimeInv, TooSoon, NotifierTypeOK
    <2>3. \A q \in Sender \ {s} : TooSoon(q)' = TooSoon(q)
      BY <1>1, <1>2 DEF OthersStay, TooSoon
    <2>. QED BY <1>0, <1>1, <1>2, <1>3, <2>2, <2>3 DEF TimeInv, OthersStay
  <1>. QED BY <1>4, <1>5, <1>6, <1>7 DEF NotifierInv

\* A sender that is not about to act on the time leaves TimeInv alone.
LEMMA OutsideKeepsTime ==
    ASSUME TimeInv, NEW s \in Sender, OthersStay(s), task'[s].at \notin {"check", "admit"},
           clock' = clock, lastSent' = lastSent
    PROVE  TimeInv'
  <1>1. \A q \in Sender \ {s} : TooSoon(q)' = TooSoon(q)
    BY DEF OthersStay, TooSoon
  <1>. QED BY <1>1 DEF TimeInv, OthersStay

\* Entering, taking the mutex, and the transport.
LEMMA OutsideKeepsInv ==
    ASSUME NotifierInv, NEW s \in Sender,
           \/ Lock(s) \/ Inner(s)
           \/ \E r \in Receiver, m \in Notice : SendEnv(s, r, m)
    PROVE  NotifierInv'
  <1>0. /\ NotifierTypeOK /\ MutexInv /\ LastInv /\ TimeInv /\ AdmittedApart /\ DropsAreEarned
    BY DEF NotifierInv
  <1>1. /\ clock' = clock /\ lastSent' = lastSent /\ admitted' = admitted /\ dropped' = dropped
    BY DEF Lock, Inner, SendEnv
  <1>2. LastInv' /\ AdmittedApart' /\ DropsAreEarned'
    BY <1>0, <1>1 DEF LastInv, AdmittedApart, DropsAreEarned
  <1>3. Out.at = "out"
    BY DEF Out
  <1>4. ASSUME Lock(s)
        PROVE  /\ NotifierTypeOK' /\ MutexInv'
               /\ OthersStay(s) /\ task'[s].at \notin {"check", "admit"}
    <2>1. /\ task[s] \in Working /\ mu[task[s].r] = Nobody /\ mu' = [mu EXCEPT ![task[s].r] = s]
          /\ task' = [task EXCEPT ![s].at = "now"] /\ task[s].r \in Receiver
      BY <1>0, <1>4, WorkingFacts DEF Lock, Working
    <2>2. MovesTo(s, "now", task[s].now) /\ task' \in [Sender -> Working \cup {Out}]
      BY <1>0, <2>1, MoveFacts
    <2>3. NotifierTypeOK'
      BY <1>0, <1>1, <2>1, <2>2 DEF NotifierTypeOK
    <2>4. ASSUME NEW q \in Sender, q # s, Holds(q) PROVE mu'[task[q].r] = q
      <3>1. mu[task[q].r] = q /\ q # Nobody /\ task[q].r \in Receiver
        BY <1>0, <2>4, SenderAssumption, WorkingFacts DEF MutexInv, Working
      <3>. QED BY <1>0, <2>1, <3>1 DEF NotifierTypeOK
    <2>5. mu'[task[s].r] = s
      BY <1>0, <2>1 DEF NotifierTypeOK
    <2>6. MutexInv'
      BY <2>2, <2>4, <2>5 DEF MutexInv, Holds, MovesTo, OthersStay
    <2>. QED BY <2>2, <2>3, <2>6 DEF MovesTo
  <1>5. ASSUME Inner(s)
        PROVE  /\ NotifierTypeOK' /\ MutexInv'
               /\ OthersStay(s) /\ task'[s].at \notin {"check", "admit"}
    <2>1. task' = [task EXCEPT ![s] = Out] /\ mu' = mu
      BY <1>5 DEF Inner
    <2>2. task'[s] = Out /\ OthersStay(s) /\ task' \in [Sender -> Working \cup {Out}]
      BY <1>0, <2>1 DEF NotifierTypeOK, OthersStay
    <2>3. NotifierTypeOK'
      BY <1>0, <1>1, <2>1, <2>2 DEF NotifierTypeOK
    <2>4. MutexInv'
      BY <1>0, <1>3, <2>1, <2>2 DEF MutexInv, Holds, OthersStay
    <2>. QED BY <1>3, <2>2, <2>3, <2>4
  <1>6. ASSUME NEW r \in Receiver, NEW m \in Notice, SendEnv(s, r, m)
        PROVE  /\ NotifierTypeOK' /\ MutexInv'
               /\ OthersStay(s) /\ task'[s].at \notin {"check", "admit"}
    <2> DEFINE new == [at |-> IF Throttled(r) THEN "lock" ELSE "inner", r |-> r, m |-> m, now |-> 0]
    <2>1. task' = [task EXCEPT ![s] = new] /\ mu' = mu
      BY <1>6 DEF SendEnv
    <2>2. new \in Working /\ new.at \in {"lock", "inner"}
      BY DEF Working
    <2>. HIDE DEF new
    <2>3. task'[s] = new /\ OthersStay(s) /\ task' \in [Sender -> Working \cup {Out}]
      BY <1>0, <2>1, <2>2 DEF NotifierTypeOK, OthersStay
    <2>4. NotifierTypeOK'
      BY <1>0, <1>1, <2>1, <2>3 DEF NotifierTypeOK
    <2>5. MutexInv'
      BY <1>0, <2>1, <2>2, <2>3 DEF MutexInv, Holds, OthersStay
    <2>. QED BY <2>2, <2>3, <2>4, <2>5
  <1>7. /\ NotifierTypeOK' /\ MutexInv'
        /\ OthersStay(s) /\ task'[s].at \notin {"check", "admit"}
    BY <1>4, <1>5, <1>6
  <1>8. TimeInv'
    BY <1>0, <1>1, <1>7, OutsideKeepsTime
  <1>. QED BY <1>2, <1>7, <1>8 DEF NotifierInv

\* Giving the mutex back: the sender was the only one inside.
LEMMA UnlockKeepsMutex ==
    ASSUME NotifierTypeOK, MutexInv, NEW s \in Sender, Holds(s), OthersStay(s),
           mu' = [mu EXCEPT ![task[s].r] = Nobody],
           task'[s].at \notin {"now", "check", "admit"}
    PROVE  MutexInv' /\ mu' \in [Receiver -> Sender \cup {Nobody}]
  <1>1. task[s].r \in Receiver
    BY WorkingFacts DEF Working
  <1>2. ASSUME NEW q \in Sender, q # s, Holds(q) PROVE mu'[task[q].r] = q
    <2>1. task[q].r # task[s].r /\ mu[task[q].r] = q /\ task[q].r \in Receiver
      BY <1>2, HoldersDiffer, WorkingFacts DEF MutexInv, Working
    <2>. QED BY <2>1 DEF NotifierTypeOK
  <1>3. MutexInv'
    BY <1>2 DEF MutexInv, Holds, OthersStay
  <1>. QED BY <1>1, <1>3 DEF NotifierTypeOK

\* throttled.SendEnv returns nil: the notice is dropped.
LEMMA DropKeepsInv ==
    ASSUME NotifierInv, NEW s \in Sender, Drop(s)
    PROVE  NotifierInv'
  <1>0. /\ NotifierTypeOK /\ MutexInv /\ LastInv /\ TimeInv /\ AdmittedApart /\ DropsAreEarned
    BY DEF NotifierInv
  <1> DEFINE r == task[s].r
             t == task[s].now
  <1>1. /\ task[s] \in Working /\ Holds(s) /\ task[s].at = "check" /\ r \in Receiver /\ t \in Nat
        /\ clock' = clock /\ lastSent' = lastSent /\ admitted' = admitted
        /\ mu' = [mu EXCEPT ![r] = Nobody] /\ task' = [task EXCEPT ![s] = Out]
        /\ dropped' = [dropped EXCEPT ![r] = @ \cup {<<task[s].m, t>>}]
    BY <1>0, WorkingFacts DEF Drop, Holds, Working
  <1>2. Out.at = "out"
    BY DEF Out
  <1>3. task'[s] = Out /\ OthersStay(s) /\ task' \in [Sender -> Working \cup {Out}]
    BY <1>0, <1>1 DEF NotifierTypeOK, OthersStay
  <1>4. MutexInv' /\ mu' \in [Receiver -> Sender \cup {Nobody}]
    BY <1>0, <1>1, <1>2, <1>3, UnlockKeepsMutex
  <1>5. NotifierTypeOK'
    BY <1>0, <1>1, <1>3, <1>4 DEF NotifierTypeOK
  <1>6. LastInv' /\ AdmittedApart'
    BY <1>0, <1>1 DEF LastInv, AdmittedApart
  <1>7. TimeInv'
    BY <1>0, <1>1, <1>2, <1>3, OutsideKeepsTime
  <1>8. \E i \in DOMAIN admitted[r] : t - admitted[r][i] \in 0..(MinInterval[r] - 1)
    <2>1. lastSent[r] # Zero /\ t - lastSent[r] < MinInterval[r] /\ lastSent[r] <= t
      BY <1>0, <1>1 DEF Drop, TooSoon, TimeInv
    <2>2. lastSent[r] \in Nat /\ MinInterval[r] \in Nat
      BY <1>0, <1>1, <2>1, NotifierAssumption DEF NotifierTypeOK
    <2>3. PICK i \in DOMAIN admitted[r] : admitted[r][i] = lastSent[r]
      BY <1>0, <1>1, <2>1 DEF LastInv
    <2>. QED BY <1>1, <2>1, <2>2, <2>3
  <1>9. DropsAreEarned'
    <2> SUFFICES ASSUME NEW p \in Receiver, NEW d \in dropped'[p]
                 PROVE  \E i \in DOMAIN admitted[p] :
                          d[2] - admitted[p][i] \in 0..(MinInterval[p] - 1)
      BY <1>1 DEF DropsAreEarned
    <2>1. d \in dropped[p] \/ (p = r /\ d = <<task[s].m, t>>)
      BY <1>0, <1>1 DEF NotifierTypeOK
    <2>. QED BY <1>0, <1>8, <2>1 DEF DropsAreEarned
  <1>. QED BY <1>4, <1>5, <1>6, <1>7, <1>9 DEF NotifierInv

\* The notice passes: lastSent is set and the mutex given back.
LEMMA AdmitKeepsInv ==
    ASSUME NotifierInv, NEW s \in Sender, Admit(s)
    PROVE  NotifierInv'
  <1>0. /\ NotifierTypeOK /\ MutexInv /\ LastInv /\ TimeInv /\ AdmittedApart /\ DropsAreEarned
    BY DEF NotifierInv
  <1> DEFINE r == task[s].r
             t == task[s].now
             q0 == admitted[r]
             q1 == Append(q0, t)
  <1>1. /\ task[s] \in Working /\ Holds(s) /\ task[s].at = "admit" /\ r \in Receiver /\ t \in Nat
        /\ clock' = clock /\ dropped' = dropped
        /\ lastSent' = [lastSent EXCEPT ![r] = t]
        /\ mu' = [mu EXCEPT ![r] = Nobody] /\ task' = [task EXCEPT ![s].at = "inner"]
        /\ admitted' = [admitted EXCEPT ![r] = q1]
    BY <1>0, WorkingFacts DEF Admit, Holds, Working
  <1>2. MovesTo(s, "inner", t) /\ task' \in [Sender -> Working \cup {Out}]
    BY <1>0, <1>1, MoveFacts
  <1>3. MutexInv' /\ mu' \in [Receiver -> Sender \cup {Nobody}]
    BY <1>0, <1>1, <1>2, UnlockKeepsMutex DEF MovesTo
  <1>4. q0 \in Seq(Nat) /\ MinInterval[r] \in Nat /\ clock \in Nat
    BY <1>0, <1>1, NotifierAssumption DEF NotifierTypeOK
  <1>5. /\ q1 \in Seq(Nat) /\ DOMAIN q0 = 1..Len(q0) /\ Len(q0) \in Nat
        /\ DOMAIN q1 = 1..(Len(q0) + 1)
        /\ \A i \in 1..Len(q0) : q1[i] = q0[i] /\ q0[i] \in Nat
        /\ q1[Len(q0) + 1] = t
    BY <1>1, <1>4, AppendFacts
  <1>6. /\ t <= clock /\ lastSent[r] <= t
        /\ lastSent[r] = Zero \/ t - lastSent[r] >= MinInterval[r]
        /\ lastSent[r] \in Nat \cup {Zero}
    BY <1>0, <1>1, <1>4 DEF TimeInv, TooSoon, NotifierTypeOK, Zero
  <1>7. /\ lastSent[r] = Zero => q0 = <<>>
        /\ \A i \in DOMAIN q0 : q0[i] <= lastSent[r]
    BY <1>0, <1>1 DEF LastInv
  <1>8. \A i \in 1..Len(q0) : t - q0[i] >= MinInterval[r] /\ q0[i] <= t
    <2>1. CASE lastSent[r] = Zero
      BY <1>5, <1>7, <2>1
    <2>2. CASE lastSent[r] # Zero
      <3>1. lastSent[r] \in Nat /\ t - lastSent[r] >= MinInterval[r]
        BY <1>6, <2>2
      <3> DEFINE last == lastSent[r]
                 gap == MinInterval[r]
      <3>. HIDE DEF r, t, q0, last, gap
      <3>2. ASSUME NEW i \in 1..Len(q0) PROVE t - q0[i] >= gap /\ q0[i] <= t
        <4>1. q0[i] <= last /\ q0[i] \in Nat
          BY <1>5, <1>7 DEF last
        <4>2. last \in Nat /\ gap \in Nat /\ t \in Nat /\ t - last >= gap
          BY <1>1, <1>4, <3>1 DEF last, gap
        <4>. QED BY <4>1, <4>2
      <3>. QED BY <3>2 DEF gap
    <2>. QED BY <2>1, <2>2
  <1>. HIDE DEF r, t, q0, q1
  <1>9. /\ admitted'[r] = q1 /\ lastSent'[r] = t
        /\ \A p \in Receiver \ {r} : admitted'[p] = admitted[p] /\ lastSent'[p] = lastSent[p]
    BY <1>0, <1>1 DEF NotifierTypeOK
  <1>10. NotifierTypeOK'
    BY <1>0, <1>1, <1>2, <1>3, <1>5 DEF NotifierTypeOK
  <1>11. LastInv'
    <2> SUFFICES ASSUME NEW p \in Receiver
                 PROVE  /\ lastSent'[p] = Zero => admitted'[p] = <<>>
                        /\ lastSent'[p] # Zero =>
                             /\ lastSent'[p] <= clock'
                             /\ \E i \in DOMAIN admitted'[p] : admitted'[p][i] = lastSent'[p]
                        /\ \A i \in DOMAIN admitted'[p] : admitted'[p][i] <= lastSent'[p]
      BY DEF LastInv
    <2>1. CASE p # r
      BY <1>0, <1>1, <1>9, <2>1 DEF LastInv
    <2>2. CASE p = r
      <3>1. t # Zero
        BY <1>1 DEF Zero
      <3>2. \A i \in DOMAIN q1 : q1[i] <= t
        BY <1>1, <1>5, <1>8
      <3>3. Len(q0) + 1 \in DOMAIN q1
        BY <1>5
      <3>. QED BY <1>1, <1>5, <1>6, <1>9, <2>2, <3>1, <3>2, <3>3
    <2>. QED BY <2>1, <2>2
  <1>12. AdmittedApart'
    <2> SUFFICES ASSUME NEW p \in Receiver, NEW i \in DOMAIN admitted'[p],
                        NEW j \in DOMAIN admitted'[p], i < j
                 PROVE  admitted'[p][j] - admitted'[p][i] >= MinInterval[p]
      BY DEF AdmittedApart
    <2>1. CASE p # r
      BY <1>0, <1>9, <2>1 DEF AdmittedApart
    <2>2. CASE p = r /\ j \in 1..Len(q0)
      <3>1. /\ i \in 1..Len(q0)
        BY <1>5, <1>9, <2>2
      <3>2. q0[j] - q0[i] >= MinInterval[r]
        BY <1>0, <1>1, <1>5, <2>2, <3>1 DEF AdmittedApart, q0
      <3>. QED BY <1>5, <1>9, <2>2, <3>1, <3>2
    <2>3. CASE p = r /\ j = Len(q0) + 1
      <3>1. /\ i \in 1..Len(q0)
        BY <1>5, <1>9, <2>3
      <3>. QED BY <1>5, <1>8, <1>9, <2>3, <3>1
    <2>4. p = r => j \in 1..Len(q0) \/ j = Len(q0) + 1
      BY <1>5, <1>9
    <2>. QED BY <2>1, <2>2, <2>3, <2>4
  <1>13. DropsAreEarned'
    <2> SUFFICES ASSUME NEW p \in Receiver, NEW d \in dropped[p]
                 PROVE  \E i \in DOMAIN admitted'[p] :
                          d[2] - admitted'[p][i] \in 0..(MinInterval[p] - 1)
      BY <1>1 DEF DropsAreEarned
    <2>1. PICK i \in DOMAIN admitted[p] : d[2] - admitted[p][i] \in 0..(MinInterval[p] - 1)
      BY <1>0 DEF DropsAreEarned
    <2>2. CASE p # r
      BY <1>9, <2>1, <2>2
    <2>3. CASE p = r
      <3>1. i \in 1..Len(q0) /\ d[2] - q0[i] \in 0..(MinInterval[p] - 1)
        BY <1>5, <2>1, <2>3 DEF q0
      <3>2. i \in DOMAIN admitted'[p] /\ admitted'[p][i] = q0[i]
        BY <1>5, <1>9, <2>3, <3>1
      <3>. QED BY <3>1, <3>2
    <2>. QED BY <2>2, <2>3
  <1>14. TimeInv'
    <2> SUFFICES ASSUME NEW q \in Sender, task'[q].at \in {"check", "admit"}
                 PROVE  /\ task'[q].now <= clock /\ lastSent'[task'[q].r] <= task'[q].now
                        /\ task'[q].at = "admit" => ~TooSoon(q)'
      BY <1>1 DEF TimeInv
    <2>1. q # s /\ task'[q] = task[q]
      BY <1>2 DEF MovesTo, OthersStay
    <2>2. Holds(q)
      BY <2>1 DEF Holds
    <2>3. task[q].r # r /\ task[q].r \in Receiver
      BY <1>0, <1>1, <2>1, <2>2, HoldersDiffer, WorkingFacts DEF Working, r
    <2>4. lastSent'[task[q].r] = lastSent[task[q].r]
      BY <1>9, <2>3
    <2>5. TooSoon(q)' = TooSoon(q)
      BY <2>1, <2>4 DEF TooSoon
    <2>. QED BY <1>0, <2>1, <2>4, <2>5 DEF TimeInv
  <1>. QED BY <1>3, <1>10, <1>11, <1>12, <1>13, <1>14 DEF NotifierInv

LEMMA TickKeepsInv ==
    ASSUME NotifierInv, Tick
    PROVE  NotifierInv'
  <1>0. /\ NotifierTypeOK /\ MutexInv /\ LastInv /\ TimeInv /\ AdmittedApart /\ DropsAreEarned
    BY DEF NotifierInv
  <1>1. /\ clock' = clock + 1 /\ clock \in Nat /\ mu' = mu /\ lastSent' = lastSent
        /\ task' = task /\ admitted' = admitted /\ dropped' = dropped
    BY <1>0 DEF Tick, NotifierTypeOK
  <1>2. NotifierTypeOK' /\ MutexInv' /\ AdmittedApart' /\ DropsAreEarned'
    BY <1>0, <1>1 DEF NotifierTypeOK, MutexInv, Holds, AdmittedApart, DropsAreEarned
  <1>3. LastInv'
    BY <1>0, <1>1 DEF LastInv, NotifierTypeOK
  <1>4. TimeInv'
    <2>1. \A s \in Sender : TooSoon(s)' = TooSoon(s)
      BY <1>1 DEF TooSoon
    <2>2. \A s \in Sender : task[s].at \in {"check", "admit"} => task[s].now \in Nat
      BY <1>0, WorkingFacts DEF Working
    <2>. QED BY <1>0, <1>1, <2>1, <2>2 DEF TimeInv
  <1>. QED BY <1>2, <1>3, <1>4 DEF NotifierInv

LEMMA NotifierStep == NotifierInv /\ [NotifierNext]_notifyVars => NotifierInv'
  <1> SUFFICES ASSUME NotifierInv, [NotifierNext]_notifyVars PROVE NotifierInv'
    OBVIOUS
  <1>1. CASE UNCHANGED notifyVars
    <2>1. /\ clock' = clock /\ mu' = mu /\ lastSent' = lastSent
          /\ task' = task /\ admitted' = admitted /\ dropped' = dropped
      BY <1>1 DEF notifyVars
    <2>2. \A s \in Sender : TooSoon(s)' = TooSoon(s)
      BY <2>1 DEF TooSoon
    <2>. QED
      BY <2>1, <2>2 DEF NotifierInv, NotifierTypeOK, MutexInv, Holds, LastInv, TimeInv,
                        AdmittedApart, DropsAreEarned
  <1>2. CASE NotifierNext
    BY <1>2, TickKeepsInv, QuietKeepsInv, OutsideKeepsInv, DropKeepsInv, AdmitKeepsInv
       DEF NotifierNext, InThrottle
  <1>. QED BY <1>1, <1>2

\* Two notices that pass the throttle of a receiver are an interval apart, for
\* any number of goroutines (throttle.go: the mutex around lastSent).
THEOREM ThrottleSpacesSends == NotifierSpec => []AdmittedApart
  <1>1. NotifierInv => AdmittedApart
    BY DEF NotifierInv
  <1>. QED BY <1>1, NotifierStart, NotifierStep, PTL DEF NotifierSpec

\* Only a notice within an interval of one that passed is dropped: drops do not
\* extend the silence (throttle.go: lastSent is set for a notice that passes).
THEOREM ThrottleDropsAreEarned == NotifierSpec => []DropsAreEarned
  <1>1. NotifierInv => DropsAreEarned
    BY DEF NotifierInv
  <1>. QED BY <1>1, NotifierStart, NotifierStep, PTL DEF NotifierSpec
==============================================================================
