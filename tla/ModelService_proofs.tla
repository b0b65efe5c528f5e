-------------------------- MODULE ModelService_proofs --------------------------
(***************************************************************************)
(* The workers of ModelWorker implement the lines of calls of ModelService *)
(* under the mapping that ModelWorker states, for every set of models,     *)
(* calls and gate users and every queue capacity.                          *)
(***************************************************************************)
EXTENDS ModelWorker_proofs

USE DEF lifecycleVars, channelVars, gateVars, callerVars

\* The abstract state, one name for each variable of ModelService.
Phase == [m \in Models |-> ServicePhase(m)]
Backlog == [m \in Models |-> ServiceBacklog(m)]
Fate == [c \in Calls |-> ServiceFate(c)]
WithdrawnCalls == {r \in TryRuns : Withdrawn(r)}

\* A call is in service and not decided yet: it heads its model's line.
Undecided(m) == active[m] # NoCall /\ verdict[m] = "none"

-----------------------------------------------------------------------------
(* A line whose first call has left the channel.                           *)

LEMMA Prefixed ==
  ASSUME NEW S, NEW line \in Seq(S), NEW first \in S
  PROVE  /\ <<first>> \o line # <<>>
         /\ Head(<<first>> \o line) = first
         /\ Tail(<<first>> \o line) = line
         /\ Len(<<first>> \o line) = Len(line) + 1
         /\ \A i \in 1..Len(<<first>> \o line) :
              (<<first>> \o line)[i] = IF i = 1 THEN first ELSE line[i - 1]
<1> DEFINE whole == <<first>> \o line
<1>1. <<first>> \in Seq(S) /\ Len(<<first>>) = 1 /\ <<first>>[1] = first
  OBVIOUS
<1>2. Len(line) \in Nat
  BY LenProperties
<1>3. /\ whole \in Seq(S)
      /\ Len(whole) = 1 + Len(line)
      /\ \A i \in 1..(1 + Len(line)) : whole[i] = IF i <= 1 THEN <<first>>[i] ELSE line[i - 1]
  <2> DEFINE one == <<first>>
  <2>1. one \in Seq(S) /\ Len(one) = 1
    BY <1>1
  <2> HIDE DEF one
  <2>2. /\ one \o line \in Seq(S)
        /\ Len(one \o line) = 1 + Len(line)
        /\ \A i \in 1..(1 + Len(line)) : (one \o line)[i] = IF i <= 1 THEN one[i] ELSE line[i - 1]
    <3>1. /\ one \o line \in Seq(S)
          /\ Len(one \o line) = Len(one) + Len(line)
          /\ \A i \in 1..(Len(one) + Len(line)) :
               (one \o line)[i] = IF i <= Len(one) THEN one[i] ELSE line[i - Len(one)]
      BY <2>1, ConcatProperties
    <3> QED BY <2>1, <3>1
  <2> QED BY <2>2 DEF one
<1>4. \A i \in 1..(1 + Len(line)) : whole[i] = IF i = 1 THEN first ELSE line[i - 1]
  BY <1>1, <1>2, <1>3
<1> HIDE DEF whole
<1>5. whole # <<>>
  BY <1>2, <1>3, EmptySeq
<1>6. Head(whole) = first
  BY <1>2, <1>3, <1>4, <1>5
<1>7. Tail(whole) = line
  <2>1. /\ Tail(whole) \in Seq(S)
        /\ Len(Tail(whole)) = Len(line)
        /\ \A i \in 1..Len(Tail(whole)) : Tail(whole)[i] = whole[i + 1]
    BY <1>2, <1>3, <1>5, HeadTailProperties
  <2>2. \A i \in 1..Len(Tail(whole)) : Tail(whole)[i] = line[i]
    BY <1>2, <1>4, <2>1
  <2> HIDE DEF whole
  <2> QED BY <2>1, <2>2, SeqEqual
<1>8. Len(whole) = Len(line) + 1
  BY <1>2, <1>3
<1> QED BY <1>3, <1>4, <1>5, <1>6, <1>7, <1>8 DEF whole

\* What is sent to a model goes to the end of its line ...
LEMMA PrefixedAppend ==
  ASSUME NEW S, NEW line \in Seq(S), NEW first \in S, NEW last \in S
  PROVE  <<first>> \o Append(line, last) = Append(<<first>> \o line, last)
<1> DEFINE one == <<first>>
           end == <<last>>
<1>1. one \in Seq(S) /\ end \in Seq(S)
  OBVIOUS
<1>2. Append(line, last) = line \o end
  BY AppendIsConcat
<1>3. one \o line \in Seq(S)
  BY <1>1, ConcatProperties
<1>4. Append(one \o line, last) = (one \o line) \o end
  BY <1>3, AppendIsConcat
<1> HIDE DEF one
<1>5. (one \o line) \o end = one \o (line \o end)
  BY <1>1, ConcatAssociative
<1> QED BY <1>2, <1>4, <1>5 DEF one

\* ... and receiving a call does not change the line.
LEMMA PrefixedReceive ==
  ASSUME NEW S, NEW line \in Seq(S), line # <<>>
  PROVE  <<Head(line)>> \o Tail(line) = line
<1> DEFINE first == Head(line)
           rest == Tail(line)
<1>1. /\ first \in S /\ rest \in Seq(S) /\ Len(line) \in Nat \ {0}
      /\ Len(rest) = Len(line) - 1
      /\ \A i \in 1..Len(rest) : rest[i] = line[i + 1]
  BY HeadTailProperties, EmptySeq
<1>2. first = line[1]
  OBVIOUS
<1> HIDE DEF first, rest
<1>3. /\ Len(<<first>> \o rest) = Len(line)
      /\ \A i \in 1..Len(<<first>> \o rest) : (<<first>> \o rest)[i] = line[i]
  <2>1. /\ Len(<<first>> \o rest) = Len(rest) + 1
        /\ \A i \in 1..Len(<<first>> \o rest) :
             (<<first>> \o rest)[i] = IF i = 1 THEN first ELSE rest[i - 1]
    BY <1>1, Prefixed
  <2> DEFINE whole == <<first>> \o rest
  <2> HIDE DEF whole
  <2>2. Len(whole) = Len(rest) + 1
        /\ \A i \in 1..Len(whole) : whole[i] = IF i = 1 THEN first ELSE rest[i - 1]
    BY <2>1 DEF whole
  <2>3. \A i \in 1..Len(whole) : whole[i] = line[i]
    BY <1>1, <1>2, <2>2
  <2> QED BY <1>1, <2>2, <2>3 DEF whole
<1>4. <<first>> \o rest \in Seq(S)
  <2>1. <<first>> \in Seq(S)
    BY <1>1
  <2> QED BY <1>1, <2>1, ConcatProperties
<1> DEFINE whole == <<first>> \o rest
<1>5. whole \in Seq(S) /\ Len(whole) = Len(line) /\ \A i \in 1..Len(whole) : whole[i] = line[i]
  BY <1>3, <1>4
<1> HIDE DEF whole
<1>6. whole = line
  BY <1>5, SeqEqual
<1> QED BY <1>6 DEF whole, first, rest

-----------------------------------------------------------------------------
(* The mapping, action by action of ModelService.                          *)

\* What the step simulation knows about the states it starts from.
ServiceInv == TypeOK /\ PhaseOK /\ CallsInv /\ WithdrawInv

LEMMA StutterMap ==
  ASSUME Phase' = Phase, Backlog' = Backlog, Fate' = Fate, WithdrawnCalls' = WithdrawnCalls
  PROVE  UNCHANGED Service!serviceVars
BY DEF Service!serviceVars, Phase, Backlog, Fate, WithdrawnCalls

LEMMA StartMap ==
  ASSUME NEW m \in Models, NEW p \in {"serving", "retired"}, Phase[m] = "starting",
         Phase' = [Phase EXCEPT ![m] = p],
         Backlog' = Backlog, Fate' = Fate, WithdrawnCalls' = WithdrawnCalls
  PROVE  Service!Start(m)
BY DEF Service!Start, Phase, Backlog, Fate, WithdrawnCalls

LEMMA AcceptMap ==
  ASSUME NEW c \in Calls, Fate[c] = "new", Phase[ModelOf[c]] \in {"serving", "lost"},
         \A i \in 1..Len(Backlog[ModelOf[c]]) : Backlog[ModelOf[c]][i] # Shutdown,
         Backlog' = [Backlog EXCEPT ![ModelOf[c]] = Append(@, c)],
         Fate' = [Fate EXCEPT ![c] = "pending"],
         Phase' = Phase, WithdrawnCalls' = WithdrawnCalls
  PROVE  Service!Accept(c)
BY DEF Service!Accept, Phase, Backlog, Fate, WithdrawnCalls

LEMMA RefuseMap ==
  ASSUME NEW c \in Calls, Fate[c] = "new", Fate' = [Fate EXCEPT ![c] = "refused"],
         Phase' = Phase, Backlog' = Backlog, WithdrawnCalls' = WithdrawnCalls
  PROVE  Service!Refuse(c)
BY DEF Service!Refuse, Phase, Backlog, Fate, WithdrawnCalls

LEMMA WithdrawMap ==
  ASSUME NEW r \in TryRuns, WithdrawnCalls' = WithdrawnCalls \cup {r},
         Phase' = Phase, Backlog' = Backlog, Fate' = Fate
  PROVE  Service!Withdraw(r)
BY DEF Service!Withdraw, Phase, Backlog, Fate, WithdrawnCalls

LEMMA ServeMap ==
  ASSUME NEW m \in Models, Phase[m] = "serving", Backlog[m] # <<>>,
         Head(Backlog[m]) # Shutdown, NEW o,
         \/ o \in {"ok", "native", "poisoned"}
         \/ o \in {"cancelled", "deadline"} /\ Head(Backlog[m]) \in WithdrawnCalls,
         Backlog' = [Backlog EXCEPT ![m] = Tail(@)],
         Fate' = [Fate EXCEPT ![Head(Backlog[m])] = o],
         Phase' = Phase, WithdrawnCalls' = WithdrawnCalls
  PROVE  Service!Serve(m)
BY DEF Service!Serve, Service!Outcomes, Phase, Backlog, Fate, WithdrawnCalls

LEMMA CloseMap ==
  ASSUME NEW m \in Models, Phase[m] \in {"serving", "lost"},
         \A i \in 1..Len(Backlog[m]) : Backlog[m][i] # Shutdown,
         Backlog' = [Backlog EXCEPT ![m] = Append(@, Shutdown)],
         Phase' = Phase, Fate' = Fate, WithdrawnCalls' = WithdrawnCalls
  PROVE  Service!Close(m)
BY DEF Service!Close, Phase, Backlog, Fate, WithdrawnCalls

LEMMA RetireMap ==
  ASSUME NEW m \in Models, Phase[m] = "serving", Backlog[m] = <<Shutdown>>,
         Phase' = [Phase EXCEPT ![m] = "retired"], Backlog' = [Backlog EXCEPT ![m] = <<>>],
         Fate' = Fate, WithdrawnCalls' = WithdrawnCalls
  PROVE  Service!Retire(m)
BY DEF Service!Retire, Phase, Backlog, Fate, WithdrawnCalls

LEMMA LoseMap ==
  ASSUME NEW m \in Models, Phase[m] = "serving", Backlog[m] # <<>>,
         Head(Backlog[m]) # Shutdown, Phase' = [Phase EXCEPT ![m] = "lost"],
         Fate' = [Fate EXCEPT ![Head(Backlog[m])] = "abandoned"],
         Backlog' = [Backlog EXCEPT ![m] = Tail(@)], WithdrawnCalls' = WithdrawnCalls
  PROVE  Service!Lose(m)
BY DEF Service!Lose, Phase, Backlog, Fate, WithdrawnCalls

LEMMA AbandonMap ==
  ASSUME NEW m \in Models, Phase[m] = "lost", Phase' = [Phase EXCEPT ![m] = "retired"],
         Fate' = [c \in Calls |-> IF \E i \in 1..Len(Backlog[m]) : Backlog[m][i] = c
                                  THEN "abandoned" ELSE Fate[c]],
         Backlog' = [Backlog EXCEPT ![m] = <<>>], WithdrawnCalls' = WithdrawnCalls
  PROVE  Service!Abandon(m)
BY DEF Service!Abandon, Phase, Backlog, Fate, WithdrawnCalls

-----------------------------------------------------------------------------
(* How the abstract state changes with the variables it is made of.        *)

LEMMA SameLine == UNCHANGED <<queue, active, verdict>> => Backlog' = Backlog
BY DEF Backlog, ServiceBacklog

LEMMA SameFates == UNCHANGED <<active, verdict, caller, reply>> => Fate' = Fate
BY DEF Fate, ServiceFate

LEMMA SameWithdrawn == UNCHANGED <<cancelled, expired>> => WithdrawnCalls' = WithdrawnCalls
BY DEF WithdrawnCalls, Withdrawn

LEMMA SamePhases == UNCHANGED worker => Phase' = Phase
BY DEF Phase, ServicePhase

\* A worker that moves within its stage.
LEMMA Unmoved ==
  ASSUME TypeOK, NEW m \in Models, NEW w, worker' = [worker EXCEPT ![m] = w],
         \/ {worker[m], w} \subseteq {"absent", "starting", "initializing"}
         \/ {worker[m], w} \subseteq Running
         \/ {worker[m], w} \subseteq {"unwinding", "dropping"}
         \/ {worker[m], w} \subseteq Leaving
  PROVE  Phase' = Phase
<1>1. w \in {"absent", "starting", "initializing", "unwinding", "dropping"} \cup Running \cup Leaving
  OBVIOUS
<1>2. \A n \in Models : worker'[n] = IF n = m THEN w ELSE worker[n]
  BY DEF TypeOK
<1> QED BY <1>1, <1>2 DEF Phase, ServicePhase, Running, Leaving

\* A worker that enters another stage.
LEMMA Moved ==
  ASSUME TypeOK, NEW m \in Models, NEW w \in WorkerStates, worker' = [worker EXCEPT ![m] = w]
  PROVE  /\ w \in Running => Phase' = [Phase EXCEPT ![m] = "serving"]
         /\ w = "unwinding" => Phase' = [Phase EXCEPT ![m] = "lost"]
         /\ w \in Leaving \cup {"panicked"} => Phase' = [Phase EXCEPT ![m] = "retired"]
<1>1. \A n \in Models : worker'[n] = IF n = m THEN w ELSE worker[n]
  BY DEF TypeOK
<1> QED BY <1>1 DEF Phase, ServicePhase, Running, Leaving

-----------------------------------------------------------------------------
(* Lines and fates.                                                        *)

LEMMA ServedFirst ==
  ASSUME TypeOK, NEW m \in Models, active[m] \in Calls, verdict[m] = "none"
  PROVE  /\ Backlog[m] # <<>>
         /\ Head(Backlog[m]) = active[m] /\ active[m] # Shutdown
         /\ Tail(Backlog[m]) = queue[m]
<1> DEFINE All == Calls \cup {Shutdown}
           line == queue[m]
           first == active[m]
<1>1. line \in Seq(All) /\ first \in All
  BY DEF TypeOK, QueueTypeOK
<1>2. <<first>> \o line # <<>> /\ Head(<<first>> \o line) = first /\ Tail(<<first>> \o line) = line
  <2> HIDE DEF All, line, first
  <2> QED BY <1>1, Prefixed
<1>3. Backlog[m] = <<first>> \o line
  BY ModelWorkerAssumption DEF Backlog, ServiceBacklog
<1> QED BY <1>2, <1>3, ModelWorkerAssumption

LEMMA LineIsQueue ==
  ASSUME NEW m \in Models, ~Undecided(m)
  PROVE  Backlog[m] = queue[m]
BY DEF Backlog, ServiceBacklog, Undecided

\* No Shutdown in the channel, none in the line.
LEMMA NoStop ==
  ASSUME TypeOK, NEW m \in Models, \A i \in 1..Len(queue[m]) : queue[m][i] # Shutdown
  PROVE  \A i \in 1..Len(Backlog[m]) : Backlog[m][i] # Shutdown
<1>1. CASE ~Undecided(m)
  BY <1>1, LineIsQueue
<1>2. CASE Undecided(m)
  <2> DEFINE All == Calls \cup {Shutdown}
             line == queue[m]
             first == active[m]
  <2>1. /\ line \in Seq(All) /\ first \in All /\ first # Shutdown
        /\ \A i \in 1..Len(line) : line[i] # Shutdown
        /\ Len(line) \in Nat
    BY <1>2, ModelWorkerAssumption DEF Undecided, TypeOK, QueueTypeOK
  <2>2. Backlog[m] = <<first>> \o line
    BY <1>2 DEF Backlog, ServiceBacklog, Undecided
  <2> HIDE DEF All, line, first
  <2>3. /\ Len(<<first>> \o line) = Len(line) + 1
        /\ \A i \in 1..Len(<<first>> \o line) :
             (<<first>> \o line)[i] = IF i = 1 THEN first ELSE line[i - 1]
    BY <2>1, Prefixed
  <2> QED BY <2>1, <2>2, <2>3
<1> QED BY <1>1, <1>2

LEMMA LineAfterSend ==
  ASSUME TypeOK, NEW m \in Models, NEW command \in Calls \cup {Shutdown},
         queue' = [queue EXCEPT ![m] = Append(@, command)], UNCHANGED <<active, verdict>>
  PROVE  Backlog' = [Backlog EXCEPT ![m] = Append(@, command)]
<1> DEFINE All == Calls \cup {Shutdown}
           line == queue[m]
<1>1. line \in Seq(All) /\ command \in All /\ queue'[m] = Append(line, command)
  BY DEF TypeOK, QueueTypeOK
<1>2. \A n \in Models \ {m} : queue'[n] = queue[n]
  BY DEF TypeOK, QueueTypeOK
<1>3. ServiceBacklog(m)' = Append(ServiceBacklog(m), command)
  <2>1. CASE Undecided(m)
    <3>1. active[m] \in All
      BY <2>1 DEF TypeOK, Undecided
    <3>2. <<active[m]>> \o Append(line, command) = Append(<<active[m]>> \o line, command)
      <4> DEFINE first == active[m]
      <4> HIDE DEF line, All, first
      <4>1. <<first>> \o Append(line, command) = Append(<<first>> \o line, command)
        BY <1>1, <3>1, PrefixedAppend DEF first
      <4> QED BY <4>1 DEF first
    <3> QED BY <1>1, <2>1, <3>2 DEF ServiceBacklog, Undecided
  <2>2. CASE ~Undecided(m)
    BY <1>1, <2>2 DEF ServiceBacklog, Undecided
  <2> QED BY <2>1, <2>2
<1>4. \A n \in Models \ {m} : ServiceBacklog(n)' = ServiceBacklog(n)
  BY <1>2 DEF ServiceBacklog
<1> HIDE DEF line, All
<1> QED BY <1>3, <1>4 DEF Backlog

\* Only the channel and the call in service of one model change.
LEMMA LineAt ==
  ASSUME NEW m \in Models,
         \A n \in Models \ {m} : /\ queue'[n] = queue[n] /\ active'[n] = active[n]
                                 /\ verdict'[n] = verdict[n]
  PROVE  Backlog' = [Backlog EXCEPT ![m] = ServiceBacklog(m)']
BY DEF Backlog, ServiceBacklog

LEMMA FateNew ==
  ASSUME TypeOK, PlaceInv, NEW c \in Calls, caller[c] \in {"idle", "sending"}
  PROVE  Fate[c] = "new" /\ reply[c] = "none" /\ active[ModelOf[c]] # c
BY DEF PlaceInv, Fate, ServiceFate

-----------------------------------------------------------------------------
(* The steps of the workers.                                               *)

\* The result of the call in service is known: it is served.
LEMMA DecideServes ==
  ASSUME TypeOK, PlaceInv, NEW m \in Models, NEW c \in Calls, active[m] = c,
         verdict[m] = "none", worker[m] \in Running, NEW v, Decide(m, v),
         \/ v \in {"ok", "native", "poisoned"}
         \/ v \in {"cancelled", "deadline"} /\ c \in WithdrawnCalls,
         UNCHANGED <<queue, active, caller, cancelled, expired, reply>>
  PROVE  Service!Serve(m)
<1>1. ModelOf[c] = m /\ reply[c] = "empty" /\ c # NoCall
  BY ModelWorkerAssumption DEF TypeOK, CallsOf, PlaceInv
<1>2. verdict' = [verdict EXCEPT ![m] = v] /\ v # "none"
  BY DEF Decide
<1>3. Backlog[m] # <<>> /\ Head(Backlog[m]) = c /\ c # Shutdown /\ Tail(Backlog[m]) = queue[m]
  BY ServedFirst
<1>4. Backlog' = [Backlog EXCEPT ![m] = Tail(@)]
  <2>1. ServiceBacklog(m)' = queue[m]
    BY <1>2 DEF ServiceBacklog, TypeOK
  <2>2. Backlog' = [Backlog EXCEPT ![m] = ServiceBacklog(m)']
    BY <1>2, LineAt DEF TypeOK
  <2>3. Backlog' = [Backlog EXCEPT ![m] = queue[m]]
    BY <2>1, <2>2
  <2> QED BY <1>3, <2>3
<1>5. Fate' = [Fate EXCEPT ![c] = v]
  <2>1. ServiceFate(c)' = v
    BY <1>1, <1>2 DEF ServiceFate, TypeOK
  <2>2. ASSUME NEW d \in Calls \ {c}
        PROVE  ServiceFate(d)' = ServiceFate(d)
    BY <1>1, <1>2, <2>2, ServiceCallTypes DEF ServiceFate, TypeOK
  <2> QED BY <2>1, <2>2 DEF Fate
<1>6. Phase[m] = "serving" /\ Phase' = Phase
  <2>1. worker' = [worker EXCEPT ![m] = "replying"]
    BY DEF Decide, GoTo
  <2>2. Phase[m] = "serving"
    BY DEF Phase, ServicePhase, Running
  <2> QED BY <2>1, <2>2, Unmoved DEF Running
<1>7. WithdrawnCalls' = WithdrawnCalls
  BY SameWithdrawn
<1>8. \/ v \in {"ok", "native", "poisoned"}
      \/ v \in {"cancelled", "deadline"} /\ Head(Backlog[m]) \in WithdrawnCalls
  BY <1>3
<1>9. Fate' = [Fate EXCEPT ![Head(Backlog[m])] = v] /\ Head(Backlog[m]) # Shutdown
  BY <1>3, <1>5
<1> QED BY <1>3, <1>4, <1>6, <1>7, <1>8, <1>9, ServeMap

\* check_live skips only what its caller, or its deadline, has withdrawn.
LEMMA SkipsWithdrawn ==
  ASSUME TypeOK, PlaceInv, WithdrawInv, NEW m \in Models, active[m] \in Runs,
         CheckLive(active[m]) # "live"
  PROVE  CheckLive(active[m]) \in {"cancelled", "deadline"} /\ active[m] \in WithdrawnCalls
<1> DEFINE r == active[m]
<1>1. r \in Runs /\ r \in Calls /\ r # NoCall /\ ModelOf[r] = m
  BY ModelWorkerAssumption DEF TypeOK, CallsOf, Calls
<1>2. reply[r] = "empty"
  BY <1>1 DEF PlaceInv
<1>3. CheckLive(r) \in {"cancelled", "deadline"}
  BY CheckLiveType
<1>4. cancelled[r] => r \in TryRuns
  BY <1>1, <1>2 DEF WithdrawInv
<1>5. cancelled[r] \/ (r \in Timed /\ expired[r])
  BY DEF CheckLive
<1> HIDE DEF r
<1>6. r \in TryRuns /\ Withdrawn(r)
  BY <1>4, <1>5, ModelWorkerAssumption DEF Withdrawn
<1>7. r \in WithdrawnCalls
  BY <1>6 DEF WithdrawnCalls
<1> QED BY <1>3, <1>7 DEF r

\* The receipt of a call changes nothing in the line: the call stays at its head.
LEMMA RecvMap ==
  ASSUME TypeOK, PhaseOK, LifecycleInv, QueueInv, PlaceInv, NEW m \in Models, Recv(m)
  PROVE  UNCHANGED Service!serviceVars \/ Service!Retire(m)
<1> DEFINE All == Calls \cup {Shutdown}
           line == queue[m]
           command == Head(line)
<1>1. /\ line \in Seq(All) /\ line # <<>> /\ worker[m] = "idle"
      /\ queue' = [queue EXCEPT ![m] = Tail(@)] /\ UNCHANGED <<verdict, caller, reply, cancelled, expired>>
  BY DEF Recv, TypeOK, QueueTypeOK
<1>2. active[m] = NoCall /\ verdict[m] = "none"
  BY <1>1 DEF PhaseOK, RunPhases, SavePhases
<1>3. queue'[m] = Tail(line) /\ \A n \in Models \ {m} : queue'[n] = queue[n]
  BY <1>1 DEF TypeOK, QueueTypeOK
<1>4. <<command>> \o Tail(line) = line
  <2> HIDE DEF All, line
  <2> QED BY <1>1, PrefixedReceive
<1>5. Backlog[m] = line
  BY <1>2, LineIsQueue DEF Undecided
<1>6. WithdrawnCalls' = WithdrawnCalls
  BY <1>1, SameWithdrawn
<1>7. CASE command \in Calls
  <2>1. ModelOf[command] = m /\ command # NoCall /\ command # Shutdown
    BY <1>1, <1>7, HeadOwn, ModelWorkerAssumption
  <2>2. active' = [active EXCEPT ![m] = command]
        /\ \E w \in {"checking", "saveLocking"} : worker' = [worker EXCEPT ![m] = w]
    BY <2>1 DEF Recv, GoTo
  <2>3. Phase' = Phase
    BY <1>1, <2>2, Unmoved DEF Running
  <2>4. active'[m] = command /\ \A n \in Models \ {m} : active'[n] = active[n]
    BY <2>2 DEF TypeOK
  <2> HIDE DEF line, command
  <2>5. ServiceBacklog(m)' = line
    BY <1>1, <1>2, <1>3, <1>4, <2>1, <2>4 DEF ServiceBacklog
  <2>6. \A n \in Models \ {m} : /\ queue'[n] = queue[n] /\ active'[n] = active[n]
                                /\ verdict'[n] = verdict[n]
    BY <1>1, <1>3, <2>4
  <2>7. Backlog' = [Backlog EXCEPT ![m] = ServiceBacklog(m)']
    BY <2>6, LineAt
  <2>8. Backlog' = Backlog
    BY <1>5, <2>5, <2>7 DEF Backlog
  <2>9. Fate' = Fate
    <3>1. ASSUME NEW d \in Calls
          PROVE  ServiceFate(d)' = ServiceFate(d)
      BY <1>1, <1>2, <2>4, ServiceCallTypes, ModelWorkerAssumption DEF ServiceFate
    <3> QED BY <3>1 DEF Fate
  <2> QED BY <1>6, <2>3, <2>8, <2>9, StutterMap
<1>8. CASE command = Shutdown
  <2>1. UNCHANGED active /\ worker' = [worker EXCEPT ![m] = "exitLocking"]
    BY <1>8, ModelWorkerAssumption DEF Recv, GoTo, Calls
  <2>2. Tail(line) = <<>>
    BY <1>8, RecvStage
  <2>3. line = <<Shutdown>>
    <3>1. line = <<command>> \o <<>>
      BY <1>4, <2>2
    <3>2. <<command>> \o <<>> = <<command>>
      OBVIOUS
    <3> QED BY <1>8, <3>1, <3>2
  <2>4. Phase[m] = "serving" /\ Phase' = [Phase EXCEPT ![m] = "retired"]
    <3>1. Phase[m] = "serving"
      BY <1>1 DEF Phase, ServicePhase, Running
    <3> QED BY <2>1, <3>1, Moved DEF WorkerStates, Leaving
  <2>5. Backlog' = [Backlog EXCEPT ![m] = <<>>]
    <3>1. ServiceBacklog(m)' = <<>>
      BY <1>1, <1>2, <1>3, <2>1, <2>2 DEF ServiceBacklog
    <3>2. Backlog' = [Backlog EXCEPT ![m] = ServiceBacklog(m)']
      BY <1>1, <1>3, <2>1, LineAt
    <3> QED BY <3>1, <3>2
  <2>6. Fate' = Fate
    BY <1>1, <2>1, SameFates
  <2>7. Backlog[m] = <<Shutdown>>
    BY <1>5, <2>3
  <2> QED BY <1>6, <2>4, <2>5, <2>6, <2>7, RetireMap
<1>9. command \in Calls \/ command = Shutdown
  BY <1>1, HeadOwn
<1> QED BY <1>7, <1>8, <1>9

\* The reply carries the verdict that already was the call's fate.
LEMMA ReplyMap ==
  ASSUME TypeOK, PhaseOK, PlaceInv, NEW m \in Models, Reply(m)
  PROVE  UNCHANGED Service!serviceVars
<1> SUFFICES ASSUME NEW c \in Calls, active[m] = c, NEW v \in Verdicts, verdict[m] = v
             PROVE  UNCHANGED Service!serviceVars
  <2>1. active[m] \in Calls /\ verdict[m] \in Verdicts
    BY DEF Reply, PhaseOK, TypeOK
  <2> QED BY <2>1
<1>1. ModelOf[c] = m /\ reply[c] = "empty" /\ c # NoCall
  BY ModelWorkerAssumption DEF TypeOK, CallsOf, PlaceInv
<1>2. v \notin {"none", "empty", "disconnected"}
  BY DEF Verdicts
<1>3. /\ worker' = [worker EXCEPT ![m] = "idle"] /\ worker[m] = "replying"
      /\ reply' = [reply EXCEPT ![c] = v]
      /\ active' = [active EXCEPT ![m] = NoCall]
      /\ verdict' = [verdict EXCEPT ![m] = "none"]
      /\ UNCHANGED <<queue, caller, cancelled, expired>>
  BY DEF Reply, GoTo
<1>4. \A n \in Models : /\ active'[n] = IF n = m THEN NoCall ELSE active[n]
                        /\ verdict'[n] = IF n = m THEN "none" ELSE verdict[n]
  BY <1>3 DEF TypeOK
<1>5. \A d \in Calls : reply'[d] = IF d = c THEN v ELSE reply[d]
  BY <1>3 DEF TypeOK
<1>6. Phase' = Phase
  BY <1>3, Unmoved DEF Running
<1>7. Backlog' = Backlog
  <2>1. \A n \in Models : ServiceBacklog(n)' = ServiceBacklog(n)
    BY <1>2, <1>3, <1>4 DEF ServiceBacklog
  <2> QED BY <2>1 DEF Backlog
<1>8. Fate' = Fate
  <2>1. ASSUME NEW d \in Calls
        PROVE  ServiceFate(d)' = ServiceFate(d)
    <3>1. CASE d = c
      BY <1>1, <1>2, <1>5, <3>1 DEF ServiceFate
    <3>2. CASE d # c
      BY <1>1, <1>3, <1>4, <1>5, <3>2, ServiceCallTypes, ModelWorkerAssumption DEF ServiceFate
    <3> QED BY <3>1, <3>2
  <2> QED BY <2>1 DEF Fate
<1>9. WithdrawnCalls' = WithdrawnCalls
  BY <1>3, SameWithdrawn
<1> QED BY <1>6, <1>7, <1>8, <1>9, StutterMap

\* A panic inside the transaction abandons the call in service ...
LEMMA PanicMap ==
  ASSUME TypeOK, PhaseOK, PlaceInv, NEW m \in Models, PanicNative(m)
  PROVE  Service!Lose(m)
<1> SUFFICES ASSUME NEW c \in Calls, active[m] = c
             PROVE  Service!Lose(m)
  <2>1. active[m] \in Calls
    BY DEF PanicNative, PhaseOK, RunPhases, Calls
  <2> QED BY <2>1
<1>1. ModelOf[c] = m /\ reply[c] = "empty" /\ c # NoCall
  BY ModelWorkerAssumption DEF TypeOK, CallsOf, PlaceInv
<1>2. /\ worker[m] = "native" /\ worker' = [worker EXCEPT ![m] = "unwinding"]
      /\ reply' = [reply EXCEPT ![c] = "disconnected"]
      /\ active' = [active EXCEPT ![m] = NoCall]
      /\ UNCHANGED <<queue, verdict, caller, cancelled, expired>>
  BY DEF PanicNative, GoTo
<1>3. verdict[m] = "none"
  BY <1>2 DEF PhaseOK
<1>4. Backlog[m] # <<>> /\ Head(Backlog[m]) = c /\ c # Shutdown /\ Tail(Backlog[m]) = queue[m]
  BY <1>3, ServedFirst
<1>5. \A n \in Models : active'[n] = IF n = m THEN NoCall ELSE active[n]
  BY <1>2 DEF TypeOK
<1>6. \A d \in Calls : reply'[d] = IF d = c THEN "disconnected" ELSE reply[d]
  BY <1>2 DEF TypeOK
<1>7. Backlog' = [Backlog EXCEPT ![m] = Tail(@)]
  <2>1. ServiceBacklog(m)' = queue[m]
    BY <1>2, <1>5 DEF ServiceBacklog
  <2>2. Backlog' = [Backlog EXCEPT ![m] = ServiceBacklog(m)']
    BY <1>2, <1>5, LineAt
  <2>3. Backlog' = [Backlog EXCEPT ![m] = queue[m]]
    BY <2>1, <2>2
  <2> QED BY <1>4, <2>3
<1>8. Fate' = [Fate EXCEPT ![c] = "abandoned"]
  <2>1. ServiceFate(c)' = "abandoned"
    BY <1>6 DEF ServiceFate
  <2>2. ASSUME NEW d \in Calls \ {c}
        PROVE  ServiceFate(d)' = ServiceFate(d)
    BY <1>1, <1>2, <1>5, <1>6, <2>2, ServiceCallTypes, ModelWorkerAssumption DEF ServiceFate
  <2> QED BY <2>1, <2>2 DEF Fate
<1>9. Phase[m] = "serving" /\ Phase' = [Phase EXCEPT ![m] = "lost"]
  <2>1. Phase[m] = "serving"
    BY <1>2 DEF Phase, ServicePhase, Running
  <2> QED BY <1>2, <2>1, Moved DEF WorkerStates, Dying
<1>10. WithdrawnCalls' = WithdrawnCalls
  BY <1>2, SameWithdrawn
<1>11. Fate' = [Fate EXCEPT ![Head(Backlog[m])] = "abandoned"] /\ Head(Backlog[m]) # Shutdown
  BY <1>4, <1>8
<1> QED BY <1>4, <1>7, <1>9, <1>10, <1>11, LoseMap

\* ... and the receiver that goes with the worker's stack every call behind it.
LEMMA DropMap ==
  ASSUME TypeOK, PhaseOK, PlaceInv, NEW m \in Models, DropReceiver(m)
  PROVE  Service!Abandon(m)
<1>1. /\ worker[m] = "dropping" /\ worker' = [worker EXCEPT ![m] = "panicked"]
      /\ queue' = [queue EXCEPT ![m] = <<>>]
      /\ \A c \in Calls :
           reply'[c] = IF ModelOf[c] = m /\ Queued(c) THEN "disconnected" ELSE reply[c]
      /\ UNCHANGED <<active, verdict, caller, cancelled, expired>>
  BY DEF DropReceiver, GoTo
<1>2. active[m] = NoCall
  BY <1>1 DEF PhaseOK, RunPhases, SavePhases
<1>3. queue'[m] = <<>> /\ \A n \in Models \ {m} : queue'[n] = queue[n]
  BY <1>1 DEF TypeOK, QueueTypeOK
<1>4. Backlog[m] = queue[m]
  BY <1>2, LineIsQueue DEF Undecided
<1>5. Backlog' = [Backlog EXCEPT ![m] = <<>>]
  <2>1. ServiceBacklog(m)' = <<>>
    BY <1>1, <1>2, <1>3 DEF ServiceBacklog
  <2>2. Backlog' = [Backlog EXCEPT ![m] = ServiceBacklog(m)']
    BY <1>1, <1>3, LineAt
  <2> QED BY <2>1, <2>2
<1>6. ASSUME NEW c \in Calls
      PROVE  (\E i \in 1..Len(Backlog[m]) : Backlog[m][i] = c) <=> ModelOf[c] = m /\ Queued(c)
  <2>1. ASSUME NEW i \in 1..Len(queue[m]), queue[m][i] = c
        PROVE  ModelOf[c] = m
    <3> DEFINE Own == CallsOf(m) \cup {Shutdown}
               line == queue[m]
    <3>1. line \in Seq(Own) /\ i \in 1..Len(line) /\ line[i] = c
      BY <2>1 DEF TypeOK, QueueTypeOK
    <3>2. line[i] \in Own
      <4> HIDE DEF Own, line
      <4> QED BY <3>1, ElementOfSeq
    <3> QED BY <3>1, <3>2, ModelWorkerAssumption DEF CallsOf
  <2> QED BY <1>4, <2>1 DEF Queued
<1>7. Fate' = [c \in Calls |-> IF \E i \in 1..Len(Backlog[m]) : Backlog[m][i] = c
                               THEN "abandoned" ELSE Fate[c]]
  <2>1. ASSUME NEW c \in Calls
        PROVE  ServiceFate(c)' = IF ModelOf[c] = m /\ Queued(c)
                                 THEN "abandoned" ELSE ServiceFate(c)
    BY <1>1 DEF ServiceFate
  <2> QED BY <1>6, <2>1 DEF Fate
<1>8. Phase[m] = "lost" /\ Phase' = [Phase EXCEPT ![m] = "retired"]
  <2>1. Phase[m] = "lost"
    BY <1>1 DEF Phase, ServicePhase, Running
  <2> QED BY <1>1, <2>1, Moved DEF WorkerStates, Dying
<1>9. WithdrawnCalls' = WithdrawnCalls
  BY <1>1, SameWithdrawn
<1> QED BY <1>5, <1>7, <1>8, <1>9, AbandonMap

LEMMA WorkerStepMap ==
  ASSUME ServiceInv, NEW m \in Models, WorkerStep(m)
  PROVE  \/ UNCHANGED Service!serviceVars
         \/ Service!Start(m) \/ Service!Serve(m) \/ Service!Retire(m)
         \/ Service!Lose(m) \/ Service!Abandon(m)
<1> USE DEF ServiceInv, CallsInv
\* A worker that moves within its stage and does nothing else that shows.
<1>1. ASSUME UNCHANGED <<queue, active, verdict, caller, reply, cancelled, expired>>, Phase' = Phase
      PROVE  UNCHANGED Service!serviceVars
  BY <1>1, SameLine, SameFates, SameWithdrawn, StutterMap
<1>2. ASSUME UNCHANGED <<queue, active, verdict, caller, reply, cancelled, expired>>,
             worker[m] \in {"starting", "initializing"},
             NEW w \in {"idle", "exited", "panicked"}, worker' = [worker EXCEPT ![m] = w]
      PROVE  Service!Start(m)
  <2>1. Phase[m] = "starting"
    BY <1>2 DEF Phase, ServicePhase, Running
  <2>2. PICK p \in {"serving", "retired"} : Phase' = [Phase EXCEPT ![m] = p]
    BY <1>2, Moved DEF WorkerStates, Running, Leaving, Dying
  <2> QED BY <1>2, <2>1, <2>2, SameLine, SameFates, SameWithdrawn, StartMap
<1>3. CASE StartPoisoned(m) \/ Initialize(m) \/ InitPanic(m)
  BY <1>2, <1>3 DEF StartPoisoned, Initialize, InitPanic, GoTo
<1>4. CASE StartLock(m)
  <2>1. Phase' = Phase
    BY <1>4, Unmoved DEF StartLock, GoTo
  <2> QED BY <1>1, <1>4, <2>1 DEF StartLock
<1>5. CASE Recv(m)
  BY <1>5, RecvMap
<1>6. CASE FirstCheck(m) \/ Recheck(m)
  <2>1. /\ active[m] \in Runs /\ active[m] \in Calls /\ verdict[m] = "none"
        /\ worker[m] \in Running \ {"idle"}
        /\ UNCHANGED <<queue, active, caller, reply, cancelled, expired>>
    BY <1>6 DEF FirstCheck, Recheck, PhaseOK, RunPhases, Running, Calls
  <2>2. CASE CheckLive(active[m]) = "live"
    <3>1. UNCHANGED verdict /\ \E w \in {"locking", "entering"} : worker' = [worker EXCEPT ![m] = w]
      BY <1>6, <2>2 DEF FirstCheck, Recheck, GoTo
    <3>2. Phase' = Phase
      BY <2>1, <3>1, Unmoved DEF Running
    <3> QED BY <1>1, <2>1, <3>1, <3>2
  <2>3. CASE CheckLive(active[m]) # "live"
    <3>1. Decide(m, CheckLive(active[m]))
      BY <1>6, <2>3 DEF FirstCheck, Recheck
    <3>2. CheckLive(active[m]) \in {"cancelled", "deadline"} /\ active[m] \in WithdrawnCalls
      BY <2>1, <2>3, SkipsWithdrawn
    <3> QED BY <2>1, <3>1, <3>2, DecideServes
  <2> QED BY <2>2, <2>3
<1>7. CASE Lock(m) \/ EnterNative(m) \/ SaveLock(m)
  <2>1. /\ UNCHANGED <<queue, active, verdict, caller, reply, cancelled, expired>>
        /\ worker[m] \in Running
        /\ \E w \in Running : worker' = [worker EXCEPT ![m] = w]
    BY <1>7 DEF Lock, EnterNative, SaveLock, GoTo, Running
  <2>2. Phase' = Phase
    BY <2>1, Unmoved
  <2> QED BY <1>1, <2>1, <2>2
<1>8. CASE LockPoisoned(m) \/ FinishNative(m) \/ Save(m)
  <2>1. /\ active[m] \in Calls /\ verdict[m] = "none" /\ worker[m] \in Running
        /\ UNCHANGED <<queue, active, caller, reply, cancelled, expired>>
    BY <1>8 DEF LockPoisoned, FinishNative, Save, PhaseOK, RunPhases, SavePhases, Running, Calls
  <2>2. PICK v \in {"ok", "native", "poisoned"} : Decide(m, v)
    BY <1>8 DEF LockPoisoned, FinishNative, Save
  <2> QED BY <2>1, <2>2, DecideServes
<1>9. CASE PanicNative(m)
  BY <1>9, PanicMap
<1>10. CASE UnwindEngine(m)
  <2>1. Phase' = Phase
    BY <1>10, Unmoved DEF UnwindEngine, GoTo
  <2> QED BY <1>1, <1>10, <2>1 DEF UnwindEngine
<1>11. CASE DropReceiver(m)
  BY <1>11, DropMap
<1>12. CASE Reply(m)
  BY <1>12, ReplyMap
<1>13. CASE ExitLock(m) \/ Cleanup(m)
  <2>1. Phase' = Phase
    BY <1>13, Unmoved DEF ExitLock, Cleanup, GoTo, Leaving
  <2> QED BY <1>1, <1>13, <2>1 DEF ExitLock, Cleanup
<1> QED BY <1>3, <1>4, <1>5, <1>6, <1>7, <1>8, <1>9, <1>10, <1>11, <1>12, <1>13 DEF WorkerStep

-----------------------------------------------------------------------------
(* The steps of the Models and of the calls.                               *)

LEMMA ModelStepMap ==
  ASSUME ServiceInv, NEW m \in Models, ModelStep(m)
  PROVE  UNCHANGED Service!serviceVars \/ Service!Close(m)
<1> USE DEF ServiceInv, CallsInv
<1>1. UNCHANGED <<active, verdict, caller, reply, cancelled, expired>>
  BY DEF ModelStep, LoadRejected, Spawn, LoadReturns, DropLast, SendShutdown, Joined
<1>2. Phase' = Phase
  <2>1. CASE Spawn(m)
    <3>1. worker[m] = "absent" /\ worker' = [worker EXCEPT ![m] = "starting"]
      BY <2>1 DEF Spawn, GoTo, PhaseOK
    <3> QED BY <3>1, Unmoved
  <2> QED BY <2>1, SamePhases
          DEF ModelStep, LoadRejected, LoadReturns, DropLast, SendShutdown, Joined
<1>3. Fate' = Fate /\ WithdrawnCalls' = WithdrawnCalls
  BY <1>1, SameFates, SameWithdrawn
<1>4. CASE UNCHANGED queue
  BY <1>1, <1>2, <1>3, <1>4, SameLine, StutterMap
<1>5. CASE SendShutdown(m) /\ ~ReceiverGone(m) /\ queue' = [queue EXCEPT ![m] = Append(@, Shutdown)]
  <2>1. Backlog' = [Backlog EXCEPT ![m] = Append(@, Shutdown)]
    BY <1>1, <1>5, LineAfterSend
  <2>2. \A i \in 1..Len(queue[m]) : queue[m][i] # Shutdown
    BY <1>5 DEF SendShutdown, QueueInv
  <2>3. Phase[m] \in {"serving", "lost"}
    BY <1>5 DEF SendShutdown, ReceiverGone, LifecycleInv, Phase, ServicePhase, Running, Dying
  <2> QED BY <1>2, <1>3, <2>1, <2>2, <2>3, NoStop, CloseMap
<1> QED BY <1>4, <1>5 DEF ModelStep, LoadRejected, Spawn, LoadReturns, DropLast, SendShutdown, Joined

\* A call that the channel takes.
LEMMA SendMap ==
  ASSUME ServiceInv, NEW c \in Calls, caller[c] \in {"idle", "sending"},
         model[ModelOf[c]] = "live", ~ReceiverGone(ModelOf[c]), Send(c),
         NEW s \in {"held", "waiting"}, caller' = [caller EXCEPT ![c] = s],
         UNCHANGED <<worker, active, verdict, cancelled, expired>>
  PROVE  Service!Accept(c)
<1> USE DEF ServiceInv, CallsInv
<1>1. Fate[c] = "new" /\ reply[c] = "none" /\ active[ModelOf[c]] # c
  BY FateNew
<1>2. ModelOf[c] \in Models /\ c \in Calls \cup {Shutdown}
  BY ServiceCallTypes
<1>3. Phase[ModelOf[c]] \in {"serving", "lost"}
  BY <1>2, SendStage DEF ReceiverGone, Phase, ServicePhase, Running, Dying
<1>4. \A i \in 1..Len(Backlog[ModelOf[c]]) : Backlog[ModelOf[c]][i] # Shutdown
  BY <1>2, SendStage, NoStop
<1>5. Backlog' = [Backlog EXCEPT ![ModelOf[c]] = Append(@, c)]
  BY <1>2, LineAfterSend DEF Send
<1>6. Fate' = [Fate EXCEPT ![c] = "pending"]
  <2>1. \A d \in Calls : /\ reply'[d] = IF d = c THEN "empty" ELSE reply[d]
                         /\ caller'[d] = IF d = c THEN s ELSE caller[d]
    BY DEF Send, TypeOK
  <2>2. ServiceFate(c)' = "pending"
    BY <1>1, <2>1 DEF ServiceFate
  <2>3. ASSUME NEW d \in Calls \ {c}
        PROVE  ServiceFate(d)' = ServiceFate(d)
    BY <2>1, <2>3 DEF ServiceFate
  <2> QED BY <2>2, <2>3 DEF Fate
<1>7. Phase' = Phase /\ WithdrawnCalls' = WithdrawnCalls
  BY SamePhases, SameWithdrawn
<1> QED BY <1>1, <1>3, <1>4, <1>5, <1>6, <1>7, AcceptMap

\* A call that returns before anything was sent.
LEMMA RefusalMap ==
  ASSUME ServiceInv, NEW c \in Calls, caller[c] \in {"idle", "sending"}, NEW v, Return(c, v),
         UNCHANGED <<worker, queue, active, verdict, cancelled, expired, reply>>
  PROVE  Service!Refuse(c)
<1> USE DEF ServiceInv, CallsInv
<1>1. Fate[c] = "new" /\ reply[c] = "none"
  BY FateNew
<1>2. \A d \in Calls : caller'[d] = IF d = c THEN "returned" ELSE caller[d]
  BY DEF Return, TypeOK
<1>3. Fate' = [Fate EXCEPT ![c] = "refused"]
  <2>1. ServiceFate(c)' = "refused"
    BY <1>1, <1>2 DEF ServiceFate
  <2>2. ASSUME NEW d \in Calls \ {c}
        PROVE  ServiceFate(d)' = ServiceFate(d)
    BY <1>2, <2>2 DEF ServiceFate
  <2> QED BY <2>1, <2>2 DEF Fate
<1>4. Phase' = Phase /\ Backlog' = Backlog /\ WithdrawnCalls' = WithdrawnCalls
  BY SamePhases, SameLine, SameWithdrawn
<1> QED BY <1>1, <1>3, <1>4, RefuseMap

\* What the caller does afterwards does not change what became of the call.
LEMMA SettledCaller ==
  ASSUME TypeOK, NEW c \in Calls, NEW s,
         reply[c] # "none" \/ "returned" \notin {caller[c], s},
         caller' = [caller EXCEPT ![c] = s], UNCHANGED <<active, verdict, reply>>
  PROVE  Fate' = Fate
<1>1. \A d \in Calls : caller'[d] = IF d = c THEN s ELSE caller[d]
  BY DEF TypeOK
<1>2. ASSUME NEW d \in Calls
      PROVE  ServiceFate(d)' = ServiceFate(d)
  BY <1>1 DEF ServiceFate
<1> QED BY <1>2 DEF Fate

LEMMA CancelMap ==
  ASSUME TypeOK, NEW r \in TryRuns, SetCancelled(r), UNCHANGED expired
  PROVE  WithdrawnCalls' = WithdrawnCalls \cup {r}
<1>1. r \in Runs /\ TryRuns \subseteq Runs
  BY DEF Runs
<1>2. \A d \in Runs : cancelled'[d] = IF d = r THEN TRUE ELSE cancelled[d]
  BY <1>1 DEF SetCancelled, TypeOK
<1> QED BY <1>1, <1>2 DEF WithdrawnCalls, Withdrawn

LEMMA CallerStepMap ==
  ASSUME ServiceInv, NEW c \in Calls, CallerStep(c)
  PROVE  \/ UNCHANGED Service!serviceVars
         \/ Service!Accept(c) \/ Service!Refuse(c) \/ Service!Withdraw(c)
<1> USE DEF ServiceInv, CallsInv
<1>0. UNCHANGED <<worker, active, verdict>>
  BY CallerFrame
<1>1. CASE RejectInvalid(c)
  BY <1>0, <1>1, RefusalMap DEF RejectInvalid
<1>2. CASE SendBlocking(c)
  <2>1. model[ModelOf[c]] = "live" /\ caller[c] \in {"idle", "sending"}
    BY <1>2 DEF SendBlocking, QueueInv
  <2>2. CASE Return(c, "stopped") /\ UNCHANGED <<queue, reply>>
    BY <1>0, <1>2, <2>1, <2>2, RefusalMap DEF SendBlocking
  <2>3. CASE Send(c) /\ ~ReceiverGone(ModelOf[c]) /\ caller' = [caller EXCEPT ![c] = "waiting"]
    BY <1>0, <1>2, <2>1, <2>3, SendMap DEF SendBlocking
  <2> QED BY <1>2, <2>2, <2>3 DEF SendBlocking
<1>3. CASE TrySubmit(c)
  <2>1. model[ModelOf[c]] = "live" /\ caller[c] \in {"idle", "sending"}
    BY <1>3 DEF TrySubmit
  <2>2. CASE Return(c, Admission(c)) /\ UNCHANGED <<queue, reply>>
    BY <1>0, <1>3, <2>1, <2>2, RefusalMap DEF TrySubmit
  <2>3. CASE Admission(c) = "accepted" /\ Send(c) /\ caller' = [caller EXCEPT ![c] = "held"]
    <3>1. ~ReceiverGone(ModelOf[c])
      BY <2>3, CheckLiveType DEF Admission
    <3> QED BY <1>0, <1>3, <2>1, <2>3, <3>1, SendMap DEF TrySubmit
  <2> QED BY <1>3, <2>2, <2>3 DEF TrySubmit
<1>4. CASE Call(c) \/ Wait(c)
  <2>1. PICK s \in {"sending", "waiting", "timed"} : caller' = [caller EXCEPT ![c] = s]
    BY <1>4 DEF Call, Wait
  <2>2. caller[c] # "returned" /\ UNCHANGED <<queue, reply, cancelled, expired>>
    BY <1>4 DEF Call, Wait
  <2>3. Fate' = Fate
    BY <1>0, <2>1, <2>2, SettledCaller
  <2> QED BY <1>0, <2>2, <2>3, SamePhases, SameLine, SameWithdrawn, StutterMap
<1>5. ASSUME c \in TryRuns, SetCancelled(c), UNCHANGED <<queue, reply, expired>>,
             reply[c] # "none", caller' = [caller EXCEPT ![c] = "returned"] \/ UNCHANGED caller
      PROVE  Service!Withdraw(c)
  <2>1. WithdrawnCalls' = WithdrawnCalls \cup {c}
    BY <1>5, CancelMap
  <2>2. Fate' = Fate
    BY <1>0, <1>5, SettledCaller, SameFates
  <2> QED BY <1>0, <1>5, <2>1, <2>2, SamePhases, SameLine, WithdrawMap
<1>6. CASE Receive(c)
  <2>1. reply[c] # "none" /\ UNCHANGED <<queue, reply, expired>>
        /\ caller' = [caller EXCEPT ![c] = "returned"]
    BY <1>6 DEF Receive, PlaceInv, Return
  <2>2. CASE c \in TryRuns
    BY <1>5, <1>6, <2>1, <2>2 DEF Receive, Runs
  <2>3. CASE c \notin TryRuns
    <3>1. WithdrawnCalls' = WithdrawnCalls
      BY <1>6, <2>1, <2>3 DEF Receive, SetCancelled, WithdrawnCalls, Withdrawn, TypeOK, Runs
    <3>2. Fate' = Fate
      BY <1>0, <2>1, SettledCaller
    <3> QED BY <1>0, <2>1, <3>1, <3>2, SamePhases, SameLine, StutterMap
  <2> QED BY <2>2, <2>3
<1>7. CASE Timeout(c) \/ Cancel(c) \/ DropHandle(c)
  <2>1. /\ c \in TryRuns /\ reply[c] # "none"
        /\ SetCancelled(c) /\ UNCHANGED <<queue, reply, expired>>
        /\ caller' = [caller EXCEPT ![c] = "returned"] \/ UNCHANGED caller
    BY <1>7 DEF Timeout, Cancel, DropHandle, PlaceInv, Return
  <2> QED BY <1>5, <2>1
<1>8. CASE Expire(c)
  <2>1. c \in TryRuns /\ c \in Timed /\ UNCHANGED <<queue, caller, reply, cancelled>>
    BY <1>8, ModelWorkerAssumption DEF Expire
  <2>2. WithdrawnCalls' = WithdrawnCalls \cup {c}
    BY <1>8, <2>1 DEF Expire, WithdrawnCalls, Withdrawn, TypeOK
  <2> QED BY <1>0, <2>1, <2>2, SamePhases, SameLine, SameFates, WithdrawMap
<1> QED BY <1>1, <1>2, <1>3, <1>4, <1>6, <1>7, <1>8 DEF CallerStep

-----------------------------------------------------------------------------

LEMMA ServiceInit == Init => Service!Init
<1> SUFFICES ASSUME Init PROVE Service!Init
  OBVIOUS
<1>1. \A m \in Models : ServicePhase(m) = "starting" /\ ServiceBacklog(m) = <<>>
  BY DEF Init, ServicePhase, ServiceBacklog, Running
<1>2. \A c \in Calls : ServiceFate(c) = "new"
  BY DEF Init, ServiceFate
<1>3. \A r \in TryRuns : ~Withdrawn(r)
  BY DEF Init, Withdrawn, Runs
<1> QED BY <1>1, <1>2, <1>3 DEF Service!Init

LEMMA ServiceStep ==
  ASSUME ServiceInv, [Next]_vars
  PROVE  [Service!Next]_Service!serviceVars
<1>1. ASSUME UNCHANGED <<worker, queue, active, verdict, caller, cancelled, expired, reply>>
      PROVE  UNCHANGED Service!serviceVars
  BY <1>1, SamePhases, SameLine, SameFates, SameWithdrawn, StutterMap
<1>2. ASSUME NEW m \in Models, ModelStep(m) \/ WorkerStep(m)
      PROVE  [Service!Next]_Service!serviceVars
  BY <1>2, ModelStepMap, WorkerStepMap DEF Service!Next
<1>3. ASSUME NEW c \in Calls, CallerStep(c)
      PROVE  [Service!Next]_Service!serviceVars
  BY <1>3, CallerStepMap DEF Service!Next
<1> QED BY <1>1, <1>2, <1>3, UserFrame DEF Next, vars

\* The worker, its bounded channel and its one-shot replies implement the line of
\* calls: calls to one model are decided in the order they were accepted, each at
\* most once; only a withdrawn call is skipped; only a dying worker abandons calls,
\* and it abandons every call it still owes (enqueue, worker_main, PendingRun).
THEOREM WorkerServes == Spec => ServiceImplemented
<1>1. Init => Service!Init
  BY ServiceInit
<1>2. ServiceInv /\ [Next]_vars => [Service!Next]_Service!serviceVars
  BY ServiceStep
<1>3. Spec => []ServiceInv
  BY CallsInvariant, WithdrawInvariant, PTL DEF ServiceInv
<1> QED BY <1>1, <1>2, <1>3, PTL DEF Spec, ServiceImplemented, Service!Spec
=============================================================================
