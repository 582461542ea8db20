--------------------------- MODULE ScanPool_proofs ---------------------------
(***************************************************************************)
(* Proofs about ScanPool for any number of workers, targets and addresses. *)
(* Two facts carry them: a target is in one place at a time (not yet sent, *)
(* in the channel, in a worker's hands, started), which makes the work     *)
(* unique; and while the context is live no target leaves those places     *)
(* unless its device has been started, which makes the work complete.      *)
(***************************************************************************)
EXTENDS ScanPool, NaturalsLemmas

InBuffer == {buffer[k] : k \in DOMAIN buffer}
Got == {task[w] : w \in {v \in Workers : state[v] = "got"}}
Begun == {started[k] : k \in DOMAIN started}
IsServed(i) == \E k \in DOMAIN started : Subject(started[k]) = Subject(i)

\* A target is in one place at a time.
OnePlace ==
  /\ \A k, l \in DOMAIN buffer : k # l => buffer[k] # buffer[l]
  /\ \A v, w \in Workers : v # w /\ state[v] = "got" /\ state[w] = "got" => task[v] # task[w]
  /\ \A k, l \in DOMAIN started : k # l => started[k] # started[l]
  /\ todo \cap (InBuffer \cup Got \cup Begun) = {}
  /\ InBuffer \cap (Got \cup Begun) = {}
  /\ Got \cap Begun = {}

\* A claimed device has been started, and a started one is claimed.
Claimed ==
  phase = "enrich" =>
    /\ \A d \in attempted : \E k \in DOMAIN started : Subject(started[k]) = d
    /\ \A k \in DOMAIN started : Subject(started[k]) \in attempted

\* While the context is live every target is in some place or served.
NoneLost ==
  ctx = "live" => \A i \in Jobs : i \in todo \cup InBuffer \cup Got \/ IsServed(i)

\* The producer has sent everything before it closes the channel, and a worker
\* leaves when there is nothing more to take.
Drained ==
  ctx = "live" =>
    /\ producer # "send" => todo = {}
    /\ \A w \in Workers : state[w] = "gone" => producer # "send" /\ buffer = <<>>

\* wg.Wait: a phase that has returned has left no goroutine behind.
Joined == producer = "returned" => \A w \in Workers : state[w] = "gone"

IInv ==
  /\ TypeOK
  /\ OnePlace
  /\ OncePerSubject
  /\ Claimed
  /\ NoneLost
  /\ Drained
  /\ Joined

-----------------------------------------------------------------------------
(* Targets.                                                                *)

LEMMA JobsFacts ==
  ASSUME phase \in Phases
  PROVE  /\ phase = "ping" => Jobs = 1 .. Addresses
         /\ phase = "enrich" => Jobs \subseteq DOMAIN Found
         /\ phase = "scan" => Jobs \subseteq FirstAllowed
<1>1. phase = "ping" => Jobs = 1 .. Addresses
  BY Zenon DEF Jobs
<1>2. phase = "enrich" => Jobs = EnrichJobs
  BY Zenon DEF Jobs
<1>3. phase = "scan" => Jobs = ScanJobs
  BY Zenon DEF Jobs
<1> QED BY <1>1, <1>2, <1>3 DEF EnrichJobs, ScanJobs

LEMMA ElementOf ==
  ASSUME NEW S, NEW s \in Seq(S), NEW k \in DOMAIN s
  PROVE  s[k] \in S
OBVIOUS

\* Outside enrichment two targets are about different things.
LEMMA SubjectsDiffer ==
  ASSUME phase \in Phases, phase # "enrich", NEW i \in Jobs, NEW j \in Jobs, i # j
  PROVE  Subject(i) # Subject(j)
<1>1. CASE phase = "ping"
  BY <1>1 DEF Subject
<1>2. CASE phase = "scan"
  <2>1. i \in FirstAllowed /\ j \in FirstAllowed
    BY <1>2, JobsFacts
  <2>2. i \in Nat /\ j \in Nat
    BY <2>1, ScanPoolAssumption DEF FirstAllowed, Allowed
  <2>3. i < j \/ j < i
    BY <2>2
  <2> QED BY <1>2, <2>1, <2>3 DEF FirstAllowed, Before, Subject
<1> QED BY <1>1, <1>2 DEF Phases

LEMMA SettingKept ==
  ASSUME UNCHANGED setting
  PROVE  /\ Jobs' = Jobs
         /\ \A i : Subject(i)' = Subject(i)
         /\ phase' = phase
BY DEF setting, Jobs, EnrichJobs, ScanJobs, FirstAllowed, Allowed, Before, Subject

LEMMA InitIInv == Init => IInv
<1> SUFFICES ASSUME Init PROVE IInv
  OBVIOUS
<1>1. TypeOK
  BY ScanPoolAssumption DEF Init, TypeOK
<1>2. InBuffer = {} /\ Got = {} /\ Begun = {}
  BY DEF Init, InBuffer, Got, Begun
<1>3. OnePlace
  BY <1>2 DEF Init, OnePlace
<1>4. OncePerSubject /\ Claimed /\ NoneLost /\ Drained /\ Joined
  BY DEF Init, OncePerSubject, Claimed, NoneLost, Drained, Joined
<1> QED BY <1>1, <1>3, <1>4 DEF IInv

-----------------------------------------------------------------------------
(* Steps.  The setting never changes, so neither do Jobs and Subject.      *)

\* Steps that move no target: only the producer's place, a worker's state
\* outside "got", or the context changes.
LEMMA QuietKeeps ==
  ASSUME IInv, UNCHANGED <<setting, todo, buffer, task, attempted, started>>,
         ctx' \in {"live", "done"}, ctx' = "live" => ctx = "live",
         producer' \in {"send", "join", "returned"},
         state' \in [Workers -> {"recv", "got", "busy", "gone"}],
         \A w \in Workers : state'[w] = "got" <=> state[w] = "got",
         \A w \in Workers : state'[w] = "busy" => state[w] = "busy",
         Drained', Joined'
  PROVE  IInv'
<1>1. Jobs' = Jobs /\ (\A i : Subject(i)' = Subject(i)) /\ phase' = phase
  BY SettingKept
<1>2. InBuffer' = InBuffer /\ Got' = Got /\ Begun' = Begun
  BY DEF InBuffer, Got, Begun
<1>3. TypeOK'
  BY <1>1 DEF IInv, TypeOK, setting
<1>4. OnePlace'
  BY <1>2 DEF IInv, OnePlace
<1>5. OncePerSubject' /\ Claimed'
  BY <1>1 DEF IInv, OncePerSubject, Claimed
<1>6. NoneLost'
  <2>1. \A i : IsServed(i)' = IsServed(i)
    BY <1>1 DEF IsServed
  <2> QED BY <1>1, <1>2, <2>1 DEF IInv, NoneLost
<1> QED BY <1>3, <1>4, <1>5, <1>6 DEF IInv

LEMMA ProducerKeeps ==
  ASSUME IInv, Expire \/ Cancel \/ Close \/ Return
  PROVE  IInv'
<1>1. /\ UNCHANGED <<setting, todo, buffer, state, task, attempted, started>>
      /\ ctx' \in {"live", "done"} /\ (ctx' = "live" => ctx = "live")
      /\ producer' \in {"send", "join", "returned"}
  BY DEF IInv, TypeOK, Expire, Cancel, Close, Return
<1>2. state' \in [Workers -> {"recv", "got", "busy", "gone"}]
  BY <1>1 DEF IInv, TypeOK
<1>3. Drained'
  BY <1>1 DEF IInv, Drained, Expire, Cancel, Close, Return
<1>4. Joined'
  BY <1>1 DEF IInv, Joined, Expire, Cancel, Close, Return
<1> QED BY <1>1, <1>2, <1>3, <1>4, QuietKeeps

LEMMA RestKeeps ==
  ASSUME IInv, NEW w \in Workers, Leave(w) \/ Finish(w) \/ Abort(w)
  PROVE  IInv'
<1>1. UNCHANGED <<setting, ctx, producer, todo, buffer, task, attempted, started>>
  BY DEF Leave, Finish, Abort
<1>2. /\ state' \in [Workers -> {"recv", "got", "busy", "gone"}]
      /\ \A v \in Workers : state'[v] = "got" <=> state[v] = "got"
      /\ \A v \in Workers : state'[v] = "busy" => state[v] = "busy"
  BY DEF IInv, TypeOK, Leave, Finish, Abort, Become
<1>3. Drained'
  BY <1>1 DEF IInv, TypeOK, Drained, Leave, Finish, Abort, Become
<1>4. Joined'
  BY <1>1 DEF IInv, TypeOK, Joined, Leave, Finish, Abort, Become
<1>5. /\ ctx' \in {"live", "done"} /\ (ctx' = "live" => ctx = "live")
      /\ producer' \in {"send", "join", "returned"}
  BY <1>1 DEF IInv, TypeOK
<1> QED BY <1>1, <1>2, <1>3, <1>4, <1>5, QuietKeeps

\* A target goes from the producer to a worker.
LEMMA HandOverKeeps ==
  ASSUME IInv, NEW w \in Workers, HandOver(w)
  PROVE  IInv'
<1>1. PICK i \in todo : todo' = todo \ {i} /\ task' = [task EXCEPT ![w] = i]
  BY DEF HandOver
<1>2. /\ producer = "send" /\ state[w] = "recv"
      /\ state' = [state EXCEPT ![w] = "got"]
      /\ UNCHANGED <<setting, ctx, producer, buffer, attempted, started>>
  BY DEF HandOver, Become
<1>3. Jobs' = Jobs /\ (\A j : Subject(j)' = Subject(j)) /\ phase' = phase
  BY <1>2, SettingKept
<1>4. /\ \A v \in Workers : v # w => state'[v] = state[v] /\ task'[v] = task[v]
      /\ state'[w] = "got" /\ task'[w] = i /\ i \in Jobs
      /\ state' \in [Workers -> {"recv", "got", "busy", "gone"}]
      /\ task' \in [Workers -> Jobs \cup {0}]
  BY <1>1, <1>2 DEF IInv, TypeOK
<1>5. InBuffer' = InBuffer /\ Begun' = Begun
  BY <1>2 DEF InBuffer, Begun
<1>6. Got' = Got \cup {i}
  BY <1>2, <1>4 DEF Got
<1>7. TypeOK'
  BY <1>1, <1>2, <1>3, <1>4 DEF IInv, TypeOK, setting
<1>8. OnePlace'
  <2>1. i \notin Got /\ i \notin InBuffer /\ i \notin Begun
    BY <1>1 DEF IInv, OnePlace
  <2>2. \A v \in Workers : v # w /\ state[v] = "got" => task[v] # i
    BY <2>1 DEF Got
  <2>3. \A v, u \in Workers : v # u /\ state'[v] = "got" /\ state'[u] = "got" => task'[v] # task'[u]
    BY <1>4, <2>2 DEF IInv, OnePlace
  <2> QED BY <1>1, <1>2, <1>5, <1>6, <2>1, <2>3 DEF IInv, OnePlace
<1>9. OncePerSubject' /\ Claimed'
  BY <1>2, <1>3 DEF IInv, OncePerSubject, Claimed
<1>10. NoneLost'
  <2>1. \A j : IsServed(j)' = IsServed(j)
    BY <1>2, <1>3 DEF IsServed
  <2> QED BY <1>1, <1>2, <1>3, <1>5, <1>6, <2>1 DEF IInv, NoneLost
<1>11. Drained' /\ Joined'
  BY <1>2, <1>4 DEF IInv, Drained, Joined
<1> QED BY <1>7, <1>8, <1>9, <1>10, <1>11 DEF IInv

-----------------------------------------------------------------------------
(* Steps through the channel and the history.                              *)

\* A sequence without repetitions that gets a new last element.
LEMMA AppendFresh ==
  ASSUME NEW S, NEW s \in Seq(S), NEW e \in S,
         \A k, l \in DOMAIN s : k # l => s[k] # s[l],
         \A k \in DOMAIN s : s[k] # e,
         NEW t, t = Append(s, e)
  PROVE  /\ t \in Seq(S)
         /\ \A k, l \in DOMAIN t : k # l => t[k] # t[l]
         /\ {t[k] : k \in DOMAIN t} = {s[k] : k \in DOMAIN s} \cup {e}
<1>1. /\ t \in Seq(S) /\ Len(t) = Len(s) + 1 /\ Len(s) \in Nat
      /\ DOMAIN t = 1 .. Len(s) + 1 /\ DOMAIN s = 1 .. Len(s)
      /\ \A k \in 1 .. Len(s) : t[k] = s[k]
      /\ t[Len(s) + 1] = e
  OBVIOUS
<1>2. \A k \in DOMAIN t : k \in DOMAIN s \/ k = Len(s) + 1
  BY <1>1
<1>3. \A k, l \in DOMAIN t : k # l => t[k] # t[l]
  BY <1>1, <1>2
<1>4. {t[k] : k \in DOMAIN t} = {s[k] : k \in DOMAIN s} \cup {e}
  BY <1>1, <1>2
<1> QED BY <1>1, <1>3, <1>4

\* A sequence without repetitions that loses its first element.
LEMMA TailFresh ==
  ASSUME NEW S, NEW s \in Seq(S), NEW t \in Seq(S), Len(s) = Len(t) + 1,
         \A k \in 1 .. Len(t) : t[k] = s[k + 1],
         \A k, l \in DOMAIN s : k # l => s[k] # s[l]
  PROVE  /\ \A k, l \in DOMAIN t : k # l => t[k] # t[l]
         /\ {t[k] : k \in DOMAIN t} = {s[k] : k \in DOMAIN s} \ {s[1]}
<1>1. /\ Len(t) \in Nat
      /\ DOMAIN t = 1 .. Len(t) /\ DOMAIN s = 1 .. Len(t) + 1
  OBVIOUS
<1>2. \A k \in DOMAIN t : k + 1 \in DOMAIN s /\ k + 1 # 1 /\ t[k] = s[k + 1]
  BY <1>1
<1>3. \A k \in DOMAIN s : k # 1 => k - 1 \in DOMAIN t /\ t[k - 1] = s[k]
  BY <1>1
<1>4. \A k, l \in DOMAIN t : k # l => t[k] # t[l]
  BY <1>1, <1>2
<1>5. {t[k] : k \in DOMAIN t} = {s[k] : k \in DOMAIN s} \ {s[1]}
  <2>1. 1 \in DOMAIN s
    BY <1>1
  <2>2. ASSUME NEW k \in DOMAIN t PROVE t[k] \in {s[l] : l \in DOMAIN s} \ {s[1]}
    BY <1>2, <2>1
  <2>3. ASSUME NEW k \in DOMAIN s, s[k] # s[1] PROVE s[k] \in {t[l] : l \in DOMAIN t}
    BY <1>3, <2>3
  <2> QED BY <2>2, <2>3
<1> QED BY <1>4, <1>5

LEMMA PutKeeps ==
  ASSUME IInv, Put
  PROVE  IInv'
<1>1. PICK i \in todo : todo' = todo \ {i} /\ buffer' = Append(buffer, i)
  BY DEF Put
<1>2. /\ producer = "send" /\ Len(buffer) < Capacity
      /\ UNCHANGED <<setting, ctx, producer, state, task, attempted, started>>
  BY DEF Put
<1>3. Jobs' = Jobs /\ (\A j : Subject(j)' = Subject(j)) /\ phase' = phase
  BY <1>2, SettingKept
<1>4. Got' = Got /\ Begun' = Begun
  BY <1>2 DEF Got, Begun
<1>5. i \in Jobs /\ buffer \in Seq(Jobs) /\ i \notin InBuffer
  BY <1>1 DEF IInv, TypeOK, OnePlace
<1>6. /\ \A k, l \in DOMAIN buffer : k # l => buffer[k] # buffer[l]
      /\ \A k \in DOMAIN buffer : buffer[k] # i
  BY <1>5 DEF IInv, OnePlace, InBuffer
<1>7. /\ buffer' \in Seq(Jobs)
      /\ \A k, l \in DOMAIN buffer' : k # l => buffer'[k] # buffer'[l]
      /\ {buffer'[k] : k \in DOMAIN buffer'} = {buffer[k] : k \in DOMAIN buffer} \cup {i}
  BY <1>1, <1>5, <1>6, AppendFresh
<1>8. InBuffer' = InBuffer \cup {i}
  BY <1>7 DEF InBuffer
<1>9. TypeOK'
  <2>1. Len(buffer') <= Capacity
    BY <1>1, <1>2, <1>5, ScanPoolAssumption
  <2> QED BY <1>1, <1>2, <1>3, <1>7, <2>1 DEF IInv, TypeOK, setting
<1>10. OnePlace'
  BY <1>1, <1>2, <1>4, <1>7, <1>8 DEF IInv, OnePlace
<1>11. OncePerSubject' /\ Claimed'
  BY <1>2, <1>3 DEF IInv, OncePerSubject, Claimed
<1>12. NoneLost'
  <2>1. \A j : IsServed(j)' = IsServed(j)
    BY <1>2, <1>3 DEF IsServed
  <2> QED BY <1>1, <1>2, <1>3, <1>4, <1>8, <2>1 DEF IInv, NoneLost
<1>13. Drained' /\ Joined'
  BY <1>2 DEF IInv, Drained, Joined
<1> QED BY <1>9, <1>10, <1>11, <1>12, <1>13 DEF IInv

LEMMA TakeKeeps ==
  ASSUME IInv, NEW w \in Workers, Take(w)
  PROVE  IInv'
<1> DEFINE i == Head(buffer)
<1>1. /\ state[w] = "recv" /\ buffer # <<>>
      /\ buffer' = Tail(buffer) /\ task' = [task EXCEPT ![w] = i]
      /\ state' = [state EXCEPT ![w] = "got"]
      /\ UNCHANGED <<setting, ctx, todo, producer, attempted, started>>
  BY DEF Take, Become
<1>2. Jobs' = Jobs /\ (\A j : Subject(j)' = Subject(j)) /\ phase' = phase
  BY <1>1, SettingKept
<1>3. buffer \in Seq(Jobs) /\ \A k, l \in DOMAIN buffer : k # l => buffer[k] # buffer[l]
  BY DEF IInv, TypeOK, OnePlace
<1>4. /\ buffer' \in Seq(Jobs) /\ Len(buffer') <= Len(buffer) /\ i \in Jobs
      /\ i = buffer[1] /\ 1 \in DOMAIN buffer
      /\ \A k, l \in DOMAIN buffer' : k # l => buffer'[k] # buffer'[l]
      /\ {buffer'[k] : k \in DOMAIN buffer'} = {buffer[k] : k \in DOMAIN buffer} \ {i}
  <2>1. /\ buffer' \in Seq(Jobs) /\ Len(buffer) = Len(buffer') + 1 /\ Len(buffer') \in Nat
        /\ \A k \in 1 .. Len(buffer') : buffer'[k] = buffer[k + 1]
        /\ i = buffer[1] /\ 1 \in DOMAIN buffer
    BY <1>1, <1>3
  <2>2. i \in Jobs /\ Len(buffer') <= Len(buffer)
    BY <1>3, <2>1
  <2> HIDE DEF i
  <2>3. /\ \A k, l \in DOMAIN buffer' : k # l => buffer'[k] # buffer'[l]
        /\ {buffer'[k] : k \in DOMAIN buffer'} = {buffer[k] : k \in DOMAIN buffer} \ {buffer[1]}
    BY <1>3, <2>1, TailFresh
  <2> QED BY <2>1, <2>2, <2>3
<1>5. InBuffer' = InBuffer \ {i} /\ Begun' = Begun
  BY <1>1, <1>4 DEF InBuffer, Begun
<1>6. i \in InBuffer
  BY <1>4 DEF InBuffer
<1> HIDE DEF i
<1>7. /\ \A v \in Workers : v # w => state'[v] = state[v] /\ task'[v] = task[v]
      /\ state'[w] = "got" /\ task'[w] = i
      /\ state' \in [Workers -> {"recv", "got", "busy", "gone"}]
      /\ task' \in [Workers -> Jobs \cup {0}]
  BY <1>1, <1>4 DEF IInv, TypeOK
<1>8. Got' = Got \cup {i}
  BY <1>1, <1>7 DEF Got
<1>9. TypeOK'
  <2>1. Len(buffer') <= Capacity
    BY <1>3, <1>4, ScanPoolAssumption DEF IInv, TypeOK
  <2> QED BY <1>1, <1>2, <1>4, <1>7, <2>1 DEF IInv, TypeOK, setting
<1>10. OnePlace'
  <2>1. i \notin Got /\ i \notin todo /\ i \notin Begun
    BY <1>6 DEF IInv, OnePlace
  <2>2. \A v \in Workers : v # w /\ state[v] = "got" => task[v] # i
    BY <2>1 DEF Got
  <2>3. \A v, u \in Workers : v # u /\ state'[v] = "got" /\ state'[u] = "got" => task'[v] # task'[u]
    BY <1>7, <2>2 DEF IInv, OnePlace
  <2> QED BY <1>1, <1>4, <1>5, <1>8, <2>1, <2>3 DEF IInv, OnePlace
<1>11. OncePerSubject' /\ Claimed'
  BY <1>1, <1>2 DEF IInv, OncePerSubject, Claimed
<1>12. NoneLost'
  <2>1. \A j : IsServed(j)' = IsServed(j)
    BY <1>1, <1>2 DEF IsServed
  <2> QED BY <1>1, <1>2, <1>5, <1>8, <2>1 DEF IInv, NoneLost
<1>13. Drained' /\ Joined'
  BY <1>1, <1>7 DEF IInv, Drained, Joined
<1> QED BY <1>9, <1>10, <1>11, <1>12, <1>13 DEF IInv

\* A worker gives its target up: it is served already, or the context is done.
LEMMA GiveUpKeeps ==
  ASSUME IInv, NEW w \in Workers, Drop(w) \/ Skip(w)
  PROVE  IInv'
<1>1. PICK s \in {"recv", "gone"} :
        /\ state[w] = "got" /\ state' = [state EXCEPT ![w] = s]
        /\ s = "gone" => ctx = "done"
        /\ s = "recv" => phase = "enrich" /\ Found[task[w]].device \in attempted
        /\ UNCHANGED <<setting, ctx, todo, producer, buffer, task, attempted, started>>
  BY DEF Drop, Skip, Become
<1>2. Jobs' = Jobs /\ (\A j : Subject(j)' = Subject(j)) /\ phase' = phase
  BY <1>1, SettingKept
<1>3. /\ \A v \in Workers : v # w => state'[v] = state[v]
      /\ state'[w] = s
      /\ state' \in [Workers -> {"recv", "got", "busy", "gone"}]
  BY <1>1 DEF IInv, TypeOK
<1>4. InBuffer' = InBuffer /\ Begun' = Begun /\ Got' \subseteq Got
  BY <1>1, <1>3 DEF InBuffer, Begun, Got
<1>5. Got \subseteq Got' \cup {task[w]}
  BY <1>1, <1>3 DEF Got
<1>6. TypeOK'
  BY <1>1, <1>2, <1>3 DEF IInv, TypeOK, setting
<1>7. OnePlace'
  BY <1>1, <1>3, <1>4 DEF IInv, OnePlace
<1>8. OncePerSubject' /\ Claimed'
  BY <1>1, <1>2 DEF IInv, OncePerSubject, Claimed
<1>9. NoneLost'
  <2>1. \A j : IsServed(j)' = IsServed(j)
    BY <1>1, <1>2 DEF IsServed
  <2>2. s = "recv" => IsServed(task[w])
    BY <1>1 DEF IInv, Claimed, IsServed, Subject
  <2> QED BY <1>1, <1>2, <1>4, <1>5, <2>1, <2>2 DEF IInv, NoneLost
<1>10. Drained' /\ Joined'
  BY <1>1, <1>3 DEF IInv, Drained, Joined
<1> QED BY <1>6, <1>7, <1>8, <1>9, <1>10 DEF IInv

\* A worker starts on a target no one has started on.
LEMMA StartKeeps ==
  ASSUME IInv, NEW w \in Workers, Start(w)
  PROVE  IInv'
<1>0. PICK i : i = task[w]
  OBVIOUS
<1>1. /\ state[w] = "got" /\ state' = [state EXCEPT ![w] = "busy"]
      /\ started' = Append(started, i)
      /\ UNCHANGED <<setting, ctx, todo, producer, buffer, task>>
      /\ phase = "enrich" => Subject(i) \notin attempted /\ attempted' = attempted \cup {Subject(i)}
      /\ phase # "enrich" => attempted' = attempted
  BY <1>0 DEF Start, Become, Subject
<1>2. Jobs' = Jobs /\ (\A j : Subject(j)' = Subject(j)) /\ phase' = phase
  BY <1>1, SettingKept
<1>3. /\ i \in Jobs /\ i \in Got /\ started \in Seq(Jobs)
      /\ i \notin Begun /\ i \notin todo /\ i \notin InBuffer
  BY <1>0, <1>1 DEF IInv, TypeOK, OnePlace, Got
<1>4. phase = "enrich" => Subject(i) \in Devices
  <2>1. CASE phase = "enrich"
    <3>1. i \in DOMAIN Found /\ Subject(i) = Found[i].device
      BY <1>3, <2>1, JobsFacts DEF IInv, TypeOK, Subject
    <3>2. Found[i] \in [device : Devices, allowed : BOOLEAN]
      BY <3>1, ElementOf, ScanPoolAssumption
    <3> QED BY <3>1, <3>2
  <2> QED BY <2>1
<1>5. /\ \A k, l \in DOMAIN started : k # l => started[k] # started[l]
      /\ \A k \in DOMAIN started : started[k] # i
  BY <1>3 DEF IInv, OnePlace, Begun
<1>6. /\ started' \in Seq(Jobs)
      /\ \A k, l \in DOMAIN started' : k # l => started'[k] # started'[l]
      /\ {started'[k] : k \in DOMAIN started'} = {started[k] : k \in DOMAIN started} \cup {i}
  BY <1>1, <1>3, <1>5, AppendFresh
<1>7. Begun' = Begun \cup {i} /\ InBuffer' = InBuffer
  BY <1>1, <1>6 DEF Begun, InBuffer
<1>8. /\ \A v \in Workers : v # w => state'[v] = state[v]
      /\ state'[w] = "busy"
      /\ state' \in [Workers -> {"recv", "got", "busy", "gone"}]
  BY <1>1 DEF IInv, TypeOK
<1>9. Got' = Got \ {i}
  <2>1. \A v \in Workers : v # w /\ state[v] = "got" => task[v] # i
    BY <1>0, <1>1 DEF IInv, OnePlace
  <2>2. task' = task
    BY <1>1
  <2> QED BY <1>0, <1>1, <1>8, <2>1, <2>2 DEF Got
<1>10. TypeOK'
  <2>1. attempted' \subseteq Devices
    BY <1>1, <1>4 DEF IInv, TypeOK, Phases
  <2>2. \A v \in Workers : state'[v] \in {"got", "busy"} => task'[v] \in Jobs
    BY <1>0, <1>1, <1>3, <1>8 DEF IInv, TypeOK
  <2> QED BY <1>1, <1>2, <1>6, <1>8, <2>1, <2>2 DEF IInv, TypeOK, setting
<1>11. OnePlace'
  BY <1>1, <1>3, <1>6, <1>7, <1>8, <1>9 DEF IInv, OnePlace
<1>12. /\ \A k \in DOMAIN started : k \in DOMAIN started' /\ started'[k] = started[k]
       /\ \A k \in DOMAIN started' : k \in DOMAIN started \/ started'[k] = i
       /\ \E k \in DOMAIN started' : started'[k] = i
  BY <1>1, <1>3
<1>13. OncePerSubject'
  <2>1. CASE phase # "enrich"
    <3>1. ASSUME NEW k \in DOMAIN started', NEW l \in DOMAIN started', k # l
          PROVE  Subject(started'[k]) # Subject(started'[l])
      <4>1. started'[k] \in Jobs /\ started'[l] \in Jobs /\ started'[k] # started'[l]
        BY <1>6, <3>1
      <4> QED BY <2>1, <4>1, SubjectsDiffer DEF IInv, TypeOK
    <3> QED BY <1>2, <3>1 DEF OncePerSubject
  <2>2. CASE phase = "enrich"
    <3>1. \A k \in DOMAIN started : Subject(started[k]) # Subject(i)
      BY <1>1, <2>2 DEF IInv, Claimed
    <3>2. ASSUME NEW k \in DOMAIN started', NEW l \in DOMAIN started', k # l
          PROVE  Subject(started'[k]) # Subject(started'[l])
      <4>1. CASE k \in DOMAIN started /\ l \in DOMAIN started
        BY <1>12, <3>2, <4>1 DEF IInv, OncePerSubject
      <4>2. CASE k \in DOMAIN started /\ started'[l] = i
        BY <1>12, <3>1, <4>2
      <4>3. CASE started'[k] = i /\ l \in DOMAIN started
        BY <1>12, <3>1, <4>3
      <4>4. CASE started'[k] = i /\ started'[l] = i
        BY <1>6, <3>2, <4>4
      <4> QED BY <1>12, <4>1, <4>2, <4>3, <4>4
    <3> QED BY <1>2, <3>2 DEF OncePerSubject
  <2> QED BY <2>1, <2>2
<1>14. Claimed'
  <2>1. CASE phase = "enrich"
    <3>1. \A d \in attempted' : \E k \in DOMAIN started' : Subject(started'[k]) = d
      BY <1>1, <1>12, <2>1 DEF IInv, Claimed
    <3>2. \A k \in DOMAIN started' : Subject(started'[k]) \in attempted'
      BY <1>1, <1>12, <2>1 DEF IInv, Claimed
    <3> QED BY <1>2, <3>1, <3>2 DEF Claimed
  <2> QED BY <1>2, <2>1 DEF Claimed
<1>15. NoneLost'
  <2>1. \A j : IsServed(j) => IsServed(j)'
    BY <1>2, <1>12 DEF IsServed
  <2>2. IsServed(i)'
    BY <1>2, <1>12 DEF IsServed
  <2> QED BY <1>1, <1>2, <1>7, <1>9, <2>1, <2>2 DEF IInv, NoneLost
<1>16. Drained' /\ Joined'
  BY <1>1, <1>8 DEF IInv, Drained, Joined
<1> QED BY <1>10, <1>11, <1>13, <1>14, <1>15, <1>16 DEF IInv

-----------------------------------------------------------------------------
(* The theorems.                                                           *)

LEMMA StepIInv == IInv /\ [Next]_vars => IInv'
<1> SUFFICES ASSUME IInv, [Next]_vars PROVE IInv'
  OBVIOUS
<1>1. CASE UNCHANGED vars
  <2>1. UNCHANGED <<setting, ctx, todo, producer, buffer, state, task, attempted, started>>
    BY <1>1 DEF vars, setting
  <2>2. Drained' /\ Joined'
    BY <2>1 DEF IInv, Drained, Joined
  <2>3. /\ ctx' \in {"live", "done"} /\ (ctx' = "live" => ctx = "live")
        /\ producer' \in {"send", "join", "returned"}
        /\ state' \in [Workers -> {"recv", "got", "busy", "gone"}]
    BY <2>1 DEF IInv, TypeOK
  <2> QED BY <2>1, <2>2, <2>3, QuietKeeps
<1>2. CASE Expire \/ Cancel \/ Close \/ Return
  BY <1>2, ProducerKeeps
<1>3. ASSUME NEW w \in Workers, HandOver(w) PROVE IInv'
  BY <1>3, HandOverKeeps
<1>4. CASE Put
  BY <1>4, PutKeeps
<1>5. ASSUME NEW w \in Workers, Work(w) PROVE IInv'
  BY <1>5, TakeKeeps, RestKeeps, GiveUpKeeps, StartKeeps DEF Work
<1>6. CASE Done
  BY <1>1, <1>6 DEF Done
<1> QED BY <1>1, <1>2, <1>3, <1>4, <1>5, <1>6 DEF Next, Produce

LEMMA Invariance == Spec => []IInv
BY InitIInv, StepIInv, PTL DEF Spec

\* Every variable keeps its type.
THEOREM PoolTypeCorrect == Spec => []TypeOK
<1>1. IInv => TypeOK
  BY DEF IInv
<1> QED BY Invariance, <1>1, PTL

\* For any number of goroutines and targets no device is enriched or scanned
\* twice in a run, and no address pinged twice.
THEOREM WorkIsUnique == Spec => []OncePerSubject
<1>1. IInv => OncePerSubject
  BY DEF IInv
<1> QED BY Invariance, <1>1, PTL

\* A phase that returns while the context is live has served every target.
LEMMA LiveIsServed ==
  ASSUME IInv, ctx = "live", producer # "send", \A w \in Workers : state[w] = "gone"
  PROVE  Served
<1>1. todo = {} /\ buffer = <<>>
  BY ScanPoolAssumption DEF IInv, Drained
<1>2. InBuffer = {} /\ Got = {}
  BY <1>1 DEF InBuffer, Got
<1> QED BY <1>1, <1>2 DEF IInv, NoneLost, IsServed, Served

\* Every step of a pool is a step of ScanPhase or a stutter: part of the work
\* is missing only if the context is done.
THEOREM PoolsImplementScanPhase == Spec => PhaseSpec
<1>1. Init => P!Init
  BY DEF Init, P!Init, Outcome
<1>2. IInv /\ [Next]_vars => [P!Next]_<<ctx, Outcome>>
  <2> SUFFICES ASSUME IInv, [Next]_vars
               PROVE  P!Next \/ UNCHANGED <<ctx, Outcome>>
    OBVIOUS
  <2>1. CASE UNCHANGED vars
    BY <2>1, SettingKept DEF vars, setting, Outcome, Served
  <2>2. CASE Expire
    <3>1. UNCHANGED Outcome
      BY <2>2, SettingKept DEF Expire, Outcome, Served
    <3> QED BY <2>2, <3>1 DEF Expire, P!Next, P!Expire
  <2>3. CASE Return
    <3>1. UNCHANGED <<setting, ctx, started>> /\ producer = "join" /\ producer' = "returned"
      BY <2>3 DEF Return
    <3>2. Served' <=> Served
      BY <3>1, SettingKept DEF Served
    <3>3. /\ Outcome = "working"
          /\ Outcome' = IF Served THEN "complete" ELSE "curtailed"
      BY <3>1, <3>2 DEF Outcome
    <3>4. ctx = "done" \/ Served
      BY <2>3, <3>1, LiveIsServed DEF Return, IInv, TypeOK
    <3> QED BY <3>1, <3>3, <3>4 DEF P!Next, P!Complete, P!Curtail
  <2>4. CASE Cancel \/ Close \/ Put \/ (\E w \in Workers : HandOver(w))
    <3>1. /\ UNCHANGED ctx /\ producer # "returned" /\ producer' # "returned"
      BY <2>4 DEF Cancel, Close, Put, HandOver
    <3> QED BY <3>1 DEF Outcome
  <2>5. ASSUME NEW w \in Workers, Work(w)
        PROVE  UNCHANGED <<ctx, Outcome>>
    <3>1. UNCHANGED <<ctx, producer>> /\ state[w] # "gone"
      BY <2>5 DEF Work, Take, Leave, Drop, Skip, Start, Finish, Abort
    <3>2. producer # "returned"
      BY <3>1 DEF IInv, Joined
    <3> QED BY <3>1, <3>2 DEF Outcome
  <2>6. CASE Done
    BY <2>1, <2>6 DEF Done
  <2> QED BY <2>1, <2>2, <2>3, <2>4, <2>5, <2>6 DEF Next, Produce
<1> QED BY Invariance, <1>1, <1>2, PTL DEF Spec, PhaseSpec, P!Spec
-----------------------------------------------------------------------------
(* Why a phase returns.  It can go on for a bounded number of steps, and as*)
(* long as it has not returned the producer or a goroutine can go on: what *)
(* PhaseReturns adds is that one that can go on does.                      *)

\* Goroutines that are in one of the states S.
In(S) == {w \in Workers : state[w] \in S}
Count(S) == Cardinality(In(S))

Rank == CASE producer = "send" -> 2 [] producer = "join" -> 1 [] OTHER -> 0

\* Four steps for a target (sent, taken, started, finished), one for each
\* goroutine that leaves, two for the producer.
Unsent == Cardinality(todo)
WorkersLeft == Count({"recv", "got", "busy"}) + Count({"got", "busy"}) + Count({"got"})
StepsLeft == 4 * Unsent + 3 * Len(buffer) + WorkersLeft + Rank

\* When the producer can go on, and when a goroutine can.
ProducerReady ==
  \/ /\ producer = "send"
     /\ \/ todo = {} \/ ctx = "done"
        \/ phase = "ping" /\ Len(buffer) < Capacity
        \/ phase # "ping" /\ \E w \in Workers : state[w] = "recv"
  \/ producer = "join" /\ \A w \in Workers : state[w] = "gone"

WorkerReady(w) ==
  \/ state[w] \in {"got", "busy"}
  \/ state[w] = "recv" /\ (buffer # <<>> \/ producer = "join")

SomeoneReady == producer = "returned" \/ ProducerReady \/ \E w \in Workers : WorkerReady(w)

\* A goroutine of the sweep leaves the channel closed and empty, whether the
\* context is done or not.
SweepDrains ==
  phase = "ping" =>
    \A w \in Workers : state[w] = "gone" => producer # "send" /\ buffer = <<>>

LEMMA SweepInit == Init => SweepDrains
BY DEF Init, SweepDrains

LEMMA SweepStep == IInv /\ SweepDrains /\ [Next]_vars => SweepDrains'
<1> SUFFICES ASSUME IInv, SweepDrains, [Next]_vars PROVE SweepDrains'
  OBVIOUS
<1>1. CASE UNCHANGED vars
  BY <1>1 DEF SweepDrains, vars
<1>2. CASE Expire
  BY <1>2 DEF SweepDrains, Expire, setting
<1>3. CASE Produce
  BY <1>3 DEF IInv, TypeOK, SweepDrains, Produce, HandOver, Put, Cancel, Close, Return, Become, setting
<1>4. ASSUME NEW w \in Workers, Work(w) PROVE SweepDrains'
  <2>1. CASE Take(w)
    <3>1. /\ buffer # <<>> /\ phase' = phase
          /\ state[w] = "recv" /\ state' = [state EXCEPT ![w] = "got"]
      BY <2>1 DEF Take, Become, setting
    <3>2. \A v \in Workers : state'[v] = "gone" => state[v] = "gone"
      BY <3>1 DEF IInv, TypeOK
    <3> QED BY <3>1, <3>2 DEF SweepDrains
  <2>2. CASE Leave(w)
    BY <2>2 DEF Leave, SweepDrains, Become, setting
  <2>3. CASE Drop(w) \/ Abort(w)
    BY <2>3 DEF Drop, Abort, SweepDrains, setting
  <2>4. CASE Skip(w) \/ Start(w) \/ Finish(w)
    <3>1. PICK s \in {"recv", "busy"} :
            /\ state' = [state EXCEPT ![w] = s]
            /\ phase' = phase /\ producer' = producer /\ buffer' = buffer
      BY <2>4 DEF Skip, Start, Finish, Become, setting
    <3>2. \A v \in Workers : state'[v] = "gone" => state[v] = "gone"
      BY <3>1 DEF IInv, TypeOK
    <3> QED BY <3>1, <3>2 DEF SweepDrains
  <2> QED BY <1>4, <2>1, <2>2, <2>3, <2>4 DEF Work
<1>5. CASE Done
  BY <1>1, <1>5 DEF Done
<1> QED BY <1>1, <1>2, <1>3, <1>4, <1>5 DEF Next

\* The producer and the goroutines of a phase never wait for each other: until
\* the phase returns one of them can go on, even when goroutines have left
\* because the context was done.
THEOREM PhaseNeverStuck == Spec => []SomeoneReady
<1>1. IInv /\ SweepDrains => SomeoneReady
  <2> SUFFICES ASSUME IInv, SweepDrains, producer # "returned",
                      \A w \in Workers : ~WorkerReady(w)
               PROVE  ProducerReady
    BY DEF SomeoneReady
  <2>1. \A w \in Workers : \/ state[w] = "gone"
                           \/ state[w] = "recv" /\ buffer = <<>> /\ producer = "send"
    BY DEF IInv, TypeOK, WorkerReady
  <2>2. CASE producer = "join"
    BY <2>1, <2>2 DEF ProducerReady
  <2>3. CASE producer = "send"
    <3>1. PICK w \in Workers : TRUE
      BY ScanPoolAssumption
    <3>2. CASE state[w] = "recv"
      <4>1. buffer = <<>> /\ Len(buffer) < Capacity
        BY <2>1, <3>2, ScanPoolAssumption
      <4> QED BY <2>3, <3>2, <4>1 DEF ProducerReady
    <3>3. CASE state[w] = "gone"
      <4>1. ctx = "done"
        BY <2>3, <3>3 DEF IInv, TypeOK, Drained
      <4> QED BY <2>3, <4>1 DEF ProducerReady
    <3> QED BY <2>1, <3>2, <3>3
  <2> QED BY <2>2, <2>3 DEF IInv, TypeOK
<1> QED BY Invariance, SweepInit, SweepStep, <1>1, PTL DEF Spec

-----------------------------------------------------------------------------
(* Counting the steps.                                                     *)

LEMMA JobsAreFinite == ASSUME phase \in Phases PROVE IsFiniteSet(Jobs)
<1>1. IsFiniteSet(1 .. Addresses)
  BY FS_Interval, ScanPoolAssumption
<1>2. IsFiniteSet(DOMAIN Found)
  <2>1. DOMAIN Found = 1 .. Len(Found) /\ Len(Found) \in Nat
    BY ScanPoolAssumption
  <2> QED BY <2>1, FS_Interval
<1>3. Jobs \subseteq 1 .. Addresses \/ Jobs \subseteq DOMAIN Found
  BY JobsFacts DEF Phases, FirstAllowed, Allowed
<1> QED BY <1>1, <1>2, <1>3, FS_Subset, Zenon

LEMMA UnsentIsFinite == ASSUME IInv PROVE IsFiniteSet(todo) /\ Unsent \in Nat
<1>1. todo \in SUBSET Jobs /\ IsFiniteSet(Jobs)
  BY JobsAreFinite DEF IInv, TypeOK
<1>2. IsFiniteSet(todo)
  BY <1>1, FS_Subset, Zenon
<1> QED BY <1>2, FS_CardinalityType DEF Unsent

LEMMA CountIsNat == ASSUME NEW S PROVE IsFiniteSet(In(S)) /\ Count(S) \in Nat
<1>1. In(S) \in SUBSET Workers
  BY DEF In
<1>2. IsFiniteSet(In(S))
  BY <1>1, FS_Subset, ScanPoolAssumption, Zenon
<1> QED BY <1>2, FS_CardinalityType DEF Count

LEMMA SumOfNats == \A a, b, c \in Nat : a + b + c \in Nat
OBVIOUS

LEMMA CountsAreNat == ASSUME IInv PROVE Unsent \in Nat /\ WorkersLeft \in Nat
<1>1. WorkersLeft \in Nat
  BY CountIsNat, SumOfNats, Zenon DEF WorkersLeft
<1> QED BY <1>1, UnsentIsFinite

\* A count of the workers in the states S, when one of them goes from s to t.
Recount(n, S, s, t) == n - (IF s \in S THEN 1 ELSE 0) + (IF t \in S THEN 1 ELSE 0)

LEMMA MoveCounts ==
  ASSUME IInv, NEW w \in Workers, NEW s \in {"recv", "got", "busy", "gone"},
         state' = [state EXCEPT ![w] = s], NEW S
  PROVE  Count(S)' = Recount(Count(S), S, state[w], s)
<1>1. state'[w] = s /\ \A v \in Workers : v # w => state'[v] = state[v]
  BY DEF IInv, TypeOK
<1> DEFINE R == In(S) \ {w}
<1>2. /\ IsFiniteSet(R)
      /\ Cardinality(R) = IF w \in In(S) THEN Count(S) - 1 ELSE Count(S)
  BY CountIsNat, FS_RemoveElement, Zenon DEF Count
<1>3. Cardinality(R) \in Nat
  BY <1>2, FS_CardinalityType
<1>4. In(S)' = IF s \in S THEN R \cup {w} ELSE R
  BY <1>1 DEF In
<1>5. w \notin R
  OBVIOUS
<1>6. w \in In(S) <=> state[w] \in S
  BY DEF In
<1> HIDE DEF R
<1>7. Cardinality(R \cup {w}) = Cardinality(R) + 1
  BY <1>2, <1>5, FS_AddElement, Zenon
<1>8. Count(S)' = IF s \in S THEN Cardinality(R) + 1 ELSE Cardinality(R)
  BY <1>4, <1>7, Zenon DEF Count
<1>9. Count(S) \in Nat
  BY CountIsNat
<1> QED BY <1>2, <1>3, <1>6, <1>8, <1>9 DEF Recount

\* A worker's share of the sum.
Weight(s) == CASE s = "recv" -> 1 [] s = "busy" -> 2 [] s = "got" -> 3 [] OTHER -> 0

LEMMA MoveWeighs ==
  ASSUME IInv, NEW w \in Workers, NEW s \in {"recv", "got", "busy", "gone"},
         state' = [state EXCEPT ![w] = s]
  PROVE  WorkersLeft' = WorkersLeft + Weight(s) - Weight(state[w])
<1>1. PICK r : r = state[w] /\ r \in {"recv", "got", "busy", "gone"}
  BY DEF IInv, TypeOK
<1>2. PICK a \in Nat, h \in Nat, f \in Nat :
        a = Count({"recv", "got", "busy"}) /\ h = Count({"got", "busy"}) /\ f = Count({"got"})
  BY CountIsNat, Zenon
<1>3. WorkersLeft = a + h + f
  BY <1>2, Zenon DEF WorkersLeft
<1>4. /\ Count({"recv", "got", "busy"})' = Recount(a, {"recv", "got", "busy"}, r, s)
      /\ Count({"got", "busy"})' = Recount(h, {"got", "busy"}, r, s)
      /\ Count({"got"})' = Recount(f, {"got"}, r, s)
  BY <1>1, <1>2, MoveCounts, Zenon
<1>5. WorkersLeft' = Recount(a, {"recv", "got", "busy"}, r, s) + Recount(h, {"got", "busy"}, r, s)
                       + Recount(f, {"got"}, r, s)
  BY <1>4, Zenon DEF WorkersLeft
<1>6. Recount(a, {"recv", "got", "busy"}, r, s) + Recount(h, {"got", "busy"}, r, s)
        + Recount(f, {"got"}, r, s) = a + h + f + Weight(s) - Weight(r)
  BY <1>1 DEF Weight, Recount
<1> QED BY <1>1, <1>3, <1>5, <1>6, Zenon

StepsCounted == StepsLeft \in Nat

LEMMA CountedLemma == IInv => StepsCounted
<1> SUFFICES ASSUME IInv PROVE StepsCounted
  OBVIOUS
<1>1. Len(buffer) \in Nat /\ Rank \in Nat
  BY DEF IInv, TypeOK, Rank
<1> QED BY <1>1, CountsAreNat DEF StepsLeft, StepsCounted

LEMMA StepsLeftOf ==
  /\ StepsLeft = 4 * Unsent + 3 * Len(buffer) + WorkersLeft + Rank
  /\ StepsLeft' = 4 * Unsent' + 3 * Len(buffer') + WorkersLeft' + Rank'
BY Zenon DEF StepsLeft

LEMMA TakesOneUp ==
  ASSUME IInv, NEW w \in Workers, state[w] = "recv", state' = [state EXCEPT ![w] = "got"]
  PROVE  WorkersLeft' = WorkersLeft + 2
<1>1. Weight("got") = 3 /\ Weight(state[w]) = 1
  BY DEF Weight
<1>2. WorkersLeft' = WorkersLeft + Weight("got") - Weight(state[w])
  BY MoveWeighs
<1> QED BY <1>1, <1>2, CountsAreNat

\* Sending takes a target out of todo.
LEMMA SentCounts ==
  ASSUME IInv, NEW i \in todo, todo' = todo \ {i}
  PROVE  Unsent' = Unsent - 1
BY UnsentIsFinite, FS_RemoveElement, Zenon DEF Unsent

LEMMA ProducerCounts == IInv /\ Produce => StepsLeft' < StepsLeft
<1> SUFFICES ASSUME IInv, Produce PROVE StepsLeft' < StepsLeft
  OBVIOUS
<1>0. Len(buffer) \in Nat /\ Unsent \in Nat /\ WorkersLeft \in Nat
  BY CountsAreNat DEF IInv, TypeOK
<1>1. ASSUME NEW w \in Workers, HandOver(w) PROVE StepsLeft' < StepsLeft
  <2>1. PICK i \in todo : todo' = todo \ {i}
    BY <1>1 DEF HandOver
  <2>2. /\ state[w] = "recv" /\ state' = [state EXCEPT ![w] = "got"]
        /\ UNCHANGED <<producer, buffer>>
    BY <1>1 DEF HandOver, Become
  <2>3. Unsent' = Unsent - 1
    BY <2>1, SentCounts
  <2>4. WorkersLeft' = WorkersLeft + 2
    BY <2>2, TakesOneUp
  <2>5. Rank' = Rank /\ Rank \in Nat /\ Len(buffer') = Len(buffer)
    BY <2>2 DEF Rank
  <2> QED BY <1>0, <2>3, <2>4, <2>5, StepsLeftOf
<1>2. CASE Put
  <2>1. PICK i \in todo : todo' = todo \ {i} /\ buffer' = Append(buffer, i)
    BY <1>2 DEF Put
  <2>2. UNCHANGED <<producer, state>>
    BY <1>2 DEF Put
  <2>3. Unsent' = Unsent - 1
    BY <2>1, SentCounts
  <2>4. Len(buffer') = Len(buffer) + 1
    BY <2>1 DEF IInv, TypeOK
  <2>5. Rank' = Rank /\ Rank \in Nat /\ UNCHANGED <<WorkersLeft>>
    BY <2>2 DEF Rank, WorkersLeft, Count, In
  <2> QED BY <1>0, <2>3, <2>4, <2>5, StepsLeftOf
<1>3. CASE Cancel \/ Close \/ Return
  <2>1. UNCHANGED <<todo, buffer, state>>
    BY <1>3 DEF Cancel, Close, Return
  <2>2. Rank' < Rank /\ Rank \in Nat /\ Rank' \in Nat
    BY <1>3 DEF Cancel, Close, Return, Rank
  <2>3. UNCHANGED <<Unsent, WorkersLeft>>
    BY <2>1 DEF Unsent, WorkersLeft, Count, In
  <2> QED BY <1>0, <2>1, <2>2, <2>3, StepsLeftOf
<1> QED BY <1>1, <1>2, <1>3 DEF Produce

LEMMA WorkCounts ==
  ASSUME IInv, NEW w \in Workers, Work(w)
  PROVE  StepsLeft' < StepsLeft
<1>0. Len(buffer) \in Nat /\ Unsent \in Nat /\ WorkersLeft \in Nat
  BY CountsAreNat DEF IInv, TypeOK
<1>1. UNCHANGED <<todo, producer>>
  BY DEF Work, Take, Leave, Drop, Skip, Start, Finish, Abort
<1>2. Rank' = Rank /\ Rank \in Nat
  BY <1>1 DEF Rank
<1>3. CASE Take(w)
  <2>1. /\ state[w] = "recv" /\ state' = [state EXCEPT ![w] = "got"]
        /\ buffer # <<>> /\ buffer' = Tail(buffer)
    BY <1>3 DEF Take, Become
  <2>2. Len(buffer') = Len(buffer) - 1
    BY <2>1 DEF IInv, TypeOK
  <2>3. WorkersLeft' = WorkersLeft + 2
    BY <2>1, TakesOneUp
  <2>4. Unsent' = Unsent
    BY <1>1 DEF Unsent
  <2> QED BY <1>0, <1>2, <2>2, <2>3, <2>4, StepsLeftOf
<1>4. CASE Leave(w) \/ Drop(w) \/ Skip(w) \/ Start(w) \/ Finish(w) \/ Abort(w)
  <2>1. PICK s \in {"recv", "got", "busy", "gone"} :
          /\ state' = [state EXCEPT ![w] = s]
          /\ \/ state[w] = "recv" /\ s = "gone"
             \/ state[w] = "got" /\ s \in {"gone", "recv", "busy"}
             \/ state[w] = "busy" /\ s \in {"gone", "recv"}
    BY <1>4 DEF Leave, Drop, Skip, Start, Finish, Abort, Become
  <2>2. buffer' = buffer
    BY <1>4 DEF Leave, Drop, Skip, Start, Finish, Abort
  <2>3. Weight(s) < Weight(state[w]) /\ Weight(s) \in Int /\ Weight(state[w]) \in Int
    BY <2>1 DEF Weight
  <2>4. WorkersLeft' = WorkersLeft + Weight(s) - Weight(state[w])
    BY <2>1, MoveWeighs
  <2>5. Unsent' = Unsent
    BY <1>1 DEF Unsent
  <2> QED BY <1>0, <1>2, <2>2, <2>3, <2>4, <2>5, StepsLeftOf
<1> QED BY <1>3, <1>4 DEF Work

\* A step of the producer or of a goroutine, whichever it is, brings the end of
\* the phase nearer.
RunsDown == [][Produce \/ (\E w \in Workers : Work(w)) => StepsLeft' < StepsLeft]_vars

\* Every target to send, every goroutine to leave, the channel to close and the
\* phase to return.
StepsAtStart == 4 * Cardinality(Jobs) + Cardinality(Workers) + 2

LEMMA InitSteps == Init => StepsLeft = StepsAtStart
<1> SUFFICES ASSUME Init PROVE StepsLeft = StepsAtStart
  OBVIOUS
<1>1. In({"recv", "got", "busy"}) = Workers /\ In({"got", "busy"}) = {} /\ In({"got"}) = {}
  BY DEF Init, In
<1>2. Cardinality(Workers) \in Nat /\ Cardinality(Jobs) \in Nat
  BY JobsAreFinite, FS_CardinalityType, ScanPoolAssumption DEF Init
<1>3. WorkersLeft = Cardinality(Workers) + 0 + 0
  BY <1>1, FS_EmptySet, Zenon DEF WorkersLeft, Count
<1>4. Len(buffer) = 0 /\ Rank = 2 /\ Unsent = Cardinality(Jobs)
  BY DEF Init, Rank, Unsent
<1> QED BY <1>2, <1>3, <1>4, StepsLeftOf DEF StepsAtStart

\* Whatever the number of targets and goroutines and whatever the order of their
\* steps, a phase ends after at most four for each target, one for each goroutine
\* and two: its goroutines cannot pass work around for ever.
THEOREM PhaseRunsDown == Spec => StepsLeft = StepsAtStart /\ []StepsCounted /\ RunsDown
<1>1. IInv /\ [Next]_vars =>
        [Produce \/ (\E w \in Workers : Work(w)) => StepsLeft' < StepsLeft]_vars
  BY ProducerCounts, WorkCounts
<1> QED BY InitSteps, Invariance, CountedLemma, <1>1, PTL DEF Spec, RunsDown
=============================================================================
