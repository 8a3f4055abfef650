-------------------------- MODULE CheckQueueProofs --------------------------
(***************************************************************************)
(* For any number of worker threads, masters and checks: Wait() of         *)
(* CCheckQueue returns whether all checks of the round hold, its counters  *)
(* are right and no round leaves anything to the next one.  That Wait()    *)
(* and StopWorkerThreads() return at all is left to TLC.                   *)
(***************************************************************************)
EXTENDS CheckQueue, FiniteSetTheorems, TLAPS

(* A check is with a thread from when it is taken until it is reported. *)
Busy ==
    \A t \in Threads :
        /\ vChecks[t] # {} => pc[t] \in {"executing", "lock"}
        /\ pc[t] = "executing" => vChecks[t] # {}

(* Only the holder of m_control_mutex is a master at work, and it is there *)
(* only while the workers are.                                             *)
Held ==
    /\ \A t \in Masters : pc[t] # "out" <=> m_control = t
    /\ m_control # NoThread => life = "running"
    /\ m_request_stop => life \in {"requested", "joining"}
    /\ m_control = NoThread => ~txsdata /\ added = 0 /\ failing = {} /\ fAllOk

Numbered == Outstanding \subseteq 1..added

(* A thread that will report a failure. *)
Finds(t, c) == c \in vChecks[t] /\ (pc[t] = "executing" \/ ~fOk[t])

(* Until Wait returns and resets it: while fAllOk is true every failing    *)
(* check is still to be reported, and what has been reported as failing    *)
(* has a failing check as its cause.                                       *)
Tracked ==
    txsdata /\ (\A t \in Masters : pc[t] # "returned") =>
        /\ fAllOk => \A c \in failing : c \in queue \/ \E t \in Threads : Finds(t, c)
        /\ ~fAllOk => failing # {}
        /\ \A t \in Threads : vChecks[t] # {} /\ ~fOk[t] => failing # {}

Returned ==
    \A t \in Masters : pc[t] = "returned" =>
        /\ Outstanding = {} /\ fAllOk
        /\ txsdata => fOk[t] = (failing = {})

IInv == TypeOK /\ CountersMatch /\ Busy /\ Held /\ Numbered /\ Tracked /\ Returned

LEMMA InOutstanding ==
    \A c : c \in Outstanding <=> c \in queue \/ \E t \in Threads : c \in vChecks[t]
BY DEF Outstanding

LEMMA Finite ==
    ASSUME TypeOK
    PROVE  /\ IsFiniteSet(Outstanding) /\ IsFiniteSet(queue) /\ Cardinality(queue) \in Nat
           /\ \A t \in Threads : IsFiniteSet(vChecks[t])
           /\ \A S \in SUBSET Outstanding : IsFiniteSet(S) /\ Cardinality(S) \in Nat
<1>1. IsFiniteSet(1..MaxChecks)
  BY FS_Interval, CheckQueueAssumption
<1>2. Outstanding \subseteq 1..MaxChecks
  BY InOutstanding DEF TypeOK
<1>3. \A S \in SUBSET (1..MaxChecks) : IsFiniteSet(S) /\ Cardinality(S) \in Nat
  BY <1>1, FS_Subset, FS_CardinalityType
<1> QED
  BY <1>2, <1>3 DEF TypeOK

LEMMA FiniteThreads ==
    \A S \in SUBSET Threads : IsFiniteSet(S) /\ Cardinality(S) \in Nat
BY CheckQueueAssumption, FS_Subset, FS_CardinalityType

(* What is left when t has reported. *)
Rest(t) == queue \cup UNION {vChecks[u] : u \in Threads \ {t}}

LEMMA RestIs ==
    ASSUME TypeOK, CountersMatch, NEW t \in Threads
    PROVE  /\ \A c : c \in Rest(t) <=> c \in queue \/ \E u \in Threads \ {t} : c \in vChecks[u]
           /\ Rest(t) \subseteq Outstanding
           /\ IsFiniteSet(Rest(t))
           /\ Cardinality(Rest(t)) = nTodo - Cardinality(vChecks[t])
<1>1. \A c : c \in Rest(t) <=> c \in queue \/ \E u \in Threads \ {t} : c \in vChecks[u]
  BY DEF Rest
<1>2. Rest(t) = Outstanding \ vChecks[t] /\ vChecks[t] \subseteq Outstanding
  BY <1>1, InOutstanding DEF CountersMatch
<1>3. Outstanding \cap vChecks[t] = vChecks[t]
  BY <1>2
<1>4. IsFiniteSet(Outstanding) /\ IsFiniteSet(Rest(t))
  BY <1>2, Finite
<1>5. Cardinality(Rest(t)) = Cardinality(Outstanding) - Cardinality(vChecks[t])
  BY <1>2, <1>3, <1>4, FS_Difference, Finite
<1> QED
  BY <1>1, <1>2, <1>4, <1>5 DEF CountersMatch

(* What Proceed is given: the counters without t's own share, and a fAllOk *)
(* that takes account of the checks t has executed.                        *)
Given(t, total, idle, allOk, todo, pcs) ==
    /\ pc[t] \in {"lock", "woken"}
    /\ total \in Int /\ idle \in Int /\ allOk \in BOOLEAN
    /\ todo = Cardinality(Rest(t))
    /\ pcs = pc \/ pcs = Notify(Masters)
    /\ life = "running" => idle = Cardinality(Waiting \ {t}) /\ total = Cardinality(Joined \cup {t})
    /\ m_control = NoThread => allOk
    /\ (\E m \in Masters : pc[m] = "returned") => allOk
    /\ txsdata /\ (\A m \in Masters : pc[m] # "returned") =>
          /\ allOk => \A c \in failing : c \in queue \/ \E u \in Threads \ {t} : Finds(u, c)
          /\ ~allOk => failing # {}

(* What a step under m_mutex does, whichever branch it takes: checks move  *)
(* from the queue to t, and the other threads are at most woken.           *)
Effect(t, todo) ==
    /\ vChecks' \in [Threads -> SUBSET (1..MaxChecks)] /\ fOk' \in [Threads -> BOOLEAN]
    /\ pc' \in [Threads -> {"out", "adding", "lock", "executing", "waiting", "woken", "returned"}]
    /\ \A u \in Threads \ {t} :
          /\ vChecks'[u] = vChecks[u] /\ fOk'[u] = fOk[u]
          /\ pc'[u] = pc[u] \/ (pc[u] = "waiting" /\ pc'[u] = "woken")
    /\ queue \subseteq 1..MaxChecks /\ queue' \cup vChecks'[t] = queue /\ queue' \cap vChecks'[t] = {}
    /\ fAllOk' \in BOOLEAN /\ nTodo' = todo
    /\ UNCHANGED <<m_request_stop, m_control, txsdata, added, failing, life>>

LEMMA ProceedEffect ==
    ASSUME TypeOK, NEW t \in Threads, NEW total, NEW idle, NEW allOk \in BOOLEAN, NEW todo, NEW pcs,
           pcs = pc \/ pcs = Notify(Masters),
           Proceed(t, total, idle, allOk, todo, pcs)
    PROVE  Effect(t, todo)
<1> USE DEF Effect
<1>1. pcs \in [Threads -> {"out", "adding", "lock", "executing", "waiting", "woken", "returned"}]
  BY DEF TypeOK, Notify
<1>2. \A u \in Threads : pcs[u] = pc[u] \/ (pc[u] = "waiting" /\ pcs[u] = "woken")
  BY DEF TypeOK, Notify
<1>3. CASE Return(t, total, idle, allOk, todo, pcs)
  BY <1>1, <1>2, <1>3 DEF Return, TypeOK, Proceed
<1>4. CASE Sleep(t, total, idle, allOk, todo, pcs)
  BY <1>1, <1>2, <1>4 DEF Sleep, TypeOK, Proceed
<1>5. CASE Quit(t, total, idle, allOk, todo, pcs)
  <2>1. queue' = queue /\ vChecks'[t] = {}
    BY <1>5 DEF Quit, TypeOK
  <2> QED
    BY <1>1, <1>2, <1>5, <2>1 DEF Quit, TypeOK, Proceed
<1>6. CASE Take(t, total, idle, allOk, todo, pcs)
  <2>1. PICK checks \in SUBSET queue : /\ queue' = queue \ checks
                                       /\ vChecks' = [vChecks EXCEPT ![t] = checks]
    BY <1>6 DEF Take
  <2>2. checks \subseteq 1..MaxChecks
    BY <2>1 DEF TypeOK
  <2>3. vChecks'[t] = checks /\ vChecks' \in [Threads -> SUBSET (1..MaxChecks)]
    BY <2>1, <2>2 DEF TypeOK
  <2>4. queue' \cup vChecks'[t] = queue /\ queue' \cap vChecks'[t] = {}
    BY <2>1, <2>3
  <2> QED
    BY <1>1, <1>2, <1>6, <2>1, <2>3, <2>4 DEF Take, TypeOK, Proceed
<1> QED
  BY <1>3, <1>4, <1>5, <1>6 DEF Proceed

(* A step of Loop under m_mutex keeps the invariant. *)
LEMMA ProceedGood ==
    ASSUME IInv, NEW t \in Threads, NEW total, NEW idle, NEW allOk, NEW todo, NEW pcs,
           Given(t, total, idle, allOk, todo, pcs),
           Proceed(t, total, idle, allOk, todo, pcs)
    PROVE  IInv'
<1>0. /\ TypeOK /\ CountersMatch /\ Busy /\ Held /\ Numbered /\ Tracked /\ Returned
      /\ allOk \in BOOLEAN /\ (pcs = pc \/ pcs = Notify(Masters)) /\ todo = Cardinality(Rest(t))
  BY DEF Given, IInv
<1>1. /\ vChecks' \in [Threads -> SUBSET (1..MaxChecks)] /\ fOk' \in [Threads -> BOOLEAN]
      /\ pc' \in [Threads -> {"out", "adding", "lock", "executing", "waiting", "woken", "returned"}]
      /\ \A u \in Threads \ {t} :
            /\ vChecks'[u] = vChecks[u] /\ fOk'[u] = fOk[u]
            /\ pc'[u] = pc[u] \/ (pc[u] = "waiting" /\ pc'[u] = "woken")
      /\ queue \subseteq 1..MaxChecks /\ queue' \cup vChecks'[t] = queue /\ queue' \cap vChecks'[t] = {}
      /\ fAllOk' \in BOOLEAN /\ nTodo' = todo
      /\ UNCHANGED <<m_request_stop, m_control, txsdata, added, failing, life>>
  <2>1. Effect(t, todo)
    BY <1>0, ProceedEffect
  <2> QED
    BY <2>1 DEF Effect
<1>2. nTotal' \in Int /\ nIdle' \in Int
  BY <1>0 DEF Proceed, Return, Sleep, Quit, Take, Given
<1>3. Outstanding' = Rest(t)
  <2>1. \A c : c \in Outstanding' <=> c \in queue' \/ \E u \in Threads : c \in vChecks'[u]
    BY DEF Outstanding
  <2> QED
    BY <1>0, <1>1, <2>1, RestIs
<1>4. IsFiniteSet(Rest(t)) /\ (todo = 0 <=> Rest(t) = {}) /\ todo \in Nat
  BY <1>0, RestIs, FS_EmptySet, FS_CardinalityType
<1>5. TypeOK'
  <2>1. queue' \subseteq queue /\ queue \subseteq 1..MaxChecks
    BY <1>1
  <2>2. queue' \subseteq 1..MaxChecks
    BY <2>1
  <2>3. nTodo' \in Int
    BY <1>1, <1>4
  <2> QED
    BY <1>0, <1>1, <1>2, <2>2, <2>3 DEF TypeOK
<1>6. Busy'
  <2>1. vChecks'[t] # {} => pc'[t] = "executing"
    BY <1>0 DEF Proceed, Return, Sleep, Quit, Take, TypeOK, Notify
  <2>2. ASSUME pc'[t] = "executing" PROVE vChecks'[t] # {}
    <3>1. Take(t, total, idle, allOk, todo, pcs)
      BY <1>0, <2>2 DEF Proceed, Return, Sleep, Quit, TypeOK, Notify
    <3>2. PICK checks \in SUBSET queue : /\ Cardinality(checks) = Size(total, idle)
                                         /\ vChecks' = [vChecks EXCEPT ![t] = checks]
      BY <3>1 DEF Take
    <3>3. PICK c : c \in queue
      BY <3>1 DEF Take
    <3>4. life = "running"
      <4>1. c \in 1..added
        BY <1>0, <3>3, InOutstanding DEF Numbered
      <4>2. added # 0
        BY <1>0, <4>1 DEF TypeOK
      <4> QED
        BY <1>0, <4>2 DEF Held
    <3>5. total \in Nat /\ idle \in Nat
      <4>1. Waiting \ {t} \subseteq Threads /\ Joined \cup {t} \subseteq Threads
        BY DEF Waiting, Joined
      <4> QED
        BY <3>4, <4>1, FiniteThreads DEF Given
    <3>6. Size(total, idle) # 0
      BY <1>0, <3>5, Finite, CheckQueueAssumption DEF Size
    <3>7. checks # {}
      BY <3>2, <3>6, FS_EmptySet
    <3> QED
      BY <1>0, <3>2, <3>7 DEF TypeOK
  <2> QED
    BY <1>0, <1>1, <2>1, <2>2 DEF Busy
<1>7. Numbered'
  BY <1>0, <1>1, <1>3, RestIs DEF Numbered
<1>8. pc[t] \in {"lock", "woken"} /\ t # NoThread /\ (t \in Masters => m_control = t)
  BY <1>0, CheckQueueAssumption DEF Given, Held, Threads
<1>9. m_request_stop => m_control = NoThread /\ life # "running"
  BY <1>0 DEF Held
<1>10. CountersMatch'
  <2>1. nTodo' = Cardinality(Outstanding')
    BY <1>0, <1>1, <1>3
  <2>2. \A u \in Threads :
           vChecks'[u] \cap queue' = {} /\ \A v \in Threads \ {u} : vChecks'[u] \cap vChecks'[v] = {}
    <3>1. queue' \subseteq queue /\ vChecks'[t] \subseteq queue
      BY <1>1
    <3>2. \A u \in Threads \ {t} : vChecks'[u] \cap queue = {}
      BY <1>0, <1>1 DEF CountersMatch
    <3>3. \A u \in Threads \ {t} : \A v \in Threads \ {t, u} : vChecks'[u] \cap vChecks'[v] = {}
      BY <1>0, <1>1 DEF CountersMatch
    <3> QED
      BY <1>1, <3>1, <3>2, <3>3
  <2>3. ASSUME life = "running"
        PROVE  nIdle' = Cardinality(Waiting') /\ nTotal' = Cardinality(Joined')
    <3>1. idle = Cardinality(Waiting \ {t}) /\ total = Cardinality(Joined \cup {t})
      BY <2>3 DEF Given
    <3>2. \A u \in Threads \ {t} : (u \in Waiting' <=> u \in Waiting) /\ (u \in Joined' <=> u \in Joined)
      BY <1>1 DEF Waiting, Joined
    <3>3. Waiting \subseteq Threads /\ Waiting' \subseteq Threads /\ Joined \subseteq Threads /\ Joined' \subseteq Threads
      BY DEF Waiting, Joined
    <3>4. CASE Return(t, total, idle, allOk, todo, pcs)
      <4>1. t \notin Waiting' /\ t \notin Joined'
        BY <1>0, <3>4 DEF Return, Waiting, Joined, TypeOK, Notify
      <4>2. Waiting' = Waiting \ {t} /\ Joined' = (Joined \cup {t}) \ {t}
        BY <3>2, <3>3, <4>1
      <4>3. Cardinality((Joined \cup {t}) \ {t}) = Cardinality(Joined \cup {t}) - 1
        BY <3>3, FiniteThreads, FS_RemoveElement
      <4> QED
        BY <3>1, <3>4, <4>2, <4>3 DEF Return
    <3>5. CASE Sleep(t, total, idle, allOk, todo, pcs)
      <4>1. t \in Waiting' /\ t \in Joined'
        BY <1>0, <3>5 DEF Sleep, Waiting, Joined, TypeOK, Notify
      <4>2. Waiting' = (Waiting \ {t}) \cup {t} /\ Joined' = Joined \cup {t}
        BY <3>2, <3>3, <4>1
      <4>3. Cardinality((Waiting \ {t}) \cup {t}) = Cardinality(Waiting \ {t}) + 1
        BY <3>3, FiniteThreads, FS_AddElement
      <4> QED
        BY <3>1, <3>5, <4>2, <4>3 DEF Sleep
    <3>6. CASE Take(t, total, idle, allOk, todo, pcs)
      <4>1. t \notin Waiting' /\ t \in Joined'
        BY <1>0, <3>6 DEF Take, Waiting, Joined, TypeOK, Notify
      <4>2. Waiting' = Waiting \ {t} /\ Joined' = Joined \cup {t}
        BY <3>2, <3>3, <4>1
      <4> QED
        BY <3>1, <3>6, <4>2 DEF Take
    <3> QED
      BY <1>9, <2>3, <3>4, <3>5, <3>6 DEF Proceed, Quit
  <2> QED
    BY <1>1, <2>1, <2>2, <2>3 DEF CountersMatch
<1>11. Held'
  <2>1. t \in Masters => pc'[t] # "out"
    BY <1>0 DEF Proceed, Return, Sleep, Quit, Take, TypeOK, Notify
  <2>2. \A m \in Masters : pc'[m] # "out" <=> m_control = m
    BY <1>0, <1>1, <1>8, <2>1 DEF Held, Threads
  <2>3. m_control = NoThread => fAllOk'
    BY DEF Given, Proceed, Return, Sleep, Quit, Take
  <2> QED
    BY <1>0, <1>1, <2>2, <2>3 DEF Held
<1>12. ASSUME \A m \in Masters : pc'[m] # "returned"
       PROVE  \A m \in Masters : pc[m] # "returned"
  BY <1>1, <1>8, <1>12 DEF Threads
<1>13. Tracked'
  <2> SUFFICES ASSUME txsdata, \A m \in Masters : pc'[m] # "returned"
               PROVE  /\ fAllOk' => \A c \in failing : c \in queue' \/ \E u \in Threads : Finds(u, c)'
                      /\ ~fAllOk' => failing # {}
                      /\ \A u \in Threads : vChecks'[u] # {} /\ ~fOk'[u] => failing # {}
    BY <1>1 DEF Tracked
  <2>1. /\ allOk => \A c \in failing : c \in queue \/ \E u \in Threads \ {t} : Finds(u, c)
        /\ ~allOk => failing # {}
        /\ \A u \in Threads : vChecks[u] # {} /\ ~fOk[u] => failing # {}
    BY <1>0, <1>12 DEF Given, Tracked
  <2>2. fAllOk' = allOk /\ (vChecks'[t] # {} => pc'[t] = "executing" /\ fOk'[t] = allOk)
    BY <1>0 DEF Proceed, Return, Sleep, Quit, Take, TypeOK, Notify, Threads
  <2>3. \A u \in Threads \ {t} : \A c : Finds(u, c) => Finds(u, c)'
    BY <1>1 DEF Finds
  <2>4. \A c \in queue : c \in queue' \/ Finds(t, c)'
    BY <1>1, <2>2 DEF Finds
  <2> QED
    BY <1>1, <2>1, <2>2, <2>3, <2>4
<1>14. Returned'
  <2> SUFFICES ASSUME NEW m \in Masters, pc'[m] = "returned"
               PROVE  Rest(t) = {} /\ fAllOk' /\ (txsdata => fOk'[m] = (failing = {}))
    BY <1>1, <1>3 DEF Returned
  <2>1. CASE m # t
    <3>1. pc[m] = "returned" /\ fOk'[m] = fOk[m]
      BY <1>1, <2>1 DEF Threads
    <3>2. Outstanding = {} /\ (txsdata => fOk[m] = (failing = {}))
      BY <1>0, <3>1 DEF Returned
    <3>3. Rest(t) = {}
      BY <1>0, <3>2, RestIs
    <3>4. allOk
      BY <3>1 DEF Given
    <3>5. fAllOk'
      BY <3>4 DEF Proceed, Return, Sleep, Quit, Take
    <3> QED
      BY <3>1, <3>2, <3>3, <3>5
  <2>2. CASE m = t
    <3>1. Return(t, total, idle, allOk, todo, pcs)
      BY <1>0, <1>8, <1>9, <2>2 DEF Proceed, Sleep, Quit, Take, TypeOK, Notify
    <3>2. Rest(t) = {} /\ queue = {}
      BY <1>4, <3>1 DEF Return
    <3>3. fAllOk' /\ fOk'[t] = allOk
      BY <1>0, <3>1 DEF Return, TypeOK
    <3>4. \A n \in Masters : pc[n] # "returned"
      BY <1>0, <1>8, <2>2 DEF Held
    <3>5. txsdata => allOk = (failing = {})
      <4>1. \A u \in Threads \ {t} : vChecks[u] = {}
        BY <1>0, <3>2, RestIs
      <4> QED
        BY <1>0, <3>2, <3>4, <4>1 DEF Given, Finds
    <3> QED
      BY <2>2, <3>2, <3>3, <3>5
  <2> QED
    BY <2>1, <2>2
<1> QED
  BY <1>5, <1>6, <1>7, <1>10, <1>11, <1>13, <1>14 DEF IInv

(* The three ways into the critical section of Loop give Proceed what it   *)
(* needs.                                                                  *)
LEMMA LoopGood ==
    ASSUME IInv, NEW t \in Threads, LoopStart(t) \/ LoopAgain(t) \/ LoopWoken(t)
    PROVE  IInv'
<1>0. TypeOK /\ CountersMatch /\ Busy /\ Held /\ Numbered /\ Tracked /\ Returned
  BY DEF IInv
<1>1. Waiting \subseteq Threads /\ Joined \subseteq Threads
  BY DEF Waiting, Joined
<1>2. /\ IsFiniteSet(Waiting) /\ Cardinality(Waiting) \in Nat
      /\ IsFiniteSet(Joined) /\ Cardinality(Joined) \in Nat
  BY <1>1, FiniteThreads
<1>3. nTotal \in Int /\ nIdle \in Int /\ nTodo \in Int /\ fAllOk \in BOOLEAN /\ fOk[t] \in BOOLEAN
  BY <1>0 DEF TypeOK
<1>4. Cardinality(Rest(t)) = nTodo - Cardinality(vChecks[t])
  BY <1>0, RestIs
<1>5. ASSUME vChecks[t] = {}, pc[t] \in {"lock", "woken"}
      PROVE  /\ Cardinality(Rest(t)) = nTodo
             /\ m_control = NoThread => fAllOk
             /\ (\E m \in Masters : pc[m] = "returned") => fAllOk
             /\ txsdata /\ (\A m \in Masters : pc[m] # "returned") =>
                   /\ fAllOk => \A c \in failing : c \in queue \/ \E u \in Threads \ {t} : Finds(u, c)
                   /\ ~fAllOk => failing # {}
  <2>1. Cardinality(Rest(t)) = nTodo
    BY <1>3, <1>4, <1>5, FS_EmptySet
  <2>2. \A c : ~Finds(t, c)
    BY <1>5 DEF Finds
  <2> QED
    BY <1>0, <2>1, <2>2 DEF Held, Returned, Tracked
<1>6. CASE LoopStart(t)
  <2>1. vChecks[t] = {} /\ pc[t] = "lock"
    BY <1>6 DEF LoopStart
  <2>2. t \notin Waiting /\ t \notin Joined
    BY <2>1 DEF Waiting, Joined
  <2>3. Waiting \ {t} = Waiting /\ Cardinality(Joined \cup {t}) = Cardinality(Joined) + 1
    <3>1. Waiting \ {t} = Waiting
      BY <2>2
    <3> QED
      BY <1>2, <2>2, <3>1, FS_AddElement
  <2>4. life = "running" => nIdle = Cardinality(Waiting \ {t}) /\ nTotal + 1 = Cardinality(Joined \cup {t})
    BY <1>0, <2>3 DEF CountersMatch
  <2>5. Given(t, nTotal + 1, nIdle, fAllOk, nTodo, pc)
    BY <1>3, <1>5, <2>1, <2>4 DEF Given
  <2> QED
    BY <1>6, <2>5, ProceedGood DEF LoopStart
<1>7. CASE LoopWoken(t)
  <2>1. pc[t] = "woken"
    BY <1>7 DEF LoopWoken
  <2>2. vChecks[t] = {}
    BY <1>0, <2>1 DEF Busy
  <2>3. t \in Waiting /\ t \in Joined
    BY <2>1 DEF Waiting, Joined
  <2>4. Cardinality(Waiting \ {t}) = Cardinality(Waiting) - 1 /\ Joined \cup {t} = Joined
    <3>1. Joined \cup {t} = Joined
      BY <2>3
    <3> QED
      BY <1>2, <2>3, <3>1, FS_RemoveElement
  <2>5. life = "running" => nIdle - 1 = Cardinality(Waiting \ {t}) /\ nTotal = Cardinality(Joined \cup {t})
    BY <1>0, <2>4 DEF CountersMatch
  <2>6. Given(t, nTotal, nIdle - 1, fAllOk, nTodo, pc)
    BY <1>3, <1>5, <2>1, <2>2, <2>5 DEF Given
  <2> QED
    BY <1>7, <2>6, ProceedGood DEF LoopWoken
<1>8. CASE LoopAgain(t)
  <2> DEFINE todo == nTodo - Cardinality(vChecks[t])
             pcs == IF todo = 0 /\ t \notin Masters THEN Notify(Masters) ELSE pc
             allOk == fAllOk /\ fOk[t]
  <2>1. pc[t] = "lock" /\ vChecks[t] # {} /\ Proceed(t, nTotal, nIdle, allOk, todo, pcs)
    BY <1>8 DEF LoopAgain
  <2>2. t \notin Waiting /\ t \in Joined
    BY <2>1 DEF Waiting, Joined
  <2>3. Waiting \ {t} = Waiting /\ Joined \cup {t} = Joined
    BY <2>2
  <2>4. life = "running" => nIdle = Cardinality(Waiting \ {t}) /\ nTotal = Cardinality(Joined \cup {t})
    BY <1>0, <2>3 DEF CountersMatch
  <2>5. PICK c : c \in vChecks[t]
    BY <2>1
  <2>6. c \in Outstanding /\ c \in 1..added
    BY <1>0, <2>5, InOutstanding DEF Numbered
  <2>7. m_control # NoThread /\ \A m \in Masters : pc[m] # "returned"
    BY <1>0, <2>6 DEF Held, Returned
  <2>8. allOk \in BOOLEAN /\ (pcs = pc \/ pcs = Notify(Masters))
    BY <1>3
  <2>9. ASSUME txsdata
        PROVE  /\ allOk => \A d \in failing : d \in queue \/ \E u \in Threads \ {t} : Finds(u, d)
               /\ ~allOk => failing # {}
    <3>1. /\ fAllOk => \A d \in failing : d \in queue \/ \E u \in Threads : Finds(u, d)
          /\ ~fAllOk => failing # {}
          /\ ~fOk[t] => failing # {}
      BY <1>0, <2>1, <2>7, <2>9 DEF Tracked
    <3>2. fOk[t] => \A d : ~Finds(t, d)
      BY <2>1 DEF Finds
    <3> QED
      BY <3>1, <3>2
  <2>10. todo = Cardinality(Rest(t))
    BY <1>4
  <2> HIDE DEF todo, pcs, allOk
  <2>11. Given(t, nTotal, nIdle, allOk, todo, pcs)
    BY <1>3, <2>1, <2>4, <2>7, <2>8, <2>9, <2>10 DEF Given
  <2> QED
    BY <2>1, <2>11, ProceedGood
<1> QED
  BY <1>6, <1>7, <1>8

(* The steps outside Loop's critical section, those of the control first. *)
LEMMA ExecuteGood == ASSUME IInv, NEW t \in Threads, Execute(t) PROVE IInv'
<1>0. TypeOK /\ CountersMatch /\ Busy /\ Held /\ Numbered /\ Tracked /\ Returned
  BY DEF IInv
<1>1. /\ pc[t] = "executing" /\ pc' = [pc EXCEPT ![t] = "lock"]
      /\ UNCHANGED <<queue, nIdle, nTotal, fAllOk, nTodo, m_request_stop, vChecks,
                     m_control, txsdata, added, failing, life>>
  BY DEF Execute
<1>2. PICK result \in BOOLEAN : /\ txsdata => result = (vChecks[t] \cap failing = {})
                                /\ fOk' = [fOk EXCEPT ![t] = fOk[t] /\ result]
  BY DEF Execute
<1>3. TypeOK'
  BY <1>0, <1>1, <1>2 DEF TypeOK
<1>4. Outstanding' = Outstanding
  BY <1>1 DEF Outstanding
<1>5. Busy' /\ Held' /\ Numbered'
  BY <1>0, <1>1, <1>4 DEF Busy, Held, Numbered, TypeOK
<1>6. CountersMatch'
  <2>1. Waiting' = Waiting /\ Joined' = Joined
    BY <1>0, <1>1 DEF Waiting, Joined, TypeOK, Busy
  <2> QED
    BY <1>0, <1>1, <1>4, <2>1 DEF CountersMatch
<1>7. \A m \in Masters : pc'[m] = "returned" <=> pc[m] = "returned"
  BY <1>0, <1>1 DEF TypeOK, Threads
<1>8. Tracked'
  <2> SUFFICES ASSUME txsdata, \A m \in Masters : pc[m] # "returned"
               PROVE  /\ fAllOk => \A c \in failing : c \in queue \/ \E u \in Threads : Finds(u, c)'
                      /\ ~fAllOk => failing # {}
                      /\ \A u \in Threads : vChecks[u] # {} /\ ~fOk'[u] => failing # {}
    BY <1>1, <1>7 DEF Tracked
  <2>1. /\ fAllOk => \A c \in failing : c \in queue \/ \E u \in Threads : Finds(u, c)
        /\ ~fAllOk => failing # {}
        /\ \A u \in Threads : vChecks[u] # {} /\ ~fOk[u] => failing # {}
    BY <1>0 DEF Tracked
  <2>2. \A c \in failing, u \in Threads : Finds(u, c) => Finds(u, c)'
    BY <1>0, <1>1, <1>2 DEF Finds, TypeOK
  <2>3. \A u \in Threads : vChecks[u] # {} /\ ~fOk'[u] => failing # {}
    BY <1>0, <1>2, <2>1 DEF TypeOK
  <2> QED
    BY <2>1, <2>2, <2>3
<1>9. Returned'
  <2>1. \A m \in Masters : pc[m] = "returned" => fOk'[m] = fOk[m]
    BY <1>0, <1>1, <1>2 DEF TypeOK, Threads
  <2> QED
    BY <1>0, <1>1, <1>4, <1>7, <2>1 DEF Returned
<1> QED
  BY <1>3, <1>5, <1>6, <1>8, <1>9 DEF IInv

(* Add: the new checks are numbered above all others. *)
LEMMA AddGood ==
    ASSUME IInv, NEW t \in Masters, NEW n \in 1..MaxAdd, NEW bad, Add(t, n, bad)
    PROVE  IInv'
<1> DEFINE new == (added + 1)..(added + n)
<1>0. TypeOK /\ CountersMatch /\ Busy /\ Held /\ Numbered /\ Tracked /\ Returned
  BY DEF IInv
<1>1. /\ pc[t] = "adding" /\ added + n <= MaxChecks /\ bad \subseteq new
      /\ queue' = queue \cup new /\ nTodo' = nTodo + n
      /\ added' = added + n /\ failing' = failing \cup bad
      /\ UNCHANGED <<nIdle, nTotal, fAllOk, m_request_stop, vChecks, fOk, m_control, txsdata, life>>
  BY DEF Add
<1>2. added \in Nat /\ n \in Nat \ {0} /\ MaxChecks \in Nat
  BY <1>0, CheckQueueAssumption DEF TypeOK
<1>3. new \subseteq 1..MaxChecks /\ 1..added \subseteq 1..added' /\ new \subseteq 1..added'
      /\ new \cap 1..added = {}
  BY <1>1, <1>2
<1>4. /\ pc' \in [Threads -> {"out", "adding", "lock", "executing", "waiting", "woken", "returned"}]
      /\ \A u \in Threads : pc'[u] = pc[u] \/ (pc[u] = "waiting" /\ pc'[u] = "woken")
      /\ \A m \in Masters : pc'[m] = pc[m]
  <2>1. \E S \in SUBSET Workers : pc' = Notify(S) \/ pc' = pc
    BY DEF Add
  <2>2. PICK S \in SUBSET Workers : pc' = Notify(S) \/ pc' = pc
    BY <2>1
  <2> QED
    BY <1>0, <2>2, CheckQueueAssumption DEF Notify, TypeOK, Threads
<1>5. TypeOK'
  <2>1. added' \in 0..MaxChecks /\ nTodo' \in Int
    BY <1>0, <1>1, <1>2 DEF TypeOK
  <2>2. failing' \subseteq 1..added' /\ queue' \subseteq 1..MaxChecks
    BY <1>0, <1>1, <1>3 DEF TypeOK
  <2> QED
    BY <1>0, <1>1, <1>4, <2>1, <2>2 DEF TypeOK
<1>6. Outstanding' = Outstanding \cup new /\ Outstanding \cap new = {}
  <2>1. \A c : c \in Outstanding' <=> c \in queue' \/ \E u \in Threads : c \in vChecks'[u]
    BY DEF Outstanding
  <2>2. Outstanding' = Outstanding \cup new
    BY <1>1, <2>1, InOutstanding
  <2> QED
    BY <1>0, <1>3, <2>2 DEF Numbered
<1>7. Numbered'
  BY <1>0, <1>3, <1>6 DEF Numbered
<1>8. CountersMatch'
  <2>1. IsFiniteSet(new) /\ Cardinality(new) = n
    BY <1>2, FS_Interval
  <2>2. Cardinality(Outstanding') = Cardinality(Outstanding) + n
    <3>1. IsFiniteSet(Outstanding) /\ Cardinality(Outstanding) \in Nat
      BY <1>0, Finite
    <3> HIDE DEF new
    <3>2. Cardinality(Outstanding \cup new)
              = Cardinality(Outstanding) + Cardinality(new) - Cardinality(Outstanding \cap new)
      BY <2>1, <3>1, FS_Union
    <3>3. Cardinality(Outstanding \cap new) = 0
      BY <1>6, FS_EmptySet
    <3>4. Cardinality(Outstanding \cup new) = Cardinality(Outstanding) + n
      BY <1>2, <2>1, <3>1, <3>2, <3>3
    <3> QED
      BY <1>6, <3>4
  <2>3. nTodo' = Cardinality(Outstanding')
    BY <1>0, <1>1, <2>2 DEF CountersMatch
  <2>4. Waiting' = Waiting /\ Joined' = Joined
    BY <1>1, <1>4 DEF Waiting, Joined
  <2>5. \A u \in Threads : vChecks[u] \cap queue' = {}
    <3>1. \A u \in Threads : vChecks[u] \cap new = {}
      BY <1>6, InOutstanding
    <3> QED
      BY <1>0, <1>1, <3>1 DEF CountersMatch
  <2> QED
    BY <1>0, <1>1, <2>3, <2>4, <2>5 DEF CountersMatch
<1>9. Busy'
  BY <1>0, <1>1, <1>4 DEF Busy
<1>10. m_control = t /\ t # NoThread
  BY <1>0, <1>1, CheckQueueAssumption DEF Held, Threads
<1>11. Held'
  BY <1>0, <1>1, <1>4, <1>10 DEF Held
<1>12. \A m \in Masters : pc[m] # "returned"
  BY <1>0, <1>1, <1>10 DEF Held
<1>13. Returned'
  BY <1>4, <1>12 DEF Returned
<1>14. Tracked'
  <2> SUFFICES ASSUME txsdata
               PROVE  /\ fAllOk => \A c \in failing' : c \in queue' \/ \E u \in Threads : Finds(u, c)'
                      /\ ~fAllOk => failing' # {}
                      /\ \A u \in Threads : vChecks[u] # {} /\ ~fOk[u] => failing' # {}
    BY <1>1 DEF Tracked
  <2>1. \A u \in Threads : \A c : Finds(u, c) => Finds(u, c)'
    BY <1>1, <1>4 DEF Finds
  <2> QED
    BY <1>0, <1>1, <1>12, <2>1 DEF Tracked
<1> QED
  BY <1>5, <1>7, <1>8, <1>9, <1>11, <1>13, <1>14 DEF IInv

(* Steps that move masters or workers only, outside m_mutex or with        *)
(* nothing left to do.                                                     *)
LEMMA OtherGood ==
    ASSUME IInv,
           \/ \E t \in Threads : SpuriousWakeup(t)
           \/ \E t \in Masters : Control(t) \/ Wait(t) \/ EarlyReturn(t) \/ Leave(t)
           \/ StartWorkerThreads \/ StopWorkerThreads \/ StopNotify \/ StopJoin
           \/ UNCHANGED vars
    PROVE  IInv'
<1>0. TypeOK /\ CountersMatch /\ Busy /\ Held /\ Numbered /\ Tracked /\ Returned
  BY DEF IInv
<1>1. UNCHANGED <<queue, vChecks, nTodo>> /\ Outstanding' = Outstanding
  BY DEF SpuriousWakeup, Control, Wait, EarlyReturn, Leave, StartWorkerThreads,
         StopWorkerThreads, StopNotify, StopJoin, vars, Outstanding
<1>2. ASSUME UNCHANGED <<queue, nIdle, nTotal, fAllOk, nTodo, m_request_stop, vChecks, fOk,
                         m_control, added, failing, life>>,
             txsdata' \in BOOLEAN, txsdata' => txsdata,
             pc' \in [Threads -> {"out", "adding", "lock", "executing", "waiting", "woken", "returned"}],
             \A u \in Threads : \/ pc'[u] = pc[u]
                                \/ pc[u] = "waiting" /\ pc'[u] = "woken"
                                \/ pc[u] = "adding" /\ pc'[u] = "lock"
      PROVE  IInv'
  <2>1. TypeOK' /\ Numbered'
    BY <1>0, <1>1, <1>2 DEF TypeOK, Numbered
  <2>2. Waiting' = Waiting /\ Joined' = Joined
    BY <1>2 DEF Waiting, Joined
  <2>3. CountersMatch'
    BY <1>0, <1>1, <1>2, <2>2 DEF CountersMatch
  <2>4. Busy' /\ Held'
    BY <1>0, <1>2 DEF Busy, Held, Threads
  <2>5. \A m \in Masters : pc'[m] = "returned" <=> pc[m] = "returned"
    BY <1>2 DEF Threads
  <2>6. \A u \in Threads : \A c : Finds(u, c) => Finds(u, c)'
    BY <1>2 DEF Finds
  <2>7. Tracked' /\ Returned'
    BY <1>0, <1>1, <1>2, <2>5, <2>6 DEF Tracked, Returned
  <2> QED
    BY <2>1, <2>3, <2>4, <2>7 DEF IInv
<1>3. ASSUME NEW t \in Threads, SpuriousWakeup(t) PROVE IInv'
  BY <1>0, <1>2, <1>3 DEF SpuriousWakeup, Notify, TypeOK
<1>4. ASSUME NEW t \in Masters, Wait(t) \/ EarlyReturn(t) PROVE IInv'
  BY <1>0, <1>2, <1>4 DEF Wait, EarlyReturn, TypeOK, Threads
<1>5. CASE UNCHANGED vars
  BY <1>0, <1>2, <1>5 DEF vars, TypeOK
<1>6. ASSUME m_control' = NoThread, txsdata' = FALSE, added' = 0, failing' = {}, fAllOk' = TRUE,
             Outstanding = {},
             nIdle' \in Int, nTotal' \in Int, fOk' \in [Threads -> BOOLEAN],
             pc' \in [Threads -> {"out", "adding", "lock", "executing", "waiting", "woken", "returned"}],
             \A m \in Masters : pc'[m] = "out",
             \A u \in Threads : pc'[u] # "executing",
             m_request_stop' \in BOOLEAN, life' \in {"stopped", "running", "requested", "joining"},
             m_request_stop' => life' \in {"requested", "joining"},
             life' = "running" => nIdle' = Cardinality(Waiting') /\ nTotal' = Cardinality(Joined')
      PROVE  IInv'
  <2>1. \A u \in Threads : vChecks[u] = {}
    BY <1>6, InOutstanding
  <2>2. TypeOK'
    <3>1. 0 \in 0..MaxChecks /\ {nIdle', nTotal', nTodo'} \subseteq Int
      <4>1. MaxChecks \in Nat
        BY CheckQueueAssumption
      <4>2. {nIdle', nTotal', nTodo'} \subseteq Int
        BY <1>0, <1>1, <1>6 DEF TypeOK
      <4> QED
        BY ONLY <4>1, <4>2
    <3>2. {fAllOk', m_request_stop', txsdata'} \subseteq BOOLEAN
      BY <1>6
    <3> QED
      BY <1>0, <1>1, <1>6, <3>1, <3>2 DEF TypeOK
  <2>3. CountersMatch' /\ Busy' /\ Numbered'
    BY <1>0, <1>1, <1>6, <2>1 DEF CountersMatch, Busy, Numbered
  <2>4. Held'
    BY <1>6, CheckQueueAssumption DEF Held, Threads
  <2>5. Tracked' /\ Returned'
    BY <1>6 DEF Tracked, Returned
  <2> QED
    BY <2>2, <2>3, <2>4, <2>5 DEF IInv
<1>7. ASSUME m_control = NoThread
      PROVE  /\ Outstanding = {} /\ \A u \in Threads : vChecks[u] = {} /\ pc[u] # "executing"
             /\ \A m \in Masters : pc[m] = "out"
             /\ ~txsdata /\ added = 0 /\ failing = {} /\ fAllOk = TRUE
  <2>1. /\ \A m \in Masters : pc[m] = "out"
        /\ ~txsdata /\ added = 0 /\ failing = {} /\ fAllOk
    BY <1>0, <1>7, CheckQueueAssumption DEF Held, Threads
  <2>2. Outstanding = {}
    BY <1>0, <2>1 DEF Numbered
  <2>3. \A u \in Threads : vChecks[u] = {} /\ pc[u] # "executing"
    BY <1>0, <2>2, InOutstanding DEF Busy
  <2> QED
    BY <1>0, <2>1, <2>2, <2>3 DEF TypeOK
<1>8. ASSUME NEW t \in Masters, Control(t) PROVE IInv'
  <2>1. m_control = NoThread /\ t # NoThread /\ t \in Threads /\ life = "running"
    BY <1>8, CheckQueueAssumption DEF Control, Threads
  <2>2. pc' = [pc EXCEPT ![t] = "adding"] /\ m_control' = t /\ txsdata' = TRUE
    BY <1>8 DEF Control
  <2>3. UNCHANGED <<queue, nIdle, nTotal, fAllOk, nTodo, m_request_stop, vChecks, fOk, added, failing, life>>
    BY <1>8 DEF Control
  <2>4. TypeOK' /\ Numbered'
    BY <1>0, <1>1, <2>1, <2>2, <2>3 DEF TypeOK, Numbered
  <2>5. Waiting' = Waiting /\ Joined' = Joined
    BY <1>0, <1>7, <2>1, <2>2, <2>3 DEF Waiting, Joined, TypeOK
  <2>6. CountersMatch' /\ Busy'
    BY <1>0, <1>1, <1>7, <2>1, <2>2, <2>3, <2>5 DEF CountersMatch, Busy, TypeOK
  <2>7. Held'
    BY <1>0, <1>7, <2>1, <2>2, <2>3 DEF Held, TypeOK, Threads
  <2>8. Tracked' /\ Returned'
    BY <1>0, <1>7, <2>1, <2>2, <2>3 DEF Tracked, Returned, TypeOK, Threads
  <2> QED
    BY <2>4, <2>6, <2>7, <2>8 DEF IInv
<1>9. ASSUME NEW t \in Masters, Leave(t) PROVE IInv'
  <2>1. m_control = t /\ t # NoThread /\ t \in Threads /\ pc[t] = "returned"
    BY <1>0, <1>9, CheckQueueAssumption DEF Leave, Held, Threads
  <2>2. Outstanding = {} /\ fAllOk = TRUE
    BY <1>0, <2>1 DEF Returned, TypeOK
  <2>3. /\ m_control' = NoThread /\ txsdata' = FALSE /\ added' = 0 /\ failing' = {}
        /\ fOk' = [fOk EXCEPT ![t] = TRUE] /\ pc' = [pc EXCEPT ![t] = "out"]
        /\ UNCHANGED <<queue, nIdle, nTotal, fAllOk, nTodo, m_request_stop, vChecks, life>>
    BY <1>9 DEF Leave
  <2>4. \A u \in Threads : vChecks[u] = {} /\ pc[u] # "executing"
    BY <1>0, <2>2, InOutstanding DEF Busy
  <2>5. Waiting' = Waiting /\ Joined' = Joined
    BY <1>0, <2>1, <2>3, <2>4 DEF Waiting, Joined, TypeOK
  <2>6. \A m \in Masters : pc'[m] = "out"
    BY <1>0, <2>1, <2>3 DEF Held, TypeOK, Threads
  <2>7. \A u \in Threads : pc'[u] # "executing"
    BY <1>0, <2>3, <2>4 DEF TypeOK
  <2>8. life = "running" => nIdle = Cardinality(Waiting) /\ nTotal = Cardinality(Joined)
    BY <1>0 DEF CountersMatch
  <2> QED
    BY <1>0, <1>6, <2>2, <2>3, <2>5, <2>6, <2>7, <2>8 DEF TypeOK, Held
<1>10. CASE StartWorkerThreads
  <2>1. m_control = NoThread /\ life = "stopped"
    BY <1>10 DEF StartWorkerThreads
  <2>2. \A u \in Threads : pc'[u] \in {"lock", "out"}
    BY <1>7, <1>10, <2>1 DEF StartWorkerThreads, Threads
  <2>3. Waiting' = {} /\ Joined' = {}
    BY <1>1, <1>7, <2>1, <2>2 DEF Waiting, Joined
  <2>4. \A m \in Masters : pc'[m] = "out"
    BY <1>7, <1>10, <2>1, CheckQueueAssumption DEF StartWorkerThreads, Threads
  <2>5. ~m_request_stop
    BY <1>0, <1>10 DEF Held, StartWorkerThreads
  <2> QED
    <3>1. /\ nIdle' = 0 /\ nTotal' = 0 /\ fAllOk' = TRUE /\ life' = "running"
          /\ UNCHANGED <<m_request_stop, m_control, txsdata, added, failing>>
          /\ fOk' \in [Threads -> BOOLEAN]
          /\ pc' \in [Threads -> {"out", "adding", "lock", "executing", "waiting", "woken", "returned"}]
      BY <1>0, <1>10 DEF StartWorkerThreads, TypeOK
    <3>2. \A u \in Threads : pc'[u] # "executing"
      BY <2>2
    <3>3. nIdle' = Cardinality(Waiting') /\ nTotal' = Cardinality(Joined')
      BY <2>3, <3>1, FS_EmptySet
    <3>4. txsdata = FALSE /\ m_request_stop = FALSE
      BY <1>0, <1>7, <2>1, <2>5 DEF TypeOK
    <3>5. added = 0 /\ failing = {} /\ Outstanding = {}
      BY <1>7, <2>1
    <3>6. nIdle' \in Int /\ nTotal' \in Int /\ m_request_stop' = FALSE /\ txsdata' = FALSE
      BY <3>1, <3>4
    <3> QED
      BY <1>6, <2>1, <2>4, <3>1, <3>2, <3>3, <3>5, <3>6
<1>11. CASE StopWorkerThreads
  BY <1>0, <1>6, <1>7, <1>11 DEF StopWorkerThreads, TypeOK
<1>12. CASE StopNotify
  <2>1. m_control = NoThread
    BY <1>0, <1>12 DEF StopNotify, Held
  <2>2. \A u \in Threads : pc'[u] # "executing" /\ (u \in Masters => pc'[u] = "out")
    BY <1>7, <1>12, <2>1 DEF StopNotify, Notify
  <2> QED
    BY <1>0, <1>6, <1>7, <1>12, <2>1, <2>2 DEF StopNotify, Notify, TypeOK, Threads
<1>13. CASE StopJoin
  <2>1. m_control = NoThread
    BY <1>0, <1>13 DEF StopJoin, Held
  <2> QED
    BY <1>0, <1>6, <1>7, <1>13, <2>1 DEF StopJoin, TypeOK
<1> QED
  BY <1>3, <1>4, <1>5, <1>8, <1>9, <1>10, <1>11, <1>12, <1>13

(* The invariant holds initially. *)
LEMMA InitGood == Init => IInv
<1> SUFFICES ASSUME Init PROVE IInv
  OBVIOUS
<1>1. Outstanding = {}
  BY InOutstanding DEF Init
<1>2. TypeOK
  <2>1. 0 \in 0..MaxChecks /\ {nIdle, nTotal, nTodo} \subseteq Int
    BY CheckQueueAssumption DEF Init
  <2> QED
    BY <2>1 DEF Init, TypeOK
<1> QED
  BY <1>1, <1>2, FS_EmptySet, CheckQueueAssumption
  DEF Init, IInv, CountersMatch, Busy, Held, Numbered, Tracked, Returned, Threads

(* Every step keeps it. *)
LEMMA StepGood == IInv /\ [Next]_vars => IInv'
BY LoopGood, ExecuteGood, AddGood, OtherGood DEF Next, Loop, Threads

(* It says what the invariants of CheckQueue say. *)
LEMMA InvariantImplies == IInv => CountersMatch /\ VerdictCorrect /\ RoundsIndependent
<1> SUFFICES ASSUME IInv PROVE CountersMatch /\ VerdictCorrect /\ RoundsIndependent
  OBVIOUS
<1>1. VerdictCorrect /\ CountersMatch
  BY DEF IInv, Returned, VerdictCorrect
<1>2. ASSUME m_control = NoThread PROVE queue = {} /\ nTodo = 0 /\ fAllOk /\ Outstanding = {}
  <2>1. Outstanding = {} /\ fAllOk
    BY <1>2 DEF IInv, Held, Numbered
  <2> QED
    BY <2>1, <1>1, FS_EmptySet, InOutstanding DEF CountersMatch
<1> QED
  BY <1>1, <1>2 DEF RoundsIndependent

(* nTodo, nIdle and nTotal are what their comments say, and no check is    *)
(* with two threads, for any number of threads and checks.                 *)
THEOREM CountersAreRight == Spec => []CountersMatch
<1> QED
  BY InitGood, StepGood, InvariantImplies, PTL DEF Spec

(* Wait() returns true exactly if every check of the round holds, and no   *)
(* thread has anything left to do then.                                    *)
THEOREM WaitReturnsTheVerdict == Spec => []VerdictCorrect
<1> QED
  BY InitGood, StepGood, InvariantImplies, PTL DEF Spec

(* No round leaves a check or a verdict to the next. *)
THEOREM NothingIsLeftOver == Spec => []RoundsIndependent
<1> QED
  BY InitGood, StepGood, InvariantImplies, PTL DEF Spec
=============================================================================
