----------------------------- MODULE CheckQueue -----------------------------
(***************************************************************************)
(* CCheckQueue and CCheckQueueControl (src/src/checkqueue.h) as            *)
(* ConnectBlock uses them: a master adds script checks to a queue that     *)
(* worker threads empty, joins them in Wait, and gets back whether all     *)
(* checks held.  What is done under m_mutex is one step; a thread at       *)
(* "lock" is about to take it.  A check is the number under which it was   *)
(* added in its round, and failing says which of them return false.  The   *)
(* queue is a set of them: pushing and popping at the back takes the       *)
(* largest numbers.                                                        *)
(***************************************************************************)
EXTENDS Integers, FiniteSets

CONSTANTS
    Workers, Masters,  \* threads
    NoThread,
    nBatchSize,
    MaxAdd,            \* bound: checks in one call of Add
    MaxChecks          \* bound: checks in one round

Threads == Workers \cup Masters

ASSUME CheckQueueAssumption ==
    /\ IsFiniteSet(Threads) /\ Workers \cap Masters = {} /\ NoThread \notin Threads
    /\ nBatchSize \in Nat \ {0} /\ MaxAdd \in Nat \ {0} /\ MaxChecks \in Nat

VARIABLES
    queue, nIdle, nTotal, fAllOk, nTodo, m_request_stop,
    vChecks,    \* thread -> the nNow checks it took and has not reported yet
    fOk,        \* thread -> its fOk, for a master after Wait what Wait returned
    pc,         \* thread -> where it is
    m_control,  \* who holds m_control_mutex
    txsdata,    \* the PrecomputedTransactionData of the round exists
    added,      \* checks added in this round
    failing,    \* those that return false
    life        \* of the worker threads

vars == <<queue, nIdle, nTotal, fAllOk, nTodo, m_request_stop, vChecks, fOk, pc,
          m_control, txsdata, added, failing, life>>

Init ==
    /\ queue = {} /\ nIdle = 0 /\ nTotal = 0 /\ fAllOk = TRUE /\ nTodo = 0
    /\ m_request_stop = FALSE
    /\ vChecks = [t \in Threads |-> {}]
    /\ fOk = [t \in Threads |-> TRUE]
    /\ pc = [t \in Threads |-> "out"]
    /\ m_control = NoThread /\ txsdata = FALSE
    /\ added = 0 /\ failing = {}
    /\ life = "stopped"
-----------------------------------------------------------------------------
(* notify_all: the threads that wait may go on once they have m_mutex. *)
Notify(threads) == [t \in Threads |-> IF t \in threads /\ pc[t] = "waiting" THEN "woken" ELSE pc[t]]

(* What Loop does until it leaves m_mutex, with the counters as they are   *)
(* after the clean-up or the wait, and pcs after what it notified.         *)
Size(total, idle) ==
    LET share == Cardinality(queue) \div (total + idle + 1)
        most == IF share < nBatchSize THEN share ELSE nBatchSize
    IN  IF most > 1 THEN most ELSE 1

(* Mutant: fAllOk is not reset for the next round. *)
ReturnKeepsStatus(t, total, idle, allOk, todo, pcs) ==
    /\ queue = {} /\ ~m_request_stop /\ t \in Masters /\ todo = 0
    /\ nTotal' = total - 1 /\ nIdle' = idle /\ nTodo' = todo
    /\ fAllOk' = allOk
    /\ fOk' = [fOk EXCEPT ![t] = allOk]
    /\ vChecks' = [vChecks EXCEPT ![t] = {}]
    /\ pc' = [pcs EXCEPT ![t] = "returned"]
    /\ UNCHANGED queue

Return(t, total, idle, allOk, todo, pcs) ==
    /\ queue = {} /\ ~m_request_stop /\ t \in Masters /\ todo = 0
    /\ nTotal' = total - 1 /\ nIdle' = idle /\ nTodo' = todo
    /\ fAllOk' = TRUE
    /\ fOk' = [fOk EXCEPT ![t] = allOk]
    /\ vChecks' = [vChecks EXCEPT ![t] = {}]
    /\ pc' = [pcs EXCEPT ![t] = "returned"]
    /\ UNCHANGED queue

(* fOk is set again before it is read. *)
Sleep(t, total, idle, allOk, todo, pcs) ==
    /\ queue = {} /\ ~m_request_stop /\ ~(t \in Masters /\ todo = 0)
    /\ nTotal' = total /\ nIdle' = idle + 1 /\ nTodo' = todo
    /\ fAllOk' = allOk
    /\ fOk' = [fOk EXCEPT ![t] = TRUE]
    /\ vChecks' = [vChecks EXCEPT ![t] = {}]
    /\ pc' = [pcs EXCEPT ![t] = "waiting"]
    /\ UNCHANGED queue

(* "return false" when the workers are to stop. *)
Quit(t, total, idle, allOk, todo, pcs) ==
    /\ m_request_stop
    /\ nTotal' = total /\ nIdle' = idle /\ nTodo' = todo
    /\ fAllOk' = allOk
    /\ fOk' = [fOk EXCEPT ![t] = FALSE]
    /\ vChecks' = [vChecks EXCEPT ![t] = {}]
    /\ pc' = [pcs EXCEPT ![t] = IF t \in Masters THEN "returned" ELSE "out"]
    /\ UNCHANGED queue

Take(t, total, idle, allOk, todo, pcs) ==
    /\ queue # {} /\ ~m_request_stop
    /\ \E checks \in SUBSET queue :
          /\ Cardinality(checks) = Size(total, idle)
          /\ \A c \in checks, d \in queue \ checks : c > d
          /\ queue' = queue \ checks
          /\ vChecks' = [vChecks EXCEPT ![t] = checks]
    /\ nTotal' = total /\ nIdle' = idle /\ nTodo' = todo
    /\ fAllOk' = allOk
    /\ fOk' = [fOk EXCEPT ![t] = allOk]
    /\ pc' = [pcs EXCEPT ![t] = "executing"]

Proceed(t, total, idle, allOk, todo, pcs) ==
    /\ \/ Return(t, total, idle, allOk, todo, pcs)
       \/ Sleep(t, total, idle, allOk, todo, pcs)
       \/ Quit(t, total, idle, allOk, todo, pcs)
       \/ Take(t, total, idle, allOk, todo, pcs)
    /\ UNCHANGED <<m_request_stop, m_control, txsdata, added, failing, life>>
-----------------------------------------------------------------------------
(* Loop *)

(* The first iteration. *)
LoopStart(t) ==
    /\ pc[t] = "lock" /\ vChecks[t] = {}
    /\ Proceed(t, nTotal + 1, nIdle, fAllOk, nTodo, pc)

(* Mutants: only the last batch counts; a batch counts as one check; the   *)
(* master is not told.                                                     *)
LoopAgainForgets(t) ==
    /\ pc[t] = "lock" /\ vChecks[t] # {}
    /\ LET todo == nTodo - Cardinality(vChecks[t])
       IN  Proceed(t, nTotal, nIdle, fOk[t], todo,
                   IF todo = 0 /\ t \notin Masters THEN Notify(Masters) ELSE pc)

LoopAgainMiscounts(t) ==
    /\ pc[t] = "lock" /\ vChecks[t] # {}
    /\ LET todo == nTodo - 1
       IN  Proceed(t, nTotal, nIdle, fAllOk /\ fOk[t], todo,
                   IF todo = 0 /\ t \notin Masters THEN Notify(Masters) ELSE pc)

LoopAgainQuietly(t) ==
    /\ pc[t] = "lock" /\ vChecks[t] # {}
    /\ Proceed(t, nTotal, nIdle, fAllOk /\ fOk[t], nTodo - Cardinality(vChecks[t]), pc)

(* The clean-up of the previous iteration. *)
LoopAgain(t) ==
    /\ pc[t] = "lock" /\ vChecks[t] # {}
    /\ LET todo == nTodo - Cardinality(vChecks[t])
       IN  Proceed(t, nTotal, nIdle, fAllOk /\ fOk[t], todo,
                   IF todo = 0 /\ t \notin Masters THEN Notify(Masters) ELSE pc)

(* After cond.wait. *)
LoopWoken(t) ==
    /\ pc[t] = "woken"
    /\ Proceed(t, nTotal, nIdle - 1, fAllOk, nTodo, pc)

(* A condition variable may wake a thread that nobody notified. *)
SpuriousWakeup(t) ==
    /\ pc[t] = "waiting"
    /\ pc' = Notify({t})
    /\ UNCHANGED <<queue, nIdle, nTotal, fAllOk, nTodo, m_request_stop, vChecks, fOk,
                   m_control, txsdata, added, failing, life>>

(* The checks up to the first that fails, outside m_mutex.  A check that   *)
(* is run reads txsdata, and what it reads when that is gone is anything.  *)
Execute(t) ==
    /\ pc[t] = "executing"
    /\ \E result \in IF txsdata THEN {vChecks[t] \cap failing = {}} ELSE BOOLEAN :
          fOk' = [fOk EXCEPT ![t] = fOk[t] /\ result]
    /\ pc' = [pc EXCEPT ![t] = "lock"]
    /\ UNCHANGED <<queue, nIdle, nTotal, fAllOk, nTodo, m_request_stop, vChecks,
                   m_control, txsdata, added, failing, life>>
-----------------------------------------------------------------------------
(* CCheckQueueControl in ConnectBlock *)

(* The control, then txsdata.  The workers are started before anything     *)
(* connects blocks, and Shutdown stops all that does before it stops them. *)
Control(t) ==
    /\ pc[t] = "out" /\ m_control = NoThread
    /\ life = "running"
    /\ m_control' = t /\ txsdata' = TRUE
    /\ pc' = [pc EXCEPT ![t] = "adding"]
    /\ UNCHANGED <<queue, nIdle, nTotal, fAllOk, nTodo, m_request_stop, vChecks, fOk,
                   added, failing, life>>

(* One notification for one check, one for everybody for several. *)
Add(t, n, bad) ==
    /\ pc[t] = "adding" /\ added + n <= MaxChecks
    /\ bad \subseteq (added + 1)..(added + n)
    /\ queue' = queue \cup (added + 1)..(added + n)
    /\ nTodo' = nTodo + n
    /\ added' = added + n /\ failing' = failing \cup bad
    /\ \/ n > 1 /\ pc' = Notify(Workers)
       \/ n = 1 /\ \E w \in Workers : pc[w] = "waiting" /\ pc' = Notify({w})
       \/ n = 1 /\ (\A w \in Workers : pc[w] # "waiting") /\ pc' = pc
    /\ UNCHANGED <<nIdle, nTotal, fAllOk, m_request_stop, vChecks, fOk, m_control, txsdata, life>>

(* control.Wait() *)
Wait(t) ==
    /\ pc[t] = "adding"
    /\ pc' = [pc EXCEPT ![t] = "lock"]
    /\ UNCHANGED <<queue, nIdle, nTotal, fAllOk, nTodo, m_request_stop, vChecks, fOk,
                   m_control, txsdata, added, failing, life>>

(* ConnectBlock returns with an error before control.Wait().  Locals go in *)
(* the reverse order of their declarations: txsdata, and then the control, *)
(* whose destructor waits.                                                 *)
EarlyReturn(t) ==
    /\ pc[t] = "adding"
    /\ txsdata' = FALSE
    /\ pc' = [pc EXCEPT ![t] = "lock"]
    /\ UNCHANGED <<queue, nIdle, nTotal, fAllOk, nTodo, m_request_stop, vChecks, fOk,
                   m_control, added, failing, life>>

(* The end of the control, and of the round; Loop starts with fOk true. *)
Leave(t) ==
    /\ pc[t] = "returned"
    /\ m_control' = NoThread /\ txsdata' = FALSE
    /\ added' = 0 /\ failing' = {}
    /\ fOk' = [fOk EXCEPT ![t] = TRUE]
    /\ pc' = [pc EXCEPT ![t] = "out"]
    /\ UNCHANGED <<queue, nIdle, nTotal, fAllOk, nTodo, m_request_stop, vChecks, life>>
-----------------------------------------------------------------------------
(* The worker threads *)

(* At start-up, before anything connects blocks. *)
StartWorkerThreads ==
    /\ life = "stopped" /\ m_control = NoThread
    /\ life' = "running"
    /\ nIdle' = 0 /\ nTotal' = 0 /\ fAllOk' = TRUE
    /\ pc' = [t \in Threads |-> IF t \in Workers THEN "lock" ELSE pc[t]]
    /\ fOk' = [t \in Threads |-> IF t \in Workers THEN TRUE ELSE fOk[t]]
    /\ UNCHANGED <<queue, nTodo, m_request_stop, vChecks, m_control, txsdata, added, failing>>

StopWorkerThreads ==
    /\ life = "running" /\ m_control = NoThread
    /\ life' = "requested" /\ m_request_stop' = TRUE
    /\ UNCHANGED <<queue, nIdle, nTotal, fAllOk, nTodo, vChecks, fOk, pc,
                   m_control, txsdata, added, failing>>

(* Mutant: one worker is told instead of all. *)
StopNotifyOne ==
    /\ life = "requested" /\ life' = "joining"
    /\ \/ \E w \in Workers : pc[w] = "waiting" /\ pc' = Notify({w})
       \/ (\A w \in Workers : pc[w] # "waiting") /\ pc' = pc
    /\ UNCHANGED <<queue, nIdle, nTotal, fAllOk, nTodo, m_request_stop, vChecks, fOk,
                   m_control, txsdata, added, failing>>

StopNotify ==
    /\ life = "requested" /\ life' = "joining"
    /\ pc' = Notify(Workers)
    /\ UNCHANGED <<queue, nIdle, nTotal, fAllOk, nTodo, m_request_stop, vChecks, fOk,
                   m_control, txsdata, added, failing>>

StopJoin ==
    /\ life = "joining" /\ \A w \in Workers : pc[w] = "out"
    /\ life' = "stopped" /\ m_request_stop' = FALSE
    /\ UNCHANGED <<queue, nIdle, nTotal, fAllOk, nTodo, vChecks, fOk, pc,
                   m_control, txsdata, added, failing>>

Loop(t) == LoopStart(t) \/ LoopAgain(t) \/ LoopWoken(t) \/ Execute(t)

Next ==
    \/ \E t \in Threads : Loop(t) \/ SpuriousWakeup(t)
    \/ \E t \in Masters :
          \/ Control(t)
          \/ \E n \in 1..MaxAdd : \E bad \in SUBSET ((added + 1)..(added + n)) : Add(t, n, bad)
          \/ Wait(t) \/ EarlyReturn(t)
          \/ Leave(t)
    \/ StartWorkerThreads
    \/ StopWorkerThreads \/ StopNotify \/ StopJoin

Spec == Init /\ [][Next]_vars

(* A thread that has something to do gets m_mutex at some time and does    *)
(* it, ConnectBlock comes to its end and so does Shutdown.                 *)
Fairness ==
    /\ \A t \in Threads : WF_vars(Loop(t))
    /\ \A t \in Masters : WF_vars(Wait(t) \/ EarlyReturn(t)) /\ WF_vars(Leave(t))
    /\ WF_vars(StopNotify) /\ WF_vars(StopJoin)

FairSpec == Spec /\ Fairness
-----------------------------------------------------------------------------
(* The threads that are in cond.wait, those that wait for m_mutex to       *)
(* return from it included.                                                *)
Waiting == {t \in Threads : pc[t] \in {"waiting", "woken"}}

(* Those that have been through the head of Loop. *)
Joined == {t \in Threads : pc[t] \in {"waiting", "woken", "executing"} \/ vChecks[t] # {}}

(* Checks that nobody has reported yet. *)
Outstanding == queue \cup UNION {vChecks[t] : t \in Threads}

(* Types of the queue, its counters, its threads and their controllers. *)
TypeOK ==
    /\ queue \subseteq 1..MaxChecks
    /\ {nIdle, nTotal, nTodo} \subseteq Int
    /\ {fAllOk, m_request_stop, txsdata} \subseteq BOOLEAN
    /\ vChecks \in [Threads -> SUBSET (1..MaxChecks)]
    /\ fOk \in [Threads -> BOOLEAN]
    /\ pc \in [Threads -> {"out", "adding", "lock", "executing", "waiting", "woken", "returned"}]
    /\ m_control \in Masters \cup {NoThread}
    /\ added \in 0..MaxChecks /\ failing \subseteq 1..added
    /\ life \in {"stopped", "running", "requested", "joining"}

(* The counters say what their comments in checkqueue.h say: nTodo counts  *)
(* the checks that have not completed, each of which is in the queue or    *)
(* with one thread, and nIdle and nTotal count the threads of a pool that  *)
(* is not being stopped.                                                   *)
CountersMatch ==
    /\ nTodo = Cardinality(Outstanding)
    /\ \A t \in Threads : vChecks[t] \cap queue = {} /\ \A u \in Threads \ {t} : vChecks[t] \cap vChecks[u] = {}
    /\ life = "running" => nIdle = Cardinality(Waiting) /\ nTotal = Cardinality(Joined)

(* Wait() returns true exactly if every check of the round holds, also     *)
(* when threads skip checks because another one has failed; and then no    *)
(* thread holds a check of the round any more.                             *)
VerdictCorrect ==
    \A t \in Masters : pc[t] = "returned" =>
        /\ Outstanding = {}
        /\ txsdata => fOk[t] = (failing = {})

(* "passed queue is supposed to be unused" (CCheckQueueControl): when no   *)
(* one has the control, nothing of an earlier round is left, neither a     *)
(* check nor its verdict, not even after an error in ConnectBlock.         *)
RoundsIndependent ==
    m_control = NoThread => queue = {} /\ nTodo = 0 /\ fAllOk /\ Outstanding = {}

(* Every call of Wait returns: the last thread that reports wakes a master *)
(* that sleeps, and no check is left for a worker that was not notified.   *)
WaitReturns == \A t \in Masters : pc[t] = "lock" ~> pc[t] = "returned"

(* StopWorkerThreads gets all of its threads joined. *)
StopReturns == life = "requested" ~> life = "stopped"

(* "Precomputed transaction data pointers must not be invalidated until    *)
(* after `control` has run the script checks" (ConnectBlock).              *)
TxsdataOutlivesChecks ==
    \A t \in Threads : pc[t] = "executing" /\ fOk[t] => txsdata
=============================================================================
