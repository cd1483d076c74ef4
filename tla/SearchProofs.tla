----------------------------- MODULE SearchProofs -----------------------------
(***************************************************************************)
(* One search, for any number of workers and any moves at the root.        *)
(***************************************************************************)
EXTENDS Search, SequenceTheorems, TLAPS

Searcher == Worker \cup {Watchdog}

InThreads(t) == \E i \in 1 .. Len(threads) : threads[i] = t

\* Every thread is still to be started, in threads_ or over.
ThreadsKept ==
    /\ \A t \in Searcher : \/ pc[Owner] = "start" /\ pc[t] = "new"
                           \/ InThreads(t)
                           \/ pc[t] = "done"
    /\ pc[Owner] = "start" => (threads = <<>> <=> pc[Watchdog] = "new")
    /\ pc[Owner] \in {"joined", "played", "gone"} => threads = <<>>

\* A mutex is held by a thread that is about to leave it.
MutexesHeld ==
    /\ nodes # Nobody =>
          \/ nodes = Watchdog /\ pc[Watchdog] \in {"watchCounters", "decide"}
          \/ nodes \in Worker /\ pc[nodes] \in {"picking", "backing"}
    /\ counters # Nobody => pc[Watchdog] = "decide"

\* bestmove_is_sent_ goes up with the answer, or with an abort.
SentKept ==
    /\ sent => stop
    /\ sent => announced # <<>> \/ Silenced
    /\ Silenced => sent
    /\ pc[Watchdog] = "done" => sent
    /\ announced # <<>> => sent /\ announced = <<final>>

\* The move of the owner is read when the answer is settled.
GotKept ==
    got # Nobody =>
        /\ sent /\ got = final
        /\ announced # <<>> \/ pc[Caller] = "aborted"

IInv ==
    /\ TypeOK
    /\ ThreadsKept
    /\ MutexesHeld
    /\ SentKept
    /\ GotKept

-----------------------------------------------------------------------------
LEMMA Distinct ==
    /\ Watchdog # Owner /\ Owner # Caller /\ Caller # Watchdog
    /\ Watchdog \in Thread /\ Owner \in Thread /\ Caller \in Thread
    /\ \A w \in Worker : w # Watchdog /\ w # Owner /\ w # Caller /\ w \in Thread
    /\ Nobody \notin Thread /\ Nobody \notin Edges /\ Nobody # DefaultMove
  BY SearchAssumption DEF Thread

LEMMA InitIInv == Init => IInv
<1> SUFFICES ASSUME Init PROVE IInv
  OBVIOUS
<1>1. TypeOK
  <2>1. pc \in [Thread -> Location]
    BY DEF Init, Location
  <2>2. announced \in Seq(Edges \cup {DefaultMove}) /\ threads \in Seq(Searcher)
    BY EmptySeq DEF Init
  <2>3. kidN \in [Edges -> Nat] /\ leaf \in [Worker -> Edges \cup {Root, Nobody}]
    BY DEF Init
  <2>4. /\ stop \in BOOLEAN /\ sent \in BOOLEAN /\ overdue \in BOOLEAN
        /\ final \in Edges \cup {DefaultMove}
        /\ got \in Edges \cup {DefaultMove, Nobody}
        /\ nodes \in Thread \cup {Nobody} /\ counters \in Thread \cup {Nobody}
        /\ rootEdges \in {"none", "partial", "set"}
        /\ rootN \in Nat /\ rootFlying \in 0 .. 1
    <3>1. /\ stop = FALSE /\ sent = FALSE /\ overdue \in BOOLEAN
      BY DEF Init
    <3>2. /\ final = DefaultMove /\ got = Nobody /\ nodes = Nobody /\ counters = Nobody
          /\ rootEdges = "none" /\ rootN = 0 /\ rootFlying = 0
      BY DEF Init
    <3>3. stop \in BOOLEAN /\ sent \in BOOLEAN
      BY <3>1
    <3>4. rootN \in Nat /\ rootFlying \in 0 .. 1
      BY <3>2
    <3>5. QED
      BY <3>1, <3>2, <3>3, <3>4, Zenon
  <2>5. QED
    BY <2>1, <2>2, <2>3, <2>4 DEF TypeOK, Searcher
<1>2. pc[Owner] = "start" /\ \A t \in Thread : t # Owner => pc[t] = "new"
  BY Distinct DEF Init
<1>3. ThreadsKept /\ MutexesHeld /\ SentKept /\ GotKept
  BY <1>2, Distinct DEF Init, ThreadsKept, MutexesHeld, SentKept, GotKept, Searcher, Silenced
<1>4. QED
  BY <1>1, <1>3 DEF IInv

\* The steps of a worker leave everything alone but the tree, its own place and
\* nodes_mutex_.
LEMMA WorkerKeeps ==
    ASSUME IInv, NEW w \in Worker, WorkerStep(w)
    PROVE  IInv'
<1>1. /\ UNCHANGED <<stop, sent, final, announced, got, overdue, counters, threads>>
      /\ pc[w] \notin {"new", "done"}
      /\ pc' = [pc EXCEPT ![w] = pc'[w]]
      /\ pc'[w] \in {"picking", "extend", "picked", "backing", "loop", "iterate", "done"}
      /\ \/ nodes' = Nobody
         \/ nodes' = w /\ nodes = Nobody /\ pc'[w] \in {"picking", "backing"}
         \/ nodes' = nodes /\ pc[w] \notin {"picking", "backing"}
  BY Distinct DEF WorkerStep, Lock, Pick, ExtendRoot, Backup, Loop, Goto, Acquire, IInv, TypeOK,
                  answerVars, lockVars, treeVars
<1>2. /\ rootEdges' \in {"none", "partial", "set"}
      /\ rootN' \in Nat /\ rootFlying' \in 0 .. 1
      /\ kidN' \in [Edges -> Nat]
      /\ leaf' \in [Worker -> Edges \cup {Root, Nobody}]
  BY DEF WorkerStep, Lock, Pick, ExtendRoot, Backup, Loop, Collides, IInv, TypeOK, treeVars
<1>3. TypeOK'
  <2>1. pc' \in [Thread -> Location]
    <3>1. pc'[w] \in Location
      BY <1>1 DEF Location
    <3>2. QED
      BY <1>1, <3>1, Distinct DEF IInv, TypeOK
  <2>2. nodes' \in Thread \cup {Nobody}
    BY <1>1, Distinct DEF IInv, TypeOK
  <2>3. QED
    BY <1>1, <1>2, <2>1, <2>2 DEF IInv, TypeOK
<1>4. \A t \in Thread : t # w => pc'[t] = pc[t]
  BY <1>1 DEF IInv, TypeOK
<1>5. ThreadsKept'
  BY <1>1, <1>4, Distinct DEF IInv, ThreadsKept, Searcher, InThreads
<1>6. MutexesHeld'
  BY <1>1, <1>4, Distinct DEF IInv, MutexesHeld
<1>7. SentKept' /\ GotKept'
  BY <1>1, <1>4, Distinct DEF IInv, SentKept, GotKept, Silenced
<1>8. QED
  BY <1>3, <1>5, <1>6, <1>7 DEF IInv

LEMMA WatchdogKeeps ==
    ASSUME IInv, WatchdogStep
    PROVE  IInv'
<1>1. \A t \in Thread : t # Watchdog => pc'[t] = pc[t]
  BY DEF WatchdogStep, WatchdogLocksNodes, WatchdogLocksCounters, MaybeTriggerStop,
         WatchdogLooks, Goto, IInv, TypeOK
<1>2. pc' \in [Thread -> Location] /\ pc'[Watchdog] # "new" /\ pc[Watchdog] \notin {"new", "done"}
  BY Distinct DEF WatchdogStep, WatchdogLocksNodes, WatchdogLocksCounters, MaybeTriggerStop,
         WatchdogLooks, Goto, IInv, TypeOK, Location
<1>3. UNCHANGED <<got, overdue, threads, rootEdges, rootN, rootFlying, kidN, leaf>>
  BY DEF WatchdogStep, WatchdogLocksNodes, WatchdogLocksCounters, MaybeTriggerStop,
         WatchdogLooks, answerVars, treeVars
<1>4. ThreadsKept'
  BY <1>1, <1>2, <1>3, Distinct DEF IInv, ThreadsKept, Searcher, InThreads
<1>5. MutexesHeld'
  BY <1>1, Distinct DEF WatchdogStep, WatchdogLocksNodes, WatchdogLocksCounters, MaybeTriggerStop,
         WatchdogLooks, Goto, Acquire, lockVars, IInv, TypeOK, MutexesHeld
<1>6. CASE UNCHANGED <<stop, sent, final, announced>> /\ pc'[Watchdog] # "done"
  <2>1. nodes' \in Thread \cup {Nobody} /\ counters' \in Thread \cup {Nobody}
    BY Distinct DEF WatchdogStep, WatchdogLocksNodes, WatchdogLocksCounters, MaybeTriggerStop,
         WatchdogLooks, Acquire, lockVars, IInv, TypeOK
  <2>2. TypeOK'
    BY <1>2, <1>3, <1>6, <2>1 DEF IInv, TypeOK
  <2>3. SentKept' /\ GotKept'
    BY <1>1, <1>3, <1>6, Distinct DEF IInv, SentKept, GotKept, Silenced
  <2>4. QED
    BY <1>4, <1>5, <2>2, <2>3 DEF IInv
<1>7. CASE WatchdogLooks
  <2>1. UNCHANGED <<stop, sent, final, announced, nodes, counters>>
    BY <1>7 DEF WatchdogLooks, answerVars, lockVars
  <2>2. pc'[Watchdog] = "done" => sent
    BY <1>7, Distinct DEF WatchdogLooks, Goto, IInv, TypeOK
  <2>3. TypeOK'
    BY <1>2, <1>3, <2>1 DEF IInv, TypeOK
  <2>4. SentKept' /\ GotKept'
    BY <1>1, <1>3, <2>1, <2>2, Distinct DEF IInv, SentKept, GotKept, Silenced
  <2>5. QED
    BY <1>4, <1>5, <2>3, <2>4 DEF IInv
<1>8. CASE MaybeTriggerStop /\ ~sent /\ stop'
  <2>1. /\ sent' = TRUE /\ stop' = TRUE /\ announced' = Append(announced, final')
        /\ nodes' = Nobody /\ counters' = Nobody
        /\ pc'[Watchdog] = "look"
        /\ final' \in Edges \cup {DefaultMove}
    BY <1>8, Distinct DEF MaybeTriggerStop, EnsureBestMoveKnown, Best, Goto, IInv, TypeOK
  <2>2. announced = <<>> /\ got = Nobody /\ ~Silenced
    BY <1>8 DEF IInv, SentKept, GotKept
  <2>3. announced' = <<final'>>
    BY <2>1, <2>2
  <2>4. announced' \in Seq(Edges \cup {DefaultMove}) /\ announced' # <<>>
    BY <2>1, AppendProperties DEF IInv, TypeOK
  <2>5. TypeOK'
    BY <1>2, <1>3, <2>1, <2>4 DEF IInv, TypeOK
  <2>6. SentKept' /\ GotKept'
    BY <1>1, <1>3, <2>1, <2>2, <2>3, <2>4, Distinct DEF SentKept, GotKept, Silenced
  <2>7. QED
    BY <1>4, <1>5, <2>5, <2>6 DEF IInv
<1>9. CASE MaybeTriggerStop /\ ~(~sent /\ stop')
  <2>1. /\ UNCHANGED <<sent, final, announced>>
        /\ nodes' = Nobody /\ counters' = Nobody
        /\ pc'[Watchdog] = "look"
        /\ stop' \in BOOLEAN
    BY <1>9, Distinct DEF MaybeTriggerStop, Goto, IInv, TypeOK
  <2>2. stop' = stop
    BY <1>9 DEF MaybeTriggerStop, IInv, TypeOK, SentKept
  <2>3. QED
    BY <1>6, <2>1, <2>2
<1>10. CASE WatchdogLocksNodes \/ WatchdogLocksCounters
  <2>1. UNCHANGED <<stop, sent, final, announced>> /\ pc'[Watchdog] # "done"
    BY <1>10, Distinct DEF WatchdogLocksNodes, WatchdogLocksCounters, Goto, answerVars, IInv, TypeOK
  <2>2. QED
    BY <1>6, <2>1
<1>11. QED
  BY <1>7, <1>8, <1>9, <1>10 DEF WatchdogStep

\* Stop and Abort of the caller, and time.
LEMMA CallerKeeps ==
    ASSUME IInv, Call \/ Stop \/ Abort \/ DeadlinePasses
    PROVE  IInv'
<1>1. UNCHANGED <<final, announced, got, nodes, counters, threads, rootEdges, rootN, rootFlying, kidN, leaf>>
  BY DEF Call, Stop, Abort, DeadlinePasses, answerVars, lockVars, treeVars
<1>2. /\ pc' \in [Thread -> Location]
      /\ \A t \in Thread : t # Caller => pc'[t] = pc[t]
  BY Distinct DEF Call, Stop, Abort, DeadlinePasses, Goto, IInv, TypeOK, Location
<1>3. /\ stop' \in BOOLEAN /\ sent' \in BOOLEAN /\ overdue' \in BOOLEAN
      /\ stop => stop'
      /\ sent => sent'
      /\ sent' => stop'
      /\ sent' => sent \/ pc'[Caller] = "aborted"
      /\ pc[Caller] = "aborted" => pc'[Caller] = "aborted"
      /\ pc'[Caller] = "aborted" => sent'
  <2>1. stop \in BOOLEAN /\ sent \in BOOLEAN /\ overdue \in BOOLEAN
    BY DEF IInv, TypeOK
  <2>2. sent => stop
    BY DEF IInv, SentKept
  <2>3. pc[Caller] = "aborted" => sent
    BY DEF IInv, SentKept, Silenced
  <2>4. CASE Call
    <3>1. UNCHANGED <<stop, sent, overdue>>
      BY <2>4 DEF Call, answerVars
    <3>2. pc[Caller] = "new" /\ pc'[Caller] \in {"stop", "abort"}
      BY <2>4, Distinct DEF Call, Goto, IInv, TypeOK
    <3>3. QED
      BY <2>1, <2>2, <3>1, <3>2
  <2>5. CASE Stop
    <3>1. stop' = TRUE /\ UNCHANGED <<sent, overdue>>
      BY <2>5 DEF Stop
    <3>2. pc[Caller] = "stop" /\ pc'[Caller] = "stopped"
      BY <2>5, Distinct DEF Stop, Goto, IInv, TypeOK
    <3>3. QED
      BY <2>1, <3>1, <3>2
  <2>6. CASE Abort
    <3>1. stop' = TRUE /\ sent' = TRUE /\ UNCHANGED overdue
      BY <2>1, <2>6 DEF Abort, AbortBody
    <3>2. pc[Caller] = "abort" /\ pc'[Caller] = "aborted"
      BY <2>6, Distinct DEF Abort, Goto, IInv, TypeOK
    <3>3. QED
      BY <2>1, <3>1, <3>2
  <2>7. CASE DeadlinePasses
    BY <2>1, <2>2, <2>3, <2>7 DEF DeadlinePasses, answerVars
  <2>8. QED
    BY <2>4, <2>5, <2>6, <2>7
<1>4. TypeOK'
  BY <1>1, <1>2, <1>3 DEF IInv, TypeOK
<1>5. ThreadsKept'
  BY <1>1, <1>2, Distinct DEF IInv, ThreadsKept, Searcher, InThreads
<1>6. MutexesHeld'
  BY <1>1, <1>2, Distinct DEF IInv, MutexesHeld
<1>7. SentKept' /\ GotKept'
  BY <1>1, <1>2, <1>3, Distinct DEF IInv, SentKept, GotKept, Silenced
<1>8. QED
  BY <1>4, <1>5, <1>6, <1>7 DEF IInv

\* The owner's steps that neither start nor join a thread, nor abort.
LEMMA OwnerMovesKeep ==
    ASSUME IInv, RunBlockingOrLeave \/ Leave \/ GetBestMove \/ Destroy
    PROVE  IInv'
<1>1. UNCHANGED <<announced, overdue, nodes, counters, threads, rootEdges, rootN, rootFlying, kidN, leaf>>
  BY DEF RunBlockingOrLeave, Leave, GetBestMove, Destroy, answerVars, lockVars, treeVars
<1>2. /\ pc' \in [Thread -> Location]
      /\ \A t \in Thread : t # Owner => pc'[t] = pc[t]
      /\ pc'[Owner] \in {"wait", "played", "destroy", "destroyWait"}
      /\ pc'[Owner] = "played" => pc[Owner] = "joined"
      /\ pc[Owner] \notin {"destroyWait", "gone"}
  BY Distinct DEF RunBlockingOrLeave, Leave, GetBestMove, Destroy, Goto, IInv, TypeOK, Location
<1>3. ThreadsKept'
  <2>1. CASE RunBlockingOrLeave
    <3>1. \A t \in Searcher : pc[t] # "new"
      BY <2>1 DEF RunBlockingOrLeave, Unstarted, IInv, ThreadsKept, Searcher
    <3>2. QED
      BY <1>1, <1>2, <3>1, Distinct DEF IInv, ThreadsKept, Searcher, InThreads
  <2>2. CASE ~RunBlockingOrLeave
    <3>1. pc[Owner] # "start"
      BY <2>2 DEF Leave, GetBestMove, Destroy
    <3>2. QED
      BY <1>1, <1>2, <3>1, Distinct DEF IInv, ThreadsKept, Searcher, InThreads
  <2>3. QED
    BY <2>1, <2>2
<1>4. MutexesHeld'
  BY <1>1, <1>2, Distinct DEF IInv, MutexesHeld
<1>5. pc[Owner] = "joined" => sent
  <2>1. pc[Owner] = "joined" => pc[Watchdog] = "done"
    BY DEF IInv, ThreadsKept, Searcher, InThreads
  <2>2. QED
    BY <2>1 DEF IInv, SentKept
<1>6. CASE GetBestMove
  <2>1. /\ sent /\ UNCHANGED <<stop, sent, final>> /\ got' = final
        /\ pc'[Owner] = "played" /\ pc[Owner] = "joined"
    BY <1>5, <1>6, Distinct DEF GetBestMove, EnsureBestMoveKnown, Goto, IInv, TypeOK
  <2>2. TypeOK'
    BY <1>1, <1>2, <2>1 DEF IInv, TypeOK
  <2>3. SentKept' /\ GotKept'
    BY <1>1, <1>2, <2>1, Distinct DEF IInv, SentKept, GotKept, Silenced
  <2>4. QED
    BY <1>3, <1>4, <2>2, <2>3 DEF IInv
<1>7. CASE Destroy
  <2>1. stop' = TRUE /\ sent' = TRUE /\ UNCHANGED <<final, got>> /\ pc'[Owner] = "destroyWait"
    BY <1>7, Distinct DEF Destroy, AbortBody, Goto, IInv, TypeOK
  <2>2. TypeOK'
    BY <1>1, <1>2, <2>1 DEF IInv, TypeOK
  <2>3. SentKept' /\ GotKept'
    BY <1>1, <1>2, <2>1, Distinct DEF IInv, SentKept, GotKept, Silenced
  <2>4. QED
    BY <1>3, <1>4, <2>2, <2>3 DEF IInv
<1>8. CASE RunBlockingOrLeave \/ Leave
  <2>1. UNCHANGED <<stop, sent, final, got>> /\ pc'[Owner] \notin {"destroyWait", "gone"}
    BY <1>8, Distinct DEF RunBlockingOrLeave, Leave, Goto, answerVars, IInv, TypeOK
  <2>2. TypeOK'
    BY <1>1, <1>2, <2>1 DEF IInv, TypeOK
  <2>3. SentKept' /\ GotKept'
    BY <1>1, <1>2, <2>1, Distinct DEF IInv, SentKept, GotKept, Silenced
  <2>4. QED
    BY <1>3, <1>4, <2>2, <2>3 DEF IInv
<1>9. QED
  BY <1>6, <1>7, <1>8

LEMMA StartThreadKeeps ==
    ASSUME IInv, StartThread
    PROVE  IInv'
<1>1. UNCHANGED <<stop, sent, final, announced, got, overdue, nodes, counters, rootEdges, rootN,
                  rootFlying, kidN, leaf>>
  BY DEF StartThread, answerVars, lockVars, treeVars
<1>2. PICK t \in Searcher :
         /\ threads' = Append(threads, t)
         /\ \/ threads = <<>> /\ t = Watchdog /\ pc' = [pc EXCEPT ![t] = "watch"]
            \/ threads # <<>> /\ t \in Worker /\ pc[t] = "new" /\ pc' = [pc EXCEPT ![t] = "iterate"]
  <2>1. CASE threads = <<>>
    <3>1. threads' = Append(threads, Watchdog)
      BY <2>1 DEF StartThread
    <3>2. QED
      BY <2>1, <3>1 DEF StartThread, Searcher
  <2>2. CASE threads # <<>>
    BY <2>2 DEF StartThread, Unstarted, Searcher
  <2>3. QED
    BY <2>1, <2>2
<1>3. pc[Owner] = "start" /\ t # Owner /\ t # Caller /\ t \in Thread
  BY Distinct DEF StartThread, Searcher
<1>4. threads \in Seq(Searcher)
  BY DEF IInv, TypeOK, Searcher
<1>5. /\ threads' \in Seq(Searcher) /\ threads' # <<>>
      /\ Len(threads') = Len(threads) + 1 /\ Len(threads) \in Nat
      /\ \A i \in 1 .. Len(threads) : threads'[i] = threads[i]
      /\ threads'[Len(threads) + 1] = t
  BY <1>2, <1>4, AppendProperties, LenProperties
<1>6. pc' \in [Thread -> Location] /\ \A u \in Thread : u # t => pc'[u] = pc[u]
  BY <1>2, <1>3 DEF IInv, TypeOK, Location
<1>7. TypeOK'
  BY <1>1, <1>5, <1>6 DEF IInv, TypeOK, Searcher
<1>8. ThreadsKept'
  <2>1. \A u \in Searcher : InThreads(u) \/ u = t => InThreads(u)'
    BY <1>5 DEF InThreads
  <2>2. pc'[Owner] = "start" /\ pc'[Watchdog] # "new"
    BY <1>2, <1>3, <1>6, Distinct DEF IInv, TypeOK, ThreadsKept
  <2>3. \A u \in Searcher : u # t => pc'[u] = pc[u]
    BY <1>6, Distinct DEF Searcher
  <2>4. \A u \in Searcher : \/ pc'[Owner] = "start" /\ pc'[u] = "new"
                            \/ InThreads(u)'
                            \/ pc'[u] = "done"
    <3> SUFFICES ASSUME NEW u \in Searcher, u # t
                 PROVE  \/ pc'[u] = "new" \/ InThreads(u)' \/ pc'[u] = "done"
      BY <2>1, <2>2
    <3>1. pc[u] = "new" \/ InThreads(u) \/ pc[u] = "done"
      BY DEF IInv, ThreadsKept
    <3>2. QED
      BY <2>1, <2>3, <3>1
  <2>5. QED
    BY <1>5, <2>2, <2>4 DEF ThreadsKept
<1>9. pc'[t] \in {"watch", "iterate"} /\ (t = Watchdog \/ pc[t] = "new")
  BY <1>2, <1>3 DEF IInv, TypeOK
<1>10. pc[t] = "new"
  BY <1>2, <1>3, <1>9 DEF IInv, ThreadsKept
<1>11. MutexesHeld'
  BY <1>1, <1>6, <1>9, <1>10, Distinct DEF IInv, MutexesHeld
<1>12. SentKept' /\ GotKept'
  BY <1>1, <1>3, <1>6, <1>9, Distinct DEF IInv, SentKept, GotKept, Silenced
<1>13. QED
  BY <1>7, <1>8, <1>11, <1>12 DEF IInv

LEMMA WaitKeeps ==
    ASSUME IInv, Wait("wait", "joined") \/ Wait("destroyWait", "gone")
    PROVE  IInv'
<1>1. UNCHANGED <<stop, sent, final, announced, got, overdue, nodes, counters, rootEdges, rootN,
                  rootFlying, kidN, leaf>>
  BY DEF Wait, answerVars, lockVars, treeVars
<1>2. pc[Owner] \in {"wait", "destroyWait"}
  BY DEF Wait
<1>3. threads \in Seq(Searcher) /\ Len(threads) \in Nat
  BY LenProperties DEF IInv, TypeOK, Searcher
<1>4. CASE threads = <<>>
  <2>1. /\ pc[Owner] = "wait" => pc'[Owner] = "joined"
        /\ pc[Owner] = "destroyWait" => pc'[Owner] = "gone"
        /\ \A t \in Thread : t # Owner => pc'[t] = pc[t]
        /\ pc' \in [Thread -> Location]
        /\ threads' = threads
    BY <1>4, Distinct DEF Wait, Goto, IInv, TypeOK, Location
  <2>2. TypeOK'
    BY <1>1, <2>1 DEF IInv, TypeOK
  <2>3. ThreadsKept'
    BY <1>2, <1>4, <2>1, Distinct DEF IInv, ThreadsKept, Searcher, InThreads
  <2>4. MutexesHeld' /\ SentKept' /\ GotKept'
    BY <1>1, <1>2, <2>1, Distinct DEF IInv, MutexesHeld, SentKept, GotKept, Silenced
  <2>5. QED
    BY <2>2, <2>3, <2>4 DEF IInv
<1>5. CASE threads # <<>>
  <2> DEFINE k == Len(threads)
  <2>1. /\ pc' = pc /\ pc[threads[k]] = "done"
        /\ threads' = SubSeq(threads, 1, k - 1)
    BY <1>5 DEF Wait, MayJoin
  <2>2. k \in Nat \ {0}
    BY <1>3, <1>5, EmptySeq
  <2>3. /\ threads' \in Seq(Searcher) /\ Len(threads') = k - 1
        /\ \A i \in 1 .. k - 1 : threads'[i] = threads[i]
    <3>1. k - 1 \in Int /\ \A i \in 1 .. k - 1 : threads[i] \in Searcher
      BY <1>3, <2>2, ElementOfSeq
    <3>2. /\ SubSeq(threads, 1, k - 1) \in Seq(Searcher)
          /\ Len(SubSeq(threads, 1, k - 1)) = IF 1 <= k - 1 THEN k - 1 - 1 + 1 ELSE 0
          /\ \A i \in 1 .. k - 1 - 1 + 1 : SubSeq(threads, 1, k - 1)[i] = threads[1 + i - 1]
      BY <3>1, SubSeqProperties
    <3>3. threads' = SubSeq(threads, 1, k - 1) /\ k \in Nat /\ k >= 1
      BY <2>1, <2>2
    <3> HIDE DEF k
    <3>4. Len(threads') = k - 1
      BY <3>2, <3>3
    <3>5. \A i \in 1 .. k - 1 : i \in 1 .. k - 1 - 1 + 1 /\ 1 + i - 1 = i
      BY <3>3
    <3>6. \A i \in 1 .. k - 1 : threads'[i] = threads[i]
      BY <3>2, <3>3, <3>5
    <3>7. QED
      BY <3>2, <3>3, <3>4, <3>6
  <2>4. TypeOK'
    BY <1>1, <2>1, <2>3 DEF IInv, TypeOK, Searcher
  <2>5. \A t \in Searcher : InThreads(t) => InThreads(t)' \/ pc[t] = "done"
    <3> SUFFICES ASSUME NEW t \in Searcher, NEW i \in 1 .. k, threads[i] = t, pc[t] # "done"
                 PROVE  \E j \in 1 .. Len(threads') : threads'[j] = t
      BY DEF InThreads
    <3>1. i # k
      BY <2>1
    <3>2. i \in 1 .. k - 1
      BY <2>2, <3>1
    <3>3. QED
      BY <2>3, <3>2
  <2>6. ThreadsKept'
    BY <1>2, <2>1, <2>5 DEF IInv, ThreadsKept
  <2>7. MutexesHeld' /\ SentKept' /\ GotKept'
    BY <1>1, <2>1 DEF IInv, MutexesHeld, SentKept, GotKept, Silenced
  <2>8. QED
    BY <2>4, <2>6, <2>7 DEF IInv
<1>6. QED
  BY <1>4, <1>5

LEMMA NextIInv == IInv /\ [Next]_vars => IInv'
<1> SUFFICES ASSUME IInv, [Next]_vars PROVE IInv'
  OBVIOUS
<1>1. CASE UNCHANGED vars
  BY <1>1 DEF vars, answerVars, lockVars, treeVars, IInv, TypeOK, ThreadsKept, InThreads,
              MutexesHeld, SentKept, GotKept, Silenced
<1>2. CASE OwnerStep
  BY <1>2, OwnerMovesKeep, StartThreadKeeps, WaitKeeps DEF OwnerStep
<1>3. CASE Gone
  BY <1>1, <1>3 DEF Gone
<1>4. QED
  BY <1>1, <1>2, <1>3, WatchdogKeeps, WorkerKeeps, CallerKeeps DEF Next

LEMMA IInvInvariant == Spec => []IInv
  BY InitIInv, NextIInv, PTL DEF Spec

-----------------------------------------------------------------------------
\* TypeOK: whatever the threads interleave, and one first visit of the root.
THEOREM TypeCorrect == Spec => []TypeOK
<1>1. IInv => TypeOK
  BY DEF IInv
<1>2. QED
  BY <1>1, IInvInvariant, PTL

\* AnnouncedOnce: one callback at most, with any number of workers.
THEOREM AnnouncedOnceHolds == Spec => []AnnouncedOnce
<1>1. IInv => AnnouncedOnce
  <2> SUFFICES ASSUME IInv PROVE AnnouncedOnce
    OBVIOUS
  <2>1. CASE announced = <<>>
    BY <2>1, EmptySeq DEF AnnouncedOnce
  <2>2. CASE announced = <<final>> /\ sent /\ stop
    BY <2>2 DEF AnnouncedOnce
  <2>3. QED
    BY <2>1, <2>2 DEF IInv, SentKept
<1>2. QED
  BY <1>1, IInvInvariant, PTL

\* PlaysWhatWasAnnounced: the move of GetBestMove is the announced one.
THEOREM PlaysWhatWasAnnouncedHolds == Spec => []PlaysWhatWasAnnounced
<1>1. IInv => PlaysWhatWasAnnounced
  BY DEF IInv, SentKept, GotKept, PlaysWhatWasAnnounced
<1>2. QED
  BY <1>1, IInvInvariant, PTL

\* JoinedAlone: no thread of the search outlives Wait or the destructor.
THEOREM JoinedAloneHolds == Spec => []JoinedAlone
<1>1. IInv => JoinedAlone
  <2> SUFFICES ASSUME IInv, pc[Owner] \in {"joined", "played", "gone"}
               PROVE  /\ \A t \in Worker \cup {Watchdog} : pc[t] = "done"
                      /\ nodes = Nobody /\ counters = Nobody
    BY DEF JoinedAlone
  <2>1. threads = <<>> /\ \A t \in Searcher : ~InThreads(t)
    BY DEF IInv, ThreadsKept, InThreads
  <2>2. \A t \in Searcher : pc[t] = "done"
    BY <2>1 DEF IInv, ThreadsKept
  <2>3. QED
    BY <2>2, Distinct DEF IInv, MutexesHeld, Searcher
<1>2. QED
  BY <1>1, IInvInvariant, PTL

\* SilentAfterAbort: no callback after Abort returned.
THEOREM SilentAfterAbortHolds == Spec => SilentAfterAbort
<1>1. ASSUME IInv, [Next]_vars, Silenced
      PROVE  UNCHANGED announced
  <2>1. sent
    BY <1>1 DEF IInv, SentKept
  <2>2. CASE WatchdogStep
    BY <2>1, <2>2 DEF WatchdogStep, WatchdogLocksNodes, WatchdogLocksCounters, MaybeTriggerStop,
       WatchdogLooks, answerVars
  <2>3. CASE OwnerStep
    BY <2>3 DEF OwnerStep, StartThread, RunBlockingOrLeave, Wait, GetBestMove, Leave, Destroy, answerVars
  <2>4. CASE \E w \in Worker : WorkerStep(w)
    BY <2>4 DEF WorkerStep, Lock, Pick, ExtendRoot, Backup, Loop, answerVars
  <2>5. CASE Call \/ Stop \/ Abort \/ DeadlinePasses \/ Gone \/ UNCHANGED vars
    BY <2>5 DEF Call, Stop, Abort, DeadlinePasses, Gone, vars, answerVars
  <2>6. QED
    BY <1>1, <2>2, <2>3, <2>4, <2>5 DEF Next
<1>2. IInv /\ [Next]_vars => [Silenced => UNCHANGED announced]_vars
  BY <1>1
<1>3. QED
  BY <1>2, IInvInvariant, PTL DEF Spec, SilentAfterAbort

\* The safety part of KeepsPromise: every step of the search is one the promise
\* allows, or none.
THEOREM RefinesPromise == Spec => Promise!Init /\ [][Promise!Next]_(Promise!vars)
<1>1. Init => Promise!Init
  BY DEF Init, Promise!Init
<1>2. ASSUME IInv, IInv', [Next]_vars
      PROVE  [Promise!Next]_(Promise!vars)
  <2>1. CASE MaybeTriggerStop /\ ~sent /\ stop'
    <3>1. announced = <<>> /\ announced' = Append(announced, final') /\ UNCHANGED got
      BY <1>2, <2>1 DEF MaybeTriggerStop, IInv, SentKept
    <3>2. announced' = <<final'>> /\ final' \in Edges \cup {DefaultMove}
      BY <1>2, <3>1 DEF IInv, TypeOK
    <3>3. announced' # <<>> /\ announced'[1] = final'
      BY <3>2
    <3>4. Promise!Answer
      BY <2>1, <3>1, <3>2, <3>3 DEF Promise!Answer
    <3>5. QED
      BY <3>4 DEF Promise!Next
  <2>2. CASE GetBestMove
    <3>1. sent
      <4>1. pc[Watchdog] = "done"
        BY <1>2, <2>2 DEF GetBestMove, IInv, ThreadsKept, Searcher, InThreads
      <4>2. QED
        BY <1>2, <4>1 DEF IInv, SentKept
    <3>2. got' = final /\ UNCHANGED <<announced, sent>> /\ got' \in Edges \cup {DefaultMove}
      BY <1>2, <2>2, <3>1 DEF GetBestMove, EnsureBestMoveKnown, IInv, TypeOK
    <3>3. announced # <<>> => announced[1] = final
      BY <1>2 DEF IInv, SentKept
    <3>4. Promise!Ask
      BY <3>1, <3>2, <3>3 DEF Promise!Ask
    <3>5. QED
      BY <3>4 DEF Promise!Next
  <2>3. CASE Abort \/ Destroy
    <3>1. UNCHANGED <<announced, got>> /\ sent' = TRUE
      BY <1>2, <2>3 DEF Abort, Destroy, AbortBody, IInv, TypeOK
    <3>2. CASE sent
      BY <3>1, <3>2 DEF Promise!vars
    <3>3. CASE ~sent
      <4>1. announced = <<>>
        BY <1>2, <3>3 DEF IInv, SentKept
      <4>2. Promise!Abort
        BY <3>1, <3>3, <4>1 DEF Promise!Abort
      <4>3. QED
        BY <4>2 DEF Promise!Next
    <3>4. QED
      BY <3>2, <3>3
  <2>4. CASE UNCHANGED <<announced, sent, got>>
    BY <2>4 DEF Promise!vars
  <2>5. CASE WatchdogStep /\ ~(MaybeTriggerStop /\ ~sent /\ stop')
    <3>1. UNCHANGED <<announced, sent, got>>
      BY <2>5 DEF WatchdogStep, WatchdogLocksNodes, WatchdogLocksCounters, MaybeTriggerStop,
         WatchdogLooks, answerVars
    <3>2. QED
      BY <2>4, <3>1
  <2>6. CASE OwnerStep /\ ~GetBestMove /\ ~Destroy
    <3>1. UNCHANGED <<announced, sent, got>>
      BY <2>6 DEF OwnerStep, StartThread, RunBlockingOrLeave, Wait, Leave, answerVars
    <3>2. QED
      BY <2>4, <3>1
  <2>7. CASE \E w \in Worker : WorkerStep(w)
    <3>1. UNCHANGED <<announced, sent, got>>
      BY <2>7 DEF WorkerStep, Lock, Pick, ExtendRoot, Backup, Loop, answerVars
    <3>2. QED
      BY <2>4, <3>1
  <2>8. CASE Call \/ Stop \/ DeadlinePasses \/ Gone \/ UNCHANGED vars
    <3>1. UNCHANGED <<announced, sent, got>>
      BY <2>8 DEF Call, Stop, DeadlinePasses, Gone, vars, answerVars
    <3>2. QED
      BY <2>4, <3>1
  <2>9. QED
    BY <1>2, <2>1, <2>2, <2>3, <2>5, <2>6, <2>7, <2>8 DEF Next, WatchdogStep, OwnerStep
<1>3. QED
  BY <1>1, <1>2, IInvInvariant, PTL DEF Spec
=============================================================================
