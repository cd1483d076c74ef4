----------------------------- MODULE EngineProofs ----------------------------
(***************************************************************************)
(* For any number of commands: the engine has one search at a time, with   *)
(* the tree and the network it needs, and best moves come in the order of  *)
(* the commands.                                                           *)
(***************************************************************************)
EXTENDS Engine, TLAPS

(***************************************************************************)
(* The inductive invariant.  What is between two searches is told from     *)
(* where the main thread is, and the phases say which searches have been   *)
(* heard of.                                                               *)
(***************************************************************************)
GoIsBounded == main = "goes" => made < MaxGoes

\* The main thread between the search it made and the one in search_.
Handover ==
    /\ main \in {"aborts", "joins", "starts"} => made # 0 /\ phase[made] = "made"
    /\ main = "starts" => search = 0
    /\ main \in {"aborts", "joins", "joinsLast"} => search # 0

NothingIsMissing ==
    search # 0 \/ main \in {"aborts", "joins", "starts"} => tree /\ network

Untouched == \A k \in Search : phase[k] # "made" => k <= made

Started == search # 0 => phase[search] # "made"

Sent == \A i \in DOMAIN out : out[i][1] = "bestmove" => phase[out[i][2]] = "answered"

Latest == \A k \in Search : phase[k] = "answered" /\ search # 0 => k <= search

IInv ==
    /\ TypeOK
    /\ GoIsBounded
    /\ Handover
    /\ NothingIsMissing
    /\ OneSearchAtATime
    /\ Untouched
    /\ Started
    /\ Sent
    /\ Latest
    /\ AnswersInOrder

\* Where RunLoop goes after a line.
LEMMA EffectType ==
    \A l \in Line : Effect(l) \in {"reads", "replies", "leaves", "crashed", "goes"}
  BY DEF Effect, GetNumeric

\* A number appended to best moves that are all lower keeps their order.
LEMMA AppendInOrder ==
    ASSUME TypeOK, AnswersInOrder, NEW k \in Search,
           \A i \in DOMAIN out : out[i][1] = "bestmove" => out[i][2] < k,
           out' = Append(out, BestMove(k))
    PROVE  AnswersInOrder'
<1>1. out \in Seq(Response) /\ BestMove(k) \in Response
  BY DEF TypeOK, Response
<1>2. /\ Len(out') = Len(out) + 1 /\ DOMAIN out' = 1 .. Len(out) + 1 /\ DOMAIN out = 1 .. Len(out)
      /\ Len(out) \in Nat
      /\ \A i \in DOMAIN out : out'[i] = out[i]
      /\ out'[Len(out) + 1] = BestMove(k)
  BY <1>1
<1>3. BestMove(k)[1] = "bestmove" /\ BestMove(k)[2] = k
  BY DEF BestMove
<1> QED
  BY <1>2, <1>3 DEF AnswersInOrder

\* An error appended changes neither the order nor who has answered.
LEMMA AppendError ==
    ASSUME TypeOK, AnswersInOrder, Sent, UNCHANGED phase, out' = Append(out, Error)
    PROVE  AnswersInOrder' /\ Sent'
<1>1. out \in Seq(Response) /\ Error \in Response
  BY DEF TypeOK, Response
<1>2. /\ DOMAIN out' = 1 .. Len(out) + 1 /\ DOMAIN out = 1 .. Len(out)
      /\ Len(out) \in Nat
      /\ \A i \in DOMAIN out : out'[i] = out[i]
      /\ out'[Len(out) + 1] = Error
  BY <1>1
<1>3. Error[1] # "bestmove"
  BY DEF Error
<1> QED
  BY <1>2, <1>3 DEF AnswersInOrder, Sent

LEMMA InitInvariant == Init => IInv
<1> SUFFICES ASSUME Init PROVE IInv
  OBVIOUS
<1>1. out \in Seq(Response)
  BY DEF Init
<1>2. phase \in [Search -> {"made", "searching", "answered", "aborted"}]
  BY DEF Init
<1>3. TypeOK
  <2>1. line \in Line /\ lines \in 0 .. MaxLines /\ made \in 0 .. MaxGoes
    BY EngineAssumption DEF Init, Line
  <2>2. tree \in BOOLEAN /\ network \in BOOLEAN /\ (tree <=> network)
    BY Zenon DEF Init
  <2>3. search \in 0 .. made /\ running \subseteq 1 .. made /\ main = "reads"
    BY DEF Init
  <2> QED
    BY <1>1, <1>2, <2>1, <2>2, <2>3 DEF TypeOK
<1> QED
  BY <1>3 DEF Init, IInv, GoIsBounded, Handover, NothingIsMissing, OneSearchAtATime, Untouched,
     Started, Sent, Latest, AnswersInOrder, Search

\* What all steps but those of the searches and ReplyError leave alone.
LEMMA QuietKeepsOut ==
    ASSUME IInv, UNCHANGED out, \A k \in Search : phase[k] = "answered" => phase'[k] = "answered"
    PROVE  Sent' /\ AnswersInOrder'
<1>1. \A i \in DOMAIN out : out[i] \in Response
  BY DEF IInv, TypeOK
<1>2. \A i \in DOMAIN out : out[i][1] = "bestmove" => out[i][2] \in Search
  BY <1>1 DEF Error, BestMove, Response
<1> QED
  BY <1>2 DEF IInv, Sent, AnswersInOrder

LEMMA StepInvariant == IInv /\ [Next]_vars => IInv'
<1> SUFFICES ASSUME IInv, [Next]_vars PROVE IInv'
  OBVIOUS
<1> USE EngineAssumption DEF Search
<1>1. CASE Read
  <2>1. Sent' /\ AnswersInOrder'
    BY <1>1, QuietKeepsOut DEF Read, searchVars
  <2>2. TypeOK'
    BY <1>1, EffectType DEF Read, searchVars, ownVars, IInv, TypeOK
  <2>3. GoIsBounded'
    BY <1>1 DEF Read, searchVars, IInv, TypeOK, GoIsBounded
  <2>4. Handover'
    BY <1>1, EffectType DEF Read, searchVars, IInv, Handover
  <2>5. NothingIsMissing'
    BY <1>1, EffectType DEF Read, searchVars, ownVars, IInv, NothingIsMissing
  <2> QED
    BY <1>1, <2>1, <2>2, <2>3, <2>4, <2>5
    DEF Read, searchVars, ownVars, IInv, OneSearchAtATime, Untouched, Started, Latest
<1>2. CASE EndOfInput
  <2>1. Sent' /\ AnswersInOrder'
    BY <1>2, QuietKeepsOut DEF EndOfInput, searchVars
  <2> QED
    BY <1>2, <2>1
    DEF EndOfInput, loopVars, searchVars, ownVars, IInv, TypeOK, GoIsBounded, Handover,
        NothingIsMissing, OneSearchAtATime, Untouched, Started, Latest
<1>3. CASE ReplyError
  <2>1. Sent' /\ AnswersInOrder'
    BY <1>3, AppendError DEF ReplyError, searchVars, IInv
  <2>2. out' \in Seq(Response)
    BY <1>3 DEF ReplyError, IInv, TypeOK, Response
  <2> QED
    BY <1>3, <2>1, <2>2
    DEF ReplyError, loopVars, searchVars, ownVars, IInv, TypeOK, GoIsBounded, Handover,
        NothingIsMissing, OneSearchAtATime, Untouched, Started, Latest
<1>4. CASE SetupPosition
  <2>1. Sent' /\ AnswersInOrder'
    BY <1>4, QuietKeepsOut DEF SetupPosition, searchVars
  <2> QED
    BY <1>4, <2>1
    DEF SetupPosition, loopVars, searchVars, IInv, TypeOK, GoIsBounded, Handover,
        NothingIsMissing, OneSearchAtATime, Untouched, Started, Latest
<1>5. CASE MakeSearch
  <2>1. made + 1 \in Search /\ phase[made + 1] = "made"
    BY <1>5 DEF MakeSearch, IInv, TypeOK, GoIsBounded, Untouched
  <2>2. phase' = phase
    BY <1>5, <2>1 DEF MakeSearch, IInv, TypeOK
  <2>3. Sent' /\ AnswersInOrder'
    BY <1>5, <2>2, QuietKeepsOut DEF MakeSearch
  <2> QED
    BY <1>5, <2>1, <2>2, <2>3
    DEF MakeSearch, loopVars, ownVars, IInv, TypeOK, GoIsBounded, Handover,
        NothingIsMissing, OneSearchAtATime, Untouched, Started, Latest
<1>6. CASE AbortSearch
  <2>1. search \in Search /\ \A k \in Search : phase'[k] =
            IF k = search /\ phase[k] = "searching" THEN "aborted" ELSE phase[k]
    BY <1>6 DEF AbortSearch, IInv, TypeOK
  <2>2. Sent' /\ AnswersInOrder'
    BY <1>6, <2>1, QuietKeepsOut DEF AbortSearch
  <2>3. TypeOK'
    BY <1>6, <2>1 DEF AbortSearch, loopVars, ownVars, IInv, TypeOK
  <2>4. Handover'
    BY <1>6, <2>1 DEF AbortSearch, IInv, TypeOK, Handover, Started
  <2> QED
    BY <1>6, <2>1, <2>2, <2>3, <2>4
    DEF AbortSearch, loopVars, ownVars, IInv, TypeOK, GoIsBounded,
        NothingIsMissing, OneSearchAtATime, Untouched, Started, Latest
<1>7. CASE JoinSearch
  <2>1. Sent' /\ AnswersInOrder'
    BY <1>7, QuietKeepsOut DEF JoinSearch
  <2> QED
    BY <1>7, <2>1
    DEF JoinSearch, loopVars, ownVars, IInv, TypeOK, GoIsBounded, Handover,
        NothingIsMissing, OneSearchAtATime, Untouched, Started, Latest
<1>8. CASE StartThreads
  <2>1. made \in Search /\ phase[made] = "made" /\ search = 0 /\ running = {}
    BY <1>8 DEF StartThreads, IInv, TypeOK, Handover, OneSearchAtATime
  <2>2. \A k \in Search : phase'[k] = IF k = made THEN "searching" ELSE phase[k]
    BY <1>8, <2>1 DEF StartThreads, IInv, TypeOK
  <2>3. Sent' /\ AnswersInOrder'
    BY <1>8, <2>1, <2>2, QuietKeepsOut DEF StartThreads
  <2>4. TypeOK'
    BY <1>8, <2>1 DEF StartThreads, loopVars, ownVars, IInv, TypeOK
  <2> QED
    BY <1>8, <2>1, <2>2, <2>3, <2>4
    DEF StartThreads, loopVars, ownVars, IInv, TypeOK, GoIsBounded, Handover,
        NothingIsMissing, OneSearchAtATime, Untouched, Started, Latest
<1>9. CASE DestroyEngine
  <2>1. Sent' /\ AnswersInOrder'
    BY <1>9, QuietKeepsOut DEF DestroyEngine, searchVars
  <2>2. tree' \in BOOLEAN /\ network' \in BOOLEAN /\ (tree' <=> network')
    BY <1>9, Zenon DEF DestroyEngine
  <2>3. TypeOK'
    BY <1>9, <2>2 DEF DestroyEngine, loopVars, searchVars, IInv, TypeOK
  <2>4. running = {} /\ search = 0
    BY <1>9 DEF DestroyEngine, IInv, TypeOK, OneSearchAtATime
  <2> QED
    BY <1>9, <2>1, <2>3, <2>4
    DEF DestroyEngine, searchVars, IInv, GoIsBounded, Handover,
        NothingIsMissing, OneSearchAtATime, Untouched, Started, Latest
<1>10. ASSUME NEW k \in Search, Answer(k) PROVE IInv'
  <2>1. k = search /\ phase[k] = "searching" /\ \A j \in Search :
            phase'[j] = IF j = k THEN "answered" ELSE phase[j]
    BY <1>10 DEF Answer, IInv, TypeOK, OneSearchAtATime
  <2>2. \A i \in DOMAIN out : out[i] \in Response
    BY DEF IInv, TypeOK
  <2>3. \A i \in DOMAIN out : out[i][1] = "bestmove" =>
            out[i][2] \in Search /\ phase[out[i][2]] = "answered"
    BY <2>2 DEF Error, BestMove, Response, IInv, Sent
  <2>4. \A i \in DOMAIN out : out[i][1] = "bestmove" => out[i][2] < k
    BY <2>1, <2>3 DEF IInv, Latest
  <2>5. AnswersInOrder'
    BY <1>10, <2>4, AppendInOrder DEF Answer, IInv
  <2>6. Sent'
    <3>1. /\ DOMAIN out' = 1 .. Len(out) + 1 /\ DOMAIN out = 1 .. Len(out) /\ Len(out) \in Nat
          /\ \A i \in DOMAIN out : out'[i] = out[i]
          /\ out'[Len(out) + 1] = BestMove(k)
      BY <1>10 DEF Answer, IInv, TypeOK
    <3> QED
      BY <2>1, <2>3, <3>1 DEF Sent, BestMove
  <2>7. TypeOK'
    <3>1. out' \in Seq(Response)
      BY <1>10 DEF Answer, IInv, TypeOK, Response
    <3> QED
      BY <1>10, <3>1 DEF Answer, loopVars, ownVars, IInv, TypeOK
  <2>8. Handover'
    BY <1>10, <2>1 DEF Answer, IInv, Handover, TypeOK
  <2> QED
    BY <1>10, <2>1, <2>5, <2>6, <2>7, <2>8
    DEF Answer, loopVars, ownVars, IInv, TypeOK, GoIsBounded,
        NothingIsMissing, OneSearchAtATime, Untouched, Started, Latest
<1>11. ASSUME NEW k \in Search, ThreadsEnd(k) PROVE IInv'
  <2>1. Sent' /\ AnswersInOrder'
    BY <1>11, QuietKeepsOut DEF ThreadsEnd
  <2> QED
    BY <1>11, <2>1
    DEF ThreadsEnd, loopVars, ownVars, IInv, TypeOK, GoIsBounded, Handover,
        NothingIsMissing, OneSearchAtATime, Untouched, Started, Latest
<1>12. CASE UNCHANGED vars
  <2>1. Sent' /\ AnswersInOrder'
    BY <1>12, QuietKeepsOut DEF vars, searchVars
  <2> QED
    BY <1>12, <2>1
    DEF vars, loopVars, searchVars, ownVars, IInv, TypeOK, GoIsBounded, Handover,
        NothingIsMissing, OneSearchAtATime, Untouched, Started, Latest
<1> QED
  BY <1>1, <1>2, <1>3, <1>4, <1>5, <1>6, <1>7, <1>8, <1>9, <1>10, <1>11, <1>12
  DEF Next, MainStep, Over

LEMMA Invariant == Spec => []IInv
  BY InitInvariant, StepInvariant, PTL DEF Spec

\* The loop, the searches and the responses are well formed: no search runs that
\* was not made, and tree and network come and go together.
THEOREM TypeCorrect == Spec => []TypeOK
  BY Invariant, PTL DEF IInv

\* EngineController has one search at a time: threads run for the search that
\* search_ can abort and join, while the tree and the network exist.
THEOREM OneSearchAtATimeHolds == Spec => []OneSearchAtATime
  BY Invariant, PTL DEF IInv

\* UciLoop::SendBestMove is called once for a search at most, and in the order
\* of the go commands.
THEOREM AnswersInOrderHolds == Spec => []AnswersInOrder
  BY Invariant, PTL DEF IInv
=============================================================================
