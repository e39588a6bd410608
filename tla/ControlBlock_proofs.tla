-------------------------- MODULE ControlBlock_proofs --------------------------
(***************************************************************************)
(* The hand-over between the reader and the workers, for any number of     *)
(* messages of any kinds, in both control blocks; and why no message can   *)
(* keep the two threads busy, nor be left when both are at rest.           *)
(***************************************************************************)
EXTENDS ControlBlock, WellFoundedInduction, TLAPS

USE BoundAssumption, KindAssumption

\* A run that was stopped after one state is over; only the training block pops.
RunsEnd ==
  /\ halted => runner = "off"
  /\ ~training => pending = <<>> /\ runner # "popped"
  /\ runner # "popped" <=> held = NoMessage
  /\ is_empty <=> m_buffer = NoMessage
  /\ ~training /\ io.pc = "write" => is_empty
  /\ training => io.player = 0

\* Somebody comes for an input that is in the buffer.
FullIsSeen ==
  ~is_empty => posted > 0 \/ io.pc = "clear" \/ runner = "run" \/ halted

AwakeInv == TypeOK /\ RunsEnd /\ FullIsSeen /\ NoLostWakeup /\ AskingBattleListens

\* The helpers of the specification that only name a condition or a value.
USE DEF Flag, NeedInput, RunComing, NoMessage

-----------------------------------------------------------------------------
\* The invariant holds before a client has sent anything.
LEMMA InitAwake == Init => AwakeInv
  <1> SUFFICES ASSUME Init PROVE AwakeInv
    OBVIOUS
  <1>1. io \in Reader /\ io.pc = "read" /\ io.player = 0
    BY DEF Init, Idle, Reader, Side, Message
  <1>2. TypeOK
    BY <1>1 DEF Init, TypeOK, Side, Phase, Message
  <1>3. RunsEnd /\ FullIsSeen /\ NoLostWakeup /\ AskingBattleListens
    BY <1>1 DEF Init, RunsEnd, FullIsSeen, NoLostWakeup, AskingBattleListens
  <1> QED
    BY <1>2, <1>3 DEF AwakeInv

\* What the reader does with a message leaves the battle and its runs alone.
LEMMA ReaderKeepsTypes ==
  ASSUME TypeOK, Handle \/ RouteStep \/ \E s \in Side : ReadError(s)
  PROVE  TypeOK'
  <1>1. ASSUME NEW k \in Kind, Receive(k)
        PROVE  messages' \in Message /\ messages' \in 0 .. MaxMessages /\ reading' = reading
    BY <1>1 DEF Receive, TypeOK, Message
  <1>2. ASSUME NEW n \in Nat, StartWrite(n) PROVE writes' \in 0 .. MaxWrites
    BY <1>2 DEF StartWrite
  <1>3. ASSUME InitBattle \/ DebugStep \/ DebugContinue PROVE TypeOK'
    <2>1. messages' \in 0 .. MaxMessages /\ reading' = reading
      BY <1>3 DEF InitBattle, DebugStep, DebugContinue, Receive, TypeOK
    <2>2. posted' \in Nat
      <3>1. posted' = posted \/ posted' = posted + 1
        BY <1>3 DEF InitBattle, DebugStep, DebugContinue
      <3> QED
        BY <3>1 DEF TypeOK
    <2>4. stepMode' \in BOOLEAN /\ registered' \in BOOLEAN
      BY <1>3, Zenon DEF InitBattle, DebugStep, DebugContinue, TypeOK, debugVars
    <2>5. breakpoints' = breakpoints
      BY <1>3 DEF InitBattle, DebugStep, DebugContinue, debugVars
    <2>3. UNCHANGED <<training, io, pending, waiting, writes, battleVars, bufferVars, runVars,
                      historyVars>>
      BY <1>3 DEF InitBattle, DebugStep, DebugContinue
    <2> QED
      BY <2>1, <2>2, <2>3, <2>4, <2>5 DEF TypeOK, battleVars, bufferVars, runVars, historyVars
  <1>4. ASSUME DebugBreakpoint PROVE TypeOK'
    BY <1>4 DEF DebugBreakpoint, Receive, TypeOK, battleVars, bufferVars, debugVars, runVars,
       historyVars
  <1>5. ASSUME DebugFullState PROVE TypeOK'
    <2>1. writes' \in 0 .. MaxWrites
      BY <1>5 DEF DebugFullState, StartWrite, TypeOK
    <2> QED
      BY <1>5, <2>1 DEF DebugFullState, Receive, TypeOK, battleVars, bufferVars, debugVars, runVars,
         historyVars
  <1>6. ASSUME QueueAction PROVE TypeOK'
    <2>1. messages' \in Message /\ messages' \in 0 .. MaxMessages
      BY <1>6 DEF QueueAction, Receive, TypeOK, Message
    <2>2. pending' \in Seq(Message) /\ posted' \in Nat /\ queued' \in SUBSET Message
      BY <1>6, <2>1 DEF QueueAction, TypeOK
    <2> QED
      BY <1>6, <2>1, <2>2 DEF QueueAction, Receive, TypeOK, battleVars, bufferVars, debugVars,
         runVars, historyVars
  <1>7. ASSUME NEW k \in Kind, Route(k) PROVE TypeOK'
    <2>1. messages' \in Message /\ messages' \in 0 .. MaxMessages
      BY <1>7 DEF Route, Receive, TypeOK, Message
    <2>2. io' \in Reader /\ io'.msg \in Message
      <3>1. (k = "SYNC_STATE") \in BOOLEAN /\ waiting[0] \in BOOLEAN
            /\ (IF training THEN 0 ELSE current) \in Side
        BY DEF TypeOK, Side
      <3> QED
        BY <1>7, <2>1, <3>1 DEF Route, Reader
    <2> QED
      BY <1>7, <2>1, <2>2 DEF Route, Receive, TypeOK, battleVars, bufferVars, debugVars, runVars,
         historyVars
  <1>8. ASSUME CheckWaiting PROVE TypeOK'
    <2>1. io' \in Reader /\ (io'.pc = "read" \/ io'.msg \in Message)
      <3>1. CASE io' = Idle
        BY <3>1 DEF Idle, Reader, Side
      <3>2. CASE io' = [io EXCEPT !.pc = "write"]
        BY <1>8, <3>2 DEF CheckWaiting, Reader, TypeOK
      <3> QED
        BY <1>8, <3>1, <3>2 DEF CheckWaiting
    <2> QED
      BY <1>8, <2>1 DEF CheckWaiting, TypeOK, battleVars, bufferVars, debugVars, runVars,
         historyVars
  <1>9. ASSUME WriteInput PROVE TypeOK'
    <2>1. io' \in Reader /\ io.msg \in Message /\ io'.msg \in Message
      BY <1>9 DEF WriteInput, Reader, TypeOK
    <2>2. short' \in SUBSET Message
      BY <1>9, <2>1 DEF WriteInput, FillBuffer, TypeOK
    <2> QED
      BY <1>9, <2>1, <2>2 DEF WriteInput, FillBuffer, TypeOK, battleVars, debugVars, runVars,
         historyVars
  <1>10. ASSUME ClearWaiting PROVE TypeOK'
    <2>1. io' \in Reader /\ io'.pc = "read"
      BY <1>10 DEF ClearWaiting, Idle, Reader, Side
    <2>2. io.player \in Side
      BY DEF TypeOK, Reader
    <2>3. waiting' \in [Side -> BOOLEAN] /\ posted' \in Nat
      BY <1>10, <2>2 DEF ClearWaiting, TypeOK
    <2> QED
      BY <1>10, <2>1, <2>3 DEF ClearWaiting, TypeOK, battleVars, bufferVars, debugVars, runVars,
         historyVars
  <1>11. ASSUME NEW s \in Side, ReadError(s) PROVE TypeOK'
    BY <1>11 DEF ReadError, TypeOK, battleVars, bufferVars, debugVars, runVars, historyVars
  <1> QED
    BY <1>3, <1>4, <1>5, <1>6, <1>7, <1>8, <1>9, <1>10, <1>11 DEF Handle, RouteStep

\* What a worker does leaves the reader alone.
LEMMA WorkersKeepTypes ==
  ASSUME TypeOK, RunsEnd, RunStep \/ WriteDone
  PROVE  TypeOK'
  <1>1. ASSUME WriteDone \/ StartRun PROVE TypeOK'
    <2>1. writes' \in 0 .. MaxWrites /\ posted' \in Nat
      BY <1>1 DEF WriteDone, StartRun, TypeOK
    <2>2. runner' \in {"off", "run", "wait", "popped"} /\ single' \in BOOLEAN
          /\ halted' \in BOOLEAN /\ held' = held
      BY <1>1 DEF WriteDone, StartRun, TypeOK, SingleShot, runVars, historyVars
    <2>3. UNCHANGED <<training, registered, pending, waiting, battleVars, bufferVars, debugVars,
                      readerVars, queued, consumed>>
      BY <1>1 DEF WriteDone, StartRun, historyVars
    <2> QED
      BY <2>1, <2>2, <2>3 DEF TypeOK, battleVars, bufferVars, debugVars, readerVars
  <1>2. ASSUME AskForInput PROVE TypeOK'
    BY <1>2 DEF AskForInput, TypeOK, battleVars, bufferVars, debugVars, readerVars, historyVars
  <1>3. ASSUME WaitForInput PROVE TypeOK'
    <2>1. Flag(current) \in Side /\ 0 \in Side
      BY DEF TypeOK, Side
    <2>2. waiting' \in [Side -> BOOLEAN]
      BY <1>3, <2>1 DEF WaitForInput, TypeOK
    <2>3. held' \in Message \cup {NoMessage} /\ pending' \in Seq(Message)
          /\ runner' \in {"off", "run", "wait", "popped"}
      <3>1. CASE training /\ pending # <<>> /\ is_empty
        <4>1. Head(pending) \in Message /\ Tail(pending) \in Seq(Message)
          BY <3>1 DEF TypeOK
        <4> QED
          BY <1>3, <3>1, <4>1 DEF WaitForInput
      <3>2. CASE ~(training /\ pending # <<>> /\ is_empty)
        <4>1. held' = held /\ pending' = pending /\ runner' = "off"
          BY <1>3, <3>2 DEF WaitForInput
        <4> QED
          BY <4>1 DEF TypeOK
      <3> QED
        BY <3>1, <3>2
    <2> QED
      BY <1>3, <2>2, <2>3 DEF WaitForInput, TypeOK, battleVars, bufferVars, debugVars, readerVars,
         historyVars
  <1>4. ASSUME Dispatch PROVE TypeOK'
    <2>1. m_buffer' = held /\ is_empty' = FALSE /\ held' = NoMessage
          /\ posted' = posted + 1 /\ runner' = "off"
      BY <1>4 DEF Dispatch, FillBuffer
    <2>2. UNCHANGED <<training, registered, pending, waiting, writes, battleVars, debugVars, single,
                      readerVars, historyVars>>
      BY <1>4 DEF Dispatch
    <2>3. m_buffer' \in Message \cup {NoMessage} /\ held' \in Message \cup {NoMessage}
      BY <2>1 DEF TypeOK
    <2>4. posted' \in Nat
      BY <2>1 DEF TypeOK
    <2>5. is_empty' \in BOOLEAN
      BY <2>1, Zenon
    <2>6. runner' \in {"off", "run", "wait", "popped"}
      BY <2>1
    <2>7. short' \in SUBSET Message
      <3>1. held \in Message
        BY <1>4 DEF Dispatch, RunsEnd, TypeOK
      <3> QED
        BY <1>4, <3>1 DEF Dispatch, FillBuffer, TypeOK
    <2> QED
      BY <2>7, <2>2, <2>3, <2>4, <2>5, <2>6 DEF TypeOK, battleVars, debugVars, readerVars, historyVars
  <1>5. ASSUME NextIteration PROVE runner' \in {"off", "run", "wait", "popped"} /\ halted' \in BOOLEAN
    BY <1>5 DEF NextIteration, TypeOK
  <1>6. ASSUME Undecodable PROVE TypeOK'
    <2>1. writes' \in 0 .. MaxWrites
      BY <1>6 DEF Undecodable, StartWrite, TypeOK
    <2>2. runner' \in {"off", "run", "wait", "popped"} /\ halted' \in BOOLEAN
      BY <1>5, <1>6 DEF Undecodable
    <2> QED
      BY <1>6, <2>1, <2>2 DEF Undecodable, TypeOK, battleVars, bufferVars, debugVars, readerVars
  <1>7. ASSUME Decode PROVE TypeOK'
    <2>1. writes' \in 0 .. MaxWrites
      BY <1>7 DEF Decode, StartWrite, TypeOK
    <2>2. runner' \in {"off", "run", "wait", "popped"} /\ halted' \in BOOLEAN
      BY <1>5, <1>7 DEF Decode
    <2>3. phase' \in Phase /\ current' \in Side /\ collected' \in SUBSET Side
      BY <1>7 DEF Decode, TypeOK, battleVars, Phase, Side
    <2>4. m_buffer' = NoMessage /\ is_empty' = TRUE /\ m_buffer \in Message \cup {NoMessage}
      BY <1>7 DEF Decode, TypeOK
    <2>5. UNCHANGED <<training, registered, pending, waiting, posted, short, debugVars, single,
                      held, readerVars, queued>>
      BY <1>7 DEF Decode
    <2>6. consumed' \in Seq(Message)
      <3>1. m_buffer \in Message /\ consumed \in Seq(Message)
        BY <1>7, <2>4 DEF Decode, RunsEnd, TypeOK
      <3>2. consumed' = Append(consumed, m_buffer)
        BY <1>7 DEF Decode
      <3> QED
        BY <3>1, <3>2
    <2> QED
      BY <2>1, <2>2, <2>3, <2>4, <2>5, <2>6 DEF TypeOK, debugVars, readerVars
  <1>8. ASSUME Advance PROVE TypeOK'
    <2>1. phase' \in Phase /\ current' \in Side /\ collected' \in SUBSET Side
      BY <1>8 DEF Advance, Phase, Side
    <2>2. runner' \in {"off", "run", "wait", "popped"} /\ halted' \in BOOLEAN
      BY <1>5, <1>8 DEF Advance
    <2> QED
      BY <1>8, <2>1, <2>2 DEF Advance, TypeOK, bufferVars, debugVars, readerVars
  <1> QED
    BY <1>1, <1>2, <1>3, <1>4, <1>6, <1>7, <1>8 DEF RunStep

-----------------------------------------------------------------------------
\* A message that is handled before it comes to route_and_run may add a run or an
\* input to the queue: the first input of an empty queue adds the run that takes it.
LEMMA HandlingKeepsAwake ==
  ASSUME AwakeInv, Handle
  PROVE  AwakeInv'
  <1> USE DEF AwakeInv
  <1>1. TypeOK'
    BY ReaderKeepsTypes
  <1>2. ASSUME InitBattle \/ DebugStep \/ DebugContinue \/ DebugBreakpoint \/ DebugFullState
        PROVE  RunsEnd' /\ FullIsSeen' /\ NoLostWakeup' /\ AskingBattleListens'
    <2>1. UNCHANGED <<training, io, pending, waiting, battleVars, bufferVars, runVars, historyVars>>
      BY <1>2 DEF InitBattle, DebugStep, DebugContinue, DebugBreakpoint, DebugFullState
    <2>2. posted' = posted + 1 \/ (posted' = posted /\ registered' = registered)
      BY <1>2 DEF InitBattle, DebugStep, DebugContinue, DebugBreakpoint, DebugFullState
    <2>3. posted \in Nat
      BY DEF TypeOK
    <2> QED
      BY <2>1, <2>2, <2>3 DEF RunsEnd, FullIsSeen, NoLostWakeup, AskingBattleListens, battleVars,
         bufferVars, runVars, historyVars
  <1>3. ASSUME QueueAction
        PROVE  RunsEnd' /\ FullIsSeen' /\ NoLostWakeup' /\ AskingBattleListens'
    <2>1. UNCHANGED <<training, registered, io, waiting, battleVars, bufferVars, runVars, halted>>
          /\ training
      BY <1>3 DEF QueueAction
    <2>2. posted \in Nat /\ pending \in Seq(Message)
      BY DEF TypeOK
    <2>3. waiting[0] /\ pending = <<>> => posted' = posted + 1
      <3>1. messages' \in Message
        BY <1>3 DEF QueueAction, Receive, TypeOK, Message
      <3>2. pending = <<>> => Len(pending') = 1
        BY <1>3, <2>2, <3>1 DEF QueueAction
      <3> QED
        BY <1>3, <3>2 DEF QueueAction
    <2>4. posted' \in {posted, posted + 1}
      BY <1>3 DEF QueueAction
    <2> QED
      BY <2>1, <2>2, <2>3, <2>4 DEF RunsEnd, FullIsSeen, NoLostWakeup, AskingBattleListens,
         battleVars, bufferVars, runVars
  <1>4. ASSUME NEW k \in Kind, Route(k)
        PROVE  RunsEnd' /\ FullIsSeen' /\ NoLostWakeup' /\ AskingBattleListens'
    <2>1. UNCHANGED <<training, registered, pending, waiting, posted, battleVars, bufferVars,
                      runVars, historyVars>>
      BY <1>4 DEF Route
    <2>2. io.pc = "read" /\ io'.pc = "check" /\ (training => io'.player = 0)
      BY <1>4 DEF Route, Receive
    <2> QED
      BY <2>1, <2>2 DEF RunsEnd, FullIsSeen, NoLostWakeup, AskingBattleListens, battleVars,
         bufferVars, runVars, historyVars
  <1> QED
    BY <1>1, <1>2, <1>3, <1>4 DEF Handle

\* The reader checks that the battle waits, fills the buffer, clears the flag and
\* posts the run: between the last two a battle that asks has a run coming.
LEMMA RoutingKeepsAwake ==
  ASSUME AwakeInv, RouteStep
  PROVE  AwakeInv'
  <1> USE DEF AwakeInv
  <1>1. TypeOK'
    BY ReaderKeepsTypes
  <1>2. ASSUME CheckWaiting
        PROVE  RunsEnd' /\ FullIsSeen' /\ NoLostWakeup' /\ AskingBattleListens'
    <2>1. UNCHANGED <<training, registered, pending, waiting, posted, battleVars, bufferVars,
                      runVars, historyVars>> /\ io.pc = "check"
      BY <1>2 DEF CheckWaiting
    <2>2. /\ io'.pc = "read" \/ (io'.pc = "write" /\ is_empty)
          /\ training => io'.player = 0
      <3>1. CASE io' = Idle
        BY <3>1 DEF Idle
      <3>2. CASE io' = [io EXCEPT !.pc = "write"] /\ is_empty
        <4>1. io \in Reader
          BY DEF TypeOK
        <4>2. io'.pc = "write" /\ io'.player = io.player
          BY <3>2, <4>1 DEF Reader
        <4> QED
          BY <3>2, <4>2 DEF RunsEnd
      <3>3. io' = Idle \/ (io' = [io EXCEPT !.pc = "write"] /\ is_empty)
        <4>1. CASE is_empty
          BY <1>2, <4>1, Zenon DEF CheckWaiting
        <4>2. CASE ~is_empty
          BY <1>2, <4>2, Zenon DEF CheckWaiting
        <4> QED
          BY <4>1, <4>2
      <3> QED
        BY <3>1, <3>2, <3>3
    <2> QED
      BY <2>1, <2>2 DEF RunsEnd, FullIsSeen, NoLostWakeup, AskingBattleListens, battleVars,
         bufferVars, runVars, historyVars
  <1>3. ASSUME WriteInput
        PROVE  RunsEnd' /\ FullIsSeen' /\ NoLostWakeup' /\ AskingBattleListens'
    <2>1. UNCHANGED <<training, registered, pending, waiting, posted, battleVars, runVars,
                      historyVars>>
      BY <1>3 DEF WriteInput
    <2>2. m_buffer' # NoMessage /\ is_empty' = FALSE
      BY <1>3 DEF WriteInput, FillBuffer, TypeOK, Message
    <2>3. io'.pc = "clear" /\ io.pc = "write" /\ io'.player = io.player
      BY <1>3 DEF WriteInput, TypeOK, Reader
    <2> QED
      BY <2>1, <2>2, <2>3 DEF RunsEnd, FullIsSeen, NoLostWakeup, AskingBattleListens, battleVars,
         runVars, historyVars
  <1>4. ASSUME ClearWaiting
        PROVE  RunsEnd' /\ FullIsSeen' /\ NoLostWakeup' /\ AskingBattleListens'
    <2>1. UNCHANGED <<training, registered, pending, battleVars, bufferVars, runVars, historyVars>>
          /\ posted' = posted + 1
      BY <1>4 DEF ClearWaiting
    <2>2. posted' > 0
      BY <2>1 DEF TypeOK
    <2>3. io'.pc = "read" /\ io'.player = 0
      BY <1>4 DEF ClearWaiting, Idle
    <2> QED
      BY <2>1, <2>2, <2>3 DEF RunsEnd, FullIsSeen, NoLostWakeup, AskingBattleListens, battleVars,
         bufferVars, runVars, historyVars
  <1> QED
    BY <1>1, <1>2, <1>3, <1>4 DEF RouteStep

\* The workers: a run ends with the flag set when no input is there, with a run
\* posted when it took one from the queue, or stopped by the debugger.
LEMMA RunningKeepsAwake ==
  ASSUME AwakeInv, RunStep \/ WriteDone
  PROVE  AwakeInv'
  <1> USE DEF AwakeInv
  <1>1. TypeOK'
    BY WorkersKeepTypes
  <1>2. ASSUME StartRun \/ AskForInput
        PROVE  RunsEnd' /\ FullIsSeen' /\ NoLostWakeup' /\ AskingBattleListens'
    <2>1. UNCHANGED <<training, registered, pending, waiting, battleVars, bufferVars, held, io>>
      BY <1>2 DEF StartRun, AskForInput, readerVars
    <2>2. (runner = "off" /\ runner' = "run" /\ halted' = FALSE)
          \/ (is_empty /\ runner = "run" /\ runner' = "wait" /\ halted' = halted)
      BY <1>2 DEF StartRun, AskForInput, historyVars
    <2> QED
      BY <2>1, <2>2 DEF RunsEnd, FullIsSeen, NoLostWakeup, AskingBattleListens, battleVars,
         bufferVars
  <1>3. ASSUME WaitForInput
        PROVE  RunsEnd' /\ FullIsSeen' /\ NoLostWakeup' /\ AskingBattleListens'
    <2>1. UNCHANGED <<training, registered, posted, battleVars, bufferVars, io, halted>>
          /\ runner = "wait"
      BY <1>3 DEF WaitForInput, readerVars, historyVars
    <2>2. CASE training /\ pending # <<>> /\ is_empty
      <3>1. runner' = "popped" /\ held' # NoMessage
        <4>1. Head(pending) \in Message
          BY <2>2 DEF TypeOK
        <4> QED
          BY <1>3, <2>2, <4>1 DEF WaitForInput, Message
      <3> QED
        BY <2>1, <2>2, <3>1 DEF RunsEnd, FullIsSeen, NoLostWakeup, AskingBattleListens, battleVars,
           bufferVars
    <2>3. CASE ~(training /\ pending # <<>> /\ is_empty)
      <3>1. runner' = "off" /\ held' = held /\ pending' = pending
            /\ waiting' = [waiting EXCEPT ![Flag(current)] = TRUE]
        BY <1>3, <2>3 DEF WaitForInput
      <3>2. waiting'[Flag(current)]
        BY <3>1 DEF TypeOK, Side
      <3>3. AskingBattleListens'
        BY <2>1, <3>2 DEF AskingBattleListens, battleVars
      <3>4. RunsEnd' /\ FullIsSeen'
        BY <2>1, <3>1 DEF RunsEnd, FullIsSeen, bufferVars
      <3>5. NoLostWakeup'
        <4>1. pending = <<>> \/ ~is_empty
          BY <2>3 DEF RunsEnd
        <4> QED
          BY <2>1, <3>1, <4>1 DEF NoLostWakeup, FullIsSeen, RunsEnd
      <3> QED
        BY <3>3, <3>4, <3>5
    <2> QED
      BY <2>2, <2>3
  <1>4. ASSUME Dispatch
        PROVE  RunsEnd' /\ FullIsSeen' /\ NoLostWakeup' /\ AskingBattleListens'
    <2>1. UNCHANGED <<training, registered, pending, waiting, io, halted>> /\ runner = "popped"
          /\ runner' = "off" /\ held' = NoMessage /\ m_buffer' = held /\ is_empty' = FALSE
          /\ posted' = posted + 1
      BY <1>4 DEF Dispatch, FillBuffer, readerVars, historyVars
    <2>2. posted' > 0
      BY <2>1 DEF TypeOK
    <2> QED
      BY <2>1, <2>2 DEF RunsEnd, FullIsSeen, NoLostWakeup, AskingBattleListens
  <1>5. ASSUME Undecodable \/ Decode \/ Advance
        PROVE  RunsEnd' /\ FullIsSeen' /\ NoLostWakeup' /\ AskingBattleListens'
    <2>1. UNCHANGED <<training, registered, pending, waiting, posted, io, held>> /\ runner = "run"
      BY <1>5 DEF Undecodable, Decode, Advance, readerVars
    <2>2. (m_buffer' = m_buffer /\ is_empty' = is_empty)
          \/ (m_buffer' = NoMessage /\ is_empty' = TRUE)
      BY <1>5 DEF Undecodable, Decode, Advance, bufferVars
    <2>3. runner' = "run" \/ (runner' = "off" /\ halted')
      <3>1. single \in BOOLEAN
        BY DEF TypeOK
      <3> QED
        BY <1>5, <3>1 DEF Undecodable, Decode, Advance, NextIteration
    <2>4. halted' => runner' = "off"
      BY <1>5 DEF Undecodable, Decode, Advance, NextIteration
    <2>5. RunsEnd'
      BY <2>1, <2>2, <2>3, <2>4 DEF RunsEnd
    <2>6. FullIsSeen' /\ NoLostWakeup' /\ AskingBattleListens'
      BY <2>3 DEF FullIsSeen, NoLostWakeup, AskingBattleListens
    <2> QED
      BY <2>5, <2>6
  <1>6. ASSUME WriteDone
        PROVE  RunsEnd' /\ FullIsSeen' /\ NoLostWakeup' /\ AskingBattleListens'
    <2>1. UNCHANGED <<training, registered, pending, waiting, battleVars, bufferVars, runVars, io,
                      halted>>
      BY <1>6 DEF WriteDone, readerVars, historyVars
    <2>2. posted' = posted \/ posted' > 0
      BY <1>6 DEF WriteDone, TypeOK
    <2> QED
      BY <2>1, <2>2 DEF RunsEnd, FullIsSeen, NoLostWakeup, AskingBattleListens, battleVars,
         bufferVars, runVars
  <1> QED
    BY <1>1, <1>2, <1>3, <1>4, <1>5, <1>6 DEF RunStep

\* A read loop that ends takes nothing with it.
LEMMA ErrorKeepsAwake ==
  ASSUME AwakeInv, NEW s \in Side, ReadError(s)
  PROVE  AwakeInv'
  <1>1. TypeOK'
    BY ReaderKeepsTypes DEF AwakeInv
  <1> QED
    BY <1>1 DEF AwakeInv, ReadError, RunsEnd, FullIsSeen, NoLostWakeup, AskingBattleListens,
       battleVars, bufferVars, runVars, historyVars

\* A step that changes nothing keeps it.
LEMMA StutterKeepsAwake ==
  ASSUME AwakeInv, UNCHANGED vars
  PROVE  AwakeInv'
  <1>1. TypeOK'
    BY DEF AwakeInv, TypeOK, vars, battleVars, bufferVars, debugVars, runVars, readerVars,
       historyVars
  <1> QED
    BY <1>1 DEF AwakeInv, RunsEnd, FullIsSeen, NoLostWakeup, AskingBattleListens, vars, battleVars,
       bufferVars, runVars, readerVars, historyVars

\* In every behaviour: no lost wake-up, no battle that asks and does not listen.
THEOREM Invariance == Spec => []AwakeInv
  <1>1. AwakeInv /\ [Next]_vars => AwakeInv'
    BY HandlingKeepsAwake, RoutingKeepsAwake, RunningKeepsAwake, ErrorKeepsAwake,
       StutterKeepsAwake DEF Next
  <1> QED
    BY InitAwake, <1>1, PTL DEF Spec

\* The values the variables take, for every bound.
THEOREM TypeCorrect == Spec => []TypeOK
  <1>1. AwakeInv => TypeOK
    BY DEF AwakeInv
  <1> QED
    BY Invariance, <1>1, PTL

\* route_and_run's wake for the first input and wait_for_input's look into the
\* queue never miss each other.
THEOREM NoWakeupIsLost == Spec => []NoLostWakeup
  <1>1. AwakeInv => NoLostWakeup
    BY DEF AwakeInv
  <1> QED
    BY Invariance, <1>1, PTL

\* A battle that asks and will not run again has its flag set.
THEOREM AskingListens == Spec => []AskingBattleListens
  <1>1. AwakeInv => AskingBattleListens
    BY DEF AwakeInv
  <1> QED
    BY Invariance, <1>1, PTL

\* The battle block never overwrites an input that was not decoded.
THEOREM NothingOverwritten == Spec => InputNotOverwritten
  <1>1. AwakeInv /\ [Next]_vars
        => [~training /\ ~is_empty => m_buffer' \in {m_buffer, NoMessage}]_vars
    <2> SUFFICES ASSUME AwakeInv, [Next]_vars, ~training, ~is_empty
                 PROVE  m_buffer' \in {m_buffer, NoMessage}
      OBVIOUS
    <2>1. runner # "popped" /\ io.pc # "write"
      BY DEF AwakeInv, RunsEnd
    <2>2. ASSUME Handle PROVE m_buffer' = m_buffer
      BY <2>2 DEF Handle, InitBattle, DebugStep, DebugContinue, DebugBreakpoint, DebugFullState,
         QueueAction, Route, bufferVars
    <2>3. ASSUME RouteStep PROVE m_buffer' = m_buffer
      BY <2>1, <2>3 DEF RouteStep, CheckWaiting, WriteInput, ClearWaiting, bufferVars
    <2>4. ASSUME RunStep \/ WriteDone PROVE m_buffer' \in {m_buffer, NoMessage}
      BY <2>1, <2>4 DEF RunStep, StartRun, AskForInput, WaitForInput, Dispatch, Undecodable, Decode,
         Advance, WriteDone, bufferVars
    <2>5. ASSUME NEW s \in Side, ReadError(s) PROVE m_buffer' = m_buffer
      BY <2>5 DEF ReadError, bufferVars
    <2>6. ASSUME UNCHANGED vars PROVE m_buffer' = m_buffer
      BY <2>6 DEF vars, bufferVars
    <2> QED
      BY <2>2, <2>3, <2>4, <2>5, <2>6 DEF Next
  <1> QED
    BY Invariance, <1>1, PTL DEF Spec, InputNotOverwritten

-----------------------------------------------------------------------------
(***************************************************************************)
(* The way of a queued input: the queue, the worker's hand, the buffer and *)
(* what was decoded.  Whoever is ahead on it was queued earlier.           *)
(***************************************************************************)
OrderInv ==
  /\ \A q \in queued : q <= messages
  /\ m_buffer <= messages
  /\ io.pc # "read" => io.msg <= messages /\ io.msg \notin queued
  /\ held # NoMessage => held \in queued
  /\ m_buffer \in queued => held = NoMessage
  /\ \A i \in DOMAIN pending :
       /\ pending[i] \in queued
       /\ \A j \in DOMAIN pending : i < j => pending[i] < pending[j]
       /\ held # NoMessage => held < pending[i]
       /\ m_buffer \in queued => m_buffer < pending[i]
  /\ \A c \in DOMAIN consumed :
       /\ consumed[c] <= messages
       /\ consumed[c] \in queued =>
            /\ m_buffer \in queued => consumed[c] < m_buffer
            /\ held # NoMessage => consumed[c] < held
            /\ \A i \in DOMAIN pending : consumed[c] < pending[i]

Pended(q) == \E i \in DOMAIN pending : pending[i] = q
Eaten(q) == \E c \in DOMAIN consumed : consumed[c] = q

\* Nothing is lost before an input of another kind is decoded or lies in the
\* buffer with nobody about to overwrite it.
KeptInv ==
  \/ \A q \in queued : Pended(q) \/ Eaten(q) \/ q = m_buffer \/ q = held
  \/ \E c \in DOMAIN consumed : consumed[c] \notin queued
  \/ m_buffer # NoMessage /\ m_buffer \notin queued /\ held = NoMessage

IntactInv == OrderInv /\ KeptInv /\ QueuedInOrder

LEMMA InitIntact == Init => IntactInv
  <1> SUFFICES ASSUME Init PROVE IntactInv
    OBVIOUS
  <1>1. /\ queued = {} /\ pending = <<>> /\ consumed = <<>> /\ held = 0 /\ m_buffer = 0
        /\ messages = 0 /\ io.pc = "read"
    BY DEF Init, Idle
  <1> QED
    BY <1>1 DEF IntactInv, OrderInv, KeptInv, QueuedInOrder

\* The steps that move no input: of these only a message routed past the queue
\* gives the reader something to carry.
Elsewhere ==
  /\ UNCHANGED <<queued, pending, held, m_buffer, consumed>>
  /\ messages' \in {messages, messages + 1}
  /\ \/ io'.pc = "read"
     \/ io'.msg = messages + 1 /\ messages' = messages + 1
     \/ io.pc # "read" /\ io'.msg = io.msg
     \/ io' = io

LEMMA ElsewhereKeepsIntact ==
  ASSUME TypeOK, IntactInv, Elsewhere
  PROVE  IntactInv'
  <1>1. messages \in Nat /\ messages' \in Nat /\ messages <= messages'
    BY DEF Elsewhere, TypeOK
  <1>2. /\ queued \subseteq Nat /\ m_buffer \in Nat
        /\ \A c \in DOMAIN consumed : consumed[c] \in Nat
    BY DEF TypeOK, Message
  <1>3. \A q \in queued' : q <= messages'
    BY <1>1, <1>2 DEF Elsewhere, IntactInv, OrderInv
  <1>4. m_buffer' <= messages' /\ \A c \in DOMAIN consumed' : consumed'[c] <= messages'
    BY <1>1, <1>2 DEF Elsewhere, IntactInv, OrderInv
  <1>5. io'.pc # "read" => io'.msg <= messages' /\ io'.msg \notin queued'
    <2>1. messages + 1 \notin queued
      BY <1>1, <1>2 DEF IntactInv, OrderInv
    <2>2. io.pc # "read" => io.msg \in Nat
      BY DEF TypeOK, Message
    <2> QED
      BY <1>1, <2>1, <2>2 DEF Elsewhere, IntactInv, OrderInv
  <1>6. OrderInv'
    BY <1>3, <1>4, <1>5 DEF Elsewhere, IntactInv, OrderInv
  <1>7. KeptInv' /\ QueuedInOrder'
    BY DEF Elsewhere, IntactInv, KeptInv, Pended, Eaten, QueuedInOrder
  <1> QED
    BY <1>6, <1>7 DEF IntactInv

\* The new input is the last of all.
LEMMA QueueKeepsIntact ==
  ASSUME TypeOK, IntactInv, QueueAction
  PROVE  IntactInv'
  <1> DEFINE n == messages + 1
  <1>1. /\ io.pc = "read" /\ messages' = n /\ n \in Message /\ messages \in Nat
        /\ pending' = Append(pending, n) /\ queued' = queued \cup {n}
        /\ UNCHANGED <<io, held, m_buffer, consumed>>
    BY DEF QueueAction, Receive, TypeOK, Message, runVars, bufferVars
  <1>2. /\ pending \in Seq(Message) /\ consumed \in Seq(Message)
        /\ queued \subseteq Nat /\ m_buffer \in Nat /\ held \in Nat
        /\ \A i \in DOMAIN pending : pending[i] \in Nat
        /\ \A c \in DOMAIN consumed : consumed[c] \in Nat
    BY DEF TypeOK, Message
  <1>3. /\ DOMAIN pending = 1 .. Len(pending) /\ Len(pending) \in Nat
        /\ DOMAIN pending' = 1 .. Len(pending) + 1
        /\ \A i \in DOMAIN pending : pending'[i] = pending[i]
        /\ pending'[Len(pending) + 1] = n
    BY <1>1, <1>2
  <1> HIDE DEF n
  <1>4. /\ n \notin queued /\ m_buffer < n /\ held < n /\ n \in Nat
        /\ \A q \in queued : q < n
        /\ \A c \in DOMAIN consumed : consumed[c] < n
        /\ \A i \in DOMAIN pending : pending[i] < n
    <2>1. messages < n /\ n \in Nat
      BY <1>1 DEF n
    <2> QED
      BY <1>1, <1>2, <2>1 DEF IntactInv, OrderInv
  <1>5. ASSUME NEW i \in DOMAIN pending'
        PROVE  (i \in DOMAIN pending /\ pending'[i] = pending[i])
               \/ (pending'[i] = n /\ \A j \in DOMAIN pending' : ~(i < j))
    BY <1>3
  <1>6. \A i \in DOMAIN pending' :
          /\ pending'[i] \in queued'
          /\ \A j \in DOMAIN pending' : i < j => pending'[i] < pending'[j]
          /\ held' # NoMessage => held' < pending'[i]
          /\ m_buffer' \in queued' => m_buffer' < pending'[i]
    BY <1>1, <1>4, <1>5 DEF IntactInv, OrderInv
  <1>7. \A c \in DOMAIN consumed' :
          /\ consumed'[c] <= messages'
          /\ consumed'[c] \in queued' =>
               /\ m_buffer' \in queued' => consumed'[c] < m_buffer'
               /\ held' # NoMessage => consumed'[c] < held'
               /\ \A i \in DOMAIN pending' : consumed'[c] < pending'[i]
    BY <1>1, <1>2, <1>4, <1>5 DEF IntactInv, OrderInv
  <1>8. /\ \A q \in queued' : q <= messages'
        /\ m_buffer' <= messages'
        /\ io'.pc # "read" => io'.msg <= messages' /\ io'.msg \notin queued'
        /\ held' # NoMessage => held' \in queued'
        /\ m_buffer' \in queued' => held' = NoMessage
    BY <1>1, <1>2, <1>4 DEF IntactInv, OrderInv
  <1>9. OrderInv'
    BY <1>6, <1>7, <1>8 DEF OrderInv
  <1>10. \A q \in queued' : q \in queued \/ Pended(q)'
    BY <1>1, <1>3 DEF Pended
  <1>11. \A q : (Pended(q) => Pended(q)') /\ (Eaten(q) => Eaten(q)')
    BY <1>1, <1>3 DEF Pended, Eaten
  <1>12. KeptInv'
    BY <1>1, <1>4, <1>10, <1>11 DEF IntactInv, KeptInv
  <1>13. QueuedInOrder'
    BY <1>1, <1>4 DEF IntactInv, QueuedInOrder
  <1> QED
    BY <1>9, <1>12, <1>13 DEF IntactInv

\* An input of another kind takes the buffer.
LEMMA WriteKeepsIntact ==
  ASSUME TypeOK, IntactInv, WriteInput
  PROVE  IntactInv'
  <1>1. /\ m_buffer' = io.msg /\ io.msg \in Message /\ io.pc = "write"
        /\ io'.pc = "clear" /\ io'.msg = io.msg
        /\ UNCHANGED <<messages, pending, held, queued, consumed>>
    BY DEF WriteInput, FillBuffer, TypeOK, Reader, runVars, historyVars
  <1>2. m_buffer' \notin queued' /\ m_buffer' # NoMessage /\ m_buffer' <= messages'
    BY <1>1 DEF IntactInv, OrderInv, Message
  <1>3. OrderInv'
    BY <1>1, <1>2 DEF IntactInv, OrderInv
  <1>4. KeptInv'
    <2>1. CASE m_buffer \in queued
      <3>1. held' = NoMessage
        BY <1>1, <2>1 DEF IntactInv, OrderInv
      <3> QED
        BY <1>2, <3>1 DEF KeptInv
    <2>2. CASE m_buffer \notin queued
      BY <1>1, <1>2, <2>2 DEF IntactInv, KeptInv, Pended, Eaten
    <2> QED
      BY <2>1, <2>2
  <1>5. QueuedInOrder'
    BY <1>1 DEF IntactInv, QueuedInOrder
  <1> QED
    BY <1>3, <1>4, <1>5 DEF IntactInv

\* The worker takes the head of the queue while the buffer is empty.
LEMMA PopKeepsIntact ==
  ASSUME TypeOK, RunsEnd, IntactInv, WaitForInput, pending # <<>>, training, is_empty
  PROVE  IntactInv'
  <1>1. /\ held' = Head(pending) /\ pending' = Tail(pending)
        /\ UNCHANGED <<messages, io, m_buffer, queued, consumed>>
        /\ held = NoMessage /\ m_buffer = NoMessage
    BY DEF WaitForInput, RunsEnd, readerVars, bufferVars, historyVars
  <1>2. pending \in Seq(Message) /\ NoMessage \notin queued
    BY DEF TypeOK, Message
  <1>3. /\ 1 \in DOMAIN pending /\ held' = pending[1]
        /\ \A i \in DOMAIN pending' : i + 1 \in DOMAIN pending /\ pending'[i] = pending[i + 1]
        /\ \A i \in DOMAIN pending : i = 1 \/ (i - 1 \in DOMAIN pending' /\ pending'[i - 1] = pending[i])
        /\ \A i \in DOMAIN pending' : i \in Nat /\ 1 < i + 1
        /\ \A i, j \in DOMAIN pending' : i < j => i + 1 < j + 1
    BY <1>1, <1>2
  <1>4. \A i \in DOMAIN pending' :
          /\ pending'[i] \in queued'
          /\ \A j \in DOMAIN pending' : i < j => pending'[i] < pending'[j]
          /\ held' < pending'[i]
    BY <1>1, <1>3 DEF IntactInv, OrderInv
  <1>5. \A c \in DOMAIN consumed' :
          /\ consumed'[c] <= messages'
          /\ consumed'[c] \in queued' =>
               /\ consumed'[c] < held'
               /\ \A i \in DOMAIN pending' : consumed'[c] < pending'[i]
    BY <1>1, <1>3 DEF IntactInv, OrderInv
  <1>6. held' \in queued' /\ m_buffer' \notin queued'
    BY <1>1, <1>2, <1>3 DEF IntactInv, OrderInv
  <1>7. OrderInv'
    BY <1>1, <1>4, <1>5, <1>6 DEF IntactInv, OrderInv
  <1>8. \A q : Pended(q) => Pended(q)' \/ q = held'
    BY <1>3 DEF Pended
  <1>9. \A q \in queued : q # m_buffer /\ q # held
    BY <1>1, <1>2
  <1>10. KeptInv'
    BY <1>1, <1>8, <1>9 DEF IntactInv, KeptInv, Eaten
  <1>11. QueuedInOrder'
    BY <1>1 DEF IntactInv, QueuedInOrder
  <1> QED
    BY <1>7, <1>10, <1>11 DEF IntactInv

\* What it took goes to the buffer, over nothing that was queued.
LEMMA DispatchKeepsIntact ==
  ASSUME TypeOK, RunsEnd, IntactInv, Dispatch
  PROVE  IntactInv'
  <1>1. /\ m_buffer' = held /\ held' = NoMessage /\ held # NoMessage
        /\ UNCHANGED <<messages, io, pending, queued, consumed>>
    BY DEF Dispatch, FillBuffer, RunsEnd, readerVars, historyVars
  <1>2. held \in queued /\ m_buffer \notin queued /\ held <= messages
    BY <1>1 DEF IntactInv, OrderInv
  <1>3. OrderInv'
    BY <1>1, <1>2 DEF IntactInv, OrderInv
  <1>4. KeptInv'
    BY <1>1, <1>2 DEF IntactInv, KeptInv, Pended, Eaten
  <1>5. QueuedInOrder'
    BY <1>1 DEF IntactInv, QueuedInOrder
  <1> QED
    BY <1>3, <1>4, <1>5 DEF IntactInv

\* A handler decodes the buffer.
LEMMA DecodeKeepsIntact ==
  ASSUME TypeOK, RunsEnd, IntactInv, Decode
  PROVE  IntactInv'
  <1>1. /\ m_buffer' = NoMessage /\ consumed' = Append(consumed, m_buffer)
        /\ UNCHANGED <<messages, io, pending, held, queued>> /\ m_buffer # NoMessage
    BY DEF Decode, RunsEnd, readerVars
  <1>2. /\ consumed \in Seq(Message) /\ m_buffer \in Message /\ messages \in Nat
        /\ NoMessage \notin queued
    BY <1>1 DEF TypeOK, Message
  <1>3. /\ DOMAIN consumed' = 1 .. Len(consumed) + 1 /\ DOMAIN consumed = 1 .. Len(consumed)
        /\ Len(consumed) \in Nat
        /\ \A c \in DOMAIN consumed : consumed'[c] = consumed[c]
        /\ consumed'[Len(consumed) + 1] = m_buffer
    BY <1>1, <1>2
  <1>4. ASSUME NEW c \in DOMAIN consumed'
        PROVE  \/ c \in DOMAIN consumed /\ consumed'[c] = consumed[c]
               \/ c = Len(consumed) + 1 /\ consumed'[c] = m_buffer
    BY <1>3
  <1>5. \A c \in DOMAIN consumed' :
          /\ consumed'[c] <= messages'
          /\ consumed'[c] \in queued' =>
               /\ held' # NoMessage => consumed'[c] < held'
               /\ \A i \in DOMAIN pending' : consumed'[c] < pending'[i]
    BY <1>1, <1>4 DEF IntactInv, OrderInv
  <1>6. m_buffer' \notin queued' /\ m_buffer' <= messages'
    BY <1>1, <1>2
  <1>7. OrderInv'
    BY <1>1, <1>5, <1>6 DEF IntactInv, OrderInv
  <1>8. \A q : (Eaten(q) => Eaten(q)') /\ (q = m_buffer => Eaten(q)') /\ (Pended(q) => Pended(q)')
    BY <1>1, <1>3 DEF Eaten, Pended
  <1>9. m_buffer \notin queued => \E c \in DOMAIN consumed' : consumed'[c] \notin queued'
    BY <1>1, <1>3
  <1>10. KeptInv'
    BY <1>1, <1>3, <1>8, <1>9 DEF IntactInv, KeptInv
  <1>11. QueuedInOrder'
    <2> SUFFICES ASSUME NEW i \in DOMAIN consumed', NEW j \in DOMAIN consumed', i < j,
                        consumed'[i] \in queued, consumed'[j] \in queued
                 PROVE  consumed'[i] < consumed'[j]
      BY <1>1 DEF QueuedInOrder
    <2>1. i \in DOMAIN consumed /\ consumed'[i] = consumed[i]
      BY <1>3
    <2>2. CASE j \in DOMAIN consumed
      BY <1>3, <2>1, <2>2 DEF IntactInv, QueuedInOrder
    <2>3. CASE consumed'[j] = m_buffer
      BY <2>1, <2>3 DEF IntactInv, OrderInv
    <2> QED
      BY <1>4, <2>2, <2>3
  <1> QED
    BY <1>7, <1>10, <1>11 DEF IntactInv

\* Every step moves at most one input, one place further.
LEMMA IntactSteps ==
  ASSUME TypeOK, [Next]_vars
  PROVE  \/ Elsewhere \/ QueueAction \/ WriteInput \/ Dispatch \/ Decode
         \/ WaitForInput /\ pending # <<>> /\ training /\ is_empty
  <1>1. ASSUME InitBattle \/ DebugStep \/ DebugContinue \/ DebugBreakpoint \/ DebugFullState
        PROVE  Elsewhere
    BY <1>1 DEF InitBattle, DebugStep, DebugContinue, DebugBreakpoint, DebugFullState,
       Receive, Elsewhere, runVars, bufferVars, historyVars
  <1>2. ASSUME NEW k \in Kind, Route(k) PROVE Elsewhere
    BY <1>2 DEF Route, Receive, Elsewhere, runVars, bufferVars, historyVars
  <1>3. ASSUME CheckWaiting \/ ClearWaiting PROVE Elsewhere
    <2>1. UNCHANGED <<queued, pending, held, m_buffer, consumed, messages>>
      BY <1>3 DEF CheckWaiting, ClearWaiting, runVars, bufferVars, historyVars
    <2>2. io.pc # "read" /\ (io' = Idle \/ io' = [io EXCEPT !.pc = "write"])
      BY <1>3 DEF CheckWaiting, ClearWaiting
    <2>3. io'.pc = "read" \/ io'.msg = io.msg
      BY <2>2 DEF Idle, TypeOK, Reader
    <2> QED
      BY <2>1, <2>2, <2>3 DEF Elsewhere
  <1>4. ASSUME \/ StartRun \/ AskForInput \/ Undecodable \/ Advance \/ WriteDone
               \/ \E s \in Side : ReadError(s)
        PROVE  Elsewhere
    BY <1>4 DEF StartRun, AskForInput, Undecodable, Advance, WriteDone, ReadError, Elsewhere,
       runVars, bufferVars, readerVars, historyVars
  <1>5. ASSUME WaitForInput, ~(training /\ pending # <<>> /\ is_empty)
        PROVE  Elsewhere
    BY <1>5 DEF WaitForInput, Elsewhere, bufferVars, readerVars, historyVars
  <1>6. ASSUME UNCHANGED vars PROVE Elsewhere
    BY <1>6 DEF vars, Elsewhere, runVars, bufferVars, readerVars, historyVars
  <1> QED
    BY <1>1, <1>2, <1>3, <1>4, <1>5, <1>6 DEF Next, Handle, RouteStep, RunStep

\* However the reader and the workers alternate: what a player sent ahead is
\* decoded in the order it was sent, each once, and while every input comes
\* through the queue nothing of it is lost.
THEOREM QueueIntact == Spec => []QueuedIntact
  <1>1. AwakeInv /\ IntactInv /\ [Next]_vars => IntactInv'
    BY IntactSteps, ElsewhereKeepsIntact, QueueKeepsIntact, WriteKeepsIntact, PopKeepsIntact,
       DispatchKeepsIntact, DecodeKeepsIntact DEF AwakeInv
  <1>2. AwakeInv /\ IntactInv => QueuedIntact
    <2> SUFFICES ASSUME AwakeInv, IntactInv PROVE QueuedKept
      BY DEF IntactInv, QueuedIntact
    <2> DEFINE pended == {pending[i] : i \in DOMAIN pending}
               taken == {consumed[i] : i \in DOMAIN consumed} \cup ({m_buffer} \ {NoMessage})
    <2>1. ASSUME taken \subseteq queued
          PROVE  queued = pended \cup taken \cup ({held} \ {NoMessage})
      <3>1. \A c \in DOMAIN consumed : consumed[c] \in queued
        BY <2>1
      <3>2. m_buffer = NoMessage \/ m_buffer \in queued
        BY <2>1
      <3>3. \A q \in queued : Pended(q) \/ Eaten(q) \/ q = m_buffer \/ q = held
        BY <3>1, <3>2 DEF IntactInv, KeptInv
      <3>4. NoMessage \notin queued
        BY DEF AwakeInv, TypeOK, Message
      <3>5. queued \subseteq pended \cup taken \cup ({held} \ {NoMessage})
        BY <3>3, <3>4 DEF Pended, Eaten
      <3>6. pended \cup ({held} \ {NoMessage}) \subseteq queued
        BY DEF IntactInv, OrderInv
      <3> QED
        BY <2>1, <3>5, <3>6
    <2> QED
      BY <2>1 DEF QueuedKept
  <1> QED
    BY Invariance, InitIntact, <1>1, <1>2, PTL DEF Spec

-----------------------------------------------------------------------------
(***************************************************************************)
(* Why inputs get through.  That they do is a liveness property, for the   *)
(* runs; what it rests on is safety: the two threads cannot go on for ever *)
(* about the same messages, and when both are at rest nothing is left.     *)
(***************************************************************************)

\* When nobody will run the battle again and no debugger holds it, nothing lies in
\* the queue and nothing in the buffer.  (wait_for_input, route_and_run.)
RestIsThrough == ~RunComing /\ ~halted => pending = <<>> /\ is_empty

\* What the two threads have to do with the messages there are: a message the reader
\* carries, those in the queue, in the worker's hand and in the buffer, a phase to
\* pass, runs to begin, and the run that has begun.
InputsLeft ==
  <<CASE io.pc = "check" -> 3 [] io.pc = "write" -> 2 [] io.pc = "clear" -> 1 [] OTHER -> 0,
    Len(pending),
    IF runner = "popped" THEN 1 ELSE 0,
    IF is_empty THEN 0 ELSE 1,
    IF phase = "BETWEEN" THEN 1 ELSE 0,
    posted,
    CASE runner = "run" -> 2 [] runner = "wait" -> 1 [] OTHER -> 0>>

\* Seven numbers, the earlier of more weight.
Seven == [1 .. 7 -> Nat]
Fewer == LexProductOrdering(OpToRel(<, Nat), Nat, 7)

\* Every step of either thread leaves less to be done, but one: an input that is too
\* short stays, and a run that no debugger stops meets it again.  (run, route_and_run,
\* wait_for_input.)
InputsShrink ==
  [][RunStep \/ RouteStep =>
       \/ Undecodable /\ ~single
       \/ <<InputsLeft', InputsLeft>> \in Fewer]_vars

\* A battle between two questions is run until it asks, and only a battle that was
\* registered is sent anything.
RestInv ==
  /\ pending # <<>> => registered
  /\ runner \in {"wait", "popped"} => phase # "BETWEEN"
  /\ registered /\ phase = "BETWEEN" => posted > 0 \/ runner # "off" \/ halted

LEMMA RestSteps ==
  ASSUME AwakeInv, RestInv, [Next]_vars
  PROVE  RestInv'
  <1>0. /\ posted \in Nat /\ pending \in Seq(Message) /\ registered \in BOOLEAN
        /\ phase \in Phase /\ runner \in {"off", "run", "wait", "popped"}
    BY DEF AwakeInv, TypeOK
  <1>1. ASSUME Handle PROVE RestInv'
    <2>1. UNCHANGED <<phase, runner, halted>>
      BY <1>1 DEF Handle, InitBattle, DebugStep, DebugContinue, DebugBreakpoint, DebugFullState,
         QueueAction, Route, battleVars, runVars, historyVars
    <2>2. /\ posted' = posted \/ posted' = posted + 1
          /\ registered' = registered \/ (registered' /\ posted' = posted + 1)
          /\ pending' # <<>> => pending # <<>> \/ registered
      BY <1>1 DEF Handle, InitBattle, DebugStep, DebugContinue, DebugBreakpoint, DebugFullState,
         QueueAction, Route
    <2> QED
      BY <1>0, <2>1, <2>2 DEF RestInv
  <1>2. ASSUME RouteStep PROVE RestInv'
    <2>1. /\ UNCHANGED <<pending, registered, phase, runner, halted>>
          /\ posted' = posted \/ posted' = posted + 1
      BY <1>2 DEF RouteStep, CheckWaiting, WriteInput, ClearWaiting, battleVars, runVars,
         historyVars
    <2> QED
      BY <1>0, <2>1 DEF RestInv
  <1>3. ASSUME StartRun PROVE RestInv'
    BY <1>0, <1>3 DEF StartRun, battleVars, RestInv
  <1>4. ASSUME AskForInput PROVE RestInv'
    BY <1>0, <1>4 DEF AskForInput, battleVars, historyVars, RestInv
  <1>5. ASSUME WaitForInput PROVE RestInv'
    <2>1. /\ runner = "wait" /\ runner' \in {"popped", "off"}
          /\ UNCHANGED <<registered, phase>>
          /\ pending' # <<>> => pending # <<>>
      BY <1>0, <1>5 DEF WaitForInput, battleVars
    <2> QED
      BY <2>1 DEF RestInv
  <1>6. ASSUME Dispatch PROVE RestInv'
    BY <1>0, <1>6 DEF Dispatch, battleVars, RestInv
  <1>7. ASSUME Undecodable \/ Decode \/ Advance PROVE RestInv'
    <2>1. /\ runner' = "run" \/ (runner' = "off" /\ halted')
          /\ UNCHANGED <<registered, pending>>
      <3>1. single \in BOOLEAN
        BY DEF AwakeInv, TypeOK
      <3> QED
        BY <1>7, <3>1 DEF Undecodable, Decode, Advance, NextIteration
    <2> QED
      BY <2>1 DEF RestInv
  <1>8. ASSUME WriteDone PROVE RestInv'
    <2>1. /\ UNCHANGED <<pending, registered, phase, runner, halted>>
          /\ posted' = posted \/ posted' = posted + 1
      BY <1>8 DEF WriteDone, battleVars, runVars, historyVars
    <2> QED
      BY <1>0, <2>1 DEF RestInv
  <1>9. ASSUME (\E s \in Side : ReadError(s)) \/ UNCHANGED vars PROVE RestInv'
    BY <1>9 DEF ReadError, vars, battleVars, runVars, historyVars, RestInv
  <1> QED
    BY <1>1, <1>2, <1>3, <1>4, <1>5, <1>6, <1>7, <1>8, <1>9 DEF Next, RunStep

\* At rest nothing that was sent ahead is left (wait_for_input, route_and_run).
THEOREM NothingLeftAtRest == Spec => []RestIsThrough
  <1>1. Init => RestInv
    BY DEF Init, RestInv
  <1>2. AwakeInv /\ RestInv /\ [Next]_vars => RestInv'
    BY RestSteps
  <1>3. AwakeInv /\ RestInv => RestIsThrough
    <2> SUFFICES ASSUME AwakeInv, RestInv, ~RunComing, ~halted
                 PROVE  pending = <<>> /\ is_empty
      BY DEF RestIsThrough
    <2>1. posted \in Nat /\ ~(posted > 0) /\ runner = "off" /\ io.pc \notin {"write", "clear"}
      BY DEF AwakeInv, TypeOK
    <2>2. is_empty
      BY <2>1 DEF AwakeInv, FullIsSeen
    <2>3. ASSUME pending # <<>> PROVE FALSE
      <3>1. training /\ registered /\ phase # "BETWEEN"
        BY <2>1, <2>3 DEF AwakeInv, RunsEnd, RestInv
      <3>2. NeedInput
        BY <2>2, <3>1 DEF AwakeInv, TypeOK, Phase
      <3>3. waiting[0]
        BY <2>1, <3>1, <3>2 DEF AwakeInv, AskingBattleListens
      <3> QED
        BY <2>1, <2>3, <3>3 DEF AwakeInv, NoLostWakeup
    <2> QED
      BY <2>2, <2>3
  <1> QED
    BY Invariance, <1>1, <1>2, <1>3, PTL DEF Spec

\* Seven numbers cannot go down in this order for ever.
THEOREM FewerEnds == IsWellFoundedOn(Fewer, Seven)
  <1>1. IsWellFoundedOn(OpToRel(<, Nat), Nat)
    BY NatLessThanWellFounded
  <1> DEFINE R == OpToRel(<, Nat)
  <1>2. IsWellFoundedOn(R, Nat)
    BY <1>1
  <1> HIDE DEF R
  <1>3. IsWellFoundedOn(LexProductOrdering(R, Nat, 7), [1 .. 7 -> Nat])
    BY <1>2, WFLexProductOrdering
  <1> QED
    BY <1>3 DEF R, Fewer, Seven

\* Fewer of one number, and as much of those of more weight, is less.
LEMMA FewerOfOne ==
  ASSUME NEW x \in Seven, NEW y \in Seven, NEW j \in 1 .. 7,
         \A i \in 1 .. j - 1 : x[i] = y[i], x[j] < y[j]
  PROVE  <<x, y>> \in Fewer
  <1>1. x[j] \in Nat /\ y[j] \in Nat
    BY DEF Seven
  <1>2. <<x[j], y[j]>> \in OpToRel(<, Nat)
    BY <1>1 DEF OpToRel
  <1> QED
    BY <1>2 DEF Fewer, Seven, LexProductOrdering

\* The seven, each by itself.
Carried == CASE io.pc = "check" -> 3 [] io.pc = "write" -> 2 [] io.pc = "clear" -> 1 [] OTHER -> 0
Popped == IF runner = "popped" THEN 1 ELSE 0
Full == IF is_empty THEN 0 ELSE 1
Between == IF phase = "BETWEEN" THEN 1 ELSE 0
Begun == CASE runner = "run" -> 2 [] runner = "wait" -> 1 [] OTHER -> 0

InputsLeftIs ==
  /\ InputsLeft \in Seven
  /\ InputsLeft[1] = Carried /\ InputsLeft[2] = Len(pending) /\ InputsLeft[3] = Popped
  /\ InputsLeft[4] = Full /\ InputsLeft[5] = Between /\ InputsLeft[6] = posted
  /\ InputsLeft[7] = Begun

LEMMA InputsLeftType == TypeOK => InputsLeftIs
  <1> SUFFICES ASSUME TypeOK PROVE InputsLeftIs
    OBVIOUS
  <1>1. /\ Carried \in Nat /\ Len(pending) \in Nat /\ Popped \in Nat /\ Full \in Nat
        /\ Between \in Nat /\ posted \in Nat /\ Begun \in Nat
    BY DEF TypeOK, Carried, Popped, Full, Between, Begun
  <1>2. InputsLeft = <<Carried, Len(pending), Popped, Full, Between, posted, Begun>>
    BY DEF InputsLeft, Carried, Popped, Full, Between, Begun
  <1> QED
    BY <1>1, <1>2 DEF InputsLeftIs, Seven

\* One lemma on the steps of the two threads, each of which takes from one of the seven.
LEMMA StepLowers ==
  ASSUME AwakeInv, AwakeInv', RunStep \/ RouteStep, ~(Undecodable /\ ~single)
  PROVE  <<InputsLeft', InputsLeft>> \in Fewer
  <1>0. /\ InputsLeft \in Seven /\ InputsLeft' \in Seven /\ TypeOK /\ TypeOK'
        /\ InputsLeft[1] = Carried /\ InputsLeft'[1] = Carried'
        /\ InputsLeft[2] = Len(pending) /\ InputsLeft'[2] = Len(pending')
        /\ InputsLeft[3] = Popped /\ InputsLeft'[3] = Popped'
        /\ InputsLeft[4] = Full /\ InputsLeft'[4] = Full'
        /\ InputsLeft[5] = Between /\ InputsLeft'[5] = Between'
        /\ InputsLeft[6] = posted /\ InputsLeft'[6] = posted'
        /\ InputsLeft[7] = Begun /\ InputsLeft'[7] = Begun'
    <2>1. TypeOK /\ TypeOK'
      BY DEF AwakeInv
    <2>2. InputsLeftIs /\ InputsLeftIs'
      BY <2>1, InputsLeftType, PTL
    <2> QED
      BY <2>1, <2>2 DEF InputsLeftIs
  <1>1. CASE RouteStep
    <2>1. io \in Reader
      BY <1>0 DEF TypeOK
    <2>2. \/ io.pc = "check" /\ io'.pc \in {"read", "write"}
          \/ io.pc = "write" /\ io'.pc = "clear"
          \/ io.pc = "clear" /\ io'.pc = "read"
      BY <1>1, <2>1 DEF RouteStep, CheckWaiting, WriteInput, ClearWaiting, Idle, Reader
    <2>3. Carried' < Carried
      BY <2>2 DEF Carried
    <2> QED
      BY <1>0, <2>3, FewerOfOne
  <1>2. ASSUME RunStep PROVE Carried' = Carried
    BY <1>2 DEF RunStep, StartRun, AskForInput, WaitForInput, Dispatch, Undecodable, Decode,
       Advance, readerVars, Carried
  <1>3. CASE WaitForInput
    <2>1. CASE runner' = "popped"
      <3>1. pending # <<>> /\ pending' = Tail(pending)
        BY <1>3, <2>1 DEF WaitForInput
      <3>2. Len(pending') < Len(pending)
        BY <1>0, <3>1 DEF TypeOK
      <3> QED
        BY <1>0, <1>2, <1>3, <3>2, FewerOfOne, \A k \in 1 .. 1 : k = 1 DEF RunStep
    <2>2. CASE runner' # "popped"
      <3>1. /\ runner = "wait" /\ runner' = "off"
            /\ UNCHANGED <<pending, is_empty, phase, posted>>
        BY <1>3, <2>2 DEF WaitForInput, battleVars, bufferVars
      <3>2. /\ Popped' = Popped /\ Full' = Full /\ Between' = Between
            /\ Begun' < Begun
        BY <3>1 DEF Popped, Full, Between, Begun
      <3> QED
        BY <1>0, <1>2, <1>3, <3>1, <3>2, FewerOfOne,
           \A k \in 1 .. 6 : k = 1 \/ k = 2 \/ k = 3 \/ k = 4 \/ k = 5 \/ k = 6 DEF RunStep
    <2> QED
      BY <2>1, <2>2
  <1>4. CASE Dispatch
    <2>1. Popped' < Popped /\ pending' = pending
      BY <1>4 DEF Dispatch, Popped
    <2> QED
      BY <1>0, <1>2, <1>4, <2>1, FewerOfOne, \A k \in 1 .. 2 : k = 1 \/ k = 2 DEF RunStep
  <1>5. CASE Decode
    <2>1. runner = "run" /\ runner' # "popped" /\ pending' = pending /\ ~is_empty /\ is_empty'
      BY <1>5 DEF Decode, NextIteration
    <2>2. Popped' = Popped /\ Full' < Full
      BY <2>1 DEF Popped, Full
    <2> QED
      BY <1>0, <1>2, <1>5, <2>1, <2>2, FewerOfOne,
         \A k \in 1 .. 3 : k = 1 \/ k = 2 \/ k = 3 DEF RunStep
  <1>6. CASE Advance
    <2>1. /\ runner = "run" /\ runner' # "popped" /\ UNCHANGED <<pending, is_empty>>
          /\ phase = "BETWEEN" /\ phase' # "BETWEEN"
      BY <1>6 DEF Advance, NextIteration, bufferVars
    <2>2. Popped' = Popped /\ Full' = Full /\ Between' < Between
      BY <2>1 DEF Popped, Full, Between
    <2> QED
      BY <1>0, <1>2, <1>6, <2>1, <2>2, FewerOfOne,
         \A k \in 1 .. 4 : k = 1 \/ k = 2 \/ k = 3 \/ k = 4 DEF RunStep
  <1>7. CASE StartRun
    <2>1. /\ runner = "off" /\ runner' = "run" /\ UNCHANGED <<pending, is_empty, phase>>
          /\ posted' < posted
      BY <1>0, <1>7 DEF StartRun, battleVars, bufferVars, TypeOK
    <2>2. Popped' = Popped /\ Full' = Full /\ Between' = Between
      BY <2>1 DEF Popped, Full, Between
    <2> QED
      BY <1>0, <1>2, <1>7, <2>1, <2>2, FewerOfOne,
         \A k \in 1 .. 5 : k = 1 \/ k = 2 \/ k = 3 \/ k = 4 \/ k = 5 DEF RunStep
  <1>8. CASE AskForInput \/ (Undecodable /\ single)
    <2>1. /\ runner = "run" /\ runner' \in {"wait", "off"}
          /\ UNCHANGED <<pending, is_empty, phase, posted>>
      BY <1>8 DEF AskForInput, Undecodable, NextIteration, battleVars, bufferVars
    <2>2. Popped' = Popped /\ Full' = Full /\ Between' = Between /\ Begun' < Begun
      BY <2>1 DEF Popped, Full, Between, Begun
    <2> QED
      BY <1>0, <1>2, <1>8, <2>1, <2>2, FewerOfOne,
         \A k \in 1 .. 6 : k = 1 \/ k = 2 \/ k = 3 \/ k = 4 \/ k = 5 \/ k = 6 DEF RunStep
  <1> QED
    BY <1>1, <1>3, <1>4, <1>5, <1>6, <1>7, <1>8 DEF RunStep

\* The two threads are never at it for ever about the same messages, but for an
\* input that is too short (run, route_and_run, wait_for_input).
THEOREM InputsGoDown == Spec => InputsShrink
  <1>1. ASSUME AwakeInv, AwakeInv', RunStep \/ RouteStep
        PROVE  (Undecodable /\ ~single) \/ <<InputsLeft', InputsLeft>> \in Fewer
    BY <1>1, StepLowers
  <1> QED
    BY <1>1, Invariance, PTL DEF Spec, InputsShrink
=============================================================================
