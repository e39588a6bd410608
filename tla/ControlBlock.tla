---------------------------- MODULE ControlBlock ----------------------------
(***************************************************************************)
(* The control block between the sockets and the battle state machine.     *)
(*                                                                         *)
(* One thread reads every socket (io_context_.run) and handles a message   *)
(* at a time; the workers of battle_pool_ execute the runs posted for the  *)
(* battle, one at a time under run_mutex.  The two meet in the input       *)
(* buffer, in waiting_uuid_ and, in the training block, in a queue of      *)
(* inputs under pending_inputs_mutex_.  A step below is what one thread    *)
(* does before the other one can see or change something it depends on.    *)
(*                                                                         *)
(* The block holds one battle (INIT_BATTLE refuses a second one), so a     *)
(* uuid is either its uuid or unknown.  The battle is abstracted to when   *)
(* it asks for an input and whom it prompts: CHOOSE and REPLACE stand for  *)
(* the two states that ask, BETWEEN for a state that does not.             *)
(***************************************************************************)
EXTENDS Integers, Sequences

CONSTANTS
  Kind,          \* the kinds of message the clients send
  MaxMessages,   \* bound: messages handled
  MaxWrites,     \* bound: asynchronous writes under way
  MaxPosted      \* bound: runs posted by the completion of writes

ASSUME BoundAssumption ==
  MaxMessages \in Nat /\ MaxWrites \in Nat \ {0} /\ MaxPosted \in Nat
ASSUME KindAssumption ==
  Kind \subseteq {"INIT", "ACTION", "OTHER", "SYNC_STATE", "DEBUG_STEP",
                  "DEBUG_CONTINUE", "DEBUG_BREAKPOINT", "DEBUG_FULLSTATE"}

Side == {0, 1}
Phase == {"CHOOSE", "BETWEEN", "REPLACE"}
Message == 1 .. MaxMessages
NoMessage == 0

VARIABLES
  training,      \* which of the two blocks this is
  reading,       \* sides whose read loop goes on
  messages,      \* messages handled so far; the last one's number
  io,            \* where the reader is in route_and_run
  registered,    \* contexts_ holds the battle
  pending,       \* pending_inputs_ of the battle (training block)
  waiting,       \* waiting_uuid_ names the battle; one flag in the training block
  m_buffer, is_empty, short,  \* input buffer, its flag, inputs too short to decode
  phase, current, collected,  \* the battle: state, player prompted, operations held
  stepMode, breakpoints,
  posted,        \* runs in battle_pool_ that no worker has begun
  runner,        \* where the run that holds run_mutex is
  single,        \* single_shot of that run
  held,          \* input popped and not yet in the buffer
  writes,        \* asynchronous writes under way
  \* History, read by the properties only:
  queued,        \* inputs put in the queue
  consumed,      \* inputs a handler has decoded, in that order
  halted         \* the last run left after one state

battleVars == <<phase, current, collected>>
bufferVars == <<m_buffer, is_empty, short>>
debugVars == <<stepMode, breakpoints>>
runVars == <<runner, single, held>>
readerVars == <<reading, messages, io>>
historyVars == <<queued, consumed, halted>>
vars == <<training, registered, pending, waiting, posted, writes, battleVars,
          bufferVars, debugVars, runVars, readerVars, historyVars>>

Reader == [pc : {"read", "check", "write", "clear"}, msg : Message \cup {NoMessage},
           player : Side, heard : BOOLEAN]
Idle == [pc |-> "read", msg |-> NoMessage, player |-> 0, heard |-> FALSE]

TypeOK ==
  /\ training \in BOOLEAN /\ registered \in BOOLEAN
  /\ reading \subseteq Side
  /\ messages \in 0 .. MaxMessages
  /\ io \in Reader /\ (io.pc = "read" \/ io.msg \in Message)
  /\ pending \in Seq(Message)
  /\ waiting \in [Side -> BOOLEAN]
  /\ m_buffer \in Message \cup {NoMessage} /\ is_empty \in BOOLEAN
  /\ short \in SUBSET Message
  /\ phase \in Phase /\ current \in Side /\ collected \in SUBSET Side
  /\ stepMode \in BOOLEAN /\ breakpoints \in SUBSET Phase
  /\ posted \in Nat /\ writes \in 0 .. MaxWrites
  /\ runner \in {"off", "run", "wait", "popped"}
  /\ single \in BOOLEAN
  /\ held \in Message \cup {NoMessage}
  /\ queued \in SUBSET Message
  /\ consumed \in Seq(Message)
  /\ halted \in BOOLEAN

\* The flag wait_for_input sets and route_and_run reads for a side.
Flag(s) == IF training THEN 0 ELSE s

NeedInput == is_empty /\ phase \in {"CHOOSE", "REPLACE"}
SingleShot == stepMode \/ phase \in breakpoints

Init ==
  /\ training \in BOOLEAN
  /\ reading = IF training THEN {0} ELSE Side
  /\ messages = 0 /\ io = Idle
  /\ registered = FALSE
  /\ pending = <<>> /\ waiting = [s \in Side |-> FALSE]
  /\ m_buffer = NoMessage /\ is_empty = TRUE /\ short = {}
  /\ phase = "BETWEEN" /\ current = 0 /\ collected = {}
  /\ stepMode = FALSE /\ breakpoints = {}
  /\ posted = 0 /\ writes = 0
  /\ runner = "off" /\ single = FALSE /\ held = NoMessage
  /\ queued = {} /\ consumed = <<>> /\ halted = FALSE

-----------------------------------------------------------------------------
\* The reader: handle_message.

\* One more complete message is taken off a buffer the loop still fills.
Receive(k) ==
  /\ k \in Kind
  /\ io.pc = "read" /\ reading # {}
  /\ messages < MaxMessages
  /\ messages' = messages + 1
  /\ UNCHANGED reading

\* async_write with nothing posted on failure; a query of the training block
\* writes without a run to follow and changes nothing.
StartWrite(n) == writes' = IF n > MaxWrites THEN MaxWrites ELSE n

\* INIT_BATTLE registers the battle and posts its first run, unless there is one
\* or its parameters cannot be decoded (the exception is caught).
InitBattle ==
  /\ Receive("INIT")
  /\ \/ ~registered /\ registered' = TRUE /\ posted' = posted + 1
     \/ UNCHANGED <<registered, posted>>
  /\ UNCHANGED <<training, io, pending, waiting, writes, battleVars, bufferVars,
                 debugVars, runVars, historyVars>>

DebugStep ==
  /\ Receive("DEBUG_STEP")
  /\ registered
  /\ stepMode' = TRUE
  /\ posted' = posted + 1
  /\ UNCHANGED <<training, registered, io, pending, waiting, writes, battleVars,
                 bufferVars, breakpoints, runVars, historyVars>>

DebugContinue ==
  /\ Receive("DEBUG_CONTINUE")
  /\ registered
  /\ stepMode' = FALSE
  /\ posted' = posted + 1
  /\ UNCHANGED <<training, registered, io, pending, waiting, writes, battleVars,
                 bufferVars, breakpoints, runVars, historyVars>>

DebugBreakpoint ==
  /\ Receive("DEBUG_BREAKPOINT")
  /\ registered
  /\ \E p \in Phase :
       breakpoints' = IF p \in breakpoints THEN breakpoints \ {p}
                                           ELSE breakpoints \cup {p}
  /\ UNCHANGED <<training, registered, io, pending, waiting, posted, writes,
                 battleVars, bufferVars, stepMode, runVars, historyVars>>

\* The snapshot of the training block is written directly, the other block's
\* through async_write, whose completion posts a run.
DebugFullState ==
  /\ Receive("DEBUG_FULLSTATE")
  /\ registered
  /\ IF training THEN UNCHANGED writes ELSE StartWrite(writes + 1)
  /\ UNCHANGED <<training, registered, io, pending, waiting, posted, battleVars,
                 bufferVars, debugVars, runVars, historyVars>>

-----------------------------------------------------------------------------
\* The reader: route_and_run.

\* Mutant: the battle is woken when the queue was empty but for one, not when it was empty.
WakesForSecond ==
  /\ Receive("ACTION")
  /\ registered /\ training
  /\ pending' = Append(pending, messages')
  /\ queued' = queued \cup {messages'}
  /\ posted' = IF waiting[0] /\ Len(pending) = 1 THEN posted + 1 ELSE posted
  /\ UNCHANGED <<training, registered, io, waiting, writes, battleVars, bufferVars,
                 debugVars, runVars, consumed, halted>>

\* Mutant: a new input takes the place of the queue.
KeepsLatest ==
  /\ Receive("ACTION")
  /\ registered /\ training
  /\ pending' = <<messages'>>
  /\ queued' = queued \cup {messages'}
  /\ posted' = IF waiting[0] THEN posted + 1 ELSE posted
  /\ UNCHANGED <<training, registered, io, waiting, writes, battleVars, bufferVars,
                 debugVars, runVars, consumed, halted>>

\* The commands that carry an operation go through the training block's queue;
\* a battle that waits is woken for the first one only.
QueueAction ==
  /\ Receive("ACTION")
  /\ registered /\ training
  /\ pending' = Append(pending, messages')
  /\ queued' = queued \cup {messages'}
  /\ posted' = IF waiting[0] /\ Len(pending') = 1 THEN posted + 1 ELSE posted
  /\ UNCHANGED <<training, registered, io, waiting, writes, battleVars, bufferVars,
                 debugVars, runVars, consumed, halted>>

\* What handle_message has no case for goes into the buffer if the battle waits:
\* every operation of the battle block, emojis and unknown commands, and the
\* battle block's SYNC_STATE.
Routed(k) ==
  \/ k = "OTHER"
  \/ ~training /\ k \in {"ACTION", "SYNC_STATE"}

Route(k) ==
  /\ Receive(k)
  /\ registered /\ Routed(k)
  /\ io' = [pc |-> "check", msg |-> messages',
            player |-> IF training THEN 0 ELSE current,
            heard |-> waiting[0]]
  /\ UNCHANGED <<training, registered, pending, waiting, posted, writes, battleVars,
                 bufferVars, debugVars, runVars, historyVars>>

\* Mutant: is_empty is not looked at.
ChecksWaitingOnly ==
  /\ io.pc = "check"
  /\ IF (IF training THEN io.heard ELSE waiting[io.player])
       THEN io' = [io EXCEPT !.pc = "write"]
       ELSE io' = Idle
  /\ UNCHANGED <<training, registered, reading, messages, pending, waiting, posted,
                 writes, battleVars, bufferVars, debugVars, runVars, historyVars>>

\* The training block compares the copy of waiting_uuid_ it took under the lock.
CheckWaiting ==
  /\ io.pc = "check"
  /\ IF (IF training THEN io.heard ELSE waiting[io.player]) /\ is_empty
       THEN io' = [io EXCEPT !.pc = "write"]
       ELSE io' = Idle
  /\ UNCHANGED <<training, registered, reading, messages, pending, waiting, posted,
                 writes, battleVars, bufferVars, debugVars, runVars, historyVars>>

\* The parameters of a message are copied whatever their size; whether they
\* are more than twelve bytes is looked at by the handler only.
FillBuffer(m) ==
  /\ m_buffer' = m
  /\ is_empty' = FALSE
  /\ short' \in {short, short \cup {m}}

WriteInput ==
  /\ io.pc = "write"
  /\ FillBuffer(io.msg)
  /\ io' = [io EXCEPT !.pc = "clear"]
  /\ UNCHANGED <<training, registered, reading, messages, pending, waiting, posted,
                 writes, battleVars, debugVars, runVars, historyVars>>

\* Mutant: no run is posted for what was written.
ClearsAndForgets ==
  /\ io.pc = "clear"
  /\ waiting' = [waiting EXCEPT ![io.player] = FALSE]
  /\ io' = Idle
  /\ UNCHANGED <<training, registered, reading, messages, pending, posted, writes,
                 battleVars, bufferVars, debugVars, runVars, historyVars>>

ClearWaiting ==
  /\ io.pc = "clear"
  /\ waiting' = [waiting EXCEPT ![io.player] = FALSE]
  /\ posted' = posted + 1
  /\ io' = Idle
  /\ UNCHANGED <<training, registered, reading, messages, pending, writes, battleVars,
                 bufferVars, debugVars, runVars, historyVars>>

\* An error ends a read loop; the battle and the other loop stay.
ReadError(s) ==
  /\ io.pc = "read" /\ s \in reading
  /\ reading' = reading \ {s}
  /\ UNCHANGED <<training, registered, messages, io, pending, waiting, posted, writes,
                 battleVars, bufferVars, debugVars, runVars, historyVars>>

\* Completion of an asynchronous write: a run is posted, unless the write failed.
WriteDone ==
  /\ writes > 0
  /\ writes' = writes - 1
  /\ \/ posted < MaxPosted /\ posted' = posted + 1
     \/ UNCHANGED posted
  /\ UNCHANGED <<training, registered, pending, waiting, battleVars, bufferVars,
                 debugVars, runVars, readerVars, historyVars>>

-----------------------------------------------------------------------------
\* The workers: BattleFsm::run.

StartRun ==
  /\ posted > 0 /\ runner = "off"
  /\ posted' = posted - 1
  /\ runner' = "run"
  /\ single' = SingleShot
  /\ halted' = FALSE
  /\ UNCHANGED <<training, registered, pending, waiting, writes, battleVars, bufferVars,
                 debugVars, held, readerVars, queued, consumed>>

\* runInternal reads need_input and calls wait_for_input.
AskForInput ==
  /\ runner = "run" /\ NeedInput
  /\ runner' = "wait"
  /\ UNCHANGED <<training, registered, pending, waiting, posted, writes, battleVars,
                 bufferVars, debugVars, single, held, readerVars, historyVars>>

\* Mutant: the flag of player 0 is set, whoever is prompted.
WaitsForFirst ==
  /\ runner = "wait"
  /\ IF training /\ pending # <<>> /\ is_empty
       THEN /\ held' = Head(pending)
            /\ pending' = Tail(pending)
            /\ waiting' = [waiting EXCEPT ![0] = FALSE]
            /\ runner' = "popped"
       ELSE /\ waiting' = [waiting EXCEPT ![0] = TRUE]
            /\ runner' = "off"
            /\ UNCHANGED <<held, pending>>
  /\ UNCHANGED <<training, registered, posted, writes, battleVars, bufferVars,
                 debugVars, single, readerVars, historyVars>>

\* wait_for_input, under the lock in the training block: take the head of the
\* queue, or say that the battle waits and end the run.
WaitForInput ==
  /\ runner = "wait"
  /\ IF training /\ pending # <<>> /\ is_empty
       THEN /\ held' = Head(pending)
            /\ pending' = Tail(pending)
            /\ waiting' = [waiting EXCEPT ![0] = FALSE]
            /\ runner' = "popped"
       ELSE /\ waiting' = [waiting EXCEPT ![Flag(current)] = TRUE]
            /\ runner' = "off"
            /\ UNCHANGED <<held, pending>>
  /\ UNCHANGED <<training, registered, posted, writes, battleVars, bufferVars,
                 debugVars, single, readerVars, historyVars>>

Dispatch ==
  /\ runner = "popped"
  /\ FillBuffer(held)
  /\ held' = NoMessage
  /\ posted' = posted + 1
  /\ runner' = "off"
  /\ UNCHANGED <<training, registered, pending, waiting, writes, battleVars, debugVars,
                 single, readerVars, historyVars>>

\* What follows a handler in the loop of run().
NextIteration ==
  /\ runner' = IF single THEN "off" ELSE "run"
  /\ halted' = single

\* A handler that finds the input too short leaves it there and writes an error.
Undecodable ==
  /\ runner = "run" /\ phase # "BETWEEN" /\ ~is_empty
  /\ m_buffer \in short
  /\ StartWrite(writes + 1)
  /\ NextIteration
  /\ UNCHANGED <<training, registered, pending, waiting, posted, battleVars,
                 bufferVars, debugVars, single, held, readerVars, queued, consumed>>

\* Any other input is taken; it is refused with a message to the player, or it
\* is the operation of a side, which completes the choice or leaves the other
\* side to be prompted.  REPLACE needs one pet, or a cancellation.
Decode ==
  /\ runner = "run" /\ phase # "BETWEEN" /\ ~is_empty
  /\ m_buffer \notin short
  /\ m_buffer' = NoMessage /\ is_empty' = TRUE
  /\ consumed' = Append(consumed, m_buffer)
  /\ \/ StartWrite(writes + 1) /\ UNCHANGED battleVars
     \/ /\ phase = "CHOOSE"
        /\ \E actor \in Side :
             /\ collected' = collected \cup {actor}
             /\ IF collected' = Side
                  THEN phase' = "BETWEEN" /\ UNCHANGED current
                  ELSE current' = (IF 0 \in collected' THEN 1 ELSE 0) /\ UNCHANGED phase
        /\ UNCHANGED writes
     \/ /\ phase = "REPLACE"
        /\ phase' \in {"REPLACE", "BETWEEN"}
        /\ UNCHANGED <<current, collected, writes>>
  /\ NextIteration
  /\ UNCHANGED <<training, registered, pending, waiting, posted, short, debugVars,
                 single, held, readerVars, queued>>

\* The states between two questions.  A new round prompts player 0 first, a
\* replacement the side whose pet is dead.
Advance ==
  /\ runner = "run" /\ phase = "BETWEEN"
  /\ \/ phase' = "CHOOSE" /\ current' = 0
     \/ phase' = "REPLACE" /\ current' \in Side
  /\ collected' = {}
  /\ NextIteration
  /\ UNCHANGED <<training, registered, pending, waiting, posted, writes, bufferVars,
                 debugVars, single, held, readerVars, queued, consumed>>

Handle == \E k \in Kind :
  \/ k = "INIT" /\ InitBattle
  \/ k = "DEBUG_STEP" /\ DebugStep
  \/ k = "DEBUG_CONTINUE" /\ DebugContinue
  \/ k = "DEBUG_BREAKPOINT" /\ DebugBreakpoint
  \/ k = "DEBUG_FULLSTATE" /\ DebugFullState
  \/ k = "ACTION" /\ QueueAction
  \/ Route(k)

RunStep == StartRun \/ AskForInput \/ WaitForInput \/ Dispatch
           \/ Undecodable \/ Decode \/ Advance
RouteStep == CheckWaiting \/ WriteInput \/ ClearWaiting

Next == Handle \/ RouteStep \/ RunStep \/ WriteDone \/ \E s \in Side : ReadError(s)

\* A thread that can go on does.  No client has to send anything.
Spec == Init /\ [][Next]_vars /\ WF_vars(RunStep) /\ WF_vars(RouteStep)

-----------------------------------------------------------------------------
\* What the two threads must not spoil.

\* A run is under way or certain to come.
RunComing == posted > 0 \/ runner # "off" \/ io.pc \in {"write", "clear"}

\* A battle that waits does not sleep over a queued input: the wake for the first
\* input and the look into the queue before waiting never miss each other.  A
\* battle a debugger stopped after one state is woken by the debugger.
\* (route_and_run's should_wake, TrainingControlBlock::wait_for_input.)
NoLostWakeup == waiting[0] /\ pending # <<>> => RunComing \/ halted

\* A battle that asks for an input, with no run to come, has said so for the side
\* it prompts: otherwise route_and_run drops every answer and it asks for ever.
\* (wait_for_input against the clearing of waiting_uuid_ after the buffer is full.)
AskingBattleListens ==
  registered /\ NeedInput /\ ~RunComing /\ ~halted => waiting[Flag(current)]

\* The battle block, which has no queue, never overwrites an input the battle has
\* not decoded.  (route_and_run reads is_empty before it writes the buffer, and
\* only the reader fills it; in the training block the run does so as well.)
InputNotOverwritten ==
  [][~training /\ ~is_empty => m_buffer' \in {m_buffer, NoMessage}]_vars

\* Operations reach the battle in the order they were sent, each once.
\* (push_back, pop_front and the post of the dispatched input.)
QueuedInOrder ==
  \A i, j \in DOMAIN consumed :
    i < j /\ consumed[i] \in queued /\ consumed[j] \in queued => consumed[i] < consumed[j]

\* An operation that was queued is never lost while every input the battle gets
\* comes from the queue: it waits there, is on its way to the buffer, in it, or
\* decoded.  (route_and_run's queue; wait_for_input pops under the same lock.)
QueuedKept ==
  LET pended == {pending[i] : i \in DOMAIN pending}
      taken == {consumed[i] : i \in DOMAIN consumed} \cup ({m_buffer} \ {NoMessage})
  IN  training /\ taken \subseteq queued =>
        queued = pended \cup taken \cup ({held} \ {NoMessage})

\* What players send ahead arrives whole and in order.
QueuedIntact == QueuedInOrder /\ QueuedKept

\* The battle holds an input of at most twelve bytes, queued or not, which no
\* handler takes off the buffer: the run over it never ends, and what was sent
\* after it stays in the queue.  (battleFsm.cpp:887, iControlBlock.cpp:391.)
StuckOnShort == ~is_empty /\ m_buffer \in short

\* Unless a debugger holds the battle, or a short input does, whatever is
\* queued gets to it.
\* (The workers run what is posted; nothing but an input stops a run.)
QueueDrains == []<>(pending = <<>> \/ halted \/ StuckOnShort)

\* An input in the buffer is decoded, unless it is too short ever to be.
InputIsDecoded == []<>(is_empty \/ halted \/ StuckOnShort)

\* Together: what a player sent ahead gets to the battle and is read there,
\* behind a short input excepted.
InputGetsThrough == QueueDrains /\ InputIsDecoded
=============================================================================
