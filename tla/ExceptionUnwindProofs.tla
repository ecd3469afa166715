----------------------- MODULE ExceptionUnwindProofs -----------------------
(***************************************************************************)
(* The proof that the two phases of the exception interface agree: phase 2 *)
(* runs every cleanup on its way and ends in the frame phase 1 chose, and  *)
(* a stop function is asked exactly when its unwinding is a forced one,    *)
(* for any program: any call chains, personality routines, exception       *)
(* objects and any number of calls.                                        *)
(***************************************************************************)
EXTENDS ExceptionUnwind, SequenceTheorems, TLAPS

Phase2 == {"phase2", "stop", "frame"}
HandlerKinds == {"catch", "fickle"}

Types ==
  /\ stack \in Seq(Ips)
  /\ exc \in [Objects -> [private_1 : {"NULL", "stop"}, private_2 : Ips \cup {0}]]
  /\ pc \in Walking \cup {"user", "panic"}
  /\ obj \in Objects
  /\ cursor \in Nat
  /\ end_of_stack \in BOOLEAN
  /\ pad \in [kind : {NoPad, "cleanup", "handler"}, obj : Objects]
  /\ forced \in [Objects -> BOOLEAN]
  /\ handler \in [Objects -> Nat]

\* Where the cursor of the walk can be.
OnTheStack ==
  /\ pc \in Walking => cursor <= Len(stack)
  /\ pc \in {"phase1", "phase2"} => ~end_of_stack
  /\ pc \in {"stop", "frame"} => end_of_stack \/ cursor >= 1

\* private_1 remembers whether the object's unwinding is a forced one.
StopPointer == \A o \in Objects : forced[o] <=> exc[o].private_1 = "stop"

\* How far the stop function has been asked.
AskedSoFar ==
  /\ pc = "phase1" => asked = {}
  /\ pc = "phase2" => asked = IF forced[obj] THEN 1..cursor ELSE {}
  /\ pc = "stop" => forced[obj] /\ asked = 1..(Position - 1)
  /\ StopIsAskedFirst

\* What the walk has passed: phase 1 no handler, phase 2 nothing but frames without a
\* personality routine, as every other frame ends it.
Passed ==
  /\ pc = "phase1" => \A n \in 1..cursor : Kind[stack[n]] \notin HandlerKinds
  /\ pc = "phase2" => \A n \in 1..cursor : Kind[stack[n]] = "plain"
  /\ pc \in {"stop", "frame"} => \A n \in 1..(Position - 1) : Kind[stack[n]] = "plain"

\* The frame h is the one phase 1 chose for o, its ip is o's frame marker, and no
\* frame inside it has a handler.
IsHandler(o, h) ==
  /\ Len(stack) - h = handler[o]
  /\ stack[h] = exc[o].private_2
  /\ Kind[stack[h]] \in HandlerKinds
  /\ \A n \in 1..(h - 1) : Kind[stack[n]] \notin HandlerKinds

Marked(o) == forced[o] \/ \E h \in 1..Len(stack) : IsHandler(o, h)

\* Phase 2, and a cleanup that will resume it, have a handler to go to.
Marks ==
  /\ pc \in Phase2 => "HANDLER_FRAME" \notin actions /\ Marked(obj)
  /\ pad.kind = "cleanup" => Marked(pad.obj)

IInv == Types /\ OnTheStack /\ StopPointer /\ AskedSoFar /\ Passed /\ Marks
-----------------------------------------------------------------------------
\* What the type says of the records.
LEMMA RecordTypes ==
  ASSUME Types
  PROVE  /\ pad.obj \in Objects /\ pad.kind \in {NoPad, "cleanup", "handler"}
         /\ Len(stack) \in Nat /\ \A n \in 1..Len(stack) : stack[n] \in Ips
         /\ \A o \in Objects : exc[o].private_1 \in {"NULL", "stop"}
BY DEF Types

\* A step that leaves the stack, the objects and the landing pad alone, and phase 2.
LEMMA LeavesWalk ==
  ASSUME IInv, UNCHANGED <<stack, exc, forced, handler, pad>>, obj' \in Objects,
         cursor' \in Nat, end_of_stack' \in BOOLEAN, pc' \in {"user", "panic"}
  PROVE  IInv'
<1>1. Types'
  BY DEF IInv, Types
<1>2. OnTheStack' /\ AskedSoFar' /\ Passed'
  BY DEF OnTheStack, AskedSoFar, StopIsAskedFirst, Passed, Walking
<1>3. StopPointer'
  BY DEF IInv, StopPointer
<1>4. Marks'
  <2>1. \A o \in Objects : Marked(o)' <=> Marked(o)
    BY DEF Marked, IsHandler
  <2> QED BY <2>1, RecordTypes DEF IInv, Marks, Phase2
<1> QED BY <1>1, <1>2, <1>3, <1>4 DEF IInv

\* The initial state.
LEMMA InitInv == Init => IInv
<1> SUFFICES ASSUME Init PROVE IInv
  OBVIOUS
<1>1. obj \in Objects
  BY UnwindAssumption DEF Init
<1>2. Types
  BY <1>1, UnwindAssumption DEF Init, Types, NoPad
<1>3. OnTheStack /\ AskedSoFar /\ Passed
  BY DEF Init, OnTheStack, AskedSoFar, StopIsAskedFirst, Passed, Walking
<1>4. StopPointer
  BY DEF Init, StopPointer
<1>5. Marks
  BY DEF Init, Marks, Phase2, NoPad
<1> QED BY <1>2, <1>3, <1>4, <1>5 DEF IInv

\* The calls of the interface that start phase 1, or a backtrace.
LEMMA StartsSearch ==
  ASSUME IInv, NEW o \in Objects, NEW name, NEW start \in {"phase1", "backtrace"},
         Call(name, o, start), UNCHANGED <<exc, forced>>
  PROVE  IInv'
<1> USE DEF Call, _Unwind_InitContext
<1>0. UNCHANGED <<stack, exc, forced, handler, pad>>
  OBVIOUS
<1>1. Types'
  BY DEF IInv, Types, Walking
<1>2. OnTheStack' /\ AskedSoFar' /\ Passed'
  BY <1>0, RecordTypes DEF IInv, OnTheStack, AskedSoFar, StopIsAskedFirst, Passed, Walking
<1>3. StopPointer'
  BY DEF IInv, StopPointer
<1>4. Marks'
  <2>1. \A p \in Objects : Marked(p)' <=> Marked(p)
    BY <1>0 DEF Marked, IsHandler
  <2> QED BY <1>0, <2>1, RecordTypes DEF IInv, Marks, Phase2
<1> QED BY <1>1, <1>2, <1>3, <1>4 DEF IInv

\* The calls of the interface that start phase 2, for an object that has a handler or
\* a stop function.
LEMMA StartsPhase2 ==
  ASSUME IInv, NEW o \in Objects, NEW name, Call(name, o, "phase2"),
         UNCHANGED <<exc, forced>>, "HANDLER_FRAME" \notin actions', Marked(o)
  PROVE  IInv'
<1> USE DEF Call, _Unwind_InitContext
<1>0. UNCHANGED <<stack, exc, forced, handler, pad>> /\ obj' = o /\ cursor' = 0
  OBVIOUS
<1>1. Types'
  BY DEF IInv, Types, Walking
<1>2. OnTheStack' /\ Passed'
  BY <1>0, RecordTypes DEF IInv, OnTheStack, Passed, Walking
<1>3. AskedSoFar'
  BY <1>0 DEF AskedSoFar, StopIsAskedFirst
<1>4. StopPointer'
  BY DEF IInv, StopPointer
<1>5. Marks'
  <2>1. \A p \in Objects : Marked(p)' <=> Marked(p)
    BY <1>0 DEF Marked, IsHandler
  <2> QED BY <1>0, <2>1, RecordTypes DEF IInv, Marks, Phase2
<1> QED BY <1>1, <1>2, <1>3, <1>4, <1>5 DEF IInv

\* Every call of the interface keeps the invariant.
LEMMA Interface_Inv == IInv /\ Interface => IInv'
<1> SUFFICES ASSUME IInv, Interface PROVE IInv'
  OBVIOUS
<1>1. ASSUME NEW o \in Objects, _Unwind_RaiseException(o) PROVE IInv'
  BY <1>1, StartsSearch DEF _Unwind_RaiseException
<1>2. ASSUME NEW o \in Objects, _Unwind_ForcedUnwind(o) PROVE IInv'
  <2>0. /\ UNCHANGED <<stack, handler, pad>> /\ obj' = o /\ cursor' = 0 /\ ~end_of_stack'
        /\ pc' = "phase2" /\ asked' = {}
        /\ exc' = [exc EXCEPT ![o] = [private_1 |-> "stop", private_2 |-> 0]]
        /\ forced' = [forced EXCEPT ![o] = TRUE]
    BY <1>2 DEF _Unwind_ForcedUnwind, Call, _Unwind_InitContext
  <2>1. Types'
    <3>1. [private_1 |-> "stop", private_2 |-> 0]
            \in [private_1 : {"NULL", "stop"}, private_2 : Ips \cup {0}]
      OBVIOUS
    <3>2. /\ exc' \in [Objects -> [private_1 : {"NULL", "stop"}, private_2 : Ips \cup {0}]]
          /\ forced' \in [Objects -> BOOLEAN]
      BY <2>0, <3>1 DEF IInv, Types
    <3>3. end_of_stack' = FALSE
      BY <1>2 DEF _Unwind_ForcedUnwind, Call, _Unwind_InitContext
    <3> QED BY <2>0, <3>2, <3>3 DEF IInv, Types, Walking
  <2>2. OnTheStack' /\ Passed' /\ AskedSoFar'
    BY <2>0, RecordTypes DEF IInv, OnTheStack, Passed, Walking, AskedSoFar, StopIsAskedFirst
  <2>3. StopPointer'
    BY <2>0 DEF IInv, Types, StopPointer
  <2>4. Marked(o)' /\ \A p \in Objects : p # o => (Marked(p)' <=> Marked(p))
    BY <2>0 DEF IInv, Types, Marked, IsHandler
  <2>5. "HANDLER_FRAME" \notin actions'
    BY <1>2 DEF _Unwind_ForcedUnwind, Phase2Actions
  <2>6. Marks'
    BY <2>0, <2>4, <2>5, RecordTypes DEF IInv, Marks
  <2> QED BY <2>1, <2>2, <2>3, <2>6 DEF IInv
<1>3. ASSUME NEW o \in Objects, ForcedUnwindNoStop(o) PROVE IInv'
  BY <1>3, LeavesWalk DEF ForcedUnwindNoStop, history, IInv, Types
<1>4. CASE _Unwind_Resume
  <2>1. pad.obj \in Objects /\ Marked(pad.obj)
    BY <1>4, RecordTypes DEF _Unwind_Resume, IInv, Marks
  <2>2. "HANDLER_FRAME" \notin actions'
    BY <1>4 DEF _Unwind_Resume, Phase2Actions
  <2> QED BY <1>4, <2>1, <2>2, StartsPhase2 DEF _Unwind_Resume
<1>5. CASE _Unwind_Resume_or_Rethrow
  <2>0. pad.obj \in Objects
    BY RecordTypes DEF IInv
  <2>1. CASE exc[pad.obj].private_1 = "stop"
    <3>1. Call("Resume_or_Rethrow", pad.obj, "phase2") /\ UNCHANGED <<exc, forced>>
      BY <1>5, <2>1 DEF _Unwind_Resume_or_Rethrow
    <3>2. "HANDLER_FRAME" \notin actions'
      BY <1>5, <2>1 DEF _Unwind_Resume_or_Rethrow, Phase2Actions
    <3>3. Marked(pad.obj)
      BY <2>0, <2>1 DEF IInv, StopPointer, Marked
    <3> QED BY <2>0, <3>1, <3>2, <3>3, StartsPhase2
  <2>2. CASE exc[pad.obj].private_1 # "stop"
    <3>1. Call("Resume_or_Rethrow", pad.obj, "phase1") /\ UNCHANGED <<exc, forced>>
      BY <1>5, <2>2 DEF _Unwind_Resume_or_Rethrow
    <3> QED BY <2>0, <3>1, StartsSearch
  <2> QED BY <2>1, <2>2
<1>6. CASE _Unwind_Backtrace
  BY <1>6, StartsSearch DEF _Unwind_Backtrace, IInv, Types
<1> QED BY <1>1, <1>2, <1>3, <1>4, <1>5, <1>6 DEF Interface

\* Phase 1 passes a frame.
LEMMA SearchOn_Inv == IInv /\ SearchOn => IInv'
<1> SUFFICES ASSUME IInv, SearchOn PROVE IInv'
  OBVIOUS
<1>1. /\ pc = "phase1" /\ cursor < Len(stack) /\ cursor' = cursor + 1
      /\ UNCHANGED <<stack, exc, pc, obj, end_of_stack, pad, asked, forced, handler>>
  BY DEF SearchOn, StepTo, history
<1>2. Kind[stack[cursor + 1]] \notin HandlerKinds
  BY <1>1 DEF SearchOn, Search, HandlerKinds
<1>3. Types' /\ OnTheStack' /\ StopPointer'
  BY <1>1, RecordTypes DEF IInv, Types, OnTheStack, StopPointer
<1>4. AskedSoFar'
  BY <1>1 DEF IInv, AskedSoFar, StopIsAskedFirst
<1>5. Passed'
  BY <1>1, <1>2 DEF IInv, Types, Passed
<1>6. Marks'
  BY <1>1 DEF IInv, Marks, Marked, IsHandler, Phase2
<1> QED BY <1>3, <1>4, <1>5, <1>6 DEF IInv

\* Phase 1 finds the handler and marks it in the exception object.
LEMMA HandlerFound_Inv == IInv /\ HandlerFound => IInv'
<1> SUFFICES ASSUME IInv, HandlerFound PROVE IInv'
  OBVIOUS
<1>0. PICK h \in Nat : h = cursor + 1
  BY DEF IInv, Types
<1>1. /\ pc = "phase1" /\ cursor < Len(stack) /\ h \in 1..Len(stack) /\ obj \in Objects
      /\ cursor' = 0 /\ pc' = "phase2"
      /\ exc' = [exc EXCEPT ![obj] = FrameMarker(stack[h])]
      /\ forced' = [forced EXCEPT ![obj] = FALSE]
      /\ handler' = [handler EXCEPT ![obj] = Len(stack) - h]
      /\ UNCHANGED <<stack, obj, end_of_stack, pad, asked>>
  BY <1>0, RecordTypes DEF HandlerFound, ResetCursor, IInv, Types
<1>2. Kind[stack[h]] \in HandlerKinds
  BY <1>0, <1>1 DEF HandlerFound, Search, HandlerKinds
<1>3. /\ FrameMarker(stack[h]) \in [private_1 : {"NULL", "stop"}, private_2 : Ips \cup {0}]
      /\ FrameMarker(stack[h]).private_1 = "NULL" /\ FrameMarker(stack[h]).private_2 = stack[h]
  BY <1>1, RecordTypes DEF FrameMarker, IInv
<1>4. Types'
  BY <1>1, <1>3, RecordTypes DEF IInv, Types, Walking
<1>5. OnTheStack' /\ Passed'
  BY <1>1, RecordTypes DEF IInv, OnTheStack, Passed, Walking
<1>6. StopPointer'
  BY <1>1, <1>3 DEF IInv, Types, StopPointer
<1>7. AskedSoFar'
  BY <1>1 DEF IInv, Types, AskedSoFar, StopIsAskedFirst
<1>8. \A p \in Objects : p # obj => (Marked(p)' <=> Marked(p))
  BY <1>1 DEF IInv, Types, Marked, IsHandler
<1>9. IsHandler(obj, h)'
  <2>1. Len(stack) - h = handler'[obj]
    BY <1>1 DEF IInv, Types
  <2>2. stack[h] = exc'[obj].private_2
    BY <1>1, <1>3 DEF IInv, Types
  <2>3. \A n \in 1..(h - 1) : Kind[stack[n]] \notin HandlerKinds
    BY <1>0, <1>1 DEF IInv, Types, Passed
  <2> QED BY <1>1, <1>2, <2>1, <2>2, <2>3 DEF IsHandler
<1>10. Marked(obj)'
  BY <1>1, <1>9 DEF Marked
<1>11. "HANDLER_FRAME" \notin actions'
  BY DEF HandlerFound, Phase2Actions
<1>12. Marks'
  BY <1>1, <1>8, <1>10, <1>11, RecordTypes DEF IInv, Marks
<1> QED BY <1>4, <1>5, <1>6, <1>7, <1>12 DEF IInv

\* The calls that return.
LEMMA Returns_Inv == IInv /\ (SearchFails \/ Phase2Fails \/ TraceEnds) => IInv'
<1> SUFFICES ASSUME IInv, SearchFails \/ Phase2Fails \/ TraceEnds PROVE IInv'
  OBVIOUS
<1>1. UNCHANGED <<stack, exc, forced, handler, pad, obj, end_of_stack>>
  BY DEF SearchFails, Phase2Fails, TraceEnds, history
<1>2. pc' \in {"user", "panic"}
  BY DEF SearchFails, Phase2Fails, TraceEnds, Return
<1>3. cursor' \in Nat
  BY DEF SearchFails, Phase2Fails, TraceEnds, StepTo, StepEnds, IInv, Types
<1> QED BY <1>1, <1>2, <1>3, LeavesWalk DEF IInv, Types

\* _Unwind_Backtrace calls back for a frame.
LEMMA Trace_Inv == IInv /\ Trace => IInv'
<1> SUFFICES ASSUME IInv, Trace PROVE IInv'
  OBVIOUS
<1>1. /\ pc = "backtrace" /\ cursor < Len(stack) /\ cursor' = cursor + 1
      /\ UNCHANGED <<stack, exc, obj, end_of_stack, pad, forced, handler>>
  BY DEF Trace, StepTo
<1>2. CASE pc' = pc
  <2>1. Types' /\ OnTheStack' /\ StopPointer'
    BY <1>1, <1>2, RecordTypes DEF IInv, Types, OnTheStack, StopPointer
  <2>2. AskedSoFar' /\ Passed'
    BY <1>1, <1>2 DEF AskedSoFar, StopIsAskedFirst, Passed
  <2>3. Marks'
    BY <1>1, <1>2 DEF IInv, Marks, Marked, IsHandler, Phase2
  <2> QED BY <2>1, <2>2, <2>3 DEF IInv
<1>3. CASE pc' \in {"user", "panic"}
  BY <1>1, <1>3, LeavesWalk DEF IInv, Types
<1> QED BY <1>2, <1>3 DEF Trace, Return

\* Phase 2 steps to a frame, or to the end of the stack.
LEMMA Phase2Step_Inv == IInv /\ Phase2Step => IInv'
<1> SUFFICES ASSUME IInv, Phase2Step PROVE IInv'
  OBVIOUS
<1>1. /\ pc = "phase2" /\ pc' = IF stop THEN "stop" ELSE "frame"
      /\ UNCHANGED <<stack, exc, obj, pad, asked, forced, handler>>
  BY DEF Phase2Step, history
<1>2. stop <=> forced[obj]
  BY DEF IInv, Types, StopPointer, stop
<1>3. /\ cursor \in Nat /\ cursor' \in Nat /\ end_of_stack' \in BOOLEAN
      /\ cursor' <= Len(stack) /\ (end_of_stack' \/ cursor' >= 1)
      /\ Position' = cursor + 1
  <2>1. CASE StepTo /\ UNCHANGED <<actions, end_of_stack>>
    BY <2>1, <1>1, RecordTypes DEF StepTo, IInv, Types, OnTheStack, Position
  <2>2. CASE StepEnds /\ end_of_stack' = TRUE
    BY <2>2, RecordTypes DEF StepEnds, IInv, Types, Position
  <2> QED BY <2>1, <2>2 DEF Phase2Step
<1>4. "HANDLER_FRAME" \notin actions'
  BY <1>1 DEF Phase2Step, IInv, Marks, Phase2
<1>5. Types' /\ OnTheStack'
  BY <1>1, <1>3 DEF IInv, Types, OnTheStack, Walking
<1>6. StopPointer'
  BY <1>1 DEF IInv, StopPointer
<1>7. AskedSoFar'
  <2>1. CASE forced[obj]
    BY <2>1, <1>1, <1>2, <1>3 DEF IInv, AskedSoFar, StopIsAskedFirst
  <2>2. CASE ~forced[obj]
    BY <2>2, <1>1, <1>2, <1>3 DEF IInv, AskedSoFar, StopIsAskedFirst
  <2> QED BY <2>1, <2>2
<1>8. Passed'
  BY <1>1, <1>3 DEF IInv, Passed
<1>9. Marks'
  <2>1. \A o \in Objects : Marked(o)' <=> Marked(o)
    BY <1>1 DEF Marked, IsHandler
  <2> QED BY <1>1, <1>4, <2>1, RecordTypes DEF IInv, Types, Marks, Phase2
<1> QED BY <1>5, <1>6, <1>7, <1>8, <1>9 DEF IInv

\* The stop function lets phase 2 go on.
LEMMA StopContinues_Inv == IInv /\ StopContinues => IInv'
<1> SUFFICES ASSUME IInv, StopContinues PROVE IInv'
  OBVIOUS
<1>1. /\ pc = "stop" /\ pc' = "frame" /\ asked' = asked \cup {Position}
      /\ UNCHANGED <<stack, exc, obj, cursor, actions, end_of_stack, pad, forced, handler>>
  BY DEF StopContinues
<1>2. Position' = Position /\ Position \in Nat \ {0}
  BY <1>1 DEF IInv, Types, OnTheStack, Position
<1>3. Types' /\ OnTheStack' /\ StopPointer'
  BY <1>1 DEF IInv, Types, OnTheStack, StopPointer, Walking
<1>4. AskedSoFar'
  <2>1. forced[obj] /\ asked = 1..(Position - 1)
    BY <1>1 DEF IInv, AskedSoFar
  <2>2. asked' = 1..Position
    BY <1>1, <1>2, <2>1
  <2> QED BY <1>1, <1>2, <2>1, <2>2 DEF AskedSoFar, StopIsAskedFirst
<1>5. Passed'
  BY <1>1, <1>2 DEF IInv, Passed
<1>6. Marks'
  BY <1>1 DEF IInv, Marks, Marked, IsHandler, Phase2
<1> QED BY <1>3, <1>4, <1>5, <1>6 DEF IInv

\* Phase 2 passes a frame without a personality routine.
LEMMA NoPersonality_Inv == IInv /\ NoPersonality => IInv'
<1> SUFFICES ASSUME IInv, NoPersonality PROVE IInv'
  OBVIOUS
<1>1. /\ pc = "frame" /\ ~end_of_stack /\ Kind[stack[cursor]] = "plain" /\ pc' = "phase2"
      /\ UNCHANGED <<stack, exc, obj, cursor, actions, end_of_stack, pad, asked, forced,
                     handler>>
  BY DEF NoPersonality, AtFrame, history
<1>2. Position = cursor
  BY <1>1 DEF Position
<1>3. Types' /\ OnTheStack' /\ StopPointer'
  BY <1>1 DEF IInv, Types, OnTheStack, StopPointer, Walking
<1>4. AskedSoFar'
  BY <1>1, <1>2 DEF IInv, AskedSoFar, StopIsAskedFirst
<1>5. Passed'
  BY <1>1, <1>2 DEF IInv, Types, Passed
<1>6. Marks'
  BY <1>1 DEF IInv, Marks, Marked, IsHandler, Phase2
<1> QED BY <1>3, <1>4, <1>5, <1>6 DEF IInv

\* The panic behind _URC_CONTINUE_UNWIND.
LEMMA ContinueUnwind_Inv == IInv /\ ContinueUnwind => IInv'
BY LeavesWalk DEF ContinueUnwind, history, IInv, Types
-----------------------------------------------------------------------------
\* The stack a landing pad finds itself on.
LEMMA LandedStack ==
  ASSUME NEW s \in Seq(Ips), NEW c \in 1..Len(s), NEW ip \in Ips
  PROVE  /\ <<ip>> \o SubSeq(s, c + 1, Len(s)) \in Seq(Ips)
         /\ Len(<<ip>> \o SubSeq(s, c + 1, Len(s))) = Len(s) - c + 1
         /\ (<<ip>> \o SubSeq(s, c + 1, Len(s)))[1] = ip
         /\ \A n \in 2..(Len(s) - c + 1) :
              (<<ip>> \o SubSeq(s, c + 1, Len(s)))[n] = s[n + c - 1]
<1> DEFINE t == SubSeq(s, c + 1, Len(s))
<1>1. Len(s) \in Nat /\ c \in Nat /\ \A n \in (c + 1)..Len(s) : s[n] \in Ips
  OBVIOUS
<1>2. /\ t \in Seq(Ips) /\ Len(t) = Len(s) - c
      /\ \A n \in 1..(Len(s) - c) : t[n] = s[c + n]
  BY <1>1, SubSeqProperties
<1>3. <<ip>> \in Seq(Ips) /\ Len(<<ip>>) = 1 /\ <<ip>>[1] = ip
  OBVIOUS
<1> QED BY <1>1, <1>2, <1>3, ConcatProperties

\* A personality routine is told that its frame is the handler's exactly when the frame
\* marker is its ip and the unwinding is not a forced one.
LEMMA ToldHandler ==
  ASSUME IInv, AtFrame
  PROVE  "HANDLER_FRAME" \in FrameActions
           <=> ~forced[obj] /\ exc[obj].private_2 = stack[cursor]
<1>1. "HANDLER_FRAME" \notin actions
  BY DEF AtFrame, IInv, Marks, Phase2
<1>2. stop <=> forced[obj]
  BY DEF IInv, Types, StopPointer, stop
<1> QED BY <1>1, <1>2 DEF FrameActions

\* What Install leaves of the stack, and what it left behind.
LEMMA InstallStack ==
  ASSUME IInv, Install
  PROVE  /\ cursor \in 1..Len(stack) /\ Len(stack) \in Nat /\ stack' \in Seq(Ips)
         /\ Len(stack') = Len(stack) - cursor + 1
         /\ \A n \in 2..(Len(stack) - cursor + 1) : stack'[n] = stack[n + cursor - 1]
         /\ Kind[stack'[1]] \in {"continue", "cleanup"}
         /\ \A n \in 1..(cursor - 1) : Kind[stack[n]] = "plain"
<1>1. pc = "frame" /\ ~end_of_stack /\ Position = cursor
  BY DEF Install, AtFrame, Position
<1>2. cursor \in 1..Len(stack) /\ Len(stack) \in Nat /\ stack \in Seq(Ips)
  BY <1>1, RecordTypes DEF IInv, Types, OnTheStack, Walking
<1>3. PICK ip \in Pads : stack' = <<ip>> \o SubSeq(stack, cursor + 1, Len(stack))
  BY DEF Install
<1>4. ip \in Ips /\ Kind[ip] \in {"continue", "cleanup"}
  BY <1>3, UnwindAssumption
<1>5. \A n \in 1..(cursor - 1) : Kind[stack[n]] = "plain"
  BY <1>1 DEF IInv, Passed
<1> QED BY <1>2, <1>3, <1>4, <1>5, LandedStack

\* Every frame before the cursor is plain, so a handler phase 1 has found is not inside it.
LEMMA HandlerAhead ==
  ASSUME IInv, Install, NEW h \in 1..Len(stack), IsHandler(obj, h)
  PROVE  h >= cursor
<1>1. Kind[stack[h]] # "plain"
  BY DEF IsHandler, HandlerKinds
<1> QED BY <1>1, InstallStack

\* A landing pad that is told it is the handler's is the one phase 1 has chosen.
LEMMA InstallHandler ==
  ASSUME IInv, Install, "HANDLER_FRAME" \in FrameActions
  PROVE  Len(stack) - cursor = handler[obj] /\ Kind[stack[cursor]] = "catch"
<1>1. AtFrame /\ pc \in Phase2
  BY DEF Install, AtFrame, Phase2
<1>2. ~forced[obj] /\ exc[obj].private_2 = stack[cursor]
  BY <1>1, ToldHandler
<1>3. PICK h \in 1..Len(stack) : IsHandler(obj, h)
  BY <1>1, <1>2 DEF IInv, Marks, Marked
<1>4. Kind[stack[cursor]] \in HandlerKinds
  BY <1>2, <1>3 DEF IsHandler
<1>5. h >= cursor
  BY <1>3, HandlerAhead
<1>6. ASSUME cursor < h PROVE FALSE
  <2>1. cursor \in 1..(h - 1)
    BY <1>6, InstallStack
  <2> QED BY <2>1, <1>3, <1>4 DEF IsHandler
<1>7. h = cursor
  BY <1>5, <1>6, InstallStack
<1>8. Kind[stack[cursor]] = "catch"
  BY <1>4 DEF HandlerKinds, Install, Cleanup
<1> QED BY <1>3, <1>7, <1>8 DEF IsHandler

\* A cleanup leaves the handler of the exception where it is.
LEMMA InstallCleanup ==
  ASSUME IInv, Install, "HANDLER_FRAME" \notin FrameActions
  PROVE  Marked(obj)'
<1>0. /\ AtFrame /\ pc \in Phase2 /\ obj \in Objects
      /\ UNCHANGED <<exc, obj, forced, handler>>
  BY DEF Install, AtFrame, Phase2, IInv, Types, history
<1>1. Kind[stack[cursor]] = "cleanup"
  BY DEF Install, Cleanup
<1>2. CASE forced[obj]
  BY <1>0, <1>2 DEF Marked
<1>3. CASE ~forced[obj]
  <2>1. PICK h \in 1..Len(stack) : IsHandler(obj, h)
    BY <1>0, <1>3 DEF IInv, Marks, Marked
  <2>2. h # cursor
    BY <2>1, <1>1 DEF IsHandler, HandlerKinds
  <2>3. h > cursor
    BY <2>1, <2>2, HandlerAhead, InstallStack
  <2>4. PICK g \in Nat : g = h - cursor + 1
    BY <2>3, InstallStack
  <2>5. g \in 2..Len(stack') /\ stack'[g] = stack[h] /\ Len(stack') - g = Len(stack) - h
    BY <2>3, <2>4, InstallStack
  <2>6. ASSUME NEW n \in 1..(g - 1) PROVE Kind[stack'[n]] \notin HandlerKinds
    <3>1. CASE n = 1
      BY <3>1, InstallStack DEF HandlerKinds
    <3>2. CASE n # 1
      <4>1. n \in 2..(Len(stack) - cursor + 1) /\ n + cursor - 1 \in 1..(h - 1)
        BY <3>2, <2>3, <2>4, InstallStack
      <4> QED BY <4>1, <2>1, InstallStack DEF IsHandler
    <3> QED BY <3>1, <3>2
  <2>7. IsHandler(obj, g)'
    BY <1>0, <2>1, <2>5, <2>6 DEF IsHandler
  <2> QED BY <1>0, <2>5, <2>7 DEF Marked
<1> QED BY <1>2, <1>3

\* A personality routine gets its landing pad.
LEMMA Install_Inv == IInv /\ Install => IInv'
<1> SUFFICES ASSUME IInv, Install PROVE IInv'
  OBVIOUS
<1>1. /\ pc' = "user"
      /\ UNCHANGED <<exc, obj, cursor, end_of_stack, forced, handler>>
  BY DEF Install, history
<1>2. /\ pad'.obj = obj
      /\ pad' \in [kind : {NoPad, "cleanup", "handler"}, obj : Objects]
      /\ pad'.kind = "cleanup" => "HANDLER_FRAME" \notin FrameActions
  <2>1. pad' = [kind |-> IF "HANDLER_FRAME" \in FrameActions THEN "handler" ELSE "cleanup",
                obj |-> obj] /\ obj \in Objects
    BY DEF Install, IInv, Types
  <2> QED BY <2>1
<1>3. Types'
  BY <1>1, <1>2, InstallStack DEF IInv, Types
<1>4. OnTheStack' /\ AskedSoFar' /\ Passed' /\ StopPointer'
  BY <1>1 DEF IInv, OnTheStack, AskedSoFar, StopIsAskedFirst, Passed, Walking, StopPointer
<1>5. Marks'
  <2>1. pad'.kind = "cleanup" => Marked(obj)'
    BY <1>2, InstallCleanup
  <2>2. Marked(obj)' => Marked(pad.obj)'
    BY <1>1, <1>2 DEF Marked, IsHandler
  <2> QED BY <1>1, <2>1, <2>2 DEF Marks, Phase2
<1> QED BY <1>3, <1>4, <1>5 DEF IInv

LEMMA NextInv == IInv /\ [Next]_vars => IInv'
<1> SUFFICES ASSUME IInv, [Next]_vars PROVE IInv'
  OBVIOUS
<1>1. CASE UNCHANGED vars
  BY <1>1 DEF vars, history, IInv, Types, OnTheStack, StopPointer, AskedSoFar,
              StopIsAskedFirst, Position, Passed, Marks, Marked, IsHandler
<1>2. CASE Unwinder
  BY <1>2, SearchOn_Inv, HandlerFound_Inv, Returns_Inv, Phase2Step_Inv, StopContinues_Inv,
     NoPersonality_Inv, Install_Inv, ContinueUnwind_Inv, Trace_Inv DEF Unwinder
<1> QED BY <1>1, <1>2, Interface_Inv DEF Next, Done

\* The inductive invariant of the exception interface holds in every reachable state.
THEOREM Invariance == Spec => []IInv
BY InitInv, NextInv, PTL DEF Spec

\* For any program, the stop function of a forced unwinding is asked about every frame
\* before the frame's personality routine runs, and never for an exception that was raised
\* (Unwind.c:105-106, 306).
THEOREM StopAskedCorrect == Spec => []StopIsAskedFirst
<1>1. IInv => StopIsAskedFirst
  BY DEF IInv, AskedSoFar
<1> QED BY <1>1, Invariance, PTL

\* For any program, phase 2 ends in the very frame phase 1 chose, although the frame marker
\* is an ip only (Unwind.c:299-303, unwind-internal.h:121).
THEOREM HandlerCorrect == Spec => HandlerIsTheOneFound
<1>1. IInv /\ [Next]_vars => [Install /\ pad'.kind = "handler" => Len(stack') = handler[obj] + 1]_vars
  <2> SUFFICES ASSUME IInv, Install, pad'.kind = "handler"
               PROVE  Len(stack') = handler[obj] + 1
    OBVIOUS
  <2>1. "HANDLER_FRAME" \in FrameActions
    BY DEF Install
  <2> QED BY <2>1, InstallHandler, InstallStack
<1> QED BY <1>1, Invariance, PTL DEF Spec, HandlerIsTheOneFound

\* For any program, phase 2 leaves no frame behind whose cleanup has not run
\* (Unwind.c:311-312, unwind-internal.h:113-126).
THEOREM CleanupsCorrect == Spec => NoCleanupSkipped
<1>1. IInv /\ [Next]_vars =>
        [Len(stack') < Len(stack) =>
           \A n \in 1..(Len(stack) - Len(stack')) : Kind[stack[n]] # "cleanup"]_vars
  <2> SUFFICES ASSUME IInv, Next, Len(stack') < Len(stack),
                      NEW n \in 1..(Len(stack) - Len(stack'))
               PROVE  Kind[stack[n]] # "cleanup"
    BY DEF vars
  <2>1. stack' # stack
    OBVIOUS
  <2>2. Install
    BY <2>1 DEF Next, Interface, Unwinder, Done, vars, _Unwind_RaiseException,
                _Unwind_ForcedUnwind, ForcedUnwindNoStop, _Unwind_Resume,
                _Unwind_Resume_or_Rethrow, _Unwind_Backtrace, Call, SearchOn, HandlerFound,
                SearchFails, Phase2Step, StopContinues, Phase2Fails, NoPersonality,
                ContinueUnwind, Trace, TraceEnds
  <2>3. n \in 1..(cursor - 1)
    BY <2>2, InstallStack
  <2> QED BY <2>2, <2>3, InstallStack
<1> QED BY <1>1, Invariance, PTL DEF Spec, NoCleanupSkipped
=============================================================================
