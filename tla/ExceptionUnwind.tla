-------------------------- MODULE ExceptionUnwind --------------------------
(***************************************************************************)
(* The exception interface of the C++ ABI (Unwind.c, unwind-internal.h):   *)
(* _Unwind_RaiseException looks for a handler (phase 1) and, once it has   *)
(* found one, walks the stack again to run the cleanups on the way to it   *)
(* (phase 2).  _Unwind_ForcedUnwind runs phase 2 alone, under the control  *)
(* of a stop function, and _Unwind_Resume continues phase 2 after a        *)
(* cleanup.  What links the calls is the exception object: private_1 holds *)
(* the stop function, private_2 the ip of the handler's frame.             *)
(*                                                                         *)
(* unw_step and unw_get_proc_info are seen through their results: the      *)
(* frames of the stack one after the other, then the end of the stack or   *)
(* an error.  unw_get_proc_info never fails on x86-64                      *)
(* (Gget_proc_info.c:35-47): a function without unwind information is one  *)
(* without a personality routine.  The programs around the unwinder, their *)
(* personality routines and stop functions are external.                   *)
(***************************************************************************)
EXTENDS Integers, Sequences

CONSTANTS Ips,      \* return addresses
          Kind,     \* Kind[ip]: what the function does about an exception there
          Pads,     \* the ips at which a landing pad calls the unwinder again
          Objects,  \* exception objects
          Stacks,   \* the call chains a program may raise an exception in
          MaxCalls  \* bound on the calls of one behaviour

(***************************************************************************)
(* The kinds of call sites: "plain", no personality routine; "continue",   *)
(* nothing to do; "cleanup"; "catch"; "fickle", which announces a handler  *)
(* and then changes its mind; "error", whose personality routine fails.    *)
(***************************************************************************)
Kinds == {"plain", "continue", "cleanup", "catch", "fickle", "error"}

ASSUME UnwindAssumption ==
  /\ Kind \in [Ips -> Kinds]
  /\ Pads \subseteq {ip \in Ips : Kind[ip] \in {"continue", "cleanup"}}
  /\ Objects # {}
  /\ Stacks \subseteq Seq(Ips)
  /\ MaxCalls \in Nat

VARIABLES
  stack,         \* the return addresses, the innermost frame first
  bottom,        \* what unw_step returns after the last frame
  exc,           \* exc[o]: private_1 and private_2 of exception object o
  pc,            \* what the thread does next
  op,            \* the function of the interface that was called last
  obj,           \* its exception_object
  cursor,        \* context.cursor: the frame it is at, 0 for the unwinder's own
  actions,       \* _Unwind_Phase2's actions
  end_of_stack,  \* context.end_of_stack
  ret,           \* what the last call returned
  pad,           \* the landing pad the program is in, and for which object
  calls,         \* how many calls the program has made
  asked,         \* history: the frames of this walk a callback was called for
  forced,        \* history: forced[o], o's last unwinding is a forced one
  handler        \* history: handler[o], how many frames phase 1 found o's handler below

history == <<asked, forced, handler>>
vars == <<stack, bottom, exc, pc, op, obj, cursor, actions, end_of_stack, ret, pad,
          calls, history>>

NoPad == "none"

Init ==
  /\ stack \in Stacks
  /\ bottom \in {"end", "error"}
  /\ exc = [o \in Objects |-> [private_1 |-> "NULL", private_2 |-> 0]]
  /\ pc = "user"
  /\ op = "none"
  /\ obj = CHOOSE o \in Objects : TRUE
  /\ cursor = 0
  /\ actions = {}
  /\ end_of_stack = FALSE
  /\ ret = "none"
  /\ pad = [kind |-> NoPad, obj |-> obj]
  /\ calls = 0
  /\ asked = {}
  /\ forced = [o \in Objects |-> FALSE]
  /\ handler = [o \in Objects |-> 0]
-----------------------------------------------------------------------------
_Unwind_InitContext == cursor' = 0 /\ end_of_stack' = FALSE

\* The program calls the unwinder, which initialises its context and goes on at
\* `start'.
Call(name, o, start) ==
  /\ pc = "user" /\ calls < MaxCalls
  /\ calls' = calls + 1
  /\ op' = name
  /\ obj' = o
  /\ _Unwind_InitContext
  /\ asked' = {}
  /\ pc' = start
  /\ UNCHANGED <<stack, bottom, ret, pad, handler>>

\* The call returns; _Unwind_Resume, which must not, panics.
Return(code) ==
  /\ ret' = code
  /\ pc' = IF op = "Resume" THEN "panic" ELSE "user"

\* The first statements of _Unwind_Phase2.
Phase2Actions(o, private_1) ==
  {"CLEANUP_PHASE"} \cup (IF private_1 = "stop" THEN {"FORCE_UNWIND"} ELSE {})

_Unwind_RaiseException(o) ==
  /\ Call("RaiseException", o, "phase1")
  /\ UNCHANGED <<exc, actions, forced>>

_Unwind_ForcedUnwind(o) ==
  /\ Call("ForcedUnwind", o, "phase2")
  /\ exc' = [exc EXCEPT ![o] = [private_1 |-> "stop", private_2 |-> 0]]
  /\ actions' = Phase2Actions(o, "stop")
  /\ forced' = [forced EXCEPT ![o] = TRUE]

\* _Unwind_ForcedUnwind without a stop function fails at once.
ForcedUnwindNoStop(o) ==
  /\ pc = "user" /\ calls < MaxCalls
  /\ calls' = calls + 1
  /\ op' = "ForcedUnwind"
  /\ obj' = o
  /\ ret' = "FATAL_PHASE2_ERROR"
  /\ UNCHANGED <<stack, bottom, exc, pc, cursor, actions, end_of_stack, pad, history>>

\* A cleanup ends in a call of _Unwind_Resume.
_Unwind_Resume ==
  /\ pad.kind = "cleanup"
  /\ Call("Resume", pad.obj, "phase2")
  /\ actions' = Phase2Actions(pad.obj, exc[pad.obj].private_1)
  /\ UNCHANGED <<exc, forced>>

\* A handler rethrows the exception; a catch-all that a forced unwinding entered
\* as a cleanup does too.
_Unwind_Resume_or_Rethrow ==
  /\ pad.kind # NoPad
  /\ LET private_1 == exc[pad.obj].private_1
     IN IF private_1 = "stop"
          THEN /\ Call("Resume_or_Rethrow", pad.obj, "phase2")
               /\ actions' = Phase2Actions(pad.obj, private_1)
          ELSE /\ Call("Resume_or_Rethrow", pad.obj, "phase1")
               /\ UNCHANGED actions
  /\ UNCHANGED <<exc, forced>>

_Unwind_Backtrace ==
  /\ Call("Backtrace", obj, "backtrace")
  /\ UNCHANGED <<exc, actions, forced>>
-----------------------------------------------------------------------------
\* unw_step finds another frame.
StepTo == cursor < Len(stack) /\ cursor' = cursor + 1

\* unw_step finds none.
StepEnds == cursor = Len(stack) /\ UNCHANGED cursor

\* What a personality routine answers in the search phase.
Search(ip) ==
  CASE Kind[ip] \in {"catch", "fickle"} -> "HANDLER_FOUND"
    [] Kind[ip] = "error" -> "error"
    [] OTHER -> "CONTINUE_UNWIND"

\* Mutant: the stop pointer is not cleared.
FrameMarkerOnly(ip) == [private_1 |-> exc[obj].private_1, private_2 |-> ip]

\* What RaiseException stores into the object of the handler it has found: it clears
\* the stop pointer and saves the frame marker.
FrameMarker(ip) == [private_1 |-> "NULL", private_2 |-> ip]

\* Phase 1 goes on from frame to frame.
SearchOn ==
  /\ pc = "phase1" /\ StepTo
  /\ Search(stack[cursor']) = "CONTINUE_UNWIND"
  /\ UNCHANGED <<stack, bottom, exc, pc, op, obj, actions, end_of_stack, ret, pad,
                 calls, history>>

\* Mutant: phase 2 starts where phase 1 stopped.
ResetCursorNot == cursor' = cursor + 1

\* RaiseException resets the cursor to the first frame: unw_init_local.
ResetCursor == cursor' = 0

\* Phase 1 has found the handler: the cursor is reset to the first frame and
\* phase 2 begins.
HandlerFound ==
  /\ pc = "phase1" /\ cursor < Len(stack)
  /\ LET ip == stack[cursor + 1] IN
       /\ Search(ip) = "HANDLER_FOUND"
       /\ exc' = [exc EXCEPT ![obj] = FrameMarker(ip)]
       /\ actions' = Phase2Actions(obj, FrameMarker(ip).private_1)
  /\ ResetCursor
  /\ pc' = "phase2"
  /\ forced' = [forced EXCEPT ![obj] = FALSE]
  /\ handler' = [handler EXCEPT ![obj] = Len(stack) - (cursor + 1)]
  /\ UNCHANGED <<stack, bottom, op, obj, end_of_stack, ret, pad, calls, asked>>

SearchFails ==
  /\ pc = "phase1"
  /\ \/ StepTo /\ Search(stack[cursor']) = "error" /\ Return("FATAL_PHASE1_ERROR")
     \/ StepEnds /\ Return(IF bottom = "end" THEN "END_OF_STACK" ELSE "FATAL_PHASE1_ERROR")
  /\ UNCHANGED <<stack, bottom, exc, op, obj, actions, end_of_stack, pad, calls, history>>
-----------------------------------------------------------------------------
stop == exc[obj].private_1 = "stop"

\* The top of phase 2's loop: unw_step, and what follows from its result.
Phase2Step ==
  /\ pc = "phase2"
  /\ \/ /\ StepTo
        /\ UNCHANGED <<actions, end_of_stack>>
     \/ /\ StepEnds /\ bottom = "end"
        /\ actions' = actions \cup {"END_OF_STACK"}
        /\ end_of_stack' = TRUE
  /\ pc' = IF stop THEN "stop" ELSE "frame"
  /\ UNCHANGED <<stack, bottom, exc, op, obj, ret, pad, calls, history>>

\* The frame phase 2 is at; the end of the stack counts as one.
Position == IF end_of_stack THEN cursor + 1 ELSE cursor

\* The stop function is called, and answers _URC_NO_REASON.
StopContinues ==
  /\ pc = "stop"
  /\ asked' = asked \cup {Position}
  /\ pc' = "frame"
  /\ UNCHANGED <<stack, bottom, exc, op, obj, cursor, actions, end_of_stack, ret, pad,
                 calls, forced, handler>>

\* Phase 2 gives up: unw_step fails, the stop function answers something else, the
\* stack has ended or the personality routine fails.
Phase2Fails ==
  /\ \/ pc = "phase2" /\ StepEnds /\ bottom = "error" /\ UNCHANGED asked
     \/ pc = "stop" /\ asked' = asked \cup {Position} /\ UNCHANGED cursor
     \/ pc = "frame" /\ end_of_stack /\ UNCHANGED <<cursor, asked>>
     \/ pc = "frame" /\ ~end_of_stack /\ Kind[stack[cursor]] = "error"
          /\ UNCHANGED <<cursor, asked>>
  /\ Return("FATAL_PHASE2_ERROR")
  /\ UNCHANGED <<stack, bottom, exc, op, obj, actions, end_of_stack, pad, calls, forced,
                 handler>>

\* The actions a personality routine is called with.
FrameActions ==
  actions \cup (IF ~stop /\ exc[obj].private_2 = stack[cursor]
                  THEN {"HANDLER_FRAME"} ELSE {})

\* What a personality routine answers in the cleanup phase.
Cleanup(ip, acts) ==
  CASE Kind[ip] = "cleanup" \/ (Kind[ip] = "catch" /\ "HANDLER_FRAME" \in acts) ->
         "INSTALL_CONTEXT"
    [] OTHER -> "CONTINUE_UNWIND"

AtFrame == pc = "frame" /\ ~end_of_stack

\* Mutant: the frame is visited again.
NoPersonalityAgain ==
  /\ AtFrame /\ Kind[stack[cursor]] = "plain"
  /\ cursor' = cursor - 1
  /\ pc' = "phase2"
  /\ UNCHANGED <<stack, bottom, exc, op, obj, actions, end_of_stack, ret, pad,
                 calls, history>>

\* A frame without a personality routine.
NoPersonality ==
  /\ AtFrame /\ Kind[stack[cursor]] = "plain"
  /\ pc' = "phase2"
  /\ UNCHANGED <<stack, bottom, exc, op, obj, cursor, actions, end_of_stack, ret, pad,
                 calls, history>>

\* The personality routine asks for its landing pad: unw_resume transfers control to
\* the frame, which leaves the frames inside it behind.
Install ==
  /\ AtFrame /\ Kind[stack[cursor]] \notin {"plain", "error"}
  /\ Cleanup(stack[cursor], FrameActions) = "INSTALL_CONTEXT"
  /\ \E ip \in Pads : stack' = <<ip>> \o SubSeq(stack, cursor + 1, Len(stack))
  /\ pad' = [kind |-> IF "HANDLER_FRAME" \in FrameActions THEN "handler" ELSE "cleanup",
             obj |-> obj]
  /\ actions' = FrameActions
  /\ ret' = "INSTALL_CONTEXT"
  /\ pc' = "user"
  /\ UNCHANGED <<bottom, exc, op, obj, cursor, end_of_stack, calls, history>>

\* The personality routine answers _URC_CONTINUE_UNWIND.  The panic that follows is
\* not under the `if' above it.
ContinueUnwind ==
  /\ AtFrame /\ Kind[stack[cursor]] \notin {"plain", "error"}
  /\ Cleanup(stack[cursor], FrameActions) = "CONTINUE_UNWIND"
  /\ actions' = FrameActions
  /\ pc' = "panic"
  /\ UNCHANGED <<stack, bottom, exc, op, obj, cursor, end_of_stack, ret, pad, calls,
                 history>>
-----------------------------------------------------------------------------
\* _Unwind_Backtrace's callback is called for the next frame, and answers
\* _URC_NO_REASON or something else.
Trace ==
  /\ pc = "backtrace" /\ StepTo
  /\ asked' = asked \cup {cursor'}
  /\ UNCHANGED <<stack, bottom, exc, op, obj, actions, end_of_stack, pad, calls, forced,
                 handler>>
  /\ \/ UNCHANGED <<pc, ret>>
     \/ Return("FATAL_PHASE1_ERROR")

TraceEnds ==
  /\ pc = "backtrace" /\ StepEnds
  /\ Return(IF bottom = "end" THEN "END_OF_STACK" ELSE "FATAL_PHASE1_ERROR")
  /\ UNCHANGED <<stack, bottom, exc, op, obj, actions, end_of_stack, pad, calls, history>>

Interface ==
  \/ \E o \in Objects :
       _Unwind_RaiseException(o) \/ _Unwind_ForcedUnwind(o) \/ ForcedUnwindNoStop(o)
  \/ _Unwind_Resume \/ _Unwind_Resume_or_Rethrow \/ _Unwind_Backtrace

Unwinder ==
  \/ SearchOn \/ HandlerFound \/ SearchFails
  \/ Phase2Step \/ StopContinues \/ Phase2Fails \/ NoPersonality \/ Install
  \/ ContinueUnwind \/ Trace \/ TraceEnds

Done == (pc = "panic" \/ (pc = "user" /\ calls = MaxCalls)) /\ UNCHANGED vars

Next == Interface \/ Unwinder \/ Done

Spec == Init /\ [][Next]_vars

\* The thread that called the unwinder goes on running.
FairSpec == Spec /\ WF_vars(Unwinder)
-----------------------------------------------------------------------------
Walking == {"phase1", "phase2", "stop", "frame", "backtrace"}

\* Phase 2 ends in the very frame phase 1 chose, although it recognises it by its ip
\* alone (Unwind.c:299-303, unwind-internal.h:121): not in another activation of the
\* same function, and not by the marker of another exception.
HandlerIsTheOneFound ==
  [][Install /\ pad'.kind = "handler" => Len(stack') = handler[obj] + 1]_vars

\* A frame is never left behind before its cleanup has run: phase 2 starts again at
\* the innermost frame and consults every frame's personality routine on its way
\* (Unwind.c:311-312, unwind-internal.h:113-126).
NoCleanupSkipped ==
  [][Len(stack') < Len(stack) =>
       \A n \in 1..(Len(stack) - Len(stack')) : Kind[stack[n]] # "cleanup"]_vars

\* The stop function of a forced unwinding is asked about every frame, and at last
\* about the end of the stack, before the frame's personality routine runs; no stop
\* function left in an exception object by an earlier forced unwinding is ever called
\* for an exception that was raised (Unwind.c:105-106, 306).
StopIsAskedFirst ==
  pc = "frame" => asked = IF forced[obj] THEN 1..Position ELSE {}

\* Every call ends: in a landing pad, with a return code or in a panic.
CallsEnd == (pc \in Walking) ~> (pc \notin Walking)
=============================================================================
