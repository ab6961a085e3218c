----------------------------- MODULE CallStacks ------------------------------
(***************************************************************************)
(* What the threads of a component still have to do.  todo[t] is the call  *)
(* stack of thread t as a list of frames, the next one first.  A frame is  *)
(* a tuple of the name of a section (what runs between two points where    *)
(* another thread can come in: a lock, a join, a callback) and arguments.  *)
(* Executing a section replaces its frame by those of the calls it makes.  *)
(*                                                                         *)
(* An exception is a <<"raise">> in front: it unwinds to the next frame    *)
(* that handles it, which is executed with what it does about it.          *)
(***************************************************************************)
EXTENDS Sequences, SequencesExt, Naturals

CONSTANT Threads

VARIABLE todo

\* Frames that only mark a place where an exception is handled: "caught" keeps
\* it for the next report, "swallow" drops it.
Marks == {"caught", "swallow"}
Reports == {"report", "rolled"}

\* Frames that run with an exception as without one, and raise it again.
Finally == {"exit", "router_exit", "router_stopped", "close_end", "start_end", "settled"}

At(t, name) == todo[t] # <<>> /\ Head(todo[t])[1] = name
Arg(t) == Head(todo[t])[2]
Idle(t) == todo[t] = <<>>

\* A stack without the marks that its execution has reached.
Reached(stack) ==
  LET i == SelectInSeq(stack, LAMBDA frame : frame[1] \notin Marks)
  IN IF i = 0 THEN <<>> ELSE SubSeq(stack, i, Len(stack))

\* The frame at its end, told that there was an exception.
Told(frame) == <<frame[1], TRUE>>

\* The stack after an exception has left the frames before the first handler.
Unwound(stack) ==
  LET i == SelectInSeq(stack, LAMBDA frame : frame[1] \in Marks \cup Finally)
      above == SubSeq(stack, i + 1, Len(stack))
      j == SelectInSeq(above, LAMBDA frame : frame[1] \in Reports)
  IN CASE i = 0 -> <<>>
       [] i > 0 /\ stack[i][1] = "swallow" -> Reached(above)
       [] i > 0 /\ stack[i][1] = "caught" ->
            Reached([above EXCEPT ![j] = Told(above[j])])
       [] OTHER -> <<Told(stack[i]), <<"raise">>>> \o above

\* Thread t executes its next frame, which calls these frames.
Becomes(t, frames) == Reached(frames \o Tail(todo[t]))
Does(t, frames) == todo' = [todo EXCEPT ![t] = Becomes(t, frames)]
Raises(t) == Does(t, <<<<"raise">>>>)

Unwind(t) ==
  /\ At(t, "raise")
  /\ todo' = [todo EXCEPT ![t] = Unwound(Tail(@))]
==============================================================================
