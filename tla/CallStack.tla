------------------------------ MODULE CallStack ------------------------------
(***************************************************************************)
(* What the stack machine promises to compiled code: a stack of frames     *)
(* that do not touch each other.  The running function computes with its   *)
(* own arguments, locals and operands; a call takes the last operands of   *)
(* its caller as arguments; a return gives the caller back exactly what it *)
(* had, less the arguments and plus the result, at the place it asked for. *)
(***************************************************************************)
EXTENDS Integers, Sequences

VARIABLES
  ip,      \* the next instruction of the running function
  frames,  \* [ret, args, cells] of every function called and not returned
  out,     \* what was printed
  over     \* the program has stopped

vars == <<ip, frames, out, over>>

Depth  == Len(frames)
Running == frames[Depth]

\* The frames below the n-th are the same in this state and the next.
Untouched(n) == \A k \in 1 .. n - 1 : frames'[k] = frames[k]

Init ==
  /\ frames = <<[ret |-> 0, args |-> <<>>, cells |-> <<>>]>>
  /\ out = <<>>
  /\ ~ over

(* One instruction of the running function: whatever it does, it does it   *)
(* to that function's frame.                                               *)
Compute ==
  /\ Len(frames') = Depth /\ Untouched(Depth)
  /\ frames'[Depth].ret = Running.ret
  /\ Len(frames'[Depth].args) = Len(Running.args)
  /\ UNCHANGED <<out, over>>

(* An extern function prints its argument, the last operand.               *)
PrintOperand ==
  /\ Running.cells # <<>>
  /\ frames' = [frames EXCEPT ![Depth].cells = SubSeq(@, 1, Len(@) - 1)]
  /\ Len(out') = Len(out) + 1 /\ SubSeq(out', 1, Len(out)) = out
  /\ UNCHANGED over

(* A function is entered: the caller's last operand is the return address, *)
(* those before it are the arguments, and the rest stays with the caller.  *)
Enter ==
  LET n == Len(Running.cells)
      callee == frames'[Depth + 1]
      a == Len(callee.args)
  IN  /\ Len(frames') = Depth + 1 /\ Untouched(Depth)
      /\ a < n
      /\ frames'[Depth] = [Running EXCEPT !.cells = SubSeq(@, 1, n - 1 - a)]
      /\ callee.args = SubSeq(Running.cells, n - a, n - 1)
      /\ callee.ret = Running.cells[n].val
      /\ UNCHANGED <<out, over>>

(* The function returns: its frame and arguments go, its last operand is   *)
(* the result if it has one.                                               *)
Return ==
  LET caller == frames[Depth - 1]
      result == IF Running.cells = <<>> THEN <<>> ELSE <<Running.cells[Len(Running.cells)]>>
  IN  /\ Depth > 1
      /\ Len(frames') = Depth - 1 /\ Untouched(Depth - 1)
      /\ \E r \in {<<>>, result} :
           frames'[Depth - 1] = [caller EXCEPT !.cells = @ \o r]
      /\ ip' = Running.ret
      /\ UNCHANGED <<out, over>>

Stop ==
  /\ over'
  /\ UNCHANGED <<ip, frames, out>>

Next == ~ over /\ (Compute \/ PrintOperand \/ Enter \/ Return \/ Stop)

Spec == Init /\ [][Next]_vars
=============================================================================
