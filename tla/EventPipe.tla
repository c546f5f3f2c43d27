----------------------------- MODULE EventPipe ------------------------------
(* What a running event loop promises: a first-in first-out pipe from the    *)
(* kernel to the monitor task.  While it is open nothing in it is lost,      *)
(* repeated or overtaken; closing it keeps what has already been handed to   *)
(* the channel, a prefix, and the pipe takes no more.  Its reader may drop   *)
(* what is left.                                                             *)
EXTENDS Naturals, Sequences

CONSTANT Tokens   \* what the kernel emits

VARIABLES pipe, open

vars == <<pipe, open>>

Init == pipe = <<>> /\ open = TRUE

Put(e) ==
  /\ open
  /\ pipe' = Append(pipe, e)
  /\ UNCHANGED open

Get ==
  /\ pipe # <<>>
  /\ pipe' = Tail(pipe)
  /\ UNCHANGED open

Close ==
  /\ open' = FALSE
  /\ \E n \in 0..Len(pipe) : pipe' = SubSeq(pipe, 1, n)

Next == (\E e \in Tokens : Put(e)) \/ Get \/ Close

Spec == Init /\ [][Next]_vars
=============================================================================
