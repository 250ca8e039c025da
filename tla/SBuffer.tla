------------------------------- MODULE SBuffer -------------------------------
(***************************************************************************)
(* The simple buffer of the ROM services (obj_sbuffer.c): a cursor into a  *)
(* caller's memory and the room or data left behind it.  A buffer is a     *)
(* record of the cursor p and the size sz; the read side and the write     *)
(* side of the C structure are two such records.                           *)
(***************************************************************************)
LOCAL INSTANCE Naturals

\* Hand a region of n units starting at p to the buffer.
SetBuffer(p, n) == [p |-> p, sz |-> n]

\* No region.
RstBuffer == [p |-> 0, sz |-> 0]

\* Mutation: the cursor stays where it is.
AdvanceStuck(b, n) == [p |-> b.p, sz |-> IF b.sz < n THEN 0 ELSE b.sz - n]

\* Consume n units: the cursor moves by n even when fewer are left, the size
\* stops at zero.
Advance(b, n) == [p |-> b.p + n, sz |-> IF b.sz < n THEN 0 ELSE b.sz - n]

\* Mutation: the callback runs on every call.
CallbackAlways(b, n) == TRUE

\* Mutation: the callback never runs.
CallbackNever(b, n) == FALSE

\* Consuming n units of b runs the pipe's callback.
CallbackDue(b, n) == Advance(b, n).sz = 0
================================================================================
