------------------------------ MODULE TieOrder -------------------------------
(***************************************************************************)
(* The order in which two devices' changes to one row reach the server.    *)
(* Two copies of the server start from the same row and receive the same   *)
(* two changes, each as a push of its own (SyncMerge!Outcome), one copy    *)
(* in each order.                                                          *)
(***************************************************************************)
EXTENDS SyncMerge, Sequences

VARIABLES
  server,     \* the row on each copy
  queue,      \* the changes each copy has still to receive
  lastSeq,    \* the number each copy gave out last
  tied        \* do the two changes claim the same instant?

vars == <<server, queue, lastSeq, tied>>

Copies == {1, 2}

Init ==
  \E u \in Users, id \in Ids, t \in Times, data \in Values, a, b \in Change :
    /\ a.id = id /\ b.id = id /\ a # b
    /\ Malformed \notin {a.data, b.data}
    /\ server = [k \in Copies |-> Created(u, [updatedAt |-> t, data |-> data], 1)]
    /\ queue = [k \in Copies |-> IF k = 1 THEN <<a, b>> ELSE <<b, a>>]
    /\ lastSeq = [k \in Copies |-> 1]
    /\ tied = (a.updatedAt = b.updatedAt)

\* One push of one change, with nothing else running.
Push(k) ==
  /\ queue[k] # <<>>
  /\ server' = [server EXCEPT ![k] =
                  Outcome(@, @.owner, Head(queue[k]), lastSeq[k] + 1)]
  /\ lastSeq' = [lastSeq EXCEPT ![k] = @ + 1]
  /\ queue' = [queue EXCEPT ![k] = Tail(@)]
  /\ UNCHANGED tied

Done == (\A k \in Copies : queue[k] = <<>>) /\ UNCHANGED vars

Next == (\E k \in Copies : Push(k)) \/ Done

Spec == Init /\ [][Next]_vars

Delivered == \A k \in Copies : queue[k] = <<>>

Content(row) == [row EXCEPT !.seq = 0]

\* Two devices that claim the same instant leave the same row whichever pushes
\* first: "picking the stored row makes the outcome identical no matter which
\* device pushes first" (the comment on SyncService.push).
TiesAgree == Delivered /\ tied => Content(server[1]) = Content(server[2])
=============================================================================
