----------------------------- MODULE ChangeFeed ------------------------------
(***************************************************************************)
(* What the sync engine promises, with no requests in it: each account has *)
(* a feed of rows in the order of their numbers, a publication enters      *)
(* above everything already there, and a device that moves its cursor      *)
(* forward then holds the current version of every row at or below it.     *)
(***************************************************************************)
EXTENDS Naturals

CONSTANTS Users, Ids, Devices, UserOf, None

VARIABLES
  rows,     \* the published row of each id, or None
  cursor,   \* how far each device has read its account's feed
  held      \* the row of each id that each device has

feedVars == <<rows, cursor, held>>

Owned(u, id) == rows[id] # None /\ rows[id].owner = u

\* The device has the current version of every row its cursor has passed.
Covers(d) == \A id \in Ids :
  Owned(UserOf[d], id) /\ rows[id].seq <= cursor[d] => held[d][id] = rows[id]

Init ==
  /\ rows = [id \in Ids |-> None]
  /\ cursor = [d \in Devices |-> 0]
  /\ held = [d \in Devices |-> [id \in Ids |-> None]]

\* Some rows of u change at once, each to a number above all of u's rows.
Publish(u) ==
  LET changed == {id \in Ids : rows'[id] # rows[id]} IN
  /\ \A id \in changed :
       /\ rows[id] = None \/ Owned(u, id)
       /\ Owned(u, id)'
       /\ \A j \in Ids : Owned(u, j) => rows'[id].seq > rows[j].seq
       /\ \A d \in Devices : UserOf[d] = u => rows'[id].seq > cursor[d]
  /\ \A id, j \in changed : rows'[id].seq = rows'[j].seq => id = j
  /\ UNCHANGED <<cursor, held>>

\* A device reads on: what it receives lies between its two cursors.
Deliver(d) ==
  /\ cursor'[d] >= cursor[d]
  /\ \A id \in Ids : held'[d][id] # held[d][id] =>
       /\ held'[d][id] # None
       /\ held'[d][id].owner = UserOf[d]
       /\ held'[d][id].seq > cursor[d] /\ held'[d][id].seq <= cursor'[d]
  /\ \A e \in Devices \ {d} : cursor'[e] = cursor[e] /\ held'[e] = held[e]
  /\ UNCHANGED rows
  /\ Covers(d)'

Next == (\E u \in Users : Publish(u)) \/ (\E d \in Devices : Deliver(d))

Spec == Init /\ [][Next]_feedVars
=============================================================================
