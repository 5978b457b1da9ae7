------------------------------ MODULE MCAccounts ------------------------------
(* Instances of Accounts.                                                  *)
EXTENDS Accounts, TLC

CONSTANTS photo, memo

Alike == Permutations(Handlers)

\* The guest 1 has an uploaded photo.
Photo == [owner |-> 1, deleted |-> FALSE, seq |-> 1,
          key |-> [account |-> 1, file |-> photo, no |-> 0]]
GuestFiles == [f \in Files |-> IF f = photo THEN Photo ELSE None]

\* Bounds of run accounts.  Everybody starts cached (Enter need not use it); the
\* member, whom no sweep looks for, is never away for a month; and a create, an
\* ask or a removal is the guest's, and the first of the requests (as slow as
\* it likes).
Early == {"create", "ask", "remove"}
EarlyOps ==
  \A w \in Handlers : worker'[w].op \in Early /\ worker[w] = Idle =>
                        requests = 0 /\ worker'[w].uid \in Guests
MembersStay ==
  \A u \in Members : users[u] # None /\ users[u].seen /\ users'[u] # None => users'[u].seen

MCInit == Init /\ \A u \in Uids : cache[u] # None
MCSpec == MCInit /\ [][Next /\ EarlyOps /\ MembersStay]_vars
=============================================================================
