------------------------------- MODULE MCSync --------------------------------
(* Small instances of Sync.                                                *)
EXTENDS Sync, TLC

CONSTANTS alice, bob, phone, tablet, other, x, y, z, v, w, web1, web2

Up(id, t, data) == [op |-> "upsert", id |-> id, updatedAt |-> t, data |-> data]
Del(id, t) == [op |-> "delete", id |-> id, updatedAt |-> t, data |-> Partial]

MCUserOf == [d \in Devices |-> IF d = other THEN bob ELSE alice]
MCWebUser == [h \in Handlers |-> alice]
OneTable == [id \in Ids |-> 1]
TwoTables == [id \in Ids |-> IF id = x THEN 1 ELSE 2]

\* Creates, competing edits and ties, a delete of a known and of an unknown row, a
\* partial edit, a payload refused on create, changes out of order, foreign ids.
PushBatches == [d \in Devices |->
  CASE d = phone  -> { <<Up(y, 1, w), Up(x, 1, w)>>,
                       <<Up(x, 2, Partial), Up(x, 1, v)>> }
    [] d = tablet -> { <<Up(x, 1, v)>>,
                       <<Del(x, 2), Up(y, 2, v)>> }
    [] OTHER      -> { <<Up(y, 2, v), Up(x, 1, v)>>,
                       <<Up(x, 1, Partial)>> }]

\* Rows of two tables, competing with the web app's edits and removals: an undelete,
\* a delete after a refused or a known row, a malformed payload.
MixedBatches == [d \in Devices |->
  { <<Up(z, 1, v), Up(x, 2, v)>>,
    <<Del(x, 2), Up(z, 2, Malformed)>> }]

\* One push of two rows.
PlainBatches == [d \in Devices |-> {<<Up(x, 1, v), Up(y, 1, v)>>}]

\* Each device writes a row of its own.
OwnBatches == [d \in Devices |-> IF d = phone THEN {<<Up(x, 1, v)>>}
                                              ELSE {<<Up(y, 1, v)>>}]
=============================================================================
