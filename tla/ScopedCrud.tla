----------------------------- MODULE ScopedCrud ------------------------------
(***************************************************************************)
(* The web app's writes (ScopedCrudService, which every domain service     *)
(* extends).  A handler is three awaited statements, each committing on    *)
(* its own: read the row, take a number, write the row.  Other requests    *)
(* commit between any two of them, and the process may die there.          *)
(***************************************************************************)
EXTENDS SyncState

CONSTANTS
  Handlers,   \* web requests that may be running at once
  WebUser,    \* the account each of them acts for
  MaxEdits,   \* bound: requests each of them serves
  Clock       \* the instants the server's clock may show

ASSUME HandlersAssumption ==
  /\ WebUser \in [Handlers -> Users]
  /\ MaxEdits \in Nat
  /\ Clock \subseteq Times

VARIABLES
  web,      \* the request each handler is serving
  edits     \* how many it has served

webVars == <<web, edits>>

NoRequest == [pc |-> "idle", op |-> "update", id |-> None, data |-> None,
              at |-> None, seq |-> 0]

WebRequest ==
  [pc : {"idle", "seq", "write"}, op : {"create", "update", "remove", "restore"},
   id : Ids \cup {None}, data : Values \cup {None}, at : Times \cup {None},
   seq : Nat]

WebTypeOK ==
  /\ web \in [Handlers -> WebRequest]
  /\ edits \in [Handlers -> Nat]

WebInit ==
  /\ web = [w \in Handlers |-> NoRequest]
  /\ edits = [w \in Handlers |-> 0]

-----------------------------------------------------------------------------
\* findOne: own rows only, tombstones only for restore.
Found(u, id, op) ==
  /\ OwnRow(u, rows[id])
  /\ rows[id].deleted => op = "restore"

Start(w, request) ==
  /\ web[w].pc = "idle"
  /\ edits[w] < MaxEdits
  /\ web' = [web EXCEPT ![w] = request]
  /\ edits' = [edits EXCEPT ![w] = @ + 1]
  /\ UNCHANGED shared

\* create reads the clock before it takes a number.
CrudCreate(w) ==
  \E id \in Ids, data \in Values, now \in Clock :
    Start(w, [NoRequest EXCEPT !.pc = "seq", !.op = "create", !.id = id,
                               !.data = data, !.at = now])

\* update, remove and restore find the row first, or answer 404.
CrudFind(w) ==
  \E id \in Ids, op \in {"update", "remove", "restore"}, data \in Values :
    /\ Found(WebUser[w], id, op)
    /\ Start(w, [NoRequest EXCEPT !.pc = "seq", !.op = op, !.id = id,
                   !.data = IF op = "update" THEN data ELSE None])

\* seq.next, and for the others the clock as soon as it returns.
CrudSeq(w) ==
  /\ web[w].pc = "seq"
  /\ Allocate(WebUser[w], 1)
  /\ \E now \in Clock :
       web' = [web EXCEPT ![w].pc = "write",
                          ![w].seq = lastSeq[WebUser[w]] + 1,
                          ![w].at = IF web[w].op = "create" THEN @ ELSE now]
  /\ UNCHANGED <<rows, draft, lock, clients, device, edits>>

Inserted(w) ==
  [owner |-> WebUser[w], data |-> web[w].data, deleted |-> FALSE,
   updatedAt |-> web[w].at, seq |-> web[w].seq]

Edited(w, row) ==
  [row EXCEPT !.data = IF web[w].op = "update" THEN web[w].data ELSE @,
              !.deleted = CASE web[w].op = "remove" -> TRUE
                            [] web[w].op = "restore" -> FALSE
                            [] OTHER -> @,
              !.updatedAt = web[w].at, !.seq = web[w].seq]

Unlocked(id) == \A d \in Devices : draft[d][id] = None

\* The write, by id alone.  A create whose id is taken fails; its number is spent.
CrudWrite(w) ==
  LET id == web[w].id IN
  /\ web[w].pc = "write"
  /\ Unlocked(id)
  /\ rows' = [rows EXCEPT ![id] =
                IF web[w].op # "create" THEN Edited(w, @)
                ELSE IF @ = None THEN Inserted(w) ELSE @]
  /\ web' = [web EXCEPT ![w] = NoRequest]
  /\ UNCHANGED <<draft, lastSeq, lock, clients, device, edits>>

\* The process or its connection dies between two statements.
CrudDie(w) ==
  /\ web[w].pc # "idle"
  /\ web' = [web EXCEPT ![w] = NoRequest]
  /\ UNCHANGED <<shared, edits>>

CrudStep(w) ==
  \/ CrudCreate(w)
  \/ CrudFind(w)
  \/ CrudSeq(w)
  \/ CrudWrite(w)
  \/ CrudDie(w)
=============================================================================
