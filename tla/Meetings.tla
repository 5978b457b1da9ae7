------------------------------ MODULE Meetings -------------------------------
(***************************************************************************)
(* MeetingsService on one meeting, beside the tasks of the same account:   *)
(* they share its sequence, the processes that serve requests and the      *)
(* bounds of module Tasks.                                                 *)
(*                                                                         *)
(* The raw notes are so many non-empty lines; splitRawNotes makes them     *)
(* note items, which are then processed one by one.                        *)
(***************************************************************************)
EXTENDS Tasks

CONSTANT MaxLines  \* bound on the lines of the raw notes

ASSUME MeetingsAssumption == MaxLines \in Nat \ {0}

VARIABLES
  meeting,   \* the meeting
  notes      \* its note items, by id

allVars == <<vars, meeting, notes>>

Meeting == [lines : 0..MaxLines, deleted : BOOLEAN, seq : Nat]

\* line: the raw line it was split from, 0 for one added by hand (history).
NoteItem == [line : 0..MaxLines, processed : BOOLEAN, result : BOOLEAN,
             deleted : BOOLEAN, seq : Nat]

MeetingOps == {"minutes", "cancel", "note", "split", "rebuild", "review",
               "process", "scratch"}

NotesOK ==
  /\ meeting \in Meeting
  /\ notes \in Seq(NoteItem)

\* Just minuted, or split before with the first line dealt with.
MeetingInit ==
  /\ InitAfter(MaxLines + 1)
  /\ meeting = [lines |-> MaxLines, deleted |-> FALSE, seq |-> 1]
  /\ notes \in {<<>>, [k \in 1..MaxLines |->
                        [line |-> k, processed |-> k = 1, result |-> k = 1,
                         deleted |-> FALSE, seq |-> 1 + k]]}

OtherRows == UNCHANGED <<tasks, items, activities, rule>>

\* A statement that reads.
Read == OtherRows /\ UNCHANGED <<lastSeq, meeting, notes>>

\* noteItems.
NoteItems == SetToSeq({n \in DOMAIN notes : ~notes[n].deleted})

-----------------------------------------------------------------------------
\* findOne of the meeting, or ownedNoteItem.  minutes: a PATCH of the raw notes
\* (lines: how many there are now).
MeetingFind(w, op) ==
  /\ op \in MeetingOps
  /\ Arrive(w, op)
  /\ IF op \in {"review", "process", "scratch"}
     THEN \E n \in DOMAIN notes :
            /\ ~notes[n].deleted
            /\ Become(w, [Idle EXCEPT !.op = op, !.pc = "seq", !.id = n])
     ELSE /\ ~meeting.deleted
          /\ \E lines \in IF op = "minutes" THEN 0..MaxLines ELSE {meeting.lines} :
               Become(w, [Idle EXCEPT !.op = op, !.when = lines,
                            !.pc = IF op \in {"split", "rebuild"} THEN "notes" ELSE "seq"])
  /\ Read

\* update and remove of the meeting itself.
MeetingWrite(w) ==
  LET r == worker[w] IN
  /\ r.op \in {"minutes", "cancel"} /\ At(w, "write")
  /\ meeting' = IF r.op = "minutes"
                THEN [meeting EXCEPT !.lines = r.when, !.seq = r.base + 1]
                ELSE [meeting EXCEPT !.deleted = TRUE, !.seq = r.base + 1]
  /\ Finish(w)
  /\ OtherRows /\ UNCHANGED <<lastSeq, notes>>
  /\ Bounds

\* addNoteItem.
NoteAdd(w) ==
  /\ worker[w].op = "note" /\ At(w, "write")
  /\ notes' = Append(notes, [line |-> 0, processed |-> FALSE, result |-> FALSE,
                             deleted |-> FALSE, seq |-> worker[w].base + 1])
  /\ Finish(w)
  /\ OtherRows /\ UNCHANGED <<lastSeq, meeting>>
  /\ Bounds

\* updateNoteItem turns processed on or off and keeps what the note became,
\* markProcessed records that, removeNoteItem deletes.
NoteEdited(note, r) ==
  {[note EXCEPT !.processed = p, !.result = @ \/ r.op = "process",
                !.deleted = @ \/ r.op = "scratch", !.seq = r.base + 1] :
     p \in CASE r.op = "review" -> BOOLEAN
             [] r.op = "process" -> {TRUE}
             [] r.op = "scratch" -> {note.processed}}

NoteWrite(w) ==
  LET r == worker[w] IN
  /\ r.op \in {"review", "process", "scratch"} /\ At(w, "write")
  /\ \E note \in NoteEdited(notes[r.id], r) : notes' = [notes EXCEPT ![r.id] = note]
  /\ Finish(w)
  /\ OtherRows /\ UNCHANGED <<lastSeq, meeting>>
  /\ Bounds

-----------------------------------------------------------------------------
(* splitRawNotes: split, and rebuild when it may replace                   *)

\* wrong variant: a processed note does not count as there.
StandingUnprocessed ==
  SetToSeq({n \in DOMAIN notes : ~notes[n].deleted /\ ~notes[n].processed})

Standing == NoteItems

SplitRead(w) ==
  LET existing == Standing IN
  /\ At(w, "notes")
  /\ IF existing # <<>> /\ worker[w].op = "split" THEN Finish(w)
     ELSE Become(w, [worker[w] EXCEPT !.pc = "numbers", !.kids = existing])
  /\ Read
  /\ Bounds

\* wrong variant: the items to be deleted are not counted.
SplitSizeNew(w) == worker[w].when

SplitSize(w) == Len(worker[w].kids) + worker[w].when

SplitNumber(w) ==
  /\ At(w, "numbers")
  /\ Number(w, SplitSize(w), "split")
  /\ UNCHANGED <<meeting, notes>>
  /\ Bounds

\* wrong variant: the empty line at the end counts.
LinesEmpty(w) == 1..worker[w].when + 1

Lines(w) == 1..worker[w].when

\* What stood is deleted and every line created, in one transaction.
SplitWrite(w) ==
  LET r == worker[w]
      old == Len(r.kids)
      kept == [n \in DOMAIN notes |->
                 IF Contains(r.kids, n)
                 THEN [notes[n] EXCEPT !.deleted = TRUE, !.seq = r.base + Place(r.kids, n)]
                 ELSE notes[n]]
  IN
  /\ At(w, "split")
  /\ notes' = kept \o [k \in Lines(w) |->
                [line |-> k, processed |-> FALSE, result |-> FALSE,
                 deleted |-> FALSE, seq |-> r.base + old + k]]
  /\ Finish(w)
  /\ OtherRows /\ UNCHANGED <<lastSeq, meeting>>
  /\ Bounds

-----------------------------------------------------------------------------
MeetingStep(w) ==
  \/ \E op \in Ops : MeetingFind(w, op)
  \/ MeetingWrite(w) \/ NoteAdd(w) \/ NoteWrite(w)
  \/ SplitRead(w) \/ SplitNumber(w) \/ SplitWrite(w)

MeetingNext ==
  \/ Next /\ UNCHANGED <<meeting, notes>>
  \/ \E w \in Handlers : MeetingStep(w)

MeetingSpec == MeetingInit /\ [][MeetingNext]_allVars

-----------------------------------------------------------------------------
(* Properties                                                              *)

NoteNumbers == {<<"meeting", 1, meeting.seq>>} \union NumbersOf("note", notes)

\* A split numbers what it deletes and what it creates from one block, and a row
\* of any other kind the account writes meanwhile never gets a number of it, whatever
\* requests overlap.
NotesNumbered ==
  /\ \A x \in NoteNumbers, y \in Numbers \union NoteNumbers : x[3] = y[3] => x = y
  /\ \A x \in NoteNumbers : x[3] <= lastSeq

\* A split leaves one live item per line and no other note.
SplitMade == \E n \in DOMAIN notes' \ DOMAIN notes : notes'[n].line # 0

OncePerLine ==
  LET live == {n \in DOMAIN notes' : ~notes'[n].deleted} IN
  /\ Cardinality(live) = meeting.lines
  /\ {notes'[n].line : n \in live} = 1..meeting.lines

\* Requests that do not overlap split each raw line once, so that a line
\* processed before is not there to be processed again ("`replace: true` to
\* rebuild them").
SplitOnce == [][~overlap /\ SplitMade => OncePerLine]_allVars

-----------------------------------------------------------------------------
(* Why the numbers are distinct: what a worker has taken and not yet given *)
(* to a row is a block of its own, and no row has a number of it.          *)

\* So many numbers the next statement of a request gives to rows.
Held(r) ==
  CASE r.pc = "write"       -> 1
    [] r.pc = "transaction" -> 2
    [] r.pc = "create"      -> 1 + Len(r.kids)
    [] r.pc = "delete"      -> 1 + Len(r.kids) + Len(r.links)
    [] r.pc = "split"       -> Len(r.kids) + r.when
    [] OTHER                -> 0

\* The numbers of a block taken after base.
Taken(base, n) == (base + 1)..(base + n)

Block(w) == Taken(worker[w].base, Held(worker[w]))

AllNumbers == Numbers \union NoteNumbers

\* What a worker holds on to between its statements: the date it is to create an
\* occurrence of, the deadline and the lines that were asked for, and lists that
\* name no row twice.
Consistent(r) ==
  /\ r.pc \in {"existing", "template", "number", "create"} =>
       r.due = NextDue(r.anchor) /\ r.due # 0
  /\ r.op = "move" /\ r.pc \in {"seq", "write"} => r.due \in Deadlines
  /\ r.op = "minutes" \/ r.pc \in {"notes", "numbers", "split"} =>
       r.when \in 0..MaxLines
  /\ IsInjective(r.kids) /\ IsInjective(r.links)

HeldOK == \A w \in Workers : Consistent(worker[w])

NumbersInv ==
  /\ \A w \in Workers : Block(w) \subseteq 1..lastSeq
  /\ \A v, w \in Workers : v # w => Block(v) \intersect Block(w) = {}
  /\ \A x \in AllNumbers : x[3] \in 1..lastSeq /\ \A w \in Workers : x[3] \notin Block(w)
  /\ \A x, y \in AllNumbers : x[3] = y[3] => x = y

-----------------------------------------------------------------------------
(* Why a split that nothing runs beside splits each line once.             *)

\* The lines it was asked to split, and the items it found there.
SplitStands(w) ==
  /\ worker[w].pc \in {"notes", "numbers", "split"} => worker[w].when = meeting.lines
  /\ worker[w].pc \in {"numbers", "split"} => worker[w].kids = NoteItems

SplitInv == ~overlap => \A w \in Workers : SplitStands(w)
=============================================================================
