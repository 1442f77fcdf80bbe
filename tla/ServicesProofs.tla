---------------------------- MODULE ServicesProofs ----------------------------
(***************************************************************************)
(* The services around the chat, for any number of owners, operations,     *)
(* publishers, streams, processes, calls, uploads, writers and catalogs:   *)
(* the notebook of an owner, the usage meter, the limits and preferences   *)
(* in force, the files of uploads and the integrations vault; and the      *)
(* types of all of them together.                                          *)
(***************************************************************************)
EXTENDS MCServices, AccessProofs, SequenceTheorems, TLAPS

-----------------------------------------------------------------------------
(* Notes *)

NoteOp == [kind : {"none", "create", "edit", "delete", "list"}, step : OpSteps,
           owner : Owners, book : Nat, made : Nat, note : Nat]

\* The parts of NotesTypeOK the argument needs.
NoteTypes ==
  /\ notebooks \subseteq [id : Nat, owner : Owners]
  /\ \A n \in notes : n.id \in Nat
  /\ op \in [Ops -> NoteOp]
  /\ lastBook \in 0..MaxBooks /\ lastNote \in Nat
  /\ \A o \in Ops : op[o].made \in 0..lastBook

\* uq_notebooks_user_kind: a committed or an uncommitted notebook of an owner
\* excludes any other.
OneNotebook ==
  /\ \A b, c \in notebooks : b.owner = c.owner => b = c
  /\ \A o \in Ops : op[o].made # 0 =>
        /\ \A b \in notebooks : b.owner # op[o].owner
        /\ \A p \in Ops : op[p].made # 0 /\ op[p].owner = op[o].owner => p = o

\* An operation works on a notebook of its owner, committed or its own.
BookIsOwners ==
  \A o \in Ops :
     /\ op[o].step \in {"idle", "authz", "look", "insert"} => op[o].made = 0
     /\ op[o].step \in {"act", "commit"} =>
           \/ [id |-> op[o].book, owner |-> op[o].owner] \in notebooks
           \/ op[o].made # 0 /\ op[o].book = op[o].made

\* A note's notebook is committed and its owner's.
NoteHasBook == \A n \in notes : [id |-> n.book, owner |-> n.owner] \in notebooks

NotesInv == NoteTypes /\ OneNotebook /\ BookIsOwners /\ NoteHasBook

\* The record of an idle operation.
LEMMA NoOpIsOp == NoOp \in NoteOp /\ NoOp.step = "idle" /\ NoOp.made = 0
<1>1. (CHOOSE u \in Owners : TRUE) \in Owners
  BY NotesAssumption
<1> QED BY <1>1 DEF NoOp, NoteOp, OpSteps

\* No notebook at first.
LEMMA NotesInvInit == NotesInit => NotesInv
  BY NoOpIsOp, NotesAssumption DEF NotesInit, NotesInv, NoteTypes, OneNotebook, BookIsOwners, NoteHasBook

\* What an operation's own SELECT sees: rows of its owner, committed or made by it.
LEMMA VisibleIsOwners ==
  ASSUME NotesInv, NEW o \in Ops, NEW b \in Visible(o)
  PROVE  /\ b.owner = op[o].owner
         /\ \/ [id |-> b.id, owner |-> op[o].owner] \in notebooks
            \/ op[o].made # 0 /\ b.id = op[o].made
<1>1. CASE b \in notebooks /\ b.owner = op[o].owner
  <2>0. b \in [id : Nat, owner : Owners]
    BY <1>1 DEF NotesInv, NoteTypes
  <2>1. b = [id |-> b.id, owner |-> b.owner]
    BY <2>0
  <2> QED BY <1>1, <2>1
<1>2. CASE b \in [id : Books, owner : {op[o].owner}] /\ b.id = op[o].made
  BY <1>2, NotesAssumption DEF Books
<1> QED BY <1>1, <1>2 DEF Visible

\* A step that leaves an operation idle, or moves it on without a new notebook,
\* and leaves the tables alone.
LEMMA MoveKeeps ==
  ASSUME NotesInv, NEW o \in Ops, NEW r \in NoteOp, Move(o, r),
         UNCHANGED <<notebooks, notes, lastBook>>, lastNote' \in Nat,
         r.made \in {0, op[o].made}, r.made # 0 => r.owner = op[o].owner,
         r.step \in {"idle", "authz", "look", "insert"} => r.made = 0,
         r.step \in {"act", "commit"} =>
            \/ [id |-> r.book, owner |-> r.owner] \in notebooks
            \/ r.made # 0 /\ r.book = r.made
  PROVE  NotesInv'
<1>1. op' = [op EXCEPT ![o] = r] /\ op'[o] = r /\ \A p \in Ops \ {o} : op'[p] = op[p]
  BY DEF Move, NotesInv, NoteTypes
<1>2. NoteTypes'
  BY <1>1 DEF NotesInv, NoteTypes
<1>3. OneNotebook'
  BY <1>1 DEF NotesInv, OneNotebook
<1>4. BookIsOwners'
  BY <1>1 DEF NotesInv, BookIsOwners
<1>5. NoteHasBook'
  BY DEF NotesInv, NoteHasBook
<1> QED BY <1>2, <1>3, <1>4, <1>5 DEF NotesInv

\* Every way to give an operation up.
LEMMA LeaveKeeps ==
  ASSUME NotesInv, NEW o \in Ops, Leave(o), UNCHANGED tables PROVE NotesInv'
<1>1. lastNote' \in Nat /\ UNCHANGED <<notebooks, notes, lastBook>>
  BY DEF tables, NotesInv, NoteTypes
<1> QED BY <1>1, NoOpIsOp, MoveKeeps DEF Leave

\* A new operation has found nothing yet.
LEMMA BeginOpKeeps ==
  ASSUME NotesInv, NEW o \in Ops, BeginOp(o) PROVE NotesInv'
<1>1. PICK u \in Owners, kind \in {"create", "edit", "delete", "list"}, s \in {"authz", "look"} :
        Move(o, [NoOp EXCEPT !.kind = kind, !.owner = u, !.step = s])
  BY DEF BeginOp
<1>2. [NoOp EXCEPT !.kind = kind, !.owner = u, !.step = s] \in NoteOp
  BY NoOpIsOp DEF NoteOp, OpSteps
<1>3. /\ [NoOp EXCEPT !.kind = kind, !.owner = u, !.step = s].made = 0
      /\ [NoOp EXCEPT !.kind = kind, !.owner = u, !.step = s].step = s
  BY NoOpIsOp DEF NoteOp
<1> QED BY <1>1, <1>2, <1>3, MoveKeeps DEF BeginOp, tables, NotesInv, NoteTypes

\* The token's owner is the operation's.
LEMMA AuthorizeKeeps ==
  ASSUME NotesInv, NEW o \in Ops, Authorize(o) PROVE NotesInv'
<1>1. /\ [op[o] EXCEPT !.step = "look"] \in NoteOp
      /\ op[o].made = 0
  BY DEF Authorize, NotesInv, NoteTypes, NoteOp, OpSteps, BookIsOwners
<1> QED BY <1>1, MoveKeeps DEF Authorize, tables, NotesInv, NoteTypes, NoteOp

\* The notebook found is the owner's, committed or the operation's own.
LEMMA FindNotebookKeeps ==
  ASSUME NotesInv, NEW o \in Ops, FindNotebook(o) PROVE NotesInv'
<1>0. /\ op[o] \in NoteOp /\ lastNote' \in Nat
      /\ UNCHANGED <<notebooks, notes, lastBook>>
  BY DEF FindNotebook, tables, NotesInv, NoteTypes
<1>1. CASE Visible(o) = {}
  <2>1. op[o].made = 0
    BY <1>1 DEF FindNotebook, NotesInv, BookIsOwners
  <2>2. Move(o, [op[o] EXCEPT !.step = "insert"])
    BY <1>1 DEF FindNotebook
  <2>3. [op[o] EXCEPT !.step = "insert"] \in NoteOp
    BY <1>0 DEF NoteOp, OpSteps
  <2> QED BY <1>0, <2>1, <2>2, <2>3, MoveKeeps DEF NoteOp
<1>2. CASE Leave(o)
  BY <1>2, LeaveKeeps DEF FindNotebook
<1>3. ASSUME NEW b \in Visible(o), Move(o, [op[o] EXCEPT !.book = b.id, !.step = "act"])
      PROVE  NotesInv'
  <2>1. \/ [id |-> b.id, owner |-> op[o].owner] \in notebooks
        \/ op[o].made # 0 /\ b.id = op[o].made
    BY VisibleIsOwners
  <2>2. b.id \in Nat
    BY <1>0, <2>1 DEF NoteOp, NotesInv, NoteTypes
  <2>3. [op[o] EXCEPT !.book = b.id, !.step = "act"] \in NoteOp
    BY <1>0, <2>2 DEF NoteOp, OpSteps
  <2> QED BY <1>0, <1>3, <2>1, <2>3, MoveKeeps DEF NoteOp
<1> QED BY <1>1, <1>2, <1>3 DEF FindNotebook

\* The unique constraint: a row is inserted only when the owner has none, and no
\* other transaction has one uncommitted.
LEMMA InsertNotebookKeeps ==
  ASSUME NotesInv, NEW o \in Ops, InsertNotebook(o) PROVE NotesInv'
<1>0. /\ op[o] \in NoteOp /\ op[o].made = 0 /\ UNCHANGED <<notebooks, notes>>
      /\ lastNote' \in Nat
  BY DEF InsertNotebook, NotesInv, NoteTypes, BookIsOwners
<1>1. CASE Visible(o) # {} /\ UNCHANGED lastBook /\ Move(o, [op[o] EXCEPT !.step = "again"])
  <2>1. [op[o] EXCEPT !.step = "again"] \in NoteOp
    BY <1>0 DEF NoteOp, OpSteps
  <2> QED BY <1>0, <1>1, <2>1, MoveKeeps DEF NoteOp
<1>2. CASE /\ Visible(o) = {} /\ lastBook < MaxBooks /\ lastBook' = lastBook + 1
           /\ Move(o, [op[o] EXCEPT !.made = lastBook + 1, !.step = "again"])
  <2> DEFINE r == [op[o] EXCEPT !.made = lastBook + 1, !.step = "again"]
  <2>1. lastBook \in Nat /\ lastBook' \in 0..MaxBooks
    BY <1>2, NotesAssumption DEF NotesInv, NoteTypes
  <2>2. r \in NoteOp /\ r.made = lastBook + 1 /\ r.step = "again" /\ r.owner = op[o].owner
    <3>1. lastBook + 1 \in Nat
      BY <2>1
    <3> QED BY <1>0, <3>1 DEF NoteOp, OpSteps
  <2>3. op' = [op EXCEPT ![o] = r] /\ op'[o] = r /\ \A p \in Ops \ {o} : op'[p] = op[p]
    BY <1>2 DEF Move, NotesInv, NoteTypes
  <2> HIDE DEF r
  <2>4. NoteTypes'
    BY <1>0, <1>2, <2>1, <2>2, <2>3 DEF NotesInv, NoteTypes
  <2>5. \A b \in notebooks : b.owner # op[o].owner
    BY <1>2 DEF Visible
  <2>6. \A p \in Ops \ {o} : op[p].made # 0 => op[p].owner # op[o].owner
    BY DEF InsertNotebook
  <2>7. OneNotebook'
    BY <1>0, <2>2, <2>3, <2>5, <2>6 DEF NotesInv, OneNotebook
  <2>8. BookIsOwners'
    BY <1>0, <2>2, <2>3 DEF NotesInv, BookIsOwners
  <2>9. NoteHasBook'
    BY <1>0 DEF NotesInv, NoteHasBook
  <2> QED BY <2>4, <2>7, <2>8, <2>9 DEF NotesInv
<1> QED BY <1>1, <1>2 DEF InsertNotebook

\* The note is looked up or created in the notebook just found.
LEMMA ActKeeps ==
  ASSUME NotesInv, NEW o \in Ops, Act(o) PROVE NotesInv'
<1>0. /\ op[o] \in NoteOp /\ UNCHANGED <<notebooks, notes, lastBook>> /\ lastNote \in Nat
      /\ op[o].step = "act"
      /\ \/ [id |-> op[o].book, owner |-> op[o].owner] \in notebooks
         \/ op[o].made # 0 /\ op[o].book = op[o].made
  BY DEF Act, NotesInv, NoteTypes, BookIsOwners
<1>1. CASE Leave(o) /\ UNCHANGED lastNote
  BY <1>0, <1>1, LeaveKeeps DEF tables
<1>2. ASSUME NEW n \in Nat, Move(o, [op[o] EXCEPT !.note = n, !.step = "commit"]),
             lastNote' \in Nat
      PROVE  NotesInv'
  <2>1. [op[o] EXCEPT !.note = n, !.step = "commit"] \in NoteOp
    BY <1>0 DEF NoteOp, OpSteps
  <2> QED BY <1>0, <1>2, <2>1, MoveKeeps DEF NoteOp
<1>3. CASE lastNote' = lastNote + 1 /\ Move(o, [op[o] EXCEPT !.note = lastNote + 1,
                                                           !.step = "commit"])
  <2>1. lastNote + 1 \in Nat
    BY <1>0
  <2> QED BY <1>2, <1>3, <2>1
<1>4. ASSUME NEW n \in notes, UNCHANGED lastNote,
             Move(o, [op[o] EXCEPT !.note = n.id, !.step = "commit"])
      PROVE  NotesInv'
  BY <1>0, <1>2, <1>4 DEF NotesInv, NoteTypes
<1> QED BY <1>1, <1>3, <1>4 DEF Act

\* The notebook and the note are committed together.
LEMMA CommitOpKeeps ==
  ASSUME NotesInv, NEW o \in Ops, CommitOp(o) PROVE NotesInv'
<1> DEFINE r == op[o]
           new == [id |-> r.book, owner |-> r.owner]
<1>0. /\ r \in NoteOp /\ r.made \in 0..lastBook /\ lastBook \in 0..MaxBooks
      /\ new \in notebooks \/ (r.made # 0 /\ r.book = r.made)
      /\ UNCHANGED <<lastBook, lastNote>>
  BY DEF CommitOp, NotesInv, NoteTypes, BookIsOwners
<1>1. op' = [op EXCEPT ![o] = NoOp] /\ op'[o] = NoOp /\ \A p \in Ops \ {o} : op'[p] = op[p]
  BY DEF CommitOp, Leave, Move, NotesInv, NoteTypes
<1>2. \/ notebooks' = notebooks
      \/ r.made # 0 /\ notebooks' = notebooks \cup {[id |-> r.made, owner |-> r.owner]}
  <2>1. {b \in [id : Books, owner : {r.owner}] : b.id = r.made} =
          IF r.made = 0 THEN {} ELSE {[id |-> r.made, owner |-> r.owner]}
    BY <1>0, NotesAssumption DEF Books, NoteOp
  <2> QED BY <2>1 DEF CommitOp
<1>3. \A n \in notes' : \/ n \in notes
                        \/ /\ n = [id |-> r.note, owner |-> r.owner, book |-> r.book]
                           /\ r.made # 0 => [id |-> r.made, owner |-> r.owner] \in notebooks'
  <2>1. CASE r.kind = "create"
    <3>1. r.made # 0 => [id |-> r.made, owner |-> r.owner] \in notebooks'
      BY <1>0, <2>1, NotesAssumption DEF CommitOp, Books, NoteOp
    <3> QED BY <2>1, <3>1 DEF CommitOp
  <2>2. CASE r.kind # "create"
    BY <2>2 DEF CommitOp
  <2> QED BY <2>1, <2>2
<1> HIDE DEF r
<1>4. NoteTypes'
  BY <1>0, <1>1, <1>2, <1>3, NoOpIsOp DEF NotesInv, NoteTypes, NoteOp
<1>5. OneNotebook'
  BY <1>0, <1>1, <1>2, NoOpIsOp DEF NotesInv, OneNotebook, r
<1>6. BookIsOwners'
  BY <1>1, <1>2, NoOpIsOp DEF NotesInv, BookIsOwners
<1>7. NoteHasBook'
  <2>1. notebooks \subseteq notebooks'
    BY <1>2
  <2>2. ASSUME NEW n \in notes' PROVE [id |-> n.book, owner |-> n.owner] \in notebooks'
    <3>1. CASE n \in notes
      BY <2>1, <3>1 DEF NotesInv, NoteHasBook
    <3>2. CASE /\ n = [id |-> r.note, owner |-> r.owner, book |-> r.book]
               /\ r.made # 0 => [id |-> r.made, owner |-> r.owner] \in notebooks'
      <4>1. n.book = r.book /\ n.owner = r.owner
        BY <3>2
      <4> QED BY <1>0, <2>1, <3>2, <4>1
    <3> QED BY <1>3, <3>1, <3>2
  <2> QED BY <2>2 DEF NoteHasBook
<1> QED BY <1>4, <1>5, <1>6, <1>7 DEF NotesInv

\* A rolled-back transaction takes its notebook with it.
LEMMA AbandonOpKeeps ==
  ASSUME NotesInv, NEW o \in Ops, AbandonOp(o) PROVE NotesInv'
  BY LeaveKeeps DEF AbandonOp

\* The conjunction is inductive.
LEMMA NotesInvNext == NotesInv /\ [NotesNext]_noteVars => NotesInv'
<1>1. CASE UNCHANGED noteVars
  BY <1>1 DEF noteVars, NotesInv, NoteTypes, OneNotebook, BookIsOwners, NoteHasBook
<1> QED
  BY <1>1, BeginOpKeeps, AuthorizeKeeps, FindNotebookKeeps, InsertNotebookKeeps, ActKeeps,
     CommitOpKeeps, AbandonOpKeeps DEF NotesNext

\* A saved note stays within reach of default_notebook, however the first
\* operations of the page and of Codex's tools overlap.
THEOREM NotesReachable == NotesSpec => []NotesStayReachable
<1>1. NotesInv => NotesStayReachable
  <2>1. SUFFICES ASSUME NotesInv, NEW n \in notes
                 PROVE  {b.id : b \in {c \in notebooks : c.owner = n.owner}} = {n.book}
    BY DEF NotesStayReachable
  <2> DEFINE B == [id |-> n.book, owner |-> n.owner]
  <2>2. B \in notebooks /\ B.owner = n.owner /\ B.id = n.book
    BY <2>1 DEF NotesInv, NoteHasBook
  <2>3. \A c \in notebooks : c.owner = n.owner => c = B
    BY <2>1, <2>2 DEF NotesInv, OneNotebook
  <2> HIDE DEF B
  <2> QED BY <2>2, <2>3
<1> QED BY <1>1, NotesInvInit, NotesInvNext, PTL DEF NotesSpec

\* The whole of NotesTypeOK, with what Act leaves behind for the commit.
NoteTypesOK == NotesTypeOK /\ \A o \in Ops : op[o].step = "commit" => op[o].note # 0

\* An operation's record, in terms of the ids handed out.
OpRecord == [kind : {"none", "create", "edit", "delete", "list"}, step : OpSteps,
             owner : Owners, book : 0..lastBook, made : 0..lastBook, note : 0..lastNote]

\* The ids handed out only grow, and records stay within them.
LEMMA OpRecordGrows ==
  ASSUME lastBook \in Nat, lastNote \in Nat, lastBook' \in Nat, lastNote' \in Nat,
         lastBook <= lastBook', lastNote <= lastNote'
  PROVE  /\ OpRecord \subseteq OpRecord'
         /\ 1..lastBook \subseteq 1..lastBook' /\ 1..lastNote \subseteq 1..lastNote'
<1>1. /\ 0..lastBook \subseteq 0..lastBook' /\ 0..lastNote \subseteq 0..lastNote'
      /\ 1..lastBook \subseteq 1..lastBook' /\ 1..lastNote \subseteq 1..lastNote'
  OBVIOUS
<1> QED BY <1>1 DEF OpRecord

\* A step of one operation that leaves the tables within the ids.
LEMMA MoveTypes ==
  ASSUME NoteTypesOK, NEW o \in Ops, NEW r, Move(o, r), r \in OpRecord',
         r.step \in {"act", "commit"} => r.book # 0, r.step = "commit" => r.note # 0,
         lastBook' \in 0..MaxBooks, lastNote' \in 0..MaxNotes, lastBook <= lastBook', lastNote <= lastNote',
         UNCHANGED <<notebooks, notes>>, noteFaults' \in 0..MaxNoteFaults
  PROVE  NoteTypesOK'
<1> USE NotesAssumption
<1>0. lastBook \in Nat /\ lastNote \in Nat /\ lastBook' \in Nat /\ lastNote' \in Nat
  BY DEF NoteTypesOK, NotesTypeOK
<1>1. /\ OpRecord \subseteq OpRecord'
      /\ 1..lastBook \subseteq 1..lastBook' /\ 1..lastNote \subseteq 1..lastNote'
  BY <1>0, OpRecordGrows
<1>2. op \in [Ops -> OpRecord]
  BY DEF NoteTypesOK, NotesTypeOK, OpRecord
<1>3. op' \in [Ops -> OpRecord'] /\ \A p \in Ops : op'[p] = IF p = o THEN r ELSE op[p]
  BY <1>1, <1>2 DEF Move
<1>4. \A p \in Ops : /\ op'[p].step \in {"act", "commit"} => op'[p].book # 0
                     /\ op'[p].step = "commit" => op'[p].note # 0
  BY <1>3 DEF NoteTypesOK, NotesTypeOK
<1>5. notebooks' \subseteq [id : 1..lastBook', owner : Owners]
  BY <1>1 DEF NoteTypesOK, NotesTypeOK
<1>6. notes' \subseteq [id : 1..lastNote', owner : Owners, book : 1..lastBook']
  BY <1>1 DEF NoteTypesOK, NotesTypeOK
<1> QED BY <1>3, <1>4, <1>5, <1>6 DEF NoteTypesOK, NotesTypeOK, OpRecord

\* The record of an idle operation.
LEMMA NoOpRecord ==
  ASSUME lastBook \in Nat, lastNote \in Nat
  PROVE  NoOp \in OpRecord /\ NoOp.step = "idle" /\ NoOp.kind = "none"
<1>1. (CHOOSE u \in Owners : TRUE) \in Owners
  BY NotesAssumption
<1>2. 0 \in 0..lastBook /\ 0 \in 0..lastNote
  OBVIOUS
<1> QED BY <1>1, <1>2 DEF NoOp, OpRecord, OpSteps

\* What a SELECT sees has an id that was handed out.
LEMMA VisibleTypes ==
  ASSUME NoteTypesOK, NEW o \in Ops, NEW b \in Visible(o) PROVE b.id \in 1..lastBook
<1>1. op[o] \in OpRecord
  BY DEF NoteTypesOK, NotesTypeOK, OpRecord
<1>2. CASE b \in notebooks
  BY <1>2 DEF NoteTypesOK, NotesTypeOK
<1>3. CASE b \in [id : Books, owner : {op[o].owner}] /\ b.id = op[o].made
  BY <1>1, <1>3, NotesAssumption DEF Books, OpRecord, NoteTypesOK, NotesTypeOK
<1> QED BY <1>2, <1>3 DEF Visible

\* The tables are empty at first.
LEMMA NotesTypesInit == NotesInit => NoteTypesOK
<1> SUFFICES ASSUME NotesInit PROVE NoteTypesOK
  OBVIOUS
<1>1. lastBook = 0 /\ lastNote = 0 /\ lastBook \in Nat /\ lastNote \in Nat /\ noteFaults = 0
  BY DEF NotesInit
<1>2. NoOp \in OpRecord /\ NoOp.step = "idle"
  BY <1>1, NoOpRecord
<1>3. op \in [Ops -> OpRecord] /\ \A o \in Ops : op[o].step = "idle"
  BY <1>2 DEF NotesInit
<1> QED BY <1>1, <1>3, NotesAssumption DEF NotesInit, NoteTypesOK, NotesTypeOK, OpRecord

\* Every step keeps the types.
LEMMA NotesTypesNext == NoteTypesOK /\ [NotesNext]_noteVars => NoteTypesOK'
<1> SUFFICES ASSUME NoteTypesOK, [NotesNext]_noteVars PROVE NoteTypesOK'
  OBVIOUS
<1> USE NotesAssumption
<1>t. /\ lastBook \in 0..MaxBooks /\ lastNote \in 0..MaxNotes /\ noteFaults \in 0..MaxNoteFaults
      /\ lastBook \in Nat /\ lastNote \in Nat /\ lastBook <= lastBook /\ lastNote <= lastNote
      /\ op \in [Ops -> OpRecord]
  BY DEF NoteTypesOK, NotesTypeOK, OpRecord
<1>u. ASSUME UNCHANGED <<lastBook, lastNote>> PROVE OpRecord' = OpRecord
  BY <1>u DEF OpRecord
<1>l. ASSUME NEW o \in Ops, Leave(o), UNCHANGED tables, noteFaults' \in 0..MaxNoteFaults PROVE NoteTypesOK'
  <2>1. NoOp \in OpRecord /\ NoOp.step = "idle"
    BY <1>t, NoOpRecord
  <2>2. UNCHANGED <<lastBook, lastNote, notebooks, notes>>
    BY <1>l DEF tables
  <2> QED BY <1>l, <1>t, <1>u, <2>1, <2>2, MoveTypes DEF Leave
<1>m. ASSUME NEW o \in Ops, NEW r \in OpRecord, Move(o, r), r.step \notin {"act", "commit"},
             UNCHANGED <<tables, noteFaults>>
      PROVE  NoteTypesOK'
  <2>1. UNCHANGED <<lastBook, lastNote, notebooks, notes, noteFaults>>
    BY <1>m DEF tables
  <2> QED BY <1>m, <1>t, <1>u, <2>1, MoveTypes
<1>1. ASSUME NEW o \in Ops, BeginOp(o) PROVE NoteTypesOK'
  <2>1. PICK u \in Owners, kind \in {"create", "edit", "delete", "list"}, s \in {"authz", "look"} :
          Move(o, [NoOp EXCEPT !.kind = kind, !.owner = u, !.step = s])
    BY <1>1 DEF BeginOp
  <2> DEFINE r == [NoOp EXCEPT !.kind = kind, !.owner = u, !.step = s]
  <2>2. r \in OpRecord /\ r.step = s
    BY <1>t, NoOpRecord DEF OpRecord, OpSteps
  <2> QED BY <1>1, <1>m, <2>1, <2>2 DEF BeginOp
<1>2. ASSUME NEW o \in Ops, Authorize(o) PROVE NoteTypesOK'
  <2> DEFINE r == [op[o] EXCEPT !.step = "look"]
  <2>1. r \in OpRecord /\ r.step = "look"
    BY <1>t DEF OpRecord, OpSteps
  <2> QED BY <1>2, <1>m, <2>1 DEF Authorize
<1>3. ASSUME NEW o \in Ops, FindNotebook(o) PROVE NoteTypesOK'
  <2>1. CASE Move(o, [op[o] EXCEPT !.step = "insert"])
    <3>1. [op[o] EXCEPT !.step = "insert"] \in OpRecord /\ [op[o] EXCEPT !.step = "insert"].step = "insert"
      BY <1>t DEF OpRecord, OpSteps
    <3> QED BY <1>3, <1>m, <2>1, <3>1 DEF FindNotebook
  <2>2. CASE Leave(o)
    BY <1>3, <1>l, <1>t, <2>2 DEF FindNotebook
  <2>3. ASSUME NEW b \in Visible(o), Move(o, [op[o] EXCEPT !.book = b.id, !.step = "act"]) PROVE NoteTypesOK'
    <3> DEFINE r == [op[o] EXCEPT !.book = b.id, !.step = "act"]
    <3>1. b.id \in 0..lastBook /\ b.id # 0
      BY <1>t, VisibleTypes
    <3>2. r \in OpRecord /\ r.step = "act" /\ r.book # 0
      BY <1>t, <3>1 DEF OpRecord, OpSteps
    <3>3. UNCHANGED <<lastBook, lastNote, notebooks, notes, noteFaults>>
      BY <1>3 DEF FindNotebook, tables
    <3> HIDE DEF r
    <3> QED BY <1>t, <1>u, <2>3, <3>2, <3>3, MoveTypes DEF r
  <2> QED BY <1>3, <2>1, <2>2, <2>3 DEF FindNotebook
<1>4. ASSUME NEW o \in Ops, InsertNotebook(o) PROVE NoteTypesOK'
  <2>1. CASE Move(o, [op[o] EXCEPT !.step = "again"]) /\ UNCHANGED lastBook
    <3>1. [op[o] EXCEPT !.step = "again"] \in OpRecord /\ [op[o] EXCEPT !.step = "again"].step = "again"
      BY <1>t DEF OpRecord, OpSteps
    <3>2. UNCHANGED <<tables, noteFaults>>
      BY <1>4, <2>1 DEF InsertNotebook, tables
    <3> QED BY <1>m, <2>1, <3>1, <3>2
  <2>2. CASE /\ lastBook < MaxBooks /\ lastBook' = lastBook + 1
             /\ Move(o, [op[o] EXCEPT !.made = lastBook + 1, !.step = "again"])
    <3> DEFINE r == [op[o] EXCEPT !.made = lastBook + 1, !.step = "again"]
    <3>1. UNCHANGED <<notebooks, notes, lastNote, noteFaults>>
      BY <1>4 DEF InsertNotebook
    <3>2. lastBook' \in 0..MaxBooks /\ lastBook <= lastBook' /\ lastBook' \in Nat /\ lastBook + 1 \in 0..lastBook'
      BY <1>t, <2>2
    <3>3. OpRecord \subseteq OpRecord'
      BY <1>t, <3>1, <3>2, OpRecordGrows
    <3>4. op[o] \in OpRecord'
      BY <1>t, <3>3
    <3>5. r \in OpRecord' /\ r.step = "again"
      BY <3>2, <3>4 DEF OpRecord, OpSteps
    <3> HIDE DEF r
    <3> QED BY <1>t, <2>2, <3>1, <3>2, <3>5, MoveTypes DEF r
  <2> QED BY <1>4, <2>1, <2>2 DEF InsertNotebook
<1>5. ASSUME NEW o \in Ops, Act(o) PROVE NoteTypesOK'
  <2>0. /\ UNCHANGED <<notebooks, notes, lastBook, noteFaults>> /\ op[o] \in OpRecord
        /\ op[o].book # 0
    BY <1>5, <1>t DEF Act, NoteTypesOK, NotesTypeOK
  <2>1. CASE Leave(o) /\ UNCHANGED lastNote
    BY <1>l, <1>t, <2>0, <2>1 DEF tables
  <2>2. ASSUME NEW i \in Nat, i # 0, i <= lastNote', lastNote' \in 0..MaxNotes, lastNote <= lastNote',
               Move(o, [op[o] EXCEPT !.note = i, !.step = "commit"])
        PROVE  NoteTypesOK'
    <3> DEFINE r == [op[o] EXCEPT !.note = i, !.step = "commit"]
    <3>1. lastNote' \in Nat /\ i \in 0..lastNote' /\ lastBook' \in Nat /\ lastBook <= lastBook'
      BY <1>t, <2>0, <2>2
    <3>2. OpRecord \subseteq OpRecord'
      BY <1>t, <2>2, <3>1, OpRecordGrows
    <3>3. op[o] \in OpRecord'
      BY <2>0, <3>2
    <3>4. r \in OpRecord' /\ r.step = "commit" /\ r.note = i /\ r.book = op[o].book
      BY <3>1, <3>3 DEF OpRecord, OpSteps
    <3> HIDE DEF r
    <3>5. Move(o, r)
      BY <2>2 DEF r
    <3>6. lastBook' \in 0..MaxBooks /\ noteFaults' \in 0..MaxNoteFaults
      BY <1>t, <2>0
    <3> QED BY <2>0, <2>2, <3>1, <3>4, <3>5, <3>6, MoveTypes
  <2>3. CASE lastNote < MaxNotes /\ lastNote' = lastNote + 1
             /\ Move(o, [op[o] EXCEPT !.note = lastNote + 1, !.step = "commit"])
    <3>1. /\ lastNote + 1 \in Nat /\ lastNote + 1 # 0 /\ lastNote + 1 <= lastNote'
          /\ lastNote' \in 0..MaxNotes /\ lastNote <= lastNote'
      BY <1>t, <2>3
    <3> QED BY <2>2, <2>3, <3>1
  <2>4. ASSUME NEW n \in notes, UNCHANGED lastNote,
               Move(o, [op[o] EXCEPT !.note = n.id, !.step = "commit"])
        PROVE  NoteTypesOK'
    <3>1. n.id \in 1..lastNote
      BY DEF NoteTypesOK, NotesTypeOK
    <3>2. n.id \in Nat /\ n.id # 0 /\ n.id <= lastNote' /\ lastNote' \in 0..MaxNotes /\ lastNote <= lastNote'
      BY <1>t, <2>4, <3>1
    <3> QED BY <2>2, <2>4, <3>2
  <2> QED BY <1>5, <2>1, <2>3, <2>4 DEF Act
<1>6. ASSUME NEW o \in Ops, CommitOp(o) PROVE NoteTypesOK'
  <2> DEFINE r == op[o]
  <2>0. /\ UNCHANGED <<lastBook, lastNote, noteFaults>> /\ r \in OpRecord
        /\ r.book # 0 /\ r.note # 0
    BY <1>6, <1>t DEF CommitOp, NoteTypesOK, NotesTypeOK
  <2>1. r.book \in 1..lastBook /\ r.note \in 1..lastNote /\ r.owner \in Owners /\ r.made \in 0..lastBook
    BY <1>t, <2>0 DEF OpRecord
  <2>2. \A b \in notebooks' : b \in notebooks \/ (b \in [id : Books, owner : {r.owner}] /\ b.id = r.made)
    BY <1>6 DEF CommitOp
  <2>3. \A n \in notes' : n \in notes \/ n = [id |-> r.note, owner |-> r.owner, book |-> r.book]
    BY <1>6 DEF CommitOp
  <2>4. op' = [op EXCEPT ![o] = NoOp]
    BY <1>6 DEF CommitOp, Leave, Move
  <2> HIDE DEF r
  <2>5. \A b \in [id : Books, owner : {r.owner}] : b.id = r.made => b \in [id : 1..lastBook, owner : Owners]
    BY <2>1, <1>t DEF Books
  <2>6. notebooks' \subseteq [id : 1..lastBook, owner : Owners]
    BY <2>2, <2>5 DEF NoteTypesOK, NotesTypeOK
  <2>7. notes' \subseteq [id : 1..lastNote, owner : Owners, book : 1..lastBook]
    BY <2>1, <2>3 DEF NoteTypesOK, NotesTypeOK
  <2>8. NoOp \in OpRecord /\ NoOp.step = "idle"
    BY <1>t, NoOpRecord
  <2>9. op' \in [Ops -> OpRecord] /\ \A p \in Ops : op'[p] = IF p = o THEN NoOp ELSE op[p]
    BY <1>t, <2>4, <2>8
  <2>10. \A p \in Ops : /\ op'[p].step \in {"act", "commit"} => op'[p].book # 0
                        /\ op'[p].step = "commit" => op'[p].note # 0
    BY <2>8, <2>9 DEF NoteTypesOK, NotesTypeOK
  <2> QED BY <1>t, <2>0, <2>6, <2>7, <2>9, <2>10 DEF NoteTypesOK, NotesTypeOK, OpRecord
<1>7. ASSUME NEW o \in Ops, AbandonOp(o) PROVE NoteTypesOK'
  <2>1. noteFaults' \in 0..MaxNoteFaults
    BY <1>7, <1>t DEF AbandonOp
  <2> QED BY <1>7, <1>l, <2>1 DEF AbandonOp
<1>8. CASE UNCHANGED noteVars
  BY <1>8 DEF noteVars, NoteTypesOK, NotesTypeOK
<1> QED BY <1>1, <1>2, <1>3, <1>4, <1>5, <1>6, <1>7, <1>8 DEF NotesNext

-----------------------------------------------------------------------------
(* Usage *)

MeterTypes ==
  /\ publisher \in [Publishers -> [step : {"idle", "set", "publish"}, value : Nat]]
  /\ stream \in [Streams -> {"closed", "bootstrap", "first", "listen"}]
  /\ inbox \in [Streams -> Seq(Nat)]
  /\ yielded \in [Streams -> SUBSET Nat]
  /\ usageKey \in Nat /\ reported \in Nat

\* v waits in the queue q
Holds(q, v) == \E i \in DOMAIN q : q[i] = v

\* A queue after a message is appended.
LEMMA HoldsAppend ==
  ASSUME NEW q \in Seq(Nat), NEW v \in Nat
  PROVE  Holds(Append(q, v), v) /\ \A u : Holds(q, u) => Holds(Append(q, v), u)
<1>1. /\ DOMAIN q = 1..Len(q) /\ DOMAIN Append(q, v) = 1..(Len(q) + 1) /\ Len(q) \in Nat
      /\ Append(q, v)[Len(q) + 1] = v
      /\ \A i \in 1..Len(q) : Append(q, v)[i] = q[i]
  OBVIOUS
<1>2. Len(q) + 1 \in 1..(Len(q) + 1) /\ 1..Len(q) \subseteq 1..(Len(q) + 1)
  BY <1>1
<1> QED BY <1>1, <1>2 DEF Holds

\* What a queue holds is its head or in its tail.
LEMMA HoldsTail ==
  ASSUME NEW q \in Seq(Nat), q # <<>>, NEW u, Holds(q, u)
  PROVE  u = Head(q) \/ Holds(Tail(q), u)
<1>1. PICK i \in 1..Len(q) : q[i] = u
  BY DEF Holds
<1>2. Len(q) \in Nat /\ Head(q) = q[1] /\ DOMAIN Tail(q) = 1..(Len(q) - 1)
      /\ \A j \in 1..(Len(q) - 1) : Tail(q)[j] = q[j + 1]
  OBVIOUS
<1>3. CASE i = 1
  BY <1>1, <1>2, <1>3
<1>4. CASE i # 1
  <2>1. i - 1 \in 1..(Len(q) - 1) /\ (i - 1) + 1 = i
    BY <1>1, <1>2, <1>4
  <2> QED BY <1>1, <1>2, <2>1 DEF Holds
<1> QED BY <1>3, <1>4

\* The value of the snapshot key is shown by a stream that has read the key, or
\* on its way there: queued on the subscription, or with a publisher between
\* its SET and its PUBLISH; unless that PUBLISH failed.
KeyIsOnItsWay ==
  usageKey \notin unpublished \cup {0} =>
     \A s \in Streams : stream[s] \in {"first", "listen"} =>
        \/ usageKey \in yielded[s]
        \/ Holds(inbox[s], usageKey)
        \/ \E p \in Publishers : publisher[p].step = "publish" /\ publisher[p].value = usageKey

MeterInv == MeterTypes /\ KeyIsOnItsWay

\* No stream is open at first.
LEMMA MeterInit == UsageInit => MeterInv
  BY DEF UsageInit, MeterInv, MeterTypes, KeyIsOnItsWay

\* The steps of the publishers, the streams and the clock keep it.
LEMMA MeterNext == MeterInv /\ [UsageNext]_usageVars => MeterInv'
<1> SUFFICES ASSUME MeterInv, [UsageNext]_usageVars PROVE MeterInv'
  OBVIOUS
<1> USE DEF MeterInv, MeterTypes
<1>1. ASSUME NEW p \in Publishers, Fetch(p) PROVE MeterInv'
  <2>1. /\ publisher' = [publisher EXCEPT ![p] = [step |-> "set", value |-> reported + 1]]
        /\ publisher[p].step = "idle" /\ reported' = reported + 1
        /\ UNCHANGED <<usageKey, stream, inbox, yielded, unpublished>>
    BY <1>1 DEF Fetch, streamVars
  <2>2. MeterTypes'
    BY <2>1
  <2>3. \A q \in Publishers : publisher[q].step = "publish" => publisher'[q] = publisher[q]
    BY <2>1
  <2>4. KeyIsOnItsWay'
    BY <2>1, <2>3 DEF KeyIsOnItsWay
  <2> QED BY <2>2, <2>4
<1>2. ASSUME NEW p \in Publishers, SetSnapshot(p) PROVE MeterInv'
  <2>1. CASE usageKey' = publisher[p].value /\ publisher' = [publisher EXCEPT ![p].step = "publish"]
    BY <1>2, <2>1 DEF SetSnapshot, KeyIsOnItsWay, streamVars
  <2>2. CASE Published(p) /\ UNCHANGED usageKey
    BY <1>2, <2>2 DEF SetSnapshot, Published, KeyIsOnItsWay, Holds, streamVars
  <2> QED BY <1>2, <2>1, <2>2 DEF SetSnapshot
<1>3. ASSUME NEW p \in Publishers, PublishUsage(p) PROVE MeterInv'
  <2> DEFINE v == publisher[p].value
  <2>0. v \in Nat /\ publisher' = [publisher EXCEPT ![p] = [step |-> "idle", value |-> 0]]
        /\ UNCHANGED <<reported, usageKey, stream, yielded>>
    BY <1>3 DEF PublishUsage, Published
  <2>1. CASE /\ inbox' = [s \in Streams |-> IF Subscribed(s) THEN Append(inbox[s], v) ELSE inbox[s]]
             /\ UNCHANGED unpublished
    <3>1. MeterTypes'
      BY <2>0, <2>1
    <3>2. ASSUME NEW s \in Streams, Holds(inbox[s], usageKey) PROVE Holds(inbox'[s], usageKey)
      BY <2>0, <2>1, <3>2, HoldsAppend
    <3>3. ASSUME NEW s \in Streams, Subscribed(s) PROVE Holds(inbox'[s], v)
      BY <2>0, <2>1, <3>3, HoldsAppend
    <3>4. KeyIsOnItsWay'
      BY <1>3, <2>0, <2>1, <3>2, <3>3 DEF KeyIsOnItsWay, Subscribed
    <3> QED BY <3>1, <3>4
  <2>2. CASE unpublished' = unpublished \cup {v} /\ UNCHANGED inbox
    BY <2>0, <2>2 DEF KeyIsOnItsWay, Holds
  <2> QED BY <1>3, <2>1, <2>2 DEF PublishUsage
<1>4. ASSUME NEW s \in Streams, OpenStream(s) PROVE MeterInv'
  BY <1>4 DEF OpenStream, KeyIsOnItsWay, Holds
<1>5. ASSUME NEW s \in Streams, Bootstrap(s) PROVE MeterInv'
  BY <1>5 DEF Bootstrap, KeyIsOnItsWay, Holds
<1>6. ASSUME NEW s \in Streams, Listen(s) PROVE MeterInv'
  BY <1>6 DEF Listen, KeyIsOnItsWay, Holds
<1>7. ASSUME NEW s \in Streams, Forward(s) PROVE MeterInv'
  <2>1. /\ inbox[s] \in Seq(Nat) /\ inbox[s] # <<>>
        /\ yielded' = [yielded EXCEPT ![s] = @ \cup {Head(inbox[s])}]
        /\ inbox' = [inbox EXCEPT ![s] = Tail(@)]
        /\ UNCHANGED <<usageKey, publisher, stream, unpublished, reported>>
    BY <1>7 DEF Forward
  <2>2. MeterTypes'
    BY <2>1
  <2>3. ASSUME NEW q \in Streams, Holds(inbox[q], usageKey)
        PROVE  Holds(inbox'[q], usageKey) \/ usageKey \in yielded'[q]
    <3>1. CASE q = s
      BY <2>1, <2>3, <3>1, HoldsTail
    <3>2. CASE q # s
      BY <2>1, <2>3, <3>2
    <3> QED BY <3>1, <3>2
  <2>4. \A q \in Streams : yielded[q] \subseteq yielded'[q]
    BY <2>1
  <2>5. KeyIsOnItsWay'
    BY <2>1, <2>3, <2>4 DEF KeyIsOnItsWay
  <2> QED BY <2>2, <2>5
<1>8. ASSUME NEW s \in Streams, CloseStream(s) PROVE MeterInv'
  BY <1>8 DEF CloseStream, KeyIsOnItsWay, Holds
<1>9. CASE ExpireSnapshot
  BY <1>9 DEF ExpireSnapshot, KeyIsOnItsWay, streamVars
<1>10. CASE UNCHANGED usageVars
  BY <1>10 DEF usageVars, streamVars, KeyIsOnItsWay, Holds
<1> QED
  BY <1>1, <1>2, <1>3, <1>4, <1>5, <1>6, <1>7, <1>8, <1>9, <1>10 DEF UsageNext

\* Subscribing before the snapshot is read loses no publish: at rest every open
\* stream has shown the value in the key, in whatever order publishers and
\* streams took their steps, unless that value's PUBLISH failed.
THEOREM SnapshotShown == UsageSpec => []SnapshotWasShown
<1>1. MeterInv => SnapshotWasShown
  <2>1. \A u : ~Holds(<<>>, u)
    BY DEF Holds
  <2>2. SUFFICES ASSUME MeterInv, \A p \in Publishers : publisher[p].step = "idle",
                        NEW s \in Streams, stream[s] = "listen", inbox[s] = <<>>,
                        usageKey \notin unpublished \cup {0}
                 PROVE  usageKey \in yielded[s]
    BY DEF SnapshotWasShown
  <2> QED BY <2>1, <2>2 DEF MeterInv, KeyIsOnItsWay
<1> QED BY <1>1, MeterInit, MeterNext, PTL DEF UsageSpec

\* The whole of UsageTypeOK: what is published was reported.
MeterTypesOK ==
  /\ UsageTypeOK
  /\ inbox \in [Streams -> Seq(Nat)] /\ yielded \in [Streams -> SUBSET Nat]
  /\ \A p \in Publishers : publisher[p].value <= reported
                           /\ (publisher[p].step # "idle" => publisher[p].value # 0)

\* A message appended to a queue, and a queue that loses its head, stay within the values.
LEMMA QueueKeeps ==
  ASSUME NEW q \in Seq(Nat), NEW n \in Nat, \A i \in DOMAIN q : q[i] \in 1..n
  PROVE  /\ \A v \in 1..n : \A i \in DOMAIN Append(q, v) : Append(q, v)[i] \in 1..n
         /\ q # <<>> => Head(q) \in 1..n /\ \A i \in DOMAIN Tail(q) : Tail(q)[i] \in 1..n
<1>1. ASSUME NEW v \in 1..n, NEW i \in DOMAIN Append(q, v) PROVE Append(q, v)[i] \in 1..n
  <2>1. i \in 1..(Len(q) + 1) /\ Len(q) \in Nat /\ DOMAIN q = 1..Len(q)
    OBVIOUS
  <2>2. CASE i = Len(q) + 1
    BY <2>1, <2>2
  <2>3. CASE i # Len(q) + 1
    <3>1. i \in 1..Len(q)
      BY <2>1, <2>3
    <3> QED BY <2>1, <3>1
  <2> QED BY <2>2, <2>3
<1>2. ASSUME q # <<>> PROVE Head(q) \in 1..n /\ \A i \in DOMAIN Tail(q) : Tail(q)[i] \in 1..n
  <2>1. Len(q) \in Nat /\ Len(q) # 0 /\ Head(q) = q[1] /\ DOMAIN q = 1..Len(q)
        /\ DOMAIN Tail(q) = 1..(Len(q) - 1) /\ \A j \in 1..(Len(q) - 1) : Tail(q)[j] = q[j + 1]
    BY <1>2
  <2>2. 1 \in 1..Len(q) /\ \A j \in 1..(Len(q) - 1) : j + 1 \in 1..Len(q)
    BY <2>1
  <2> QED BY <2>1, <2>2
<1> QED BY <1>1, <1>2

\* Nothing is reported at first.
LEMMA MeterTypesInit == UsageInit => MeterTypesOK
<1> SUFFICES ASSUME UsageInit PROVE MeterTypesOK
  OBVIOUS
<1>1. \A p \in Publishers : publisher[p].value = 0 /\ publisher[p].step = "idle"
  BY DEF UsageInit
<1>2. \A s \in Streams : inbox[s] = <<>> /\ DOMAIN inbox[s] = {} /\ yielded[s] = {}
  BY DEF UsageInit
<1>3. publisher \in [Publishers -> [step : {"idle", "set", "publish"}, value : 0..MaxReports]]
  BY UsageAssumption DEF UsageInit
<1>4. UsageTypeOK
  BY <1>2, <1>3, UsageAssumption DEF UsageInit, UsageTypeOK
<1> QED BY <1>1, <1>4 DEF UsageInit, MeterTypesOK

\* Every step keeps the types.
LEMMA MeterTypesNext == MeterTypesOK /\ [UsageNext]_usageVars => MeterTypesOK'
<1> SUFFICES ASSUME MeterTypesOK, [UsageNext]_usageVars PROVE MeterTypesOK'
  OBVIOUS
<1> USE UsageAssumption DEF MeterTypesOK, UsageTypeOK
<1>f. UsageFault => usageFaults' \in 0..MaxUsageFaults
  BY DEF UsageFault
<1>p. ASSUME NEW p \in Publishers, Published(p)
      PROVE  /\ publisher' \in [Publishers -> [step : {"idle", "set", "publish"}, value : 0..MaxReports]]
             /\ \A q \in Publishers : publisher'[q].value <= reported
                                      /\ (publisher'[q].step # "idle" => publisher'[q].value # 0)
  <2> DEFINE e == [step |-> "idle", value |-> 0]
  <2>1. e \in [step : {"idle", "set", "publish"}, value : 0..MaxReports] /\ e.step = "idle" /\ e.value = 0
    OBVIOUS
  <2>2. publisher' = [publisher EXCEPT ![p] = e]
    BY <1>p DEF Published
  <2> HIDE DEF e
  <2>3. /\ publisher' \in [Publishers -> [step : {"idle", "set", "publish"}, value : 0..MaxReports]]
        /\ \A q \in Publishers : publisher'[q] = IF q = p THEN e ELSE publisher[q]
    BY <2>1, <2>2
  <2>4. ASSUME NEW q \in Publishers
        PROVE  publisher'[q].value <= reported /\ (publisher'[q].step # "idle" => publisher'[q].value # 0)
    <3>1. 0 <= reported
      OBVIOUS
    <3>2. CASE q = p
      BY <2>1, <2>3, <3>1, <3>2
    <3>3. CASE q # p
      BY <2>3, <3>3
    <3> QED BY <3>2, <3>3
  <2> QED BY <2>3, <2>4
<1>1. ASSUME NEW p \in Publishers, Fetch(p) PROVE MeterTypesOK'
  <2> DEFINE e == [step |-> "set", value |-> reported + 1]
  <2>1. /\ publisher' = [publisher EXCEPT ![p] = e] /\ reported < MaxReports /\ reported' = reported + 1
        /\ UNCHANGED <<usageKey, stream, inbox, yielded, unpublished, usageFaults>>
    BY <1>1 DEF Fetch, streamVars
  <2>2. reported \in Nat /\ reported' \in 0..MaxReports /\ reported + 1 \in 0..MaxReports /\ reported + 1 # 0
    BY <2>1
  <2>3. e \in [step : {"idle", "set", "publish"}, value : 0..MaxReports] /\ e.value = reported + 1
    BY <2>2
  <2> HIDE DEF e
  <2>4. /\ publisher' \in [Publishers -> [step : {"idle", "set", "publish"}, value : 0..MaxReports]]
        /\ \A q \in Publishers : publisher'[q] = IF q = p THEN e ELSE publisher[q]
    BY <2>1, <2>3
  <2>5. \A q \in Publishers : publisher'[q].value <= reported'
                              /\ (publisher'[q].step # "idle" => publisher'[q].value # 0)
    BY <2>1, <2>2, <2>3, <2>4
  <2>6. 0..reported \subseteq 0..reported' /\ 1..reported \subseteq 1..reported'
    BY <2>1, <2>2
  <2>7. \A s \in Streams : /\ \A i \in DOMAIN inbox[s] : inbox[s][i] \in 1..reported'
                           /\ yielded[s] \subseteq 0..reported'
    BY <2>6
  <2> QED BY <2>1, <2>2, <2>4, <2>5, <2>6, <2>7
<1>2. ASSUME NEW p \in Publishers, SetSnapshot(p) PROVE MeterTypesOK'
  <2>1. UNCHANGED <<reported, stream, inbox, yielded, unpublished>>
    BY <1>2 DEF SetSnapshot, streamVars
  <2>2. CASE usageKey' = publisher[p].value /\ publisher' = [publisher EXCEPT ![p].step = "publish"]
             /\ UNCHANGED usageFaults
    <3>1. /\ publisher' \in [Publishers -> [step : {"idle", "set", "publish"}, value : 0..MaxReports]]
          /\ \A q \in Publishers : publisher'[q].value = publisher[q].value
          /\ \A q \in Publishers : q # p => publisher'[q] = publisher[q]
      BY <2>2
    <3>2. publisher[p].step = "set" /\ publisher[p].value # 0
      BY <1>2 DEF SetSnapshot
    <3>3. \A q \in Publishers : publisher'[q].value <= reported
                                /\ (publisher'[q].step # "idle" => publisher'[q].value # 0)
      BY <3>1, <3>2
    <3>4. usageKey' \in 0..reported
      BY <2>2
    <3> QED BY <2>1, <2>2, <3>1, <3>3, <3>4
  <2>3. CASE UsageFault /\ Published(p) /\ UNCHANGED usageKey
    BY <1>f, <1>p, <2>1, <2>3
  <2> QED BY <1>2, <2>2, <2>3 DEF SetSnapshot
<1>3. ASSUME NEW p \in Publishers, PublishUsage(p) PROVE MeterTypesOK'
  <2> DEFINE v == publisher[p].value
  <2>0. /\ UNCHANGED <<reported, usageKey, stream, yielded>> /\ Published(p)
        /\ v \in 1..reported /\ reported \in Nat
    BY <1>3 DEF PublishUsage
  <2>1. CASE /\ inbox' = [s \in Streams |-> IF Subscribed(s) THEN Append(inbox[s], v) ELSE inbox[s]]
             /\ UNCHANGED <<unpublished, usageFaults>>
    <3> HIDE DEF v
    <3>1. ASSUME NEW s \in Streams
          PROVE /\ inbox'[s] \in Seq(Nat)
                /\ \A i \in DOMAIN inbox'[s] : inbox'[s][i] \in 1..reported
                /\ stream[s] = "closed" => inbox'[s] = <<>>
      <4>1. inbox[s] \in Seq(Nat) /\ v \in Nat /\ \A i \in DOMAIN inbox[s] : inbox[s][i] \in 1..reported
        BY <2>0
      <4>2. CASE Subscribed(s)
        <5>1. inbox'[s] = Append(inbox[s], v) /\ stream[s] # "closed"
          BY <2>1, <4>2 DEF Subscribed
        <5>2. Append(inbox[s], v) \in Seq(Nat)
          BY <4>1
        <5>3. \A i \in DOMAIN Append(inbox[s], v) : Append(inbox[s], v)[i] \in 1..reported
          BY <2>0, <4>1, QueueKeeps
        <5> QED BY <5>1, <5>2, <5>3
      <4>3. CASE ~Subscribed(s)
        BY <2>1, <4>1, <4>3
      <4> QED BY <4>2, <4>3
    <3>2. inbox' \in [Streams -> Seq(Nat)]
      <4>1. inbox' = [s \in Streams |-> inbox'[s]]
        BY <2>1
      <4> QED BY <3>1, <4>1
    <3> QED BY <1>p, <2>0, <2>1, <3>1, <3>2
  <2>2. CASE UsageFault /\ unpublished' = unpublished \cup {v} /\ UNCHANGED inbox
    BY <1>f, <1>p, <2>0, <2>2
  <2> QED BY <1>3, <2>1, <2>2 DEF PublishUsage
<1>4. ASSUME NEW s \in Streams, OpenStream(s) PROVE MeterTypesOK'
  BY <1>4 DEF OpenStream
<1>5. ASSUME NEW s \in Streams, Bootstrap(s) PROVE MeterTypesOK'
  BY <1>5 DEF Bootstrap
<1>6. ASSUME NEW s \in Streams, Listen(s) PROVE MeterTypesOK'
  BY <1>6 DEF Listen
<1>7. ASSUME NEW s \in Streams, Forward(s) PROVE MeterTypesOK'
  <2>1. /\ inbox[s] \in Seq(Nat) /\ inbox[s] # <<>> /\ stream[s] = "listen" /\ reported \in Nat
        /\ yielded' = [yielded EXCEPT ![s] = @ \cup {Head(inbox[s])}]
        /\ inbox' = [inbox EXCEPT ![s] = Tail(@)]
        /\ UNCHANGED <<usageKey, publisher, stream, unpublished, reported, usageFaults>>
    BY <1>7 DEF Forward
  <2>2. Head(inbox[s]) \in 1..reported /\ \A i \in DOMAIN Tail(inbox[s]) : Tail(inbox[s])[i] \in 1..reported
    BY <2>1, QueueKeeps
  <2>3. Tail(inbox[s]) \in Seq(Nat)
    BY <2>1
  <2>4. inbox' \in [Streams -> Seq(Nat)] /\ \A q \in Streams : inbox'[q] = IF q = s THEN Tail(inbox[s]) ELSE inbox[q]
    BY <2>1, <2>3
  <2>5. /\ yielded' \in [Streams -> SUBSET Nat]
        /\ \A q \in Streams : yielded'[q] = IF q = s THEN yielded[s] \cup {Head(inbox[s])} ELSE yielded[q]
    BY <2>1, <2>2
  <2>6. ASSUME NEW q \in Streams
        PROVE /\ \A i \in DOMAIN inbox'[q] : inbox'[q][i] \in 1..reported
              /\ yielded'[q] \subseteq 0..reported
              /\ stream[q] = "closed" => inbox'[q] = <<>> /\ yielded'[q] = {}
    <3>1. CASE q = s
      BY <2>1, <2>2, <2>4, <2>5, <3>1
    <3>2. CASE q # s
      BY <2>4, <2>5, <3>2
    <3> QED BY <3>1, <3>2
  <2> QED BY <2>1, <2>4, <2>5, <2>6
<1>8. ASSUME NEW s \in Streams, CloseStream(s) PROVE MeterTypesOK'
  BY <1>8, <1>f DEF CloseStream
<1>9. CASE ExpireSnapshot
  BY <1>9 DEF ExpireSnapshot, streamVars
<1>10. CASE UNCHANGED usageVars
  BY <1>10 DEF usageVars, streamVars
<1> QED
  BY <1>1, <1>2, <1>3, <1>4, <1>5, <1>6, <1>7, <1>8, <1>9, <1>10 DEF UsageNext

-----------------------------------------------------------------------------
(* RuntimeSettings *)

CallRecord == [step : {"none", "load", "answer", "commit", "remember"}, proc : Processes,
               value : 0..MaxSaves, since : 0..MaxClock]

LimitTypes ==
  /\ clock \in 0..MaxClock /\ saved \in 0..MaxSaves
  /\ savedAt \in [0..MaxSaves -> 0..MaxClock]
  /\ cached \in [Processes -> [value : 0..MaxSaves, expires : 0..(MaxClock + Ttl)]]
  /\ call \in [Calls -> CallRecord]
  /\ used \in (0..MaxSaves) \X (0..MaxClock)

\* Value v was, or is, the row at time t or later.
InForceAt(v, t) == v <= saved /\ (v < saved => t <= savedAt[v + 1])

\* A call lasts MaxCall at most; what it read or committed was in force after
\* it began, and one call at a time is between its check and its commit.
CallsAreShort ==
  \A c \in Calls :
     /\ call[c].since <= clock
     /\ call[c].step # "none" => clock <= call[c].since + MaxCall
     /\ call[c].step \in {"answer", "remember"} => InForceAt(call[c].value, call[c].since)
     /\ call[c].step = "commit" =>
           /\ call[c].value = saved + 1
           /\ \A d \in Calls : call[d].step = "commit" => d = c

\* A cached value dies one TTL and one call after it was replaced, and what was
\* answered last is no older.
CacheDies ==
  \A p \in Processes :
     LET v == cached[p].value
     IN /\ v <= saved /\ cached[p].expires <= clock + Ttl
        /\ v < saved => cached[p].expires <= savedAt[v + 1] + MaxCall + Ttl

AnswerIsRecent ==
  /\ used[1] <= saved /\ used[2] <= clock
  /\ LimitsAreRecent

LimitInv == LimitTypes /\ CallsAreShort /\ CacheDies /\ AnswerIsRecent

\* The record of a call that has ended.
LEMMA NoCallIsCall == NoCall \in CallRecord /\ NoCall.step = "none" /\ NoCall.since = 0
<1>1. (CHOOSE p \in Processes : TRUE) \in Processes
  BY LimitsAssumption
<1> QED BY <1>1, LimitsAssumption DEF NoCall, CallRecord

\* Nothing is cached and no call has begun.
LEMMA LimitInvInit == LimitsInit => LimitInv
<1> SUFFICES ASSUME LimitsInit PROVE LimitInv
  OBVIOUS
<1> USE LimitsAssumption DEF LimitsInit
<1>1. LimitTypes
  BY NoCallIsCall DEF LimitTypes
<1>2. CallsAreShort
  BY NoCallIsCall DEF CallsAreShort
<1>3. CacheDies /\ AnswerIsRecent
  BY DEF CacheDies, AnswerIsRecent, LimitsAreRecent
<1> QED BY <1>1, <1>2, <1>3 DEF LimitInv

\* The save after a replaced value has a time.
LEMMA NextSaveTime ==
  ASSUME LimitTypes, NEW v \in Nat, v < saved
  PROVE  v + 1 \in 0..saved /\ v + 1 \in 0..MaxSaves /\ savedAt[v + 1] \in 0..MaxClock
<1>1. v + 1 \in 0..saved /\ v + 1 \in 0..MaxSaves
  BY LimitsAssumption DEF LimitTypes
<1> QED BY <1>1 DEF LimitTypes

\* Time passes only while every call may still last.
LEMMA TickLimitsKeeps == ASSUME LimitInv, TickLimits PROVE LimitInv'
<1> USE LimitsAssumption DEF LimitInv, TickLimits
<1>1. LimitTypes'
  BY DEF LimitTypes
<1>2. CallsAreShort'
  <2>0. clock' = clock + 1 /\ clock \in Nat /\ UNCHANGED <<saved, savedAt, call>>
    BY DEF LimitTypes
  <2>1. ASSUME NEW c \in Calls
        PROVE  call[c].since <= clock' /\ (call[c].step # "none" => clock' <= call[c].since + MaxCall)
    <3>1. call[c].since \in Nat
      BY DEF LimitTypes, CallRecord
    <3>2. call[c].step = "none" \/ clock < call[c].since + MaxCall
      OBVIOUS
    <3>3. call[c].since <= clock
      BY DEF CallsAreShort
    <3> QED BY <2>0, <3>1, <3>2, <3>3
  <2> QED BY <2>0, <2>1 DEF CallsAreShort, InForceAt
<1>3. CacheDies'
  BY DEF CacheDies, LimitTypes
<1>4. AnswerIsRecent'
  BY DEF AnswerIsRecent, LimitsAreRecent, LimitTypes
<1> QED BY <1>1, <1>2, <1>3, <1>4

\* A hit answers with a value that has not died yet.
LEMMA GetCachedKeeps == ASSUME LimitInv, GetCached PROVE LimitInv'
<1> USE LimitsAssumption DEF LimitInv
<1>0. PICK p \in Processes : clock < cached[p].expires /\ Hit(p)
  BY DEF GetCached
<1>1. /\ used' = <<cached[p].value, clock>> /\ UNCHANGED <<clock, saved, savedAt, call, cached>>
      /\ cached[p].value \in 0..MaxSaves /\ clock \in 0..MaxClock
  BY <1>0 DEF GetCached, Hit, LimitTypes
<1>2. LimitTypes'
  BY <1>1 DEF LimitTypes
<1>3. CallsAreShort' /\ CacheDies'
  BY <1>1 DEF CallsAreShort, InForceAt, CacheDies
<1>4. used'[1] = cached[p].value /\ used'[2] = clock
  BY <1>1
<1> DEFINE v == cached[p].value
<1>5. /\ v <= saved /\ v \in Nat /\ saved \in 0..MaxSaves
      /\ v < saved => cached[p].expires <= savedAt[v + 1] + MaxCall + Ttl
  BY <1>1 DEF CacheDies, LimitTypes
<1>6. v < saved => savedAt[v + 1] \in 0..MaxClock
  BY <1>5, NextSaveTime
<1>7. cached[p].expires \in Nat
  BY DEF LimitTypes
<1>8. AnswerIsRecent'
  BY <1>0, <1>1, <1>4, <1>5, <1>6, <1>7 DEF AnswerIsRecent, LimitsAreRecent
<1> QED BY <1>2, <1>3, <1>8

\* The invariant, when a call begins or ends and the row stays.
LEMMA CallMoves ==
  ASSUME LimitInv, NEW c \in Calls, NEW r \in CallRecord, call' = [call EXCEPT ![c] = r],
         UNCHANGED <<clock, saved, savedAt>>,
         r.since <= clock, r.step # "none" => clock <= r.since + MaxCall,
         r.step \in {"answer", "remember"} => InForceAt(r.value, r.since),
         r.step = "commit" => r.value = saved + 1 /\ \A d \in Calls : call[d].step = "commit" => d = c
  PROVE  call' \in [Calls -> CallRecord] /\ CallsAreShort'
<1>1. call' \in [Calls -> CallRecord] /\ \A d \in Calls : call'[d] = IF d = c THEN r ELSE call[d]
  BY DEF LimitInv, LimitTypes
<1>2. ASSUME NEW d \in Calls
      PROVE /\ call'[d].since <= clock
            /\ call'[d].step # "none" => clock <= call'[d].since + MaxCall
            /\ call'[d].step \in {"answer", "remember"} => InForceAt(call'[d].value, call'[d].since)
            /\ call'[d].step = "commit" => call'[d].value = saved + 1
            /\ call'[d].step = "commit" => \A e \in Calls : call'[e].step = "commit" => e = d
  <2>1. CASE d = c
    BY <1>1, <2>1 DEF LimitInv, CallsAreShort
  <2>2. CASE d # c
    BY <1>1, <2>2 DEF LimitInv, CallsAreShort
  <2> QED BY <2>1, <2>2
<1> QED BY <1>1, <1>2 DEF CallsAreShort, InForceAt

\* A miss begins a call.
LEMMA GetMissKeeps == ASSUME LimitInv, NEW c \in Calls, GetMiss(c) PROVE LimitInv'
<1> USE LimitsAssumption DEF LimitInv
<1>0. PICK p \in Processes :
        call' = [call EXCEPT ![c] = [step |-> "load", proc |-> p, value |-> 0, since |-> clock]]
  BY DEF GetMiss
<1>1. UNCHANGED <<clock, saved, savedAt, cached, used>> /\ clock \in 0..MaxClock
  BY DEF GetMiss, LimitTypes
<1> DEFINE r == [step |-> "load", proc |-> p, value |-> 0, since |-> clock]
<1>2. r \in CallRecord /\ r.step = "load" /\ r.since = clock /\ call' = [call EXCEPT ![c] = r]
  BY <1>0, <1>1 DEF CallRecord
<1> HIDE DEF r
<1>t. r.since <= clock /\ clock <= r.since + MaxCall
  BY <1>1, <1>2
<1>3. call' \in [Calls -> CallRecord] /\ CallsAreShort'
  BY <1>1, <1>2, <1>t, CallMoves
<1>4. LimitTypes' /\ CacheDies' /\ AnswerIsRecent'
  BY <1>1, <1>3 DEF LimitTypes, CacheDies, AnswerIsRecent, LimitsAreRecent
<1> QED BY <1>3, <1>4

\* What load reads is in force when it reads it.
LEMMA LoadKeeps == ASSUME LimitInv, NEW c \in Calls, Load(c) PROVE LimitInv'
<1> USE LimitsAssumption DEF LimitInv
<1> DEFINE q == call[c]
           r == [q EXCEPT !.step = "answer", !.value = saved]
<1>1. UNCHANGED <<clock, saved, savedAt, cached, used>> /\ q.step = "load" /\ call' = [call EXCEPT ![c] = r]
  BY DEF Load
<1>2. /\ q \in CallRecord /\ q.since <= clock /\ clock <= q.since + MaxCall /\ saved \in 0..MaxSaves
  BY <1>1 DEF CallsAreShort, LimitTypes
<1> HIDE DEF q
<1>3. r \in CallRecord /\ r.step = "answer" /\ r.since = q.since /\ r.value = saved
  BY <1>2 DEF CallRecord
<1> HIDE DEF r
<1>4. InForceAt(r.value, r.since)
  BY <1>2, <1>3 DEF InForceAt
<1>5. call' \in [Calls -> CallRecord] /\ CallsAreShort'
  BY <1>1, <1>2, <1>3, <1>4, CallMoves
<1>6. LimitTypes' /\ CacheDies' /\ AnswerIsRecent'
  BY <1>1, <1>5 DEF LimitTypes, CacheDies, AnswerIsRecent, LimitsAreRecent
<1> QED BY <1>5, <1>6

\* A call ends.
LEMMA EndCallMoves ==
  ASSUME LimitInv, NEW c \in Calls, EndCall(c), UNCHANGED <<clock, saved, savedAt>>
  PROVE  call' \in [Calls -> CallRecord] /\ CallsAreShort'
<1>1. NoCall.since <= clock
  BY NoCallIsCall, LimitsAssumption DEF LimitInv, LimitTypes
<1> QED BY <1>1, NoCallIsCall, CallMoves DEF EndCall

\* remember, of a value in force when the call began.
LEMMA RememberKeeps ==
  ASSUME LimitInv, NEW c \in Calls, call[c].step \in {"answer", "remember"},
         Remember(call[c].proc, call[c].value), UNCHANGED <<clock, saved, savedAt>>
  PROVE  /\ CacheDies'
         /\ cached' \in [Processes -> [value : 0..MaxSaves, expires : 0..(MaxClock + Ttl)]]
<1> USE LimitsAssumption DEF LimitInv
<1> DEFINE p == call[c].proc
           v == call[c].value
           e == [value |-> v, expires |-> clock + Ttl]
<1>1. /\ p \in Processes /\ v \in 0..MaxSaves /\ clock \in 0..MaxClock /\ saved \in 0..MaxSaves
      /\ call[c].since \in 0..MaxClock
  BY DEF LimitTypes, CallRecord
<1>2. v <= saved /\ (v < saved => call[c].since <= savedAt[v + 1])
  BY DEF CallsAreShort, InForceAt
<1>3. clock <= call[c].since + MaxCall
  BY DEF CallsAreShort
<1>4. v < saved => clock + Ttl <= savedAt[v + 1] + MaxCall + Ttl
  <2>1. v < saved => savedAt[v + 1] \in 0..MaxClock
    BY <1>1, NextSaveTime
  <2> QED BY <1>1, <1>2, <1>3, <2>1
<1>5. cached' = [cached EXCEPT ![p] = e]
  BY DEF Remember
<1> HIDE DEF p, v
<1>6. e \in [value : 0..MaxSaves, expires : 0..(MaxClock + Ttl)] /\ e.value = v /\ e.expires = clock + Ttl
  BY <1>1
<1> HIDE DEF e
<1>7. /\ cached' \in [Processes -> [value : 0..MaxSaves, expires : 0..(MaxClock + Ttl)]]
      /\ \A o \in Processes : cached'[o] = IF o = p THEN e ELSE cached[o]
  BY <1>5, <1>6 DEF LimitTypes
<1>8. ASSUME NEW o \in Processes
      PROVE /\ cached'[o].value <= saved /\ cached'[o].expires <= clock + Ttl
            /\ cached'[o].value < saved =>
                  cached'[o].expires <= savedAt[cached'[o].value + 1] + MaxCall + Ttl
  <2>1. CASE o = p
    <3>1. cached'[o] = e
      BY <1>7, <2>1
    <3>2. cached'[o].value = v /\ cached'[o].expires = clock + Ttl
      BY <1>6, <3>1
    <3>3. clock + Ttl <= clock + Ttl
      BY <1>1
    <3> QED BY <1>2, <1>4, <3>2, <3>3
  <2>2. CASE o # p
    BY <1>7, <2>2 DEF CacheDies
  <2> QED BY <2>1, <2>2
<1> QED BY <1>7, <1>8 DEF CacheDies

\* A loaded value is answered and remembered within its call.
LEMMA GetLoadedKeeps == ASSUME LimitInv, NEW c \in Calls, GetLoaded(c) PROVE LimitInv'
<1> USE LimitsAssumption DEF LimitInv
<1>1. /\ call[c].step = "answer" /\ Remember(call[c].proc, call[c].value) /\ EndCall(c)
      /\ used' = <<call[c].value, clock>> /\ UNCHANGED <<clock, saved, savedAt>>
  BY DEF GetLoaded
<1>2. call' \in [Calls -> CallRecord] /\ CallsAreShort'
  BY <1>1, EndCallMoves
<1>3. /\ CacheDies'
      /\ cached' \in [Processes -> [value : 0..MaxSaves, expires : 0..(MaxClock + Ttl)]]
  BY <1>1, RememberKeeps
<1> DEFINE v == call[c].value
           b == call[c].since
<1>4. /\ v \in 0..MaxSaves /\ clock \in 0..MaxClock /\ saved \in 0..MaxSaves /\ b \in 0..MaxClock
      /\ clock <= b + MaxCall /\ v <= saved /\ (v < saved => b <= savedAt[v + 1])
  BY <1>1 DEF LimitTypes, CallRecord, CallsAreShort, InForceAt
<1>5. v < saved => savedAt[v + 1] \in 0..MaxClock
  BY <1>4, NextSaveTime
<1> HIDE DEF v, b
<1>6. used'[1] = v /\ used'[2] = clock /\ used' \in (0..MaxSaves) \X (0..MaxClock)
  BY <1>1, <1>4 DEF v
<1>7. AnswerIsRecent'
  BY <1>1, <1>4, <1>5, <1>6 DEF AnswerIsRecent, LimitsAreRecent
<1>8. LimitTypes'
  BY <1>1, <1>2, <1>3, <1>6 DEF LimitTypes
<1> QED BY <1>2, <1>3, <1>7, <1>8

\* A save begins when no other is between its SELECT FOR UPDATE and its commit.
LEMMA BeginSaveKeeps == ASSUME LimitInv, NEW c \in Calls, BeginSave(c) PROVE LimitInv'
<1> USE LimitsAssumption DEF LimitInv
<1>0. PICK p \in Processes :
        call' = [call EXCEPT ![c] = [step |-> "commit", proc |-> p, value |-> saved + 1, since |-> clock]]
  BY DEF BeginSave
<1>1. /\ UNCHANGED <<clock, saved, savedAt, cached, used>> /\ saved < MaxSaves
      /\ \A d \in Calls : call[d].step # "commit"
  BY DEF BeginSave
<1> DEFINE r == [step |-> "commit", proc |-> p, value |-> saved + 1, since |-> clock]
<1>2. /\ r \in CallRecord /\ r.step = "commit" /\ r.since = clock /\ r.value = saved + 1
      /\ clock \in 0..MaxClock /\ call' = [call EXCEPT ![c] = r]
  BY <1>0, <1>1 DEF CallRecord, LimitTypes
<1> HIDE DEF r
<1>t. r.since <= clock /\ clock <= r.since + MaxCall
  BY <1>2
<1>3. call' \in [Calls -> CallRecord] /\ CallsAreShort'
  BY <1>1, <1>2, <1>t, CallMoves
<1>4. LimitTypes' /\ CacheDies' /\ AnswerIsRecent'
  BY <1>1, <1>3 DEF LimitTypes, CacheDies, AnswerIsRecent, LimitsAreRecent
<1> QED BY <1>3, <1>4

\* The saved value is remembered, perhaps over a newer one, within its call.
LEMMA RememberSavedKeeps == ASSUME LimitInv, NEW c \in Calls, RememberSaved(c) PROVE LimitInv'
<1> USE LimitsAssumption DEF LimitInv
<1>1. /\ call[c].step = "remember" /\ EndCall(c) /\ UNCHANGED <<clock, saved, savedAt, used>>
      /\ Remember(call[c].proc, call[c].value) \/ UNCHANGED cached
  BY DEF RememberSaved
<1>2. call' \in [Calls -> CallRecord] /\ CallsAreShort'
  BY <1>1, EndCallMoves
<1>3. /\ CacheDies'
      /\ cached' \in [Processes -> [value : 0..MaxSaves, expires : 0..(MaxClock + Ttl)]]
  <2>1. CASE UNCHANGED cached
    BY <1>1, <2>1 DEF CacheDies, LimitTypes
  <2> QED BY <1>1, <2>1, RememberKeeps
<1>4. LimitTypes' /\ AnswerIsRecent'
  BY <1>1, <1>2, <1>3 DEF LimitTypes, AnswerIsRecent, LimitsAreRecent
<1> QED BY <1>2, <1>3, <1>4

\* A save that commits: what was in force until now is replaced now.
LEMMA CommitSaveKeeps == ASSUME LimitInv, NEW c \in Calls, CommitSave(c) PROVE LimitInv'
<1> USE LimitsAssumption DEF LimitInv
<1> DEFINE q == call[c]
           r == [q EXCEPT !.step = "remember"]
<1>1. /\ q.step = "commit" /\ saved' = q.value /\ savedAt' = [savedAt EXCEPT ![q.value] = clock]
      /\ call' = [call EXCEPT ![c].step = "remember"] /\ UNCHANGED <<clock, cached, used>>
  BY DEF CommitSave, At
<1>2. /\ q \in CallRecord /\ q.value = saved + 1 /\ q.value \in 0..MaxSaves /\ saved \in 0..MaxSaves
      /\ clock \in 0..MaxClock /\ q.since <= clock /\ clock <= q.since + MaxCall
      /\ \A d \in Calls : call[d].step = "commit" => d = c
  BY <1>1 DEF CallsAreShort, LimitTypes, CallRecord
<1>3. call' = [call EXCEPT ![c] = r]
  BY <1>1 DEF LimitTypes
<1> HIDE DEF q
<1>4. r \in CallRecord /\ r.step = "remember" /\ r.value = q.value /\ r.since = q.since
  BY <1>2 DEF CallRecord
<1> HIDE DEF r
<1>5. /\ saved' = saved + 1 /\ savedAt' \in [0..MaxSaves -> 0..MaxClock] /\ savedAt'[saved + 1] = clock
      /\ \A n \in 0..saved : savedAt'[n] = savedAt[n] /\ savedAt[n] \in 0..MaxClock
  <2>1. savedAt \in [0..MaxSaves -> 0..MaxClock]
    BY DEF LimitTypes
  <2>2. saved' = saved + 1 /\ savedAt' = [savedAt EXCEPT ![saved + 1] = clock] /\ saved + 1 \in 0..MaxSaves
    BY <1>1, <1>2 DEF q
  <2>3. savedAt' \in [0..MaxSaves -> 0..MaxClock] /\ savedAt'[saved + 1] = clock
    BY <1>2, <2>1, <2>2
  <2>4. \A n \in 0..saved : n \in 0..MaxSaves /\ n # saved + 1
    BY <1>2
  <2> QED BY <2>1, <2>2, <2>3, <2>4
<1>6. \A v, t \in Nat : InForceAt(v, t) /\ t <= clock =>
                             v <= saved' /\ (v < saved' => t <= savedAt'[v + 1])
  <2> TAKE v, t \in Nat
  <2> HAVE InForceAt(v, t) /\ t <= clock
  <2>1. CASE v = saved
    BY <1>2, <1>5, <2>1 DEF InForceAt
  <2>2. CASE v < saved
    <3>1. v + 1 \in 0..saved
      BY <1>2, <2>2
    <3> QED BY <1>2, <1>5, <2>2, <3>1 DEF InForceAt
  <2> QED BY <1>2, <2>1, <2>2 DEF InForceAt
<1>7. call' \in [Calls -> CallRecord] /\ \A d \in Calls : call'[d] = IF d = c THEN r ELSE call[d]
  BY <1>3, <1>4 DEF LimitTypes
<1>8. LimitTypes'
  BY <1>1, <1>2, <1>5, <1>7 DEF LimitTypes
<1>9. CallsAreShort'
  <2>1. ASSUME NEW d \in Calls
        PROVE /\ call'[d].since <= clock
              /\ call'[d].step # "none" => clock <= call'[d].since + MaxCall
              /\ call'[d].step \in {"answer", "remember"} =>
                    /\ call'[d].value <= saved'
                    /\ call'[d].value < saved' => call'[d].since <= savedAt'[call'[d].value + 1]
              /\ call'[d].step # "commit"
    <3>1. CASE d = c
      <4>1. call'[d] = r
        BY <1>7, <3>1
      <4>2. /\ call'[d].step = "remember" /\ call'[d].value = saved' /\ call'[d].since = q.since
            /\ saved' \in Nat /\ saved' <= saved' /\ ~(saved' < saved')
        BY <1>2, <1>4, <1>5, <4>1
      <4> QED BY <1>2, <4>2
    <3>2. CASE d # c
      <4>1. call'[d] = call[d] /\ call[d].since \in Nat /\ call[d].value \in Nat
        <5>1. call'[d] = call[d]
          BY <1>7, <3>2
        <5>2. call[d] \in CallRecord
          BY DEF LimitTypes
        <5> QED BY <5>1, <5>2 DEF CallRecord
      <4>2. call[d].step # "commit"
        BY <1>2, <3>2
      <4>3. call[d].step \in {"answer", "remember"} => InForceAt(call[d].value, call[d].since)
        BY DEF CallsAreShort
      <4>4. call[d].since <= clock /\ (call[d].step # "none" => clock <= call[d].since + MaxCall)
        BY DEF CallsAreShort
      <4>5. call[d].step \in {"answer", "remember"} =>
               call[d].value <= saved' /\ (call[d].value < saved' => call[d].since <= savedAt'[call[d].value + 1])
        BY <1>6, <4>1, <4>3, <4>4
      <4> QED BY <4>1, <4>2, <4>4, <4>5
    <3> QED BY <3>1, <3>2
  <2> QED BY <1>1, <2>1 DEF CallsAreShort, InForceAt
<1>10. CacheDies'
  <2>1. ASSUME NEW p \in Processes
        PROVE /\ cached[p].value <= saved' /\ cached[p].expires <= clock + Ttl
              /\ cached[p].value < saved' =>
                    cached[p].expires <= savedAt'[cached[p].value + 1] + MaxCall + Ttl
    <3>1. /\ cached[p].value \in Nat /\ cached[p].expires \in Nat
          /\ cached[p].value <= saved /\ cached[p].expires <= clock + Ttl
          /\ cached[p].value < saved => cached[p].expires <= savedAt[cached[p].value + 1] + MaxCall + Ttl
      BY DEF LimitTypes, CacheDies
    <3>2. CASE cached[p].value = saved
      BY <1>2, <1>5, <3>1, <3>2
    <3>3. CASE cached[p].value < saved
      <4> DEFINE v == cached[p].value
      <4>0. v \in Nat /\ v < saved /\ saved \in Nat
        BY <1>2, <3>1, <3>3
      <4> HIDE DEF v
      <4>1. v + 1 \in 0..saved
        BY <4>0
      <4>2. savedAt'[v + 1] = savedAt[v + 1]
        BY <1>5, <4>1
      <4>3. v <= saved'
        BY <1>5, <4>0
      <4> QED BY <3>1, <3>3, <4>2, <4>3 DEF v
    <3> QED BY <1>2, <3>1, <3>2, <3>3
  <2> QED BY <1>1, <2>1 DEF CacheDies
<1>11. AnswerIsRecent'
  <2>1. /\ used[1] \in Nat /\ used[2] \in Nat /\ used[1] <= saved /\ used[2] <= clock
        /\ used[1] < saved => used[2] <= savedAt[used[1] + 1] + MaxCall + Ttl
    BY DEF LimitTypes, AnswerIsRecent, LimitsAreRecent
  <2>2. CASE used[1] = saved
    BY <1>1, <1>2, <1>5, <2>1, <2>2 DEF AnswerIsRecent, LimitsAreRecent
  <2>3. CASE used[1] < saved
    <3>1. used[1] + 1 \in 0..saved
      BY <1>2, <2>1, <2>3
    <3> QED BY <1>1, <1>2, <1>5, <2>1, <2>3, <3>1 DEF AnswerIsRecent, LimitsAreRecent
  <2> QED BY <1>2, <2>1, <2>2, <2>3
<1> QED BY <1>8, <1>9, <1>10, <1>11

\* The conjunction is inductive.
LEMMA LimitInvNext == LimitInv /\ [LimitsNext]_limitVars => LimitInv'
<1> SUFFICES ASSUME LimitInv, [LimitsNext]_limitVars PROVE LimitInv'
  OBVIOUS
<1>1. CASE UNCHANGED limitVars
  BY <1>1 DEF limitVars, LimitInv, LimitTypes, CallsAreShort, InForceAt, CacheDies, AnswerIsRecent, LimitsAreRecent
<1> QED BY <1>1, TickLimitsKeeps, GetCachedKeeps, GetMissKeeps, LoadKeeps, GetLoadedKeeps, BeginSaveKeeps,
           CommitSaveKeeps, RememberSavedKeeps DEF LimitsNext

\* The types of the run follow.
LEMMA LimitTypesOK == LimitInv => LimitsTypeOK
<1> SUFFICES ASSUME LimitInv PROVE LimitsTypeOK
  OBVIOUS
<1> USE LimitsAssumption DEF LimitInv
<1>1. ASSUME NEW c \in Calls
      PROVE  /\ call[c].step \in {"none", "load", "answer", "commit", "remember"}
             /\ call[c].proc \in Processes /\ call[c].value \in 0..MaxSaves
             /\ call[c].since \in 0..clock
  <2>1. call[c] \in CallRecord /\ clock \in Nat /\ call[c].since <= clock
    BY DEF LimitTypes, CallsAreShort
  <2>2. call[c].since \in Nat
    BY <2>1 DEF CallRecord
  <2> QED BY <2>1, <2>2 DEF CallRecord
<1>2. used \in (0..saved) \X (0..clock)
  BY DEF LimitTypes, AnswerIsRecent
<1> QED BY <1>1, <1>2 DEF LimitTypes, LimitsTypeOK

\* A limit get() answers with was replaced at most one TTL and one call ago,
\* however loads and saves of any number of processes overlap.
THEOREM LimitsRecent == LimitsSpec => []LimitsAreRecent
<1>1. LimitInv => LimitsAreRecent
  BY DEF LimitInv, AnswerIsRecent
<1> QED BY <1>1, LimitInvInit, LimitInvNext, PTL DEF LimitsSpec

-----------------------------------------------------------------------------
(* Preferences *)

\* As long as the sidecar has not changed its catalog, the cached catalog is the
\* live one and every choice stored or about to be is valid in it.
ChoicesAreValid ==
  upgrades = 0 =>
     /\ kept \subseteq {live} /\ Valid(live, preference)
     /\ \A u \in Updates : update[u].step = "checked" => Valid(live, update[u].want)

PrefInv == PreferencesTypeOK /\ ChoicesAreValid /\ TurnOptionsAreOffered

\* The default choice is valid in every catalog.
LEMMA DefaultValid ==
  Default \in Choice /\ \A c \in Catalogs : Valid(c, Default)
  BY DEF Default, Choice, Valid

\* Nothing is chosen at first.
LEMMA PrefInvInit == PreferencesInit => PrefInv
<1> SUFFICES ASSUME PreferencesInit PROVE PrefInv
  OBVIOUS
<1>1. NoUpdate \in [step : {"idle", "checked"}, want : Choice] /\ NoUpdate.step = "idle"
  BY DefaultValid DEF NoUpdate
<1>2. PreferencesTypeOK
  BY <1>1, DefaultValid, PreferencesAssumption DEF PreferencesInit, PreferencesTypeOK
<1>3. ChoicesAreValid /\ TurnOptionsAreOffered
  BY <1>1, DefaultValid DEF PreferencesInit, ChoicesAreValid, TurnOptionsAreOffered
<1> QED BY <1>2, <1>3 DEF PrefInv

\* The catalog a request lists is the live one until the sidecar is upgraded.
LEMMA Listed ==
  ASSUME PrefInv, NEW c \in Catalogs, ListModels(c)
  PROVE  /\ kept' \in {{}} \cup {{d} : d \in Catalogs}
         /\ catalogErrors' \in 0..MaxCatalogErrors
         /\ upgrades = 0 => c = live /\ kept' \subseteq {live}
<1>1. catalogErrors' \in 0..MaxCatalogErrors
  BY PreferencesAssumption DEF PrefInv, PreferencesTypeOK, ListModels
<1>2. kept' = kept \/ kept' = {c}
  BY DEF ListModels
<1>3. kept' \in {{}} \cup {{d} : d \in Catalogs}
  BY <1>2 DEF PrefInv, PreferencesTypeOK
<1>4. kept = {c} \/ c = live
  BY DEF ListModels
<1>5. upgrades = 0 => c = live /\ kept' \subseteq {live}
  BY <1>2, <1>4 DEF PrefInv, ChoicesAreValid
<1> QED BY <1>1, <1>3, <1>5

\* A choice is kept only when it is valid in the catalog that was listed.
LEMMA CheckPreferenceKeeps == ASSUME PrefInv, NEW u \in Updates, CheckPreference(u) PROVE PrefInv'
<1>0. PICK want \in Choice, c \in Catalogs :
        /\ ListModels(c) /\ Valid(c, want)
        /\ update' = [update EXCEPT ![u] = [step |-> "checked", want |-> want]]
  BY DEF CheckPreference
<1>1. UNCHANGED <<live, preference, options, upgrades>>
  BY DEF CheckPreference
<1>2. /\ kept' \in {{}} \cup {{d} : d \in Catalogs} /\ catalogErrors' \in 0..MaxCatalogErrors
      /\ upgrades = 0 => c = live /\ kept' \subseteq {live}
  BY <1>0, Listed
<1>3. /\ update' \in [Updates -> [step : {"idle", "checked"}, want : Choice]]
      /\ \A w \in Updates \ {u} : update'[w] = update[w]
      /\ update'[u].want = want
  BY <1>0 DEF PrefInv, PreferencesTypeOK
<1>4. PreferencesTypeOK'
  BY <1>1, <1>2, <1>3 DEF PrefInv, PreferencesTypeOK
<1>5. ChoicesAreValid'
  BY <1>0, <1>1, <1>2, <1>3 DEF PrefInv, ChoicesAreValid, Valid, EffectiveModel, Supports
<1>6. TurnOptionsAreOffered'
  BY <1>1 DEF PrefInv, TurnOptionsAreOffered, Supports
<1> QED BY <1>4, <1>5, <1>6 DEF PrefInv

\* The choice that was checked is stored.
LEMMA StorePreferenceKeeps == ASSUME PrefInv, NEW u \in Updates, StorePreference(u) PROVE PrefInv'
<1>1. /\ update[u].step = "checked" /\ preference' = update[u].want
      /\ update' = [update EXCEPT ![u] = NoUpdate]
      /\ UNCHANGED <<live, kept, options, upgrades, catalogErrors>>
  BY DEF StorePreference
<1>2. NoUpdate \in [step : {"idle", "checked"}, want : Choice] /\ NoUpdate.step = "idle"
  BY DefaultValid DEF NoUpdate
<1>3. /\ update' \in [Updates -> [step : {"idle", "checked"}, want : Choice]]
      /\ \A w \in Updates \ {u} : update'[w] = update[w]
      /\ update'[u].step = "idle" /\ update[u].want \in Choice
  BY <1>1, <1>2 DEF PrefInv, PreferencesTypeOK
<1>4. PreferencesTypeOK'
  BY <1>1, <1>3 DEF PrefInv, PreferencesTypeOK
<1>5. ChoicesAreValid'
  BY <1>1, <1>3 DEF PrefInv, ChoicesAreValid, Valid, EffectiveModel, Supports
<1>6. TurnOptionsAreOffered'
  BY <1>1 DEF PrefInv, TurnOptionsAreOffered, Supports
<1> QED BY <1>4, <1>5, <1>6 DEF PrefInv

\* A turn takes a model the catalog shows and an effort that model supports.
LEMMA ResolveTurnKeeps == ASSUME PrefInv, ResolveTurn PROVE PrefInv'
<1> DEFINE Effort(c, m) == IF preference.effort # NoChoice THEN preference.effort
                           ELSE IF Supports(c, m, Fallback) THEN Fallback ELSE NoChoice
           Option(c, m) == [model |-> m, effort |-> Effort(c, m)]
<1>0. PICK c \in Catalogs :
        ListModels(c) /\ options' = {Option(c, m) : m \in EffectiveModel(c, preference.model)}
  BY DEF ResolveTurn
<1>1. UNCHANGED <<live, preference, update, upgrades>>
  BY DEF ResolveTurn
<1>2. /\ kept' \in {{}} \cup {{d} : d \in Catalogs} /\ catalogErrors' \in 0..MaxCatalogErrors
      /\ upgrades = 0 => c = live /\ kept' \subseteq {live}
  BY <1>0, Listed
<1>3. preference \in Choice /\ preference.effort \in Efforts \cup {NoChoice}
  BY DEF PrefInv, PreferencesTypeOK, Choice
<1>4. /\ \A m \in Models : Effort(c, m) \in Efforts \cup {NoChoice}
      /\ \A m \in Models : preference.effort = NoChoice /\ Effort(c, m) # NoChoice =>
            Supports(c, m, Effort(c, m))
      /\ \A m \in Models : preference.effort # NoChoice => Effort(c, m) = preference.effort
  BY <1>3, PreferencesAssumption
<1>e. \A m \in Models : /\ Option(c, m).model = m /\ Option(c, m).effort = Effort(c, m)
                        /\ Option(c, m) = [model |-> m, effort |-> Effort(c, m)]
  OBVIOUS
<1> HIDE DEF Effort
<1>5. \A m \in Models : Option(c, m) \in Choice
  BY <1>4 DEF Choice
<1> HIDE DEF Option
<1>6. /\ EffectiveModel(c, preference.model) \subseteq Models \ c.hidden
      /\ \A x, y \in EffectiveModel(c, preference.model) : x = y
  BY DEF EffectiveModel
<1>7. options' = {} \/ \E m \in Models : options' = {Option(c, m)}
  <2>1. CASE EffectiveModel(c, preference.model) = {}
    BY <1>0, <2>1
  <2>2. ASSUME NEW m \in EffectiveModel(c, preference.model) PROVE options' = {Option(c, m)}
    BY <1>0, <1>6, <2>2
  <2> QED BY <1>6, <2>1, <2>2
<1>8. options' \in {{}} \cup {{o} : o \in Choice}
  BY <1>5, <1>7
<1>9. PreferencesTypeOK'
  BY <1>1, <1>2, <1>8 DEF PrefInv, PreferencesTypeOK
<1>10. ChoicesAreValid'
  BY <1>1, <1>2 DEF PrefInv, ChoicesAreValid, Valid, EffectiveModel, Supports
<1>11. ASSUME upgrades = 0, NEW o \in options'
       PROVE  o.model \in Models \ live.hidden /\ (o.effort # NoChoice => Supports(live, o.model, o.effort))
  <2>1. PICK m \in EffectiveModel(c, preference.model) : o = Option(c, m)
    BY <1>0
  <2>2. m \in Models \ c.hidden /\ c = live /\ o.model = m /\ o.effort = Effort(c, m)
    BY <1>2, <1>6, <1>11, <1>e, <2>1
  <2>3. preference.effort # NoChoice => Supports(c, m, preference.effort)
    BY <1>11, <2>1, <2>2 DEF PrefInv, ChoicesAreValid, Valid
  <2> QED BY <1>4, <2>2, <2>3
<1>12. TurnOptionsAreOffered'
  BY <1>1, <1>11 DEF TurnOptionsAreOffered, Supports
<1> QED BY <1>9, <1>10, <1>12 DEF PrefInv

\* The conjunction is inductive; an upgrade ends the promise.
LEMMA PrefInvNext == PrefInv /\ [PreferencesNext]_prefVars => PrefInv'
<1> SUFFICES ASSUME PrefInv, [PreferencesNext]_prefVars PROVE PrefInv'
  OBVIOUS
<1>1. CASE ExpireCatalog
  BY <1>1 DEF ExpireCatalog, PrefInv, PreferencesTypeOK, ChoicesAreValid, Valid, EffectiveModel, Supports,
              TurnOptionsAreOffered
<1>2. CASE UpgradeSidecar
  <2>1. upgrades' \in 0..MaxUpgrades /\ upgrades' # 0 /\ live' \in Catalogs
    BY <1>2, PreferencesAssumption DEF UpgradeSidecar, PrefInv, PreferencesTypeOK
  <2> QED BY <1>2, <2>1 DEF UpgradeSidecar, PrefInv, PreferencesTypeOK, ChoicesAreValid, TurnOptionsAreOffered
<1>3. CASE UNCHANGED prefVars
  BY <1>3 DEF prefVars, PrefInv, PreferencesTypeOK, ChoicesAreValid, Valid, EffectiveModel, Supports,
              TurnOptionsAreOffered
<1> QED BY <1>1, <1>2, <1>3, CheckPreferenceKeeps, StorePreferenceKeeps, ResolveTurnKeeps DEF PreferencesNext

\* Until the sidecar changes its catalog, a turn starts with a model it offers
\* and an effort that model supports.
THEOREM OptionsOffered == PreferencesSpec => []TurnOptionsAreOffered
<1>1. PrefInv => TurnOptionsAreOffered
  BY DEF PrefInv
<1> QED BY <1>1, PrefInvInit, PrefInvNext, PTL DEF PreferencesSpec

-----------------------------------------------------------------------------
(* Uploads *)

JobRecord == [kind : {"none", "web", "tg", "answer", "delete"}, step : JobSteps,
              todo : Seq(Media), at : Ids \cup {0}, puts : SUBSET Ids, held : SUBSET Ids,
              broken : BOOLEAN]

\* A job whose objects are in `there`, when `gone` is deleted and `last` handed
\* out: what it is about to insert or commit was stored, it forgets only what
\* it has begun to delete, and past the size check nothing is too large.
JobIsGood(r, there, gone, last) ==
  /\ r \in JobRecord
  /\ r.held \subseteq r.puts /\ r.puts \subseteq 1..last /\ r.held \subseteq there
  /\ r.step \in {"insert", "resolve", "remove", "forget"} => r.at \in Ids
  /\ r.step = "insert" => r.at \in there /\ r.at \in r.puts
  /\ r.step = "use" => r.at \in Ids \/ Head(r.todo).kind = "audio"
  /\ r.step = "forget" => r.at \in gone
  /\ r.step \in {"check", "refused"} => r.puts = {} /\ r.held = {}
  /\ r.step \in {"check", "put", "insert", "use", "resolve"} => r.todo # <<>>
  /\ r.step \in {"put", "insert", "use", "resolve"} => \A k \in DOMAIN r.todo : ~r.todo[k].big

Stored == bucket \cup deleted

StoreTypes ==
  /\ bucket \subseteq Ids /\ uploads \subseteq Ids /\ answers \subseteq Ids /\ deleted \subseteq Ids
  /\ lastUpload \in 0..MaxIds
  /\ disk \in [Paths -> Ids \cup {0}] /\ mentioned \subseteq Paths \X Ids
  /\ ioErrors \in Nat

JobsAreGood ==
  /\ job \in [Jobs -> JobRecord]
  /\ \A j \in Jobs : JobIsGood(job[j], Stored, deleted, lastUpload)

\* The workspace path names the upload.
MentionNamesUpload == \A m \in mentioned : m[1][1] = m[2] /\ disk[m[1]] = m[2]

RowsAreThere == uploads \subseteq Stored /\ answers \subseteq uploads \cup deleted

UploadInv == StoreTypes /\ JobsAreGood /\ MentionNamesUpload /\ RowsAreThere

\* A job that has not begun.
LEMMA NoJobIsGood ==
  ASSUME NEW there, NEW gone, NEW last \in Nat
  PROVE  NoJob \in JobRecord /\ JobIsGood(NoJob, there, gone, last)
<1>1. NoJob \in JobRecord
  BY DEF NoJob, JobRecord, JobSteps
<1> QED BY <1>1 DEF NoJob, JobIsGood

\* Nothing is stored at first.
LEMMA UploadInvInit == UploadsInit => UploadInv
<1> SUFFICES ASSUME UploadsInit PROVE UploadInv
  OBVIOUS
<1> USE UploadsAssumption DEF UploadsInit
<1>1. StoreTypes /\ RowsAreThere
  BY DEF StoreTypes, RowsAreThere, Paths, Stored
<1>2. MentionNamesUpload
  BY DEF MentionNamesUpload
<1>3. JobsAreGood
  BY NoJobIsGood DEF JobsAreGood
<1> QED BY <1>1, <1>2, <1>3 DEF UploadInv

\* The invariant, when one job moves and no object is lost but by deletion.
LEMMA JobMoves ==
  ASSUME UploadInv, NEW j \in Jobs, NEW r, job' = [job EXCEPT ![j] = r],
         JobIsGood(r, Stored', deleted', lastUpload'),
         Stored \subseteq Stored', deleted \subseteq deleted',
         lastUpload' \in Nat, lastUpload <= lastUpload'
  PROVE  JobsAreGood'
<1> USE DEF UploadInv
<1>1. ASSUME NEW i \in Jobs PROVE JobIsGood(job[i], Stored', deleted', lastUpload')
  <2>1. JobIsGood(job[i], Stored, deleted, lastUpload)
    BY DEF JobsAreGood
  <2>2. 1..lastUpload \subseteq 1..lastUpload'
    BY DEF StoreTypes
  <2> QED BY <2>1, <2>2 DEF JobIsGood
<1>2. r \in JobRecord
  BY DEF JobIsGood
<1>3. job' \in [Jobs -> JobRecord]
  BY <1>2 DEF JobsAreGood
<1>4. \A i \in Jobs : job'[i] = IF i = j THEN r ELSE job[i]
  BY DEF JobsAreGood
<1> QED BY <1>1, <1>3, <1>4 DEF JobsAreGood

\* A step of a job's own, when the stores stay as they are.
LEMMA JobMovesAlone ==
  ASSUME UploadInv, NEW j \in Jobs, NEW r, job' = [job EXCEPT ![j] = r],
         JobIsGood(r, Stored, deleted, lastUpload), UNCHANGED storeVars, ioErrors' \in Nat
  PROVE  UploadInv'
<1> USE DEF UploadInv, storeVars
<1>1. Stored' = Stored /\ deleted' = deleted /\ lastUpload' = lastUpload /\ lastUpload \in Nat
  BY UploadsAssumption DEF Stored, StoreTypes
<1>2. JobsAreGood'
  <2>1. JobIsGood(r, Stored', deleted', lastUpload')
    BY <1>1
  <2>2. Stored \subseteq Stored' /\ deleted \subseteq deleted' /\ lastUpload' \in Nat /\ lastUpload <= lastUpload'
    BY <1>1
  <2> QED BY <2>1, <2>2, JobMoves
<1>3. StoreTypes' /\ MentionNamesUpload' /\ RowsAreThere'
  BY <1>1 DEF StoreTypes, MentionNamesUpload, RowsAreThere
<1> QED BY <1>2, <1>3

\* After a medium the job goes on with the next one, which the size check has
\* seen too, or has stored them all.
LEMMA FollowingIsGood ==
  ASSUME UploadInv, NEW j \in Jobs, job[j].step \in {"put", "insert", "use"}
  PROVE  /\ JobIsGood(Following(j), Stored, deleted, lastUpload)
         /\ Following(j).held = job[j].held /\ Following(j).puts = job[j].puts
         /\ Following(j).step \in {"put", "commit", "done"}
<1> DEFINE q == job[j]
           rest == Tail(q.todo)
<1>1. /\ JobIsGood(q, Stored, deleted, lastUpload) /\ q \in JobRecord
      /\ q.todo \in Seq(Media) /\ q.todo # <<>>
      /\ \A k \in DOMAIN q.todo : ~q.todo[k].big
  BY DEF UploadInv, JobsAreGood, JobIsGood, JobRecord
<1>2. /\ rest \in Seq(Media) /\ DOMAIN rest = 1..(Len(q.todo) - 1)
      /\ \A k \in DOMAIN rest : rest[k] = q.todo[k + 1] /\ k + 1 \in DOMAIN q.todo
  BY <1>1
<1>3. \A k \in DOMAIN rest : ~rest[k].big
  BY <1>1, <1>2
<1>4. rest # <<>> => ~Head(rest).big
  <2>1. rest # <<>> => 1 \in DOMAIN rest /\ Head(rest) = rest[1]
    BY <1>2
  <2> QED BY <1>3, <2>1
<1> DEFINE s == IF rest # <<>> THEN "put" ELSE IF q.kind = "answer" THEN "commit" ELSE "done"
<1>5. Following(j) = [q EXCEPT !.todo = rest, !.at = 0, !.step = s]
  BY <1>4 DEF Following
<1> HIDE DEF q, rest
<1>6. s \in {"put", "commit", "done"} /\ (s = "put" => rest # <<>>)
  OBVIOUS
<1> HIDE DEF s
<1> DEFINE r == [q EXCEPT !.todo = rest, !.at = 0, !.step = s]
<1>7. r \in JobRecord
  BY <1>1, <1>2, <1>6 DEF JobRecord, JobSteps
<1>8. r.held = q.held /\ r.puts = q.puts /\ r.step = s /\ r.todo = rest
  BY <1>1 DEF JobRecord
<1> HIDE DEF r
<1>9. JobIsGood(r, Stored, deleted, lastUpload)
  BY <1>1, <1>3, <1>6, <1>7, <1>8 DEF JobIsGood
<1> QED BY <1>5, <1>6, <1>8, <1>9 DEF r, q

\* A job at another step.
LEMMA AtStep ==
  ASSUME UploadInv, NEW j \in Jobs, NEW s \in JobSteps
  PROVE  LET r == [job[j] EXCEPT !.step = s]
         IN /\ r \in JobRecord /\ r.step = s /\ r.kind = job[j].kind /\ r.todo = job[j].todo
            /\ r.at = job[j].at /\ r.puts = job[j].puts /\ r.held = job[j].held
            /\ JobIsGood(job[j], Stored, deleted, lastUpload)
<1> DEFINE q == job[j]
<1>1. q \in JobRecord /\ JobIsGood(q, Stored, deleted, lastUpload)
  BY DEF UploadInv, JobsAreGood
<1> HIDE DEF q
<1>2. LET r == [q EXCEPT !.step = s]
      IN /\ r \in JobRecord /\ r.step = s /\ r.kind = q.kind /\ r.todo = q.todo
         /\ r.at = q.at /\ r.puts = q.puts /\ r.held = q.held
  BY <1>1 DEF JobRecord
<1> QED BY <1>1, <1>2 DEF q

\* The ends of a job, and a step that has the objects it needs.
LEMMA StepIsGood ==
  ASSUME UploadInv, NEW j \in Jobs, NEW s \in JobSteps,
         \/ s \in {"done", "failed", "commit"}
         \/ /\ s \in {"put", "use", "resolve"} /\ job[j].step \in {"put", "insert", "resolve"}
            /\ s = "use" => job[j].at \in Ids \/ Head(job[j].todo).kind = "audio"
            /\ s = "resolve" => job[j].at \in Ids
  PROVE  JobIsGood([job[j] EXCEPT !.step = s], Stored, deleted, lastUpload)
<1> DEFINE r == [job[j] EXCEPT !.step = s]
<1>1. /\ r \in JobRecord /\ r.step = s /\ r.kind = job[j].kind /\ r.todo = job[j].todo
      /\ r.at = job[j].at /\ r.puts = job[j].puts /\ r.held = job[j].held
      /\ JobIsGood(job[j], Stored, deleted, lastUpload)
  BY AtStep
<1> HIDE DEF r
<1>2. JobIsGood(r, Stored, deleted, lastUpload)
  BY <1>1 DEF JobIsGood
<1> QED BY <1>2 DEF r

\* A job arrives.
LEMMA BeginJobKeeps ==
  ASSUME UploadInv, NEW j \in Jobs, BeginJob(j) PROVE UploadInv'
<1> USE UploadsAssumption DEF UploadInv
<1>0. UNCHANGED storeVars /\ ioErrors' \in Nat /\ lastUpload \in Nat
  <2>1. UNCHANGED <<storeVars, ioErrors>>
    BY DEF BeginJob
  <2> QED BY <2>1 DEF StoreTypes
<1>n. /\ NoJob \in JobRecord /\ NoJob.at = 0 /\ NoJob.puts = {} /\ NoJob.held = {}
  BY NoJobIsGood DEF NoJob
<1>1. ASSUME NEW k \in {"web", "tg", "answer"}, NEW s \in {"put", "check"}, NEW todo \in Seq(Media),
             todo # <<>>, s = "put" => \A n \in DOMAIN todo : ~todo[n].big
      PROVE  JobIsGood([NoJob EXCEPT !.kind = k, !.step = s, !.todo = todo], Stored, deleted, lastUpload)
  <2> DEFINE r == [NoJob EXCEPT !.kind = k, !.step = s, !.todo = todo]
  <2>2. /\ r.step = s /\ r.todo = todo /\ r.puts = {} /\ r.held = {} /\ r \in JobRecord
    BY <1>n DEF JobRecord, JobSteps
  <2> HIDE DEF r
  <2>3. JobIsGood(r, Stored, deleted, lastUpload)
    BY <1>1, <2>2 DEF JobIsGood
  <2> QED BY <2>3 DEF r
<1>2. CASE \E m \in Media : ~m.big /\ Set(j, [NoJob EXCEPT !.kind = "web", !.step = "put", !.todo = <<m>>])
  <2>1. PICK m \in Media : ~m.big /\ Set(j, [NoJob EXCEPT !.kind = "web", !.step = "put", !.todo = <<m>>])
    BY <1>2
  <2>2. <<m>> \in Seq(Media) /\ <<m>> # <<>> /\ \A n \in DOMAIN <<m>> : ~<<m>>[n].big
    BY <2>1
  <2>3. JobIsGood([NoJob EXCEPT !.kind = "web", !.step = "put", !.todo = <<m>>], Stored, deleted, lastUpload)
    BY <1>1, <2>2
  <2> QED BY <1>0, <2>1, <2>3, JobMovesAlone DEF Set
<1>3. CASE \E m, q \in Media : \E todo \in {<<m>>, <<m, q>>} :
             Set(j, [NoJob EXCEPT !.kind = "tg", !.step = "check", !.todo = todo])
  <2>1. PICK m \in Media, q \in Media : \E todo \in {<<m>>, <<m, q>>} :
             Set(j, [NoJob EXCEPT !.kind = "tg", !.step = "check", !.todo = todo])
    BY <1>3
  <2>2. PICK todo \in {<<m>>, <<m, q>>} :
             Set(j, [NoJob EXCEPT !.kind = "tg", !.step = "check", !.todo = todo])
    BY <2>1
  <2>3. todo \in Seq(Media) /\ todo # <<>>
    <3>1. CASE todo = <<m>>
      BY <3>1
    <3>2. CASE todo = <<m, q>>
      BY <3>2
    <3> QED BY <3>1, <3>2
  <2>4. JobIsGood([NoJob EXCEPT !.kind = "tg", !.step = "check", !.todo = todo], Stored, deleted, lastUpload)
    BY <1>1, <2>3
  <2> QED BY <1>0, <2>2, <2>4, JobMovesAlone DEF Set
<1>4. CASE \E n \in {1, 2}, m \in Media :
             /\ m.kind = "image" /\ ~m.big
             /\ Set(j, [NoJob EXCEPT !.kind = "answer", !.step = "put", !.todo = [k \in 1..n |-> m]])
  <2>1. PICK n \in {1, 2}, m \in Media :
             /\ ~m.big
             /\ Set(j, [NoJob EXCEPT !.kind = "answer", !.step = "put", !.todo = [k \in 1..n |-> m]])
    BY <1>4
  <2> DEFINE todo == [k \in 1..n |-> m]
  <2>2. todo \in Seq(Media) /\ todo # <<>> /\ \A k \in DOMAIN todo : ~todo[k].big
    <3>1. DOMAIN todo = 1..n /\ n \in Nat /\ 1 \in 1..n /\ \A k \in 1..n : todo[k] = m
      OBVIOUS
    <3>2. todo \in [1..n -> Media]
      OBVIOUS
    <3>3. todo \in Seq(Media) /\ Len(todo) = n
      BY <3>1, <3>2
    <3>4. todo # <<>>
      BY <3>3
    <3> QED BY <2>1, <3>1, <3>3, <3>4
  <2>3. JobIsGood([NoJob EXCEPT !.kind = "answer", !.step = "put", !.todo = todo], Stored, deleted, lastUpload)
    BY <1>1, <2>2
  <2> QED BY <1>0, <2>1, <2>3, JobMovesAlone DEF Set
<1>5. CASE \E i \in uploads : Set(j, [NoJob EXCEPT !.kind = "delete", !.step = "remove", !.at = i])
  <2>1. PICK i \in uploads : Set(j, [NoJob EXCEPT !.kind = "delete", !.step = "remove", !.at = i])
    BY <1>5
  <2> DEFINE r == [NoJob EXCEPT !.kind = "delete", !.step = "remove", !.at = i]
  <2>2. i \in Ids
    BY DEF StoreTypes
  <2>3. job' = [job EXCEPT ![j] = r]
    BY <2>1 DEF Set
  <2>4. /\ r.step = "remove" /\ r.at \in Ids /\ r.puts = {} /\ r.held = {} /\ r \in JobRecord
    BY <1>n, <2>2 DEF JobRecord, JobSteps
  <2> HIDE DEF r
  <2>5. JobIsGood(r, Stored, deleted, lastUpload)
    BY <2>4 DEF JobIsGood
  <2> QED BY <1>0, <2>3, <2>5, JobMovesAlone
<1> QED BY <1>2, <1>3, <1>4, <1>5 DEF BeginJob

\* prepare_turn refuses before anything is stored.
LEMMA CheckSizeKeeps ==
  ASSUME UploadInv, NEW j \in Jobs, CheckSize(j) PROVE UploadInv'
<1> DEFINE s == IF \E k \in DOMAIN job[j].todo : job[j].todo[k].big THEN "refused" ELSE "put"
           r == [job[j] EXCEPT !.step = s]
<1>1. UNCHANGED storeVars /\ ioErrors' \in Nat /\ job' = [job EXCEPT ![j] = r] /\ job[j].step = "check"
  BY DEF CheckSize, UploadInv, StoreTypes, Then, Set
<1>2. s \in {"refused", "put"} /\ (s = "put" => \A k \in DOMAIN job[j].todo : ~job[j].todo[k].big)
  OBVIOUS
<1> HIDE DEF s
<1>3. s \in JobSteps
  BY <1>2 DEF JobSteps
<1>4. /\ r \in JobRecord /\ r.step = s /\ r.kind = job[j].kind /\ r.todo = job[j].todo
      /\ r.at = job[j].at /\ r.puts = job[j].puts /\ r.held = job[j].held
      /\ JobIsGood(job[j], Stored, deleted, lastUpload)
  BY <1>3, AtStep
<1> HIDE DEF r
<1>5. JobIsGood(r, Stored, deleted, lastUpload)
  BY <1>1, <1>2, <1>4 DEF JobIsGood
<1> QED BY <1>1, <1>5, JobMovesAlone

\* put_object under a fresh key; an error ends the job, or it goes on without.
LEMMA PutObjectKeeps ==
  ASSUME UploadInv, NEW j \in Jobs, PutObject(j) PROVE UploadInv'
<1> USE UploadsAssumption DEF UploadInv
<1>0. /\ job[j].step = "put" /\ UNCHANGED <<uploads, disk, mentioned, answers, deleted>>
      /\ lastUpload \in Nat
  BY DEF PutObject, StoreTypes
<1>1. CASE /\ lastUpload < MaxIds /\ lastUpload' = lastUpload + 1 /\ bucket' = bucket \cup {lastUpload'}
           /\ Set(j, [job[j] EXCEPT !.step = "insert", !.at = lastUpload', !.puts = @ \cup {lastUpload'}])
           /\ UNCHANGED ioErrors
  <2> DEFINE q == job[j]
             n == lastUpload + 1
             r == [q EXCEPT !.step = "insert", !.at = n, !.puts = q.puts \cup {n}]
  <2>1. job' = [job EXCEPT ![j] = r] /\ lastUpload' = n
    BY <1>1 DEF Set
  <2>2. n \in Ids /\ n \in 1..n /\ n \in Nat /\ 1..lastUpload \subseteq 1..n /\ lastUpload <= n
    BY <1>0, <1>1 DEF Ids
  <2>3. q \in JobRecord /\ JobIsGood(q, Stored, deleted, lastUpload)
    BY DEF JobsAreGood
  <2>4. Stored \subseteq Stored' /\ n \in Stored'
    BY <1>0, <1>1 DEF Stored
  <2> HIDE DEF q, n
  <2>5. /\ r \in JobRecord /\ r.step = "insert" /\ r.at = n /\ r.puts = q.puts \cup {n}
        /\ r.held = q.held /\ r.todo = q.todo
    BY <2>2, <2>3 DEF JobRecord, JobSteps
  <2> HIDE DEF r
  <2>s. q.step = "put"
    BY <1>0 DEF q
  <2>6. JobIsGood(r, Stored', deleted', lastUpload')
    BY <1>0, <2>1, <2>2, <2>3, <2>4, <2>5, <2>s DEF JobIsGood
  <2>7. JobsAreGood'
    BY <1>0, <2>1, <2>2, <2>4, <2>6, JobMoves
  <2>8. StoreTypes'
    BY <1>0, <1>1, <2>1, <2>2 DEF StoreTypes, Ids
  <2>9. MentionNamesUpload' /\ RowsAreThere'
    BY <1>0, <2>4 DEF MentionNamesUpload, RowsAreThere
  <2> QED BY <2>7, <2>8, <2>9
<1>2. CASE /\ IoError /\ UNCHANGED <<bucket, lastUpload>>
           /\ \/ Set(j, Following(j))
              \/ Head(job[j].todo).kind = "audio" /\ Then(j, "use")
              \/ Then(j, "failed")
  <2>1. UNCHANGED storeVars /\ ioErrors' \in Nat
    BY <1>0, <1>2 DEF storeVars, IoError, StoreTypes
  <2>2. JobIsGood(Following(j), Stored, deleted, lastUpload)
    BY <1>0, FollowingIsGood
  <2>3. Head(job[j].todo).kind = "audio" => JobIsGood([job[j] EXCEPT !.step = "use"], Stored, deleted, lastUpload)
    BY <1>0, StepIsGood DEF JobSteps
  <2>4. JobIsGood([job[j] EXCEPT !.step = "failed"], Stored, deleted, lastUpload)
    BY StepIsGood DEF JobSteps
  <2> QED BY <1>2, <2>1, <2>2, <2>3, <2>4, JobMovesAlone DEF Set, Then
<1> QED BY <1>1, <1>2, Zenon DEF PutObject

\* The row, committed or in the open transaction of an answer.
LEMMA InsertUploadKeeps ==
  ASSUME UploadInv, NEW j \in Jobs, InsertUpload(j) PROVE UploadInv'
<1> USE UploadsAssumption DEF UploadInv
<1>0. /\ job[j].step = "insert" /\ UNCHANGED <<bucket, lastUpload, disk, mentioned, answers, deleted>>
      /\ lastUpload \in Nat
  BY DEF InsertUpload, StoreTypes
<1>g. /\ JobIsGood(job[j], Stored, deleted, lastUpload) /\ job[j].at \in Ids
      /\ job[j].at \in Stored /\ job[j].at \in job[j].puts
  BY <1>0 DEF JobsAreGood, JobIsGood
<1>s. Stored' = Stored
  BY <1>0 DEF Stored
<1>f. /\ JobIsGood(Following(j), Stored, deleted, lastUpload)
      /\ Following(j).held = job[j].held /\ Following(j).puts = job[j].puts
      /\ Following(j).step \in {"put", "commit", "done"}
  BY <1>0, FollowingIsGood
<1>1. CASE /\ uploads' = uploads \cup {job[j].at} /\ UNCHANGED ioErrors
           /\ Then(j, IF job[j].kind = "web" THEN "resolve" ELSE "use")
  <2> DEFINE s == IF job[j].kind = "web" THEN "resolve" ELSE "use"
             r == [job[j] EXCEPT !.step = s]
  <2>1. s \in {"resolve", "use"} /\ s \in JobSteps
    BY DEF JobSteps
  <2>2. job' = [job EXCEPT ![j] = r]
    BY <1>1 DEF Then, Set
  <2> HIDE DEF s
  <2>3. JobIsGood(r, Stored, deleted, lastUpload)
    BY <1>0, <1>g, <2>1, StepIsGood
  <2> HIDE DEF r
  <2>4. JobsAreGood'
    <3>1. JobIsGood(r, Stored', deleted', lastUpload')
      BY <1>0, <1>s, <2>3
    <3>2. /\ Stored \subseteq Stored' /\ deleted \subseteq deleted'
          /\ lastUpload' \in Nat /\ lastUpload <= lastUpload'
      BY <1>0, <1>s
    <3> QED BY <2>2, <3>1, <3>2, JobMoves
  <2>5. StoreTypes' /\ MentionNamesUpload' /\ RowsAreThere'
    BY <1>0, <1>1, <1>g, <1>s DEF StoreTypes, MentionNamesUpload, RowsAreThere
  <2> QED BY <2>4, <2>5
<1>2. CASE Set(j, [Following(j) EXCEPT !.held = @ \cup {job[j].at}]) /\ UNCHANGED <<uploads, ioErrors>>
  <2> DEFINE q == Following(j)
             a == job[j].at
             r == [q EXCEPT !.held = q.held \cup {a}]
  <2>1. job' = [job EXCEPT ![j] = r]
    BY <1>2 DEF Set
  <2>2. /\ JobIsGood(q, Stored, deleted, lastUpload) /\ a \in Ids /\ a \in Stored /\ a \in q.puts
        /\ q.step \in {"put", "commit", "done"}
    BY <1>g, <1>f
  <2> HIDE DEF q, a
  <2>3. q \in JobRecord
    BY <2>2 DEF JobIsGood
  <2>4. /\ r \in JobRecord /\ r.held = q.held \cup {a} /\ r.puts = q.puts /\ r.step = q.step
        /\ r.todo = q.todo /\ r.at = q.at
    BY <2>2, <2>3 DEF JobRecord
  <2> HIDE DEF r
  <2>5. JobIsGood(r, Stored, deleted, lastUpload)
    BY <2>2, <2>4 DEF JobIsGood
  <2>6. UNCHANGED storeVars /\ ioErrors' \in Nat
    BY <1>0, <1>2 DEF storeVars, StoreTypes
  <2> QED BY <2>1, <2>5, <2>6, JobMovesAlone
<1>3. CASE /\ IoError /\ UNCHANGED uploads
           /\ \/ Set(j, [Following(j) EXCEPT !.broken = TRUE])
              \/ Then(j, "use") \/ Then(j, "failed")
  <2>1. UNCHANGED storeVars /\ ioErrors' \in Nat
    BY <1>0, <1>3 DEF storeVars, IoError, StoreTypes
  <2>2. JobIsGood([Following(j) EXCEPT !.broken = TRUE], Stored, deleted, lastUpload)
    <3> DEFINE q == Following(j)
               r == [q EXCEPT !.broken = TRUE]
    <3>1. JobIsGood(q, Stored, deleted, lastUpload)
      BY <1>f
    <3> HIDE DEF q
    <3>2. q \in JobRecord
      BY <3>1 DEF JobIsGood
    <3>3. /\ r \in JobRecord /\ r.held = q.held /\ r.puts = q.puts /\ r.step = q.step
          /\ r.todo = q.todo /\ r.at = q.at
      BY <3>2 DEF JobRecord
    <3> HIDE DEF r
    <3>4. JobIsGood(r, Stored, deleted, lastUpload)
      BY <3>1, <3>3 DEF JobIsGood
    <3> QED BY <3>4 DEF r, q
  <2>3. JobIsGood([job[j] EXCEPT !.step = "use"], Stored, deleted, lastUpload)
    BY <1>0, <1>g, StepIsGood DEF JobSteps
  <2>4. JobIsGood([job[j] EXCEPT !.step = "failed"], Stored, deleted, lastUpload)
    BY StepIsGood DEF JobSteps
  <2> QED BY <1>3, <2>1, <2>2, <2>3, <2>4, JobMovesAlone DEF Set, Then
<1> QED BY <1>1, <1>2, <1>3, Zenon DEF InsertUpload

\* resolve_uploads.
LEMMA ResolveKeeps ==
  ASSUME UploadInv, NEW j \in Jobs, Resolve(j) PROVE UploadInv'
<1>1. PICK s \in {"use", "failed"} : Then(j, s)
  BY DEF Resolve
<1>2. UNCHANGED storeVars /\ ioErrors' \in Nat /\ job[j].step = "resolve"
  BY DEF Resolve, UploadInv, StoreTypes
<1>3. job[j].at \in Ids
  BY <1>2 DEF UploadInv, JobsAreGood, JobIsGood
<1>4. JobIsGood([job[j] EXCEPT !.step = s], Stored, deleted, lastUpload)
  BY <1>2, <1>3, StepIsGood DEF JobSteps
<1> QED BY <1>1, <1>2, <1>4, JobMovesAlone DEF Then, Set

\* materialize_for_chat, inlining and transcription.
LEMMA UseMediaKeeps ==
  ASSUME UploadInv, NEW j \in Jobs, UseMedia(j) PROVE UploadInv'
<1> USE UploadsAssumption DEF UploadInv
<1> DEFINE m == Head(job[j].todo)
           i == job[j].at
<1>0. /\ job[j].step = "use" /\ UNCHANGED <<bucket, uploads, lastUpload, answers, deleted>>
      /\ lastUpload \in Nat
  BY DEF UseMedia, StoreTypes
<1>f. JobIsGood(Following(j), Stored, deleted, lastUpload)
  BY <1>0, FollowingIsGood
<1>s. Stored' = Stored
  BY <1>0 DEF Stored
<1>1. CASE /\ m.kind = "file" /\ disk' = [disk EXCEPT ![PathOf(i, m)] = i]
           /\ mentioned' = mentioned \cup {<<PathOf(i, m), i>>}
           /\ Set(j, Following(j)) /\ UNCHANGED ioErrors
  <2>1. i \in Ids /\ m \in Media
    <3>1. JobIsGood(job[j], Stored, deleted, lastUpload)
      BY DEF JobsAreGood
    <3>2. job[j].todo \in Seq(Media) /\ job[j].todo # <<>>
      BY <1>0, <3>1 DEF JobIsGood, JobRecord
    <3> QED BY <1>0, <1>1, <3>1, <3>2, HeadTailProperties DEF JobIsGood
  <2> DEFINE p == <<i, m.name>>
  <2>2. PathOf(i, m) = p /\ p \in Paths /\ p[1] = i
    BY <2>1 DEF PathOf, Paths, Media
  <2> HIDE DEF p, i, m
  <2>3. StoreTypes'
    BY <1>0, <1>1, <2>1, <2>2 DEF StoreTypes
  <2>4. MentionNamesUpload'
    <3>0. disk \in [Paths -> Ids \cup {0}] /\ mentioned \subseteq Paths \X Ids
      BY DEF StoreTypes
    <3>1. ASSUME NEW x \in mentioned PROVE x[1][1] = x[2] /\ disk'[x[1]] = x[2]
      <4>1. x[1] \in Paths /\ x[1][1] = x[2] /\ disk[x[1]] = x[2]
        BY <3>0 DEF MentionNamesUpload
      <4>2. CASE x[1] = p
        BY <1>1, <2>2, <3>0, <4>1, <4>2
      <4>3. CASE x[1] # p
        BY <1>1, <2>2, <3>0, <4>1, <4>3
      <4> QED BY <4>1, <4>2, <4>3
    <3>2. disk'[p] = i
      BY <1>1, <2>2, <3>0
    <3>3. <<p, i>>[1] = p /\ <<p, i>>[2] = i
      OBVIOUS
    <3> QED BY <1>1, <2>2, <3>1, <3>2, <3>3 DEF MentionNamesUpload
  <2>5. RowsAreThere'
    BY <1>0, <1>s DEF RowsAreThere
  <2>6. JobsAreGood'
    <3>1. JobIsGood(Following(j), Stored', deleted', lastUpload')
      BY <1>0, <1>f, <1>s
    <3>2. /\ Stored \subseteq Stored' /\ deleted \subseteq deleted'
          /\ lastUpload' \in Nat /\ lastUpload <= lastUpload' /\ job' = [job EXCEPT ![j] = Following(j)]
      BY <1>0, <1>1, <1>s DEF Set
    <3> QED BY <3>1, <3>2, JobMoves
  <2> QED BY <2>3, <2>4, <2>5, <2>6
<1>2. CASE Set(j, Following(j)) /\ UNCHANGED <<disk, mentioned, ioErrors>>
  <2>1. UNCHANGED storeVars /\ ioErrors' \in Nat
    BY <1>0, <1>2 DEF storeVars, StoreTypes
  <2> QED BY <1>2, <1>f, <2>1, JobMovesAlone DEF Set
<1>3. CASE IoError /\ Then(j, "failed") /\ UNCHANGED <<disk, mentioned>>
  <2>1. UNCHANGED storeVars /\ ioErrors' \in Nat
    BY <1>0, <1>3 DEF storeVars, StoreTypes, IoError
  <2>2. JobIsGood([job[j] EXCEPT !.step = "failed"], Stored, deleted, lastUpload)
    BY StepIsGood DEF JobSteps
  <2> QED BY <1>3, <2>1, <2>2, JobMovesAlone DEF Set, Then
<1> QED BY <1>1, <1>2, <1>3 DEF UseMedia

\* The transaction of the answer.
LEMMA CommitAnswerKeeps ==
  ASSUME UploadInv, NEW j \in Jobs, CommitAnswer(j) PROVE UploadInv'
<1> USE UploadsAssumption DEF UploadInv
<1>0. UNCHANGED <<bucket, lastUpload, disk, mentioned, deleted>> /\ lastUpload \in Nat
  BY DEF CommitAnswer, StoreTypes
<1>s. Stored' = Stored
  BY <1>0 DEF Stored
<1>h. job[j].held \subseteq Stored /\ job[j].held \subseteq Ids
  BY DEF JobsAreGood, JobIsGood, JobRecord
<1>g. \A s \in {"done", "failed"} : JobIsGood([job[j] EXCEPT !.step = s], Stored, deleted, lastUpload)
  BY StepIsGood DEF JobSteps
<1>1. PICK s \in {"done", "failed"} : Then(j, s)
  BY DEF CommitAnswer
<1>2. /\ uploads' \subseteq uploads \cup job[j].held /\ uploads \subseteq uploads'
      /\ answers' \subseteq answers \cup uploads'
      /\ ioErrors' \in Nat
  BY DEF CommitAnswer, IoError, StoreTypes
<1>3. StoreTypes'
  BY <1>0, <1>2, <1>h DEF StoreTypes
<1>4. MentionNamesUpload'
  BY <1>0 DEF MentionNamesUpload
<1>5. RowsAreThere'
  BY <1>0, <1>2, <1>h, <1>s DEF RowsAreThere
<1>6. JobsAreGood'
  <2>1. JobIsGood([job[j] EXCEPT !.step = s], Stored', deleted', lastUpload')
    BY <1>0, <1>g, <1>s
  <2>2. /\ Stored \subseteq Stored' /\ deleted \subseteq deleted'
        /\ lastUpload' \in Nat /\ lastUpload <= lastUpload'
        /\ job' = [job EXCEPT ![j] = [job[j] EXCEPT !.step = s]]
    BY <1>0, <1>1, <1>s DEF Set, Then
  <2> QED BY <2>1, <2>2, JobMoves
<1> QED BY <1>3, <1>4, <1>5, <1>6

\* DeleteUpload: the object, then the row.
LEMMA DeleteKeeps ==
  ASSUME UploadInv, NEW j \in Jobs, RemoveObject(j) \/ ForgetUpload(j) PROVE UploadInv'
<1> USE UploadsAssumption DEF UploadInv
<1>0. /\ UNCHANGED <<lastUpload, disk, mentioned, answers>> /\ lastUpload \in Nat
      /\ job[j].step \in {"remove", "forget"}
  BY DEF RemoveObject, ForgetUpload, StoreTypes
<1>a. /\ JobIsGood(job[j], Stored, deleted, lastUpload) /\ job[j].at \in Ids
      /\ job[j].step = "forget" => job[j].at \in deleted
  BY <1>0 DEF JobsAreGood, JobIsGood
<1>1. PICK s \in {"forget", "done", "failed"} : Then(j, s)
  BY DEF RemoveObject, ForgetUpload
<1>2. /\ ioErrors' \in Nat /\ deleted \subseteq deleted' /\ deleted' \subseteq deleted \cup {job[j].at}
      /\ bucket' \subseteq bucket /\ bucket \subseteq bucket' \cup deleted'
      /\ uploads' \subseteq uploads /\ uploads \subseteq uploads' \cup deleted'
      /\ s = "forget" => job[j].at \in deleted'
  <2>1. CASE RemoveObject(j)
    BY <2>1 DEF RemoveObject, IoError, StoreTypes
  <2>2. CASE ForgetUpload(j)
    <3>1. job[j].step = "forget" /\ UNCHANGED <<bucket, deleted>>
      BY <2>2 DEF ForgetUpload
    <3>2. /\ ioErrors' \in Nat /\ uploads' \subseteq uploads /\ uploads \subseteq uploads' \cup {job[j].at}
      BY <2>2 DEF ForgetUpload, IoError, StoreTypes
    <3> QED BY <1>a, <3>1, <3>2
  <2> QED BY <2>1, <2>2
<1>s. Stored \subseteq Stored'
  BY <1>2 DEF Stored
<1>3. StoreTypes'
  BY <1>0, <1>2, <1>a DEF StoreTypes
<1>4. MentionNamesUpload'
  BY <1>0 DEF MentionNamesUpload
<1>5. RowsAreThere'
  BY <1>0, <1>2, <1>s DEF RowsAreThere
<1>6. JobsAreGood'
  <2> DEFINE r == [job[j] EXCEPT !.step = s]
  <2>0. s \in JobSteps
    BY DEF JobSteps
  <2>1. /\ r \in JobRecord /\ r.step = s /\ r.todo = job[j].todo
        /\ r.at = job[j].at /\ r.puts = job[j].puts /\ r.held = job[j].held
    BY <2>0, AtStep
  <2>2. job' = [job EXCEPT ![j] = r]
    BY <1>1 DEF Set, Then
  <2> HIDE DEF r
  <2>3. JobIsGood(r, Stored', deleted', lastUpload')
    BY <1>0, <1>a, <1>2, <1>s, <2>1 DEF JobIsGood
  <2>4. lastUpload' \in Nat /\ lastUpload <= lastUpload'
    BY <1>0
  <2> QED BY <1>2, <1>s, <2>2, <2>3, <2>4, JobMoves
<1> QED BY <1>3, <1>4, <1>5, <1>6

\* UploadInv is inductive.
LEMMA UploadInvNext == UploadInv /\ [UploadsNext]_uploadVars => UploadInv'
<1> SUFFICES ASSUME UploadInv, [UploadsNext]_uploadVars PROVE UploadInv'
  OBVIOUS
<1>1. CASE UNCHANGED uploadVars
  BY <1>1 DEF uploadVars, UploadInv, StoreTypes, JobsAreGood, MentionNamesUpload, RowsAreThere, Stored
<1> QED BY <1>1, BeginJobKeeps, CheckSizeKeeps, PutObjectKeeps, InsertUploadKeeps, ResolveKeeps,
           UseMediaKeeps, CommitAnswerKeeps, DeleteKeeps DEF UploadsNext

\* UploadInv holds for any jobs.
LEMMA UploadAlways == UploadsInit /\ [][UploadsNext]_uploadVars => []UploadInv
  BY UploadInvInit, UploadInvNext, PTL

\* UploadInv spells the type invariant out.
LEMMA UploadTypes == UploadInv => UploadsTypeOK
<1> SUFFICES ASSUME UploadInv PROVE UploadsTypeOK
  OBVIOUS
<1> USE UploadsAssumption DEF UploadInv
<1>1. ASSUME NEW j \in Jobs
      PROVE  /\ job[j].kind \in {"none", "web", "tg", "answer", "delete"}
             /\ job[j].step \in JobSteps
             /\ \A k \in DOMAIN job[j].todo : job[j].todo[k] \in Media
             /\ job[j].at \in Ids \cup {0} /\ job[j].held \subseteq job[j].puts
             /\ job[j].puts \subseteq 1..lastUpload
             /\ job[j].broken \in BOOLEAN
  <2>1. job[j] \in JobRecord /\ JobIsGood(job[j], Stored, deleted, lastUpload)
    BY DEF JobsAreGood
  <2>2. job[j].held \subseteq job[j].puts /\ job[j].puts \subseteq 1..lastUpload
    BY <2>1 DEF JobIsGood
  <2>3. job[j].todo \in Seq(Media)
    BY <2>1 DEF JobRecord
  <2>4. \A k \in DOMAIN job[j].todo : job[j].todo[k] \in Media
    BY <2>3
  <2> QED BY <2>1, <2>2, <2>4 DEF JobRecord
<1> QED BY <1>1 DEF UploadsTypeOK, StoreTypes

\* Rows, objects, workspace files and what users and Codex were told of them
\* agree, whichever of the three stores fails at whichever call.
THEOREM FilesAgreeAlways == UploadsSpec => []FilesAgree
<1>1. UploadInv => FilesAgree
  <2> SUFFICES ASSUME UploadInv PROVE FilesAgree
    OBVIOUS
  <2>1. FilesAreThere
    BY DEF UploadInv, RowsAreThere, Stored, FilesAreThere
  <2>2. MentionIsRight
    BY DEF UploadInv, MentionNamesUpload, MentionIsRight
  <2>3. RefusedStoresNothing
    BY DEF UploadInv, JobsAreGood, JobIsGood, RefusedStoresNothing
  <2> QED BY <2>1, <2>2, <2>3 DEF FilesAgree
<1> QED BY <1>1, UploadAlways, PTL DEF UploadsSpec

-----------------------------------------------------------------------------
(* Vault *)

\* Active, of a table history h.
ActiveOf(h, n, ids) == IF n = 0 THEN {} ELSE {i \in ids : h[n][i].enabled}

\* The parts of VaultTypeOK.
RowTypes ==
  /\ history \in Seq([RowIds -> Integration])
  /\ Len(history) \in 1..MaxRevisions
KeyTypes ==
  /\ masterKey \in MasterKey /\ keysMade \in Nat /\ lostKey \in 0..keysMade
  /\ masterKey.is = "key" => masterKey.id \in 1..keysMade
FileTypes ==
  /\ output \in [Outputs -> 0..Len(history)] /\ keyFiles \subseteq SshRows
  /\ unfinished \in BOOLEAN
WorkerTypes ==
  /\ advisory \in Writers \cup {NoWriter} /\ flocked \in Writers \cup {NoWriter}
  /\ phase \in [Writers -> Phases]
  /\ memo \in [Writers -> 0..Len(history)] /\ snapshot \in [Writers -> 0..Len(history)]
  /\ serving \subseteq Writers

\* Who holds which lock, and that a worker that starts remembers nothing.
VaultFlow ==
  \A w \in Writers :
     /\ advisory = w => phase[w] \in InThread
     /\ phase[w] \in Writing => flocked = w
     /\ phase[w] \in {"down", "boot", "key", "keywrite"} => memo[w] = 0

\* materialize writes in order: what comes before a phase is in place.
StagesInPlace ==
  \A w \in Writers :
     /\ phase[w] = "config" => ActiveOf(history, snapshot[w], SshRows) \subseteq keyFiles
     /\ phase[w] \in {"git-credentials", "cli-tokens", "unlink"} => output["config"] = snapshot[w]
     /\ phase[w] \in {"cli-tokens", "unlink"} => output["git-credentials"] = snapshot[w]
     /\ phase[w] = "unlink" => output["cli-tokens"] = snapshot[w]

\* The holder of the advisory lock has the newest snapshot.
NewestIsLocked ==
  \A w \in Writers : advisory = w /\ snapshot[w] # 0 =>
     /\ \A v \in Writers : snapshot[v] <= snapshot[w]
     /\ \A f \in Outputs : output[f] <= snapshot[w]

\* A key is made only while the table is empty, by one worker.
KeyIsFirst ==
  /\ \A v, w \in Writers : phase[v] = "keywrite" /\ phase[w] = "keywrite" => v = w
  /\ \A w \in Writers : phase[w] = "keywrite" => masterKey.is = "empty"
  /\ masterKey.is = "empty" => Existing = {}
  /\ \A w \in Writers : masterKey.is = "absent" /\ phase[w] = "key" => Existing = {}
  /\ masterKey.is = "absent" /\ lostKey # 0 => \A i \in Existing : Table[i].sealed = lostKey
  /\ SecretsReadable

\* Between two rounds, the last of which ended well, the directory is that of
\* one revision, and its writer remembers it or has to write again.
LastRound ==
  ~unfinished /\ (\A w \in Writers : phase[w] \notin Writing) =>
     \E n \in 0..Len(history) :
        /\ \A f \in Outputs : output[f] = n
        /\ keyFiles = ActiveOf(history, n, SshRows)
        /\ \E w \in Writers : memo[w] \in {0, n}

VaultInv ==
  /\ RowTypes /\ KeyTypes /\ FileTypes /\ WorkerTypes
  /\ VaultFlow /\ StagesInPlace /\ NewestIsLocked /\ KeyIsFirst
  /\ NoDanglingIdentity /\ LastRound

\* VaultInv spells the type invariant out.
LEMMA VaultTypes == VaultInv => VaultTypeOK
<1> SUFFICES ASSUME VaultInv PROVE VaultTypeOK
  OBVIOUS
<1>1. \A n \in DOMAIN history : history[n] \in [RowIds -> Integration]
  BY DEF VaultInv, RowTypes
<1>2. \A w \in Writers : /\ advisory = w => phase[w] \in InThread
                         /\ phase[w] \in Writing => flocked = w
  BY DEF VaultInv, VaultFlow
<1> QED BY <1>1, <1>2 DEF VaultInv, VaultTypeOK, RowTypes, KeyTypes, FileTypes, WorkerTypes

\* Nothing is stored, written or running at first.
LEMMA VaultInvInit == VaultInit => VaultInv
<1> SUFFICES ASSUME VaultInit PROVE VaultInv
  OBVIOUS
<1> USE VaultAssumption DEF VaultInit
<1>1. NoRows \in [RowIds -> Integration]
  BY DEF NoRows, NoRow, Integration
<1>2. RowTypes /\ Len(history) = 1 /\ history[1] = NoRows
  BY <1>1 DEF RowTypes
<1>3. KeyTypes
  BY DEF KeyTypes, MasterKey
<1>4. FileTypes /\ WorkerTypes
  <2>1. unfinished \in BOOLEAN
    OBVIOUS
  <2>2. output \in [Outputs -> 0..Len(history)] /\ keyFiles \subseteq SshRows
    BY <1>2 DEF Outputs
  <2> QED BY <1>2, <2>1, <2>2 DEF FileTypes, WorkerTypes, Phases
<1>5. VaultFlow /\ StagesInPlace /\ NewestIsLocked
  BY <1>2 DEF VaultFlow, StagesInPlace, NewestIsLocked, InThread, Writing
<1>6. Existing = {}
  BY <1>2 DEF Existing, Exists, Table, Now, NoRows, NoRow
<1>7. KeyIsFirst
  BY <1>6 DEF KeyIsFirst, SecretsReadable, Usable
<1>8. NoDanglingIdentity
  BY <1>2 DEF NoDanglingIdentity, Active, Outputs
<1>9. LastRound
  BY <1>2 DEF LastRound, ActiveOf, Outputs
<1> QED BY <1>2, <1>3, <1>4, <1>5, <1>7, <1>8, <1>9 DEF VaultInv

\* The end of a round: the locks go, and the worker remembers the revision it
\* wrote, what it remembered before, or nothing.
LEMMA FinishEffect ==
  ASSUME NEW w \in Writers, NEW ok \in BOOLEAN, RowTypes, WorkerTypes, Finish(w, ok)
  PROVE  /\ flocked' = NoWriter
         /\ advisory' \in {advisory, NoWriter} /\ advisory' # w
         /\ serving' \subseteq serving \cup {w}
         /\ snapshot' = [snapshot EXCEPT ![w] = 0]
         /\ \E p \in {"idle", "down"}, m \in 0..Len(history) :
               /\ phase' = [phase EXCEPT ![w] = p] /\ memo' = [memo EXCEPT ![w] = m]
               /\ p = "down" => m = 0
               /\ m = 0 \/ (~ok /\ m = memo[w]) \/ (ok /\ m = snapshot[w])
         /\ unfinished' = ~ok
<1> DEFINE up == w \in serving \/ (ok /\ advisory = w)
           p == IF up THEN "idle" ELSE "down"
           m == IF ~up THEN 0 ELSE IF ok THEN snapshot[w] ELSE memo[w]
<1> USE VaultAssumption DEF Finish
<1>1. /\ flocked' = NoWriter /\ advisory' \in {advisory, NoWriter} /\ advisory' # w
      /\ serving' \subseteq serving \cup {w} /\ snapshot' = [snapshot EXCEPT ![w] = 0]
      /\ unfinished' = ~ok
  BY DEF WorkerTypes
<1>2. phase' = [phase EXCEPT ![w] = p] /\ memo' = [memo EXCEPT ![w] = m]
  BY DEF WorkerTypes
<1>3. m \in 0..Len(history) /\ p \in {"idle", "down"}
  BY DEF WorkerTypes, RowTypes
<1> QED BY <1>1, <1>2, <1>3

\* A committed revision leaves the earlier ones as they are.
LEMMA CommitEffect ==
  ASSUME RowTypes, NEW i \in RowIds, NEW r \in Integration, Commit(i, r), Len(history) < MaxRevisions
  PROVE  /\ RowTypes' /\ Len(history') = Len(history) + 1
         /\ \A n \in 1..Len(history) : history'[n] = history[n]
         /\ \A ids : \A n \in 0..Len(history) : ActiveOf(history', n, ids) = ActiveOf(history, n, ids)
         /\ Table' = [Table EXCEPT ![i] = r]
         /\ Table \in [RowIds -> Integration]
<1> USE VaultAssumption DEF RowTypes, Commit
<1>1. Table \in [RowIds -> Integration]
  BY DEF Table, Now
<1>2. [Table EXCEPT ![i] = r] \in [RowIds -> Integration]
  BY <1>1
<1>3. RowTypes' /\ Len(history') = Len(history) + 1
  BY <1>2
<1>4. \A n \in 1..Len(history) : history'[n] = history[n]
  BY <1>2
<1>5. \A ids : \A n \in 0..Len(history) : ActiveOf(history', n, ids) = ActiveOf(history, n, ids)
  <2> TAKE ids
  <2> TAKE n \in 0..Len(history)
  <2>1. CASE n = 0
    BY <2>1 DEF ActiveOf
  <2>2. CASE n # 0
    <3>1. n \in 1..Len(history)
      BY <2>2
    <3>2. history'[n] = history[n]
      BY <1>4, <3>1
    <3> QED BY <2>2, <3>2 DEF ActiveOf
  <2> QED BY <2>1, <2>2
<1>6. history'[Len(history) + 1] = [Table EXCEPT ![i] = r]
  BY <1>2
<1>7. Table' = [Table EXCEPT ![i] = r]
  BY <1>3, <1>6 DEF Table, Now
<1> QED BY <1>1, <1>3, <1>4, <1>5, <1>7

USE DEF VaultFault

\* A commit leaves the files and the workers as they are.
LEMMA CommitKeepsFiles ==
  ASSUME VaultInv, NEW i \in RowIds, NEW r \in Integration, Commit(i, r),
         Len(history) < MaxRevisions, UNCHANGED <<advisory, flocked, fileVars, workerVars>>
  PROVE  /\ RowTypes' /\ FileTypes' /\ WorkerTypes' /\ VaultFlow' /\ StagesInPlace'
         /\ NewestIsLocked' /\ NoDanglingIdentity' /\ LastRound'
<1> USE VaultAssumption DEF VaultInv, fileVars, workerVars
<1>1. /\ RowTypes' /\ Len(history') = Len(history) + 1 /\ Len(history) \in Nat
      /\ \A ids : \A n \in 0..Len(history) : ActiveOf(history', n, ids) = ActiveOf(history, n, ids)
  BY CommitEffect DEF RowTypes
<1>2. FileTypes'
  BY <1>1 DEF FileTypes
<1>3. WorkerTypes' /\ VaultFlow'
  BY <1>1 DEF WorkerTypes, VaultFlow
<1>4. StagesInPlace'
  BY <1>1 DEF StagesInPlace, WorkerTypes
<1>5. NewestIsLocked'
  BY <1>1 DEF NewestIsLocked
<1>6. NoDanglingIdentity'
  <2>1. output["config"] \in 0..Len(history)
    BY DEF FileTypes, Outputs
  <2>2. ActiveOf(history', output["config"], SshRows) = ActiveOf(history, output["config"], SshRows)
    BY <1>1, <2>1
  <2> QED BY <2>2 DEF NoDanglingIdentity, Active, ActiveOf
<1>7. LastRound'
  BY <1>1 DEF LastRound
<1> QED BY <1>1, <1>2, <1>3, <1>4, <1>5, <1>6, <1>7

\* A step that leaves the files and the table alone, ends no round well, and
\* after which no worker remembers more than it did.
LEMMA QuietKeepsFiles ==
  ASSUME VaultInv, UNCHANGED <<history, output, keyFiles>>, unfinished' \in BOOLEAN,
         ~unfinished' /\ (\A w \in Writers : phase'[w] \notin Writing) =>
            ~unfinished /\ \A w \in Writers : phase[w] \notin Writing,
         \A w \in Writers : memo'[w] \in {0, memo[w]}
  PROVE  FileTypes' /\ RowTypes' /\ NoDanglingIdentity' /\ LastRound'
<1> USE DEF VaultInv
<1>1. FileTypes' /\ RowTypes' /\ NoDanglingIdentity'
  BY DEF FileTypes, RowTypes, NoDanglingIdentity, Active
<1>2. LastRound'
  BY DEF LastRound
<1> QED BY <1>1, <1>2

\* Boot to the first refresh.
LEMMA StartKeepsFiles ==
  ASSUME VaultInv, NEW w \in Writers,
         Boot(w) \/ ListForKey(w) \/ EnsureKey(w) \/ WriteKey(w)
  PROVE  /\ RowTypes' /\ FileTypes' /\ WorkerTypes' /\ VaultFlow' /\ StagesInPlace'
         /\ NewestIsLocked' /\ NoDanglingIdentity' /\ LastRound'
<1> USE VaultAssumption DEF VaultInv
<1>1. PICK p \in {"boot", "key", "keywrite", "idle", "down"} : phase' = [phase EXCEPT ![w] = p]
  BY DEF Boot, ListForKey, EnsureKey, WriteKey
<1>2. /\ UNCHANGED <<history, fileVars, advisory, flocked, memo, snapshot, serving>>
      /\ phase[w] \in {"down", "boot", "key", "keywrite"}
  BY DEF Boot, ListForKey, EnsureKey, WriteKey
<1>3. memo[w] = 0 /\ Len(history) \in Nat /\ Len(history) # 0
  BY <1>2 DEF VaultFlow, RowTypes
<1>4. WorkerTypes'
  BY <1>1, <1>2 DEF WorkerTypes, Phases
<1>5. VaultFlow'
  BY <1>1, <1>2, <1>3 DEF VaultFlow, InThread, Writing, WorkerTypes
<1>6. StagesInPlace' /\ NewestIsLocked'
  BY <1>1, <1>2 DEF StagesInPlace, NewestIsLocked, WorkerTypes, fileVars
<1>7. RowTypes' /\ FileTypes' /\ NoDanglingIdentity' /\ LastRound'
  <2>1. \A v \in Writers : phase[v] \in Writing => phase'[v] \in Writing
    BY <1>1, <1>2 DEF WorkerTypes, Writing, InThread
  <2>2. UNCHANGED <<history, output, keyFiles, unfinished, memo>> /\ unfinished \in BOOLEAN
    BY <1>2 DEF fileVars, FileTypes
  <2> QED BY <2>1, <2>2, QuietKeepsFiles
<1> QED BY <1>4, <1>5, <1>6, <1>7

\* What NextPhase is at each file.
LEMMA NextPhases ==
  /\ NextPhase("config") = "git-credentials"
  /\ NextPhase("git-credentials") = "cli-tokens"
  /\ NextPhase("cli-tokens") = "unlink"
  BY DEF NextPhase

\* A round begins, with the newest snapshot.
LEMMA RefreshKeepsFiles ==
  ASSUME VaultInv, NEW w \in Writers, Refresh(w)
  PROVE  /\ RowTypes' /\ FileTypes' /\ WorkerTypes' /\ VaultFlow' /\ StagesInPlace'
         /\ NewestIsLocked' /\ NoDanglingIdentity' /\ LastRound'
<1> USE VaultAssumption DEF VaultInv, Refresh, Now
<1>1. Len(history) \in Nat /\ Len(history) # 0
  BY DEF RowTypes
<1>2. WorkerTypes'
  BY <1>1 DEF WorkerTypes, Phases
<1>3. VaultFlow'
  BY <1>1 DEF VaultFlow, InThread, Writing, WorkerTypes
<1>4. StagesInPlace'
  BY DEF StagesInPlace, WorkerTypes, fileVars
<1>5. NewestIsLocked'
  BY <1>1 DEF NewestIsLocked, WorkerTypes, FileTypes, fileVars
<1>6. RowTypes' /\ FileTypes' /\ NoDanglingIdentity' /\ LastRound'
  <2>1. \A v \in Writers : phase[v] \in Writing => phase'[v] \in Writing
    BY DEF WorkerTypes, Writing, InThread
  <2>2. UNCHANGED <<history, output, keyFiles, unfinished, memo>> /\ unfinished \in BOOLEAN
    BY DEF fileVars, FileTypes
  <2> QED BY <2>1, <2>2, QuietKeepsFiles
<1> QED BY <1>2, <1>3, <1>4, <1>5, <1>6

\* The thread takes the file lock.
LEMMA TakeVaultLockKeepsFiles ==
  ASSUME VaultInv, NEW w \in Writers, TakeVaultLock(w)
  PROVE  /\ RowTypes' /\ FileTypes' /\ WorkerTypes' /\ VaultFlow' /\ StagesInPlace'
         /\ NewestIsLocked' /\ NoDanglingIdentity' /\ LastRound'
<1> USE VaultAssumption DEF VaultInv
<1>1. /\ phase[w] = "queued" /\ flocked = NoWriter /\ flocked' = w
      /\ UNCHANGED <<history, advisory, fileVars, memo, serving>>
  BY DEF TakeVaultLock
<1>2. \/ phase' = [phase EXCEPT ![w] = "keys"] /\ snapshot' = snapshot
      \/ phase' = [phase EXCEPT ![w] = "config"] /\ snapshot' = [snapshot EXCEPT ![w] = 0]
  BY DEF TakeVaultLock
<1>3. Len(history) \in Nat
  BY DEF RowTypes
<1>s. snapshot' \in [Writers -> 0..Len(history)] /\ \A v \in Writers : snapshot'[v] \in {0, snapshot[v]}
  <2>1. snapshot \in [Writers -> 0..Len(history)] /\ 0 \in 0..Len(history)
    BY <1>3 DEF WorkerTypes
  <2>2. CASE snapshot' = snapshot
    BY <2>1, <2>2
  <2>3. CASE snapshot' = [snapshot EXCEPT ![w] = 0]
    BY <2>1, <2>3
  <2> QED BY <1>2, <2>2, <2>3
<1>p. phase' \in [Writers -> Phases]
  BY <1>2 DEF WorkerTypes, Phases
<1>4. WorkerTypes'
  BY <1>1, <1>s, <1>p DEF WorkerTypes
<1>5. VaultFlow'
  BY <1>1, <1>2 DEF VaultFlow, InThread, Writing, WorkerTypes
<1>6. StagesInPlace'
  BY <1>1, <1>2 DEF StagesInPlace, WorkerTypes, fileVars, ActiveOf
<1>7. NewestIsLocked'
  BY <1>1, <1>3, <1>s DEF NewestIsLocked, WorkerTypes, fileVars
<1>8. RowTypes' /\ FileTypes' /\ NoDanglingIdentity' /\ LastRound'
  <2>1. \A v \in Writers : phase[v] \in Writing => phase'[v] \in Writing
    BY <1>1, <1>2 DEF WorkerTypes, Writing, InThread
  <2>2. UNCHANGED <<history, output, keyFiles, unfinished, memo>> /\ unfinished \in BOOLEAN
    BY <1>1 DEF fileVars, FileTypes
  <2> QED BY <2>1, <2>2, QuietKeepsFiles
<1> QED BY <1>4, <1>5, <1>6, <1>7, <1>8

\* A round that ends, whether or not it wrote the last files.
LEMMA FinishKeepsWorkers ==
  ASSUME VaultInv, NEW w \in Writers, NEW ok \in BOOLEAN, Finish(w, ok), phase[w] \in Writing,
         UNCHANGED <<history, output>>
  PROVE  WorkerTypes' /\ VaultFlow' /\ StagesInPlace' /\ NewestIsLocked'
<1> USE VaultAssumption DEF VaultInv
<1>1. /\ flocked = w /\ flocked' = NoWriter /\ advisory' \in {advisory, NoWriter} /\ advisory' # w
      /\ serving' \subseteq serving \cup {w}
      /\ snapshot' = [snapshot EXCEPT ![w] = 0]
  BY FinishEffect DEF VaultFlow
<1>2. PICK p \in {"idle", "down"}, m \in 0..Len(history) :
        /\ phase' = [phase EXCEPT ![w] = p] /\ memo' = [memo EXCEPT ![w] = m]
        /\ p = "down" => m = 0
  BY FinishEffect
<1>3. Len(history) \in Nat
  BY DEF RowTypes
<1>4. WorkerTypes'
  BY <1>1, <1>2, <1>3 DEF WorkerTypes, Phases
<1>5. \A v \in Writers : v # w => phase[v] \notin Writing
  BY <1>1 DEF VaultFlow
<1>6. VaultFlow'
  BY <1>1, <1>2, <1>5 DEF VaultFlow, InThread, Writing, WorkerTypes
<1>7. StagesInPlace'
  BY <1>1, <1>2, <1>5 DEF StagesInPlace, WorkerTypes, InThread, Writing
<1>8. NewestIsLocked'
  BY <1>1, <1>3 DEF NewestIsLocked, WorkerTypes
<1> QED BY <1>4, <1>6, <1>7, <1>8

\* A round that fails leaves the files it had, and is unfinished.
LEMMA FailKeepsFiles ==
  ASSUME VaultInv, NEW w \in Writers, Finish(w, FALSE),
         UNCHANGED <<history, output>>, keyFiles \subseteq keyFiles', keyFiles' \subseteq SshRows
  PROVE  RowTypes' /\ FileTypes' /\ NoDanglingIdentity' /\ LastRound'
<1> USE VaultAssumption DEF VaultInv
<1>1. unfinished' = TRUE
  BY FinishEffect
<1>2. RowTypes' /\ FileTypes' /\ NoDanglingIdentity'
  BY <1>1 DEF RowTypes, FileTypes, NoDanglingIdentity, Active
<1>3. LastRound'
  BY <1>1 DEF LastRound
<1> QED BY <1>2, <1>3

\* The key files.
LEMMA WriteKeyFilesKeepsFiles ==
  ASSUME VaultInv, NEW w \in Writers, WriteKeyFiles(w)
  PROVE  /\ RowTypes' /\ FileTypes' /\ WorkerTypes' /\ VaultFlow' /\ StagesInPlace'
         /\ NewestIsLocked' /\ NoDanglingIdentity' /\ LastRound'
<1> USE VaultAssumption DEF VaultInv
<1> DEFINE hosts == Active(snapshot[w], SshRows)
<1>1. phase[w] = "keys" /\ UNCHANGED <<history, output>> /\ hosts \subseteq SshRows
      /\ phase[w] \in Writing /\ hosts = ActiveOf(history, snapshot[w], SshRows)
  BY DEF WriteKeyFiles, Active, ActiveOf, InThread, Writing
<1>2. CASE /\ keyFiles' = keyFiles \cup hosts /\ phase' = [phase EXCEPT ![w] = "config"]
           /\ UNCHANGED <<advisory, flocked, memo, snapshot, serving, unfinished>>
  <2>0. flocked = w
    BY <1>1 DEF VaultFlow
  <2>1. WorkerTypes' /\ VaultFlow'
    BY <1>1, <1>2, <2>0 DEF WorkerTypes, Phases, VaultFlow, InThread, Writing
  <2>2. StagesInPlace'
    BY <1>1, <1>2 DEF StagesInPlace, WorkerTypes
  <2>3. NewestIsLocked'
    BY <1>1, <1>2 DEF NewestIsLocked
  <2>4. RowTypes' /\ FileTypes' /\ NoDanglingIdentity'
    BY <1>1, <1>2 DEF RowTypes, FileTypes, NoDanglingIdentity, Active
  <2>5. LastRound'
    <3>1. phase'[w] \in Writing
      BY <1>2 DEF WorkerTypes, Writing, InThread
    <3> QED BY <3>1 DEF LastRound
  <2> QED BY <2>1, <2>2, <2>3, <2>4, <2>5
<1>3. CASE Finish(w, FALSE) /\ \E some \in SUBSET hosts : keyFiles' = keyFiles \cup some
  <2>1. keyFiles \subseteq keyFiles' /\ keyFiles' \subseteq SshRows
    BY <1>1, <1>3 DEF FileTypes
  <2> QED BY <1>1, <1>3, <2>1, FailKeepsFiles, FinishKeepsWorkers
<1> QED BY <1>2, <1>3 DEF WriteKeyFiles

\* The files of one table, in their order.
LEMMA WriteOutputKeepsFiles ==
  ASSUME VaultInv, NEW w \in Writers, WriteOutput(w)
  PROVE  /\ RowTypes' /\ FileTypes' /\ WorkerTypes' /\ VaultFlow' /\ StagesInPlace'
         /\ NewestIsLocked' /\ NoDanglingIdentity' /\ LastRound'
<1> USE VaultAssumption DEF VaultInv
<1>1. /\ phase[w] \in Outputs /\ UNCHANGED <<history, keyFiles>>
      /\ phase[w] \in Writing /\ flocked = w
  BY DEF WriteOutput, Outputs, InThread, Writing, VaultFlow
<1>2. CASE /\ output' = [output EXCEPT ![phase[w]] = snapshot[w]]
           /\ phase' = [phase EXCEPT ![w] = NextPhase(phase[w])]
           /\ UNCHANGED <<advisory, flocked, memo, snapshot, serving, unfinished>>
  <2>0. /\ NextPhase(phase[w]) \in {"git-credentials", "cli-tokens", "unlink"}
        /\ \A v \in Writers : v # w => phase[v] \notin Writing
    BY <1>1, NextPhases DEF Outputs, VaultFlow
  <2>1. WorkerTypes' /\ VaultFlow'
    BY <1>1, <1>2, <2>0 DEF WorkerTypes, Phases, VaultFlow, InThread, Writing
  <2>2. StagesInPlace'
    <3>1. \A v \in Writers : v # w => phase'[v] \notin Writing
      BY <1>2, <2>0 DEF WorkerTypes
    <3>2. CASE phase[w] = "config"
      BY <1>2, <3>1, <3>2, NextPhases DEF StagesInPlace, InThread, Writing, WorkerTypes, FileTypes, Outputs
    <3>3. CASE phase[w] = "git-credentials"
      BY <1>2, <3>1, <3>3, NextPhases DEF StagesInPlace, InThread, Writing, WorkerTypes, FileTypes, Outputs
    <3>4. CASE phase[w] = "cli-tokens"
      BY <1>2, <3>1, <3>4, NextPhases DEF StagesInPlace, InThread, Writing, WorkerTypes, FileTypes, Outputs
    <3> QED BY <1>1, <3>2, <3>3, <3>4 DEF Outputs
  <2>3. NewestIsLocked'
    BY <1>1, <1>2 DEF NewestIsLocked, WorkerTypes, FileTypes
  <2>4. RowTypes' /\ FileTypes'
    BY <1>1, <1>2 DEF RowTypes, FileTypes, WorkerTypes
  <2>5. NoDanglingIdentity'
    <3>1. CASE phase[w] = "config"
      <4>1. ActiveOf(history, snapshot[w], SshRows) \subseteq keyFiles
        BY <3>1 DEF StagesInPlace
      <4>2. output'["config"] = snapshot[w]
        BY <1>2, <3>1 DEF FileTypes, Outputs
      <4> QED BY <1>1, <4>1, <4>2 DEF NoDanglingIdentity, Active, ActiveOf
    <3>2. CASE phase[w] # "config"
      <4>1. output'["config"] = output["config"]
        BY <1>2, <3>2 DEF FileTypes, Outputs
      <4> QED BY <1>1, <4>1 DEF NoDanglingIdentity, Active
    <3> QED BY <3>1, <3>2
  <2>6. LastRound'
    <3>1. phase'[w] \in Writing
      BY <1>2, <2>0 DEF WorkerTypes, Writing, InThread
    <3> QED BY <3>1 DEF LastRound
  <2> QED BY <2>1, <2>2, <2>3, <2>4, <2>5, <2>6
<1>3. CASE Finish(w, FALSE) /\ UNCHANGED output
  BY <1>1, <1>3, FailKeepsFiles, FinishKeepsWorkers DEF FileTypes
<1> QED BY <1>2, <1>3 DEF WriteOutput

\* The stale key files: the worker that ends well has written every file from
\* its snapshot, and nobody else writes.
LEMMA UnlinkStaleKeepsFiles ==
  ASSUME VaultInv, NEW w \in Writers, UnlinkStale(w)
  PROVE  /\ RowTypes' /\ FileTypes' /\ WorkerTypes' /\ VaultFlow' /\ StagesInPlace'
         /\ NewestIsLocked' /\ NoDanglingIdentity' /\ LastRound'
<1> USE VaultAssumption DEF VaultInv
<1> DEFINE ok == snapshot[w] # 0
           hosts == ActiveOf(history, snapshot[w], SshRows)
<1>1. /\ phase[w] = "unlink" /\ UNCHANGED <<history, output>> /\ Finish(w, ok)
      /\ keyFiles' = keyFiles \cap hosts /\ phase[w] \in Writing
  BY DEF UnlinkStale, InThread, Writing, Active, ActiveOf
<1>2. WorkerTypes' /\ VaultFlow' /\ StagesInPlace' /\ NewestIsLocked'
  BY <1>1, FinishKeepsWorkers
<1>3. \A f \in Outputs : output[f] = snapshot[w]
  BY <1>1 DEF StagesInPlace, Outputs
<1>4. hosts \subseteq keyFiles
  <2>1. output["config"] = snapshot[w]
    BY <1>3 DEF Outputs
  <2> QED BY <2>1 DEF NoDanglingIdentity, Active, ActiveOf
<1>5. keyFiles' = hosts
  BY <1>1, <1>4
<1>6. RowTypes' /\ FileTypes'
  BY <1>1, FinishEffect DEF RowTypes, FileTypes
<1>7. NoDanglingIdentity'
  <2>1. output'["config"] = snapshot[w]
    BY <1>1, <1>3 DEF Outputs
  <2> QED BY <1>1, <1>5, <2>1 DEF NoDanglingIdentity, Active, ActiveOf
<1>8. LastRound'
  <2>0. snapshot[w] \in 0..Len(history)
    BY DEF WorkerTypes
  <2>1. CASE ~ok
    BY <1>1, <2>1, FinishEffect DEF LastRound
  <2>2. CASE ok
    <3>1. memo'[w] \in {0, snapshot[w]}
      <4>1. Finish(w, TRUE)
        BY <1>1, <2>2
      <4>2. PICK m \in 0..Len(history) : memo' = [memo EXCEPT ![w] = m] /\ m \in {0, snapshot[w]}
        BY <4>1, FinishEffect
      <4> QED BY <4>2 DEF WorkerTypes
    <3>2. (\A f \in Outputs : output'[f] = snapshot[w]) /\ keyFiles' = ActiveOf(history', snapshot[w], SshRows)
      BY <1>1, <1>3, <1>5
    <3> QED BY <1>1, <2>0, <3>1, <3>2 DEF LastRound
  <2> QED BY <2>1, <2>2
<1> QED BY <1>2, <1>6, <1>7, <1>8

\* A worker that dies, or whose transaction ends under its thread.
LEMMA StopKeepsFiles ==
  ASSUME VaultInv, NEW w \in Writers, KillWriter(w) \/ CancelRefresh(w) \/ LoseConnection(w)
  PROVE  /\ RowTypes' /\ FileTypes' /\ WorkerTypes' /\ VaultFlow' /\ StagesInPlace'
         /\ NewestIsLocked' /\ NoDanglingIdentity' /\ LastRound'
<1> USE VaultAssumption DEF VaultInv
<1>1. CASE KillWriter(w)
  <2> USE <1>1 DEF KillWriter
  <2>0. Len(history) \in Nat /\ Len(history) # 0
    BY DEF RowTypes
  <2>1. /\ advisory' \in Writers \cup {NoWriter} /\ advisory' # w
        /\ flocked' \in Writers \cup {NoWriter}
        /\ \A v \in Writers : v # w => ((advisory' = v) <=> (advisory = v)) /\ ((flocked' = v) <=> (flocked = v))
    BY DEF WorkerTypes
  <2>2. /\ phase' \in [Writers -> Phases] /\ memo' \in [Writers -> 0..Len(history)]
        /\ snapshot' \in [Writers -> 0..Len(history)]
        /\ phase'[w] = "down" /\ memo'[w] = 0 /\ snapshot'[w] = 0
        /\ \A v \in Writers : v # w => phase'[v] = phase[v] /\ memo'[v] = memo[v] /\ snapshot'[v] = snapshot[v]
    BY <2>0 DEF WorkerTypes, Phases
  <2>3. WorkerTypes'
    BY <2>1, <2>2 DEF WorkerTypes
  <2>4. VaultFlow'
    BY <2>1, <2>2 DEF VaultFlow, InThread, Writing
  <2>5. StagesInPlace'
    BY <2>2 DEF StagesInPlace, fileVars
  <2>6. NewestIsLocked'
    BY <2>0, <2>1, <2>2 DEF NewestIsLocked, fileVars, WorkerTypes
  <2>7. RowTypes' /\ FileTypes' /\ NoDanglingIdentity' /\ LastRound'
    <3>1. \A v \in Writers : phase[v] \in Writing => v = w \/ phase'[v] \in Writing
      BY <2>2
    <3>2. unfinished' \in BOOLEAN /\ (~unfinished' => ~unfinished /\ phase[w] \notin Writing)
      BY DEF FileTypes
    <3>3. \A v \in Writers : memo'[v] \in {0, memo[v]}
      BY <2>2
    <3> QED BY <3>1, <3>2, <3>3, QuietKeepsFiles
  <2> QED BY <2>3, <2>4, <2>5, <2>6, <2>7
<1>2. CASE CancelRefresh(w) \/ LoseConnection(w)
  <2> USE <1>2 DEF CancelRefresh, LoseConnection
  <2>0. /\ UNCHANGED <<history, output, keyFiles, unfinished, flocked, phase, memo, snapshot>>
        /\ advisory' = NoWriter /\ serving' \subseteq serving /\ unfinished \in BOOLEAN
    BY DEF fileVars, workerVars, FileTypes
  <2>1. WorkerTypes' /\ VaultFlow' /\ StagesInPlace' /\ NewestIsLocked'
    BY <2>0 DEF WorkerTypes, VaultFlow, StagesInPlace, NewestIsLocked
  <2>2. RowTypes' /\ FileTypes' /\ NoDanglingIdentity' /\ LastRound'
    BY <2>0, QuietKeepsFiles
  <2> QED BY <2>1, <2>2
<1> QED BY <1>1, <1>2

\* A step that leaves the table and the workers alone.
LEMMA KeyStepKeepsFiles ==
  ASSUME VaultInv, UNCHANGED <<history, advisory, flocked, fileVars, workerVars>>
  PROVE  /\ RowTypes' /\ FileTypes' /\ WorkerTypes' /\ VaultFlow' /\ StagesInPlace'
         /\ NewestIsLocked' /\ NoDanglingIdentity' /\ LastRound'
<1> USE DEF VaultInv, fileVars, workerVars
<1>1. WorkerTypes' /\ VaultFlow' /\ StagesInPlace' /\ NewestIsLocked'
  BY DEF WorkerTypes, VaultFlow, StagesInPlace, NewestIsLocked
<1>2. RowTypes' /\ FileTypes' /\ NoDanglingIdentity' /\ LastRound'
  BY QuietKeepsFiles DEF FileTypes
<1> QED BY <1>1, <1>2

-----------------------------------------------------------------------------

\* A step that leaves the key and the table alone, and in which no worker turns
\* to the making of a key.
LEMMA QuietKeepsKey ==
  ASSUME VaultInv, UNCHANGED <<history, keyVars>>,
         \A w \in Writers : phase'[w] \in {"key", "keywrite"} => phase'[w] = phase[w]
  PROVE  KeyTypes' /\ KeyIsFirst'
<1> USE DEF VaultInv, keyVars
<1>1. KeyTypes' /\ Existing' = Existing /\ Table' = Table
  BY DEF KeyTypes, Existing, Exists, Table, Now
<1> QED BY <1>1 DEF KeyIsFirst, SecretsReadable, Usable

\* ensure_key, and the look at the table before it.
LEMMA StartKeepsKey ==
  ASSUME VaultInv, NEW w \in Writers,
         Boot(w) \/ ListForKey(w) \/ EnsureKey(w) \/ WriteKey(w)
  PROVE  KeyTypes' /\ KeyIsFirst'
<1> USE VaultAssumption DEF VaultInv
<1>0. phase \in [Writers -> Phases] /\ UNCHANGED history
  BY DEF WorkerTypes, Boot, ListForKey, EnsureKey, WriteKey
<1>e. Existing' = Existing /\ Table' = Table
  BY <1>0 DEF Existing, Exists, Table, Now
<1>1. CASE Boot(w)
  BY <1>0, <1>1, QuietKeepsKey DEF Boot
<1>2. CASE ListForKey(w)
  <2> USE <1>2 DEF ListForKey
  <2>1. KeyTypes'
    BY DEF KeyTypes, keyVars
  <2>2. KeyIsFirst'
    BY <1>0, <1>e DEF KeyIsFirst, SecretsReadable, Usable, keyVars
  <2> QED BY <2>1, <2>2
<1>3. CASE EnsureKey(w)
  <2>1. CASE masterKey.is # "absent"
    <3>1. UNCHANGED keyVars /\ \E p \in {"idle", "down"} : phase' = [phase EXCEPT ![w] = p]
      BY <1>3, <2>1 DEF EnsureKey, keyVars
    <3> QED BY <1>0, <3>1, QuietKeepsKey
  <2>2. CASE masterKey.is = "absent"
    <3>1. /\ masterKey' = EmptyKey /\ phase' = [phase EXCEPT ![w] = "keywrite"] /\ phase[w] = "key"
          /\ UNCHANGED <<keysMade, lostKey>>
      BY <1>3, <2>2 DEF EnsureKey
    <3>2. KeyTypes'
      BY <3>1 DEF KeyTypes, EmptyKey, MasterKey
    <3>3. masterKey'.is = "empty"
      BY <3>1 DEF EmptyKey
    <3>4. KeyIsFirst'
      BY <1>0, <1>e, <2>2, <3>1, <3>3 DEF KeyIsFirst, SecretsReadable, Usable
    <3> QED BY <3>2, <3>4
  <2> QED BY <2>1, <2>2
<1>4. CASE WriteKey(w)
  <2> USE <1>4 DEF WriteKey
  <2>1. KeyTypes'
    BY DEF KeyTypes, MasterKey
  <2>2. masterKey'.is = "key" /\ Existing = {}
    BY DEF KeyIsFirst
  <2>3. KeyIsFirst'
    BY <1>0, <1>e, <2>2 DEF KeyIsFirst, SecretsReadable, Usable
  <2> QED BY <2>1, <2>3
<1> QED BY <1>1, <1>2, <1>3, <1>4

\* The rows after a commit.
LEMMA RowsAfter ==
  ASSUME VaultInv, NEW i \in RowIds, NEW r \in Integration, Commit(i, r), Len(history) < MaxRevisions
  PROVE  /\ Existing' = IF r.at = 0 THEN Existing \ {i} ELSE Existing \cup {i}
         /\ \A j \in Existing : j # i => Table'[j].sealed = Table[j].sealed
         /\ Table'[i] = r
<1>1. Table' = [Table EXCEPT ![i] = r] /\ Table \in [RowIds -> Integration]
  BY CommitEffect DEF VaultInv
<1>2. /\ Table'[i] = r
      /\ \A j \in RowIds : j # i => Table'[j] = Table[j]
  BY <1>1
<1>3. \A j \in RowIds : (j \in Existing) <=> (Table[j].at # 0)
  BY DEF Existing, Exists
<1>4. \A j \in RowIds : (j \in Existing') <=> (Table'[j].at # 0)
  BY DEF Existing, Exists
<1>5. Existing \subseteq RowIds /\ Existing' \subseteq RowIds
  BY DEF Existing
<1> QED BY <1>2, <1>3, <1>4, <1>5

\* save, delete_integration and prepare_settings.
LEMMA CommitKeepsKey ==
  ASSUME VaultInv, SaveIntegration \/ DeleteIntegration \/ PrepareSettings
  PROVE  /\ KeyTypes' /\ KeyIsFirst'
         /\ UNCHANGED <<advisory, flocked, fileVars, workerVars>> /\ Len(history) < MaxRevisions
         /\ \E i \in RowIds, r \in Integration : Commit(i, r)
<1> USE VaultAssumption DEF VaultInv
<1>0. /\ UNCHANGED <<advisory, flocked, fileVars, workerVars>> /\ Len(history) < MaxRevisions
      /\ Len(history) \in Nat
  <2>1. UNCHANGED <<advisory, flocked, fileVars, workerVars>>
    BY DEF SaveIntegration, DeleteIntegration, PrepareSettings
  <2>2. Now < MaxRevisions
    BY DEF SaveIntegration, DeleteIntegration, PrepareSettings
  <2>3. Len(history) \in Nat
    BY DEF RowTypes
  <2> QED BY <2>1, <2>2, <2>3 DEF Now
<1>u. UNCHANGED phase
  BY <1>0 DEF workerVars
<1>t. Table \in [RowIds -> Integration]
  BY DEF Table, Now, RowTypes
<1>1. CASE SaveIntegration
  <2>0. PICK i \in RowIds, on \in BOOLEAN :
          \/ Usable /\ Commit(i, [at |-> Now + 1, enabled |-> on, sealed |-> masterKey.id])
          \/ Exists(i) /\ Commit(i, [Table[i] EXCEPT !.at = Now + 1, !.enabled = on])
    BY <1>1 DEF SaveIntegration
  <2>k. UNCHANGED keyVars /\ KeyTypes'
    BY <1>1 DEF SaveIntegration, keyVars, KeyTypes
  <2>1. CASE Usable /\ Commit(i, [at |-> Now + 1, enabled |-> on, sealed |-> masterKey.id])
    <3> DEFINE r == [at |-> Now + 1, enabled |-> on, sealed |-> masterKey.id]
    <3>1. r \in Integration /\ r.at # 0 /\ r.sealed = masterKey.id
      BY <1>0, <2>1 DEF Integration, Now, KeyTypes, MasterKey
    <3> HIDE DEF r
    <3>2. Commit(i, r)
      BY <2>1 DEF r
    <3>3. Existing' = Existing \cup {i} /\ Table'[i] = r
          /\ \A j \in Existing : j # i => Table'[j].sealed = Table[j].sealed
      BY <1>0, <3>1, <3>2, RowsAfter
    <3>4. masterKey' = masterKey /\ lostKey' = lostKey /\ masterKey.is = "key"
      BY <2>1, <2>k DEF keyVars, Usable
    <3>5. KeyIsFirst'
      BY <1>u, <3>1, <3>3, <3>4 DEF KeyIsFirst, SecretsReadable, Usable
    <3> QED BY <1>0, <2>k, <3>1, <3>2, <3>5
  <2>2. CASE Exists(i) /\ Commit(i, [Table[i] EXCEPT !.at = Now + 1, !.enabled = on])
    <3> DEFINE r == [Table[i] EXCEPT !.at = Now + 1, !.enabled = on]
    <3>0. Table[i] \in Integration /\ i \in Existing
      BY <1>t, <2>2 DEF Existing
    <3>1. r \in Integration /\ r.at # 0 /\ r.sealed = Table[i].sealed
      <4>1. Now + 1 \in 0..MaxRevisions /\ Now + 1 # 0
        BY <1>0 DEF Now
      <4> DEFINE row == Table[i]
      <4> HIDE DEF row
      <4>2. row \in [at : 0..MaxRevisions, enabled : BOOLEAN, sealed : Nat]
        BY <3>0 DEF Integration, row
      <4>3. /\ [row EXCEPT !.at = Now + 1, !.enabled = on] \in [at : 0..MaxRevisions, enabled : BOOLEAN, sealed : Nat]
            /\ [row EXCEPT !.at = Now + 1, !.enabled = on].at = Now + 1
            /\ [row EXCEPT !.at = Now + 1, !.enabled = on].sealed = row.sealed
        BY <4>1, <4>2
      <4> QED BY <4>1, <4>3 DEF Integration, row
    <3> HIDE DEF r
    <3>2. Commit(i, r)
      BY <2>2 DEF r
    <3>3. Existing' = Existing \cup {i} /\ Table'[i] = r
          /\ \A j \in Existing : j # i => Table'[j].sealed = Table[j].sealed
      BY <1>0, <3>1, <3>2, RowsAfter
    <3>4. masterKey' = masterKey /\ lostKey' = lostKey
      BY <2>k DEF keyVars
    <3>5. Existing' = Existing /\ \A j \in Existing : Table'[j].sealed = Table[j].sealed
      BY <3>0, <3>1, <3>3
    <3>6. KeyIsFirst'
      BY <1>u, <3>4, <3>5 DEF KeyIsFirst, SecretsReadable, Usable
    <3> QED BY <1>0, <2>k, <3>1, <3>2, <3>6
  <2> QED BY <2>0, <2>1, <2>2
<1>2. CASE DeleteIntegration
  <2>k. UNCHANGED keyVars /\ KeyTypes'
    BY <1>2 DEF DeleteIntegration, keyVars, KeyTypes
  <2>0. PICK i \in Existing : Commit(i, NoRow)
    BY <1>2 DEF DeleteIntegration
  <2>1. i \in RowIds /\ NoRow \in Integration /\ NoRow.at = 0
    BY DEF Existing, NoRow, Integration
  <2>3. Existing' = Existing \ {i} /\ \A j \in Existing : j # i => Table'[j].sealed = Table[j].sealed
    BY <1>0, <2>0, <2>1, RowsAfter
  <2>4. masterKey' = masterKey /\ lostKey' = lostKey
    BY <2>k DEF keyVars
  <2>5. Existing' \subseteq Existing /\ \A j \in Existing' : Table'[j].sealed = Table[j].sealed
    BY <2>3
  <2>6. KeyIsFirst'
    BY <1>u, <2>4, <2>5 DEF KeyIsFirst, SecretsReadable, Usable
  <2> QED BY <1>0, <2>k, <2>0, <2>1, <2>6
<1>3. CASE PrepareSettings
  <2>0. PICK i \in TokenRows \ Existing :
          Commit(i, [at |-> Now + 1, enabled |-> TRUE, sealed |-> masterKey'.id])
    BY <1>3 DEF PrepareSettings
  <2>1. /\ masterKey'.is = "key" /\ UNCHANGED lostKey /\ KeyTypes'
        /\ Usable \/ (masterKey.is = "absent" /\ Existing = {})
        /\ Usable => masterKey' = masterKey
    <3>1. CASE Usable
      <4>1. UNCHANGED <<masterKey, keysMade, lostKey>>
        BY <1>3, <3>1 DEF PrepareSettings
      <4> QED BY <3>1, <4>1 DEF Usable, KeyTypes
    <3>2. CASE ~Usable
      <4>1. /\ masterKey' = [is |-> "key", id |-> keysMade + 1] /\ keysMade' = keysMade + 1
            /\ UNCHANGED lostKey /\ masterKey.is = "absent" /\ Existing = {}
        BY <1>3, <3>2 DEF PrepareSettings
      <4>2. KeyTypes'
        BY <4>1 DEF KeyTypes, MasterKey
      <4> QED BY <3>2, <4>1, <4>2
    <3> QED BY <3>1, <3>2
  <2> DEFINE r == [at |-> Now + 1, enabled |-> TRUE, sealed |-> masterKey'.id]
  <2>2. r \in Integration /\ r.at # 0 /\ r.sealed = masterKey'.id
    BY <1>0, <2>1 DEF Integration, Now, KeyTypes, MasterKey
  <2> HIDE DEF r
  <2>3. Commit(i, r) /\ i \in RowIds
    BY <2>0 DEF r, RowIds
  <2>4. Existing' = Existing \cup {i} /\ Table'[i] = r
        /\ \A j \in Existing : j # i => Table'[j].sealed = Table[j].sealed
    BY <1>0, <2>2, <2>3, RowsAfter
  <2>5. SecretsReadable'
    <3>1. CASE Usable
      BY <2>1, <2>2, <2>4, <3>1 DEF SecretsReadable, KeyIsFirst
    <3>2. CASE Existing = {}
      BY <2>2, <2>4, <3>2 DEF SecretsReadable
    <3> QED BY <2>1, <3>1, <3>2
  <2>6. \A w \in Writers : phase[w] # "keywrite"
    BY <2>1 DEF KeyIsFirst, Usable
  <2>7. KeyIsFirst'
    BY <1>u, <2>1, <2>5, <2>6 DEF KeyIsFirst
  <2> QED BY <1>0, <2>1, <2>2, <2>3, <2>7
<1> QED BY <1>1, <1>2, <1>3

\* The operator loses or restores the key.
LEMMA OperatorKeepsKey ==
  ASSUME VaultInv, LoseKey \/ RestoreKey
  PROVE  KeyTypes' /\ KeyIsFirst' /\ UNCHANGED <<history, advisory, flocked, fileVars, workerVars>>
<1> USE DEF VaultInv
<1>0. UNCHANGED <<history, advisory, flocked, fileVars, workerVars>>
  BY DEF LoseKey, RestoreKey
<1>e. Existing' = Existing /\ Table' = Table /\ phase' = phase
  BY <1>0 DEF Existing, Exists, Table, Now, workerVars
<1>1. CASE LoseKey
  <2> USE <1>1 DEF LoseKey
  <2>1. masterKey'.is = "absent" /\ lostKey' = masterKey.id /\ masterKey.is = "key"
    BY DEF Usable
  <2>2. KeyTypes'
    BY <2>1 DEF KeyTypes, MasterKey
  <2>3. \A w \in Writers : phase[w] # "keywrite"
    BY <2>1 DEF KeyIsFirst
  <2>4. KeyIsFirst'
    BY <1>e, <2>1, <2>3 DEF KeyIsFirst, SecretsReadable, Usable
  <2> QED BY <1>0, <2>2, <2>4
<1>2. CASE RestoreKey
  <2> USE <1>2 DEF RestoreKey
  <2>1. masterKey'.is = "key" /\ masterKey'.id = lostKey /\ masterKey.is = "absent" /\ lostKey # 0
    OBVIOUS
  <2>2. KeyTypes'
    BY <2>1 DEF KeyTypes, MasterKey
  <2>3. \A w \in Writers : phase[w] # "keywrite"
    BY <2>1 DEF KeyIsFirst
  <2>4. KeyIsFirst'
    BY <1>e, <2>1, <2>3 DEF KeyIsFirst, SecretsReadable, Usable
  <2> QED BY <1>0, <2>2, <2>4
<1> QED BY <1>1, <1>2

\* The writing of the files and the stops have nothing to do with the key.
LEMMA RoundKeepsKey ==
  ASSUME VaultInv, NEW w \in Writers,
         \/ Refresh(w) \/ TakeVaultLock(w) \/ WriteKeyFiles(w) \/ WriteOutput(w)
         \/ UnlinkStale(w) \/ KillWriter(w) \/ CancelRefresh(w) \/ LoseConnection(w)
  PROVE  KeyTypes' /\ KeyIsFirst'
<1> USE DEF VaultInv
<1>1. UNCHANGED <<history, keyVars>>
  BY DEF Refresh, TakeVaultLock, WriteKeyFiles, WriteOutput, UnlinkStale, KillWriter, CancelRefresh,
         LoseConnection
<1>2. \/ UNCHANGED phase
      \/ \E p \in Phases \ {"key", "keywrite"} : phase' = [phase EXCEPT ![w] = p]
  <2>1. ASSUME NEW ok \in BOOLEAN, Finish(w, ok)
        PROVE \E p \in Phases \ {"key", "keywrite"} : phase' = [phase EXCEPT ![w] = p]
    BY <2>1, FinishEffect DEF Phases
  <2>2. CASE Refresh(w) \/ TakeVaultLock(w) \/ KillWriter(w) \/ CancelRefresh(w) \/ LoseConnection(w)
    BY <2>2 DEF Refresh, TakeVaultLock, KillWriter, CancelRefresh, LoseConnection, workerVars, Phases
  <2>3. CASE WriteKeyFiles(w)
    BY <2>1, <2>3 DEF WriteKeyFiles, Phases
  <2>4. CASE WriteOutput(w)
    BY <2>1, <2>4, NextPhases DEF WriteOutput, Phases, Outputs
  <2>5. CASE UnlinkStale(w)
    BY <2>1, <2>5 DEF UnlinkStale
  <2> QED BY <2>2, <2>3, <2>4, <2>5
<1>3. \A v \in Writers : phase'[v] \in {"key", "keywrite"} => phase'[v] = phase[v]
  BY <1>2 DEF WorkerTypes
<1> QED BY <1>1, <1>3, QuietKeepsKey

\* VaultInv is inductive.
LEMMA VaultInvNext == VaultInv /\ [VaultNext]_vaultVars => VaultInv'
<1> SUFFICES ASSUME VaultInv, [VaultNext]_vaultVars PROVE VaultInv'
  OBVIOUS
<1>1. ASSUME NEW w \in Writers, Boot(w) \/ ListForKey(w) \/ EnsureKey(w) \/ WriteKey(w)
      PROVE VaultInv'
  BY <1>1, StartKeepsFiles, StartKeepsKey DEF VaultInv
<1>2. ASSUME NEW w \in Writers,
             \/ Refresh(w) \/ TakeVaultLock(w) \/ WriteKeyFiles(w) \/ WriteOutput(w)
             \/ UnlinkStale(w) \/ KillWriter(w) \/ CancelRefresh(w) \/ LoseConnection(w)
      PROVE VaultInv'
  <2>1. KeyTypes' /\ KeyIsFirst'
    BY <1>2, RoundKeepsKey
  <2> QED BY <1>2, <2>1, RefreshKeepsFiles, TakeVaultLockKeepsFiles, WriteKeyFilesKeepsFiles,
             WriteOutputKeepsFiles, UnlinkStaleKeepsFiles, StopKeepsFiles DEF VaultInv
<1>3. CASE SaveIntegration \/ DeleteIntegration \/ PrepareSettings
  BY <1>3, CommitKeepsKey, CommitKeepsFiles DEF VaultInv
<1>4. CASE LoseKey \/ RestoreKey
  BY <1>4, OperatorKeepsKey, KeyStepKeepsFiles DEF VaultInv
<1>5. CASE UNCHANGED vaultVars
  <2>1. UNCHANGED <<history, advisory, flocked, fileVars, workerVars, keyVars>>
    BY <1>5 DEF vaultVars, fileVars, workerVars, keyVars
  <2>2. KeyTypes' /\ KeyIsFirst'
    BY <2>1, QuietKeepsKey DEF workerVars
  <2> QED BY <2>1, <2>2, KeyStepKeepsFiles DEF VaultInv
<1> QED BY <1>1, <1>2, <1>3, <1>4, <1>5 DEF VaultNext

\* VaultInv holds in every deployment.
LEMMA VaultAlways == VaultInit /\ [][VaultNext]_vaultVars => []VaultInv
  BY VaultInvInit, VaultInvNext, PTL

\* Every host of the ssh config has its key file, the secrets in the table can
\* be read, and once no worker sees a reason to write and the last round ended
\* well the directory is that of the table, through crashes between two writes,
\* failed writes, cancelled rounds, lost connections and lost keys.
THEOREM VaultSound == VaultSpec => []VaultIsSound
<1>1. ASSUME VaultInv, Quiet, ~unfinished PROVE DirectoryIsTable
  <2>1. \A w \in Writers : phase[w] \notin Writing /\ memo[w] # 0 /\ history[memo[w]] = Table
    BY <1>1 DEF Quiet, Written, Writing, InThread
  <2>2. PICK n \in 0..Len(history) :
          /\ \A f \in Outputs : output[f] = n
          /\ keyFiles = ActiveOf(history, n, SshRows)
          /\ \E w \in Writers : memo[w] \in {0, n}
    BY <1>1, <2>1 DEF VaultInv, LastRound
  <2>3. n # 0 /\ history[n] = history[Now] /\ Now # 0
    BY <1>1, <2>1, <2>2 DEF Table, Now, VaultInv, RowTypes
  <2>4. \A ids : Active(n, ids) = Active(Now, ids) /\ ActiveOf(history, n, ids) = Active(n, ids)
    BY <2>3 DEF Active, ActiveOf
  <2> QED BY <2>2, <2>4 DEF DirectoryIsTable, Outputs
<1>2. VaultInv => VaultIsSound
  BY <1>1 DEF VaultInv, VaultIsSound, VaultSettled, KeyIsFirst
<1> QED BY <1>2, VaultAlways, PTL DEF VaultSpec

\* An output changes in WriteOutput only.
LEMMA OutputStep ==
  ASSUME VaultInv, [VaultNext]_vaultVars, NEW f \in Outputs, output'[f] < output[f]
  PROVE  output'[f] = 0 \/ (flocked # NoWriter /\ advisory # flocked)
<1> USE VaultAssumption DEF VaultInv
<1>1. ASSUME NEW w \in Writers, WriteOutput(w)
      PROVE output'[f] = 0 \/ (flocked # NoWriter /\ advisory # flocked)
  <2>1. CASE output' = output
    BY <2>1 DEF FileTypes
  <2>2. CASE output' = [output EXCEPT ![phase[w]] = snapshot[w]]
    <3>1. flocked = w
      BY <1>1 DEF WriteOutput, VaultFlow, Outputs, InThread, Writing
    <3>2. output'[f] = snapshot[w]
      BY <1>1, <2>2 DEF FileTypes, WriteOutput
    <3>3. CASE advisory = w /\ snapshot[w] # 0
      BY <3>2, <3>3 DEF NewestIsLocked, FileTypes, WorkerTypes
    <3> QED BY <3>1, <3>2, <3>3
  <2> QED BY <1>1, <2>1, <2>2 DEF WriteOutput
<1>2. CASE UNCHANGED output
  BY <1>2 DEF FileTypes
<1> QED BY <1>1, <1>2
        DEF VaultNext, vaultVars, fileVars, Boot, ListForKey, EnsureKey, WriteKey, Refresh,
            TakeVaultLock, WriteKeyFiles, UnlinkStale, KillWriter, CancelRefresh,
            LoseConnection, SaveIntegration, DeleteIntegration, PrepareSettings, LoseKey, RestoreKey

\* "Serialize snapshots across workers so an older snapshot cannot replace a
\* new one" (_refresh_settings): only the wipe, or the thread of a round whose
\* transaction was cancelled or cut off, takes a file back.
THEOREM OlderNever == VaultSpec => OlderNeverReplaces
<1>1. VaultInv /\ [VaultNext]_vaultVars =>
        [\A f \in Outputs :
           output'[f] < output[f] =>
              output'[f] = 0 \/ (flocked # NoWriter /\ advisory # flocked)]_vaultVars
  BY OutputStep
<1> QED BY <1>1, VaultAlways, PTL DEF VaultSpec, OlderNeverReplaces

-----------------------------------------------------------------------------
(* The services together *)

\* The inductive invariants of the services.
ServicesInv ==
  /\ QuotaInv /\ Inv /\ UploadInv /\ VaultInv /\ MeterTypesOK
  /\ LimitInv /\ NoteTypesOK /\ PrefInv

\* A step of the composition is a step or a stutter of each service.
LEMMA ServiceSteps ==
  ASSUME [ServicesNext]_serviceVars
  PROVE  /\ [Next]_vars /\ [AccountsNext]_accountVars /\ [UploadsNext]_uploadVars
         /\ [VaultNext]_vaultVars /\ [UsageNext]_usageVars /\ [LimitsNext]_limitVars
         /\ [NotesNext]_noteVars /\ [PreferencesNext]_prefVars
<1>1. CASE UNCHANGED serviceVars
  BY <1>1 DEF serviceVars
<1>2. CASE ServicesNext
  <2>1. ServicesNext /\ OthersRest(focus)
    BY <1>2 DEF ServicesNext
  <2>2. [Next]_vars
    <3>1. CASE focus = "quota" BY <2>1, <3>1 DEF ServicesNext
    <3>2. CASE focus # "quota" BY <2>1, <3>2 DEF OthersRest
    <3> QED BY <3>1, <3>2
  <2>3. [AccountsNext]_accountVars
    <3>1. CASE focus = "accounts" BY <2>1, <3>1 DEF ServicesNext
    <3>2. CASE focus # "accounts" BY <2>1, <3>2 DEF OthersRest
    <3> QED BY <3>1, <3>2
  <2>4. [UploadsNext]_uploadVars
    <3>1. CASE focus = "uploads" BY <2>1, <3>1 DEF ServicesNext
    <3>2. CASE focus # "uploads" BY <2>1, <3>2 DEF OthersRest
    <3> QED BY <3>1, <3>2
  <2>5. [VaultNext]_vaultVars
    <3>1. CASE focus = "vault" BY <2>1, <3>1 DEF ServicesNext
    <3>2. CASE focus # "vault" BY <2>1, <3>2 DEF OthersRest
    <3> QED BY <3>1, <3>2
  <2>6. [UsageNext]_usageVars
    <3>1. CASE focus = "usage" BY <2>1, <3>1 DEF ServicesNext
    <3>2. CASE focus # "usage" BY <2>1, <3>2 DEF OthersRest
    <3> QED BY <3>1, <3>2
  <2>7. [LimitsNext]_limitVars
    <3>1. CASE focus = "limits" BY <2>1, <3>1 DEF ServicesNext
    <3>2. CASE focus # "limits" BY <2>1, <3>2 DEF OthersRest
    <3> QED BY <3>1, <3>2
  <2>8. [NotesNext]_noteVars
    <3>1. CASE focus = "notes" BY <2>1, <3>1 DEF ServicesNext
    <3>2. CASE focus # "notes" BY <2>1, <3>2 DEF OthersRest
    <3> QED BY <3>1, <3>2
  <2>9. [PreferencesNext]_prefVars
    <3>1. CASE focus = "prefs" BY <2>1, <3>1 DEF ServicesNext
    <3>2. CASE focus # "prefs" BY <2>1, <3>2 DEF OthersRest
    <3> QED BY <3>1, <3>2
  <2> QED BY <2>2, <2>3, <2>4, <2>5, <2>6, <2>7, <2>8, <2>9
<1> QED BY <1>1, <1>2

\* The invariants hold together.
LEMMA ServicesAlways == ServicesSpec => []ServicesInv
<1>1. ServicesInit => ServicesInv
  BY QuotaInit, InvInit, UploadInvInit, VaultInvInit, MeterTypesInit, LimitInvInit, NotesTypesInit,
     PrefInvInit DEF ServicesInit, ServicesInv
<1>2. ServicesInv /\ [ServicesNext]_serviceVars => ServicesInv'
  BY ServiceSteps, QuotaNext, InvNext, UploadInvNext, VaultInvNext, MeterTypesNext, LimitInvNext,
     NotesTypesNext, PrefInvNext DEF ServicesInv
<1> QED BY <1>1, <1>2, PTL DEF ServicesSpec

\* Type correctness of the services: counters, rows, files and locks hold only
\* what the code stores in them, whatever the constants.
THEOREM ServicesTypes == ServicesSpec => []ServicesTypeOK
<1>1. ServicesInv => ServicesTypeOK
  BY UploadTypes, VaultTypes, LimitTypesOK
     DEF ServicesInv, ServicesTypeOK, QuotaInv, Inv, MeterTypesOK, NoteTypesOK, PrefInv
<1> QED BY <1>1, ServicesAlways, PTL

\* The limits in force and the model options of a turn come from settings that
\* were in force when, or shortly before, they are used.
THEOREM SettingsHold == ServicesSpec => []SettingsInForce
<1>1. ServicesInv => SettingsInForce
  BY DEF ServicesInv, SettingsInForce, LimitInv, AnswerIsRecent, PrefInv
<1> QED BY <1>1, ServicesAlways, PTL
=============================================================================
