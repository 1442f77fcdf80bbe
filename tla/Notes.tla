--------------------------------- MODULE Notes ---------------------------------
(***************************************************************************)
(* services/notes, rpc/notes.py and the note tools of mcp/tools/notes.py   *)
(* with the identity they run under (services/mcp_authz, mcp/authz.py).    *)
(* Every operation starts with default_notebook, which creates the owner's *)
(* notebook when it finds none; the web page and Codex's tool calls do so  *)
(* at the same time, and only the writing operations commit.               *)
(***************************************************************************)
EXTENDS Naturals, FiniteSets

CONSTANTS
    Owners,         \* user ids
    Ops,            \* operations in progress
    MaxBooks,       \* bound: notebook ids handed out
    MaxNotes,       \* bound: note ids handed out
    MaxNoteFaults   \* bound: operations cut off

ASSUME NotesAssumption ==
    Owners # {} /\ MaxBooks \in Nat /\ MaxNotes \in Nat /\ MaxNoteFaults \in Nat

Books == 1..MaxBooks

VARIABLES
    notebooks,  \* committed notebooks [id, owner]
    notes,      \* committed notes [id, owner, book]
    lastBook, lastNote,
    op,         \* an operation and its transaction
    noteFaults

noteVars == <<notebooks, notes, lastBook, lastNote, op, noteFaults>>

\* book: the notebook found; made: the notebook this transaction inserted;
\* note: the note it writes
NoOp == [kind |-> "none", step |-> "idle", owner |-> CHOOSE u \in Owners : TRUE,
         book |-> 0, made |-> 0, note |-> 0]
OpSteps == {"idle", "authz", "look", "insert", "again", "act", "commit"}

NotesTypeOK ==
    /\ notebooks \subseteq [id : 1..lastBook, owner : Owners]
    /\ notes \subseteq [id : 1..lastNote, owner : Owners, book : 1..lastBook]
    /\ lastBook \in 0..MaxBooks /\ lastNote \in 0..MaxNotes
    /\ op \in [Ops -> [kind : {"none", "create", "edit", "delete", "list"}, step : OpSteps,
                       owner : Owners, book : 0..lastBook, made : 0..lastBook, note : 0..lastNote]]
    /\ \A o \in Ops : op[o].step \in {"act", "commit"} => op[o].book # 0
    /\ noteFaults \in 0..MaxNoteFaults

NotesInit ==
    /\ notebooks = {} /\ notes = {}
    /\ lastBook = 0 /\ lastNote = 0
    /\ op = [o \in Ops |-> NoOp]
    /\ noteFaults = 0

tables == <<notebooks, notes, lastBook, lastNote>>
Move(o, r) == op' = [op EXCEPT ![o] = r]
Leave(o) == Move(o, NoOp)

-----------------------------------------------------------------------------

\* SaveNote, GetNote, ListNotes, SearchNotes and DeleteNote of the page, or a
\* note_save, note_search, note_list of Codex, which must resolve its token first
BeginOp(o) ==
    /\ op[o].step = "idle"
    /\ \E u \in Owners, kind \in {"create", "edit", "delete", "list"}, via \in {"web", "mcp"} :
          /\ via = "mcp" => kind # "delete"
          /\ Move(o, [NoOp EXCEPT !.kind = kind, !.owner = u,
                                  !.step = IF via = "mcp" THEN "authz" ELSE "look"])
    /\ UNCHANGED <<tables, noteFaults>>

\* require_identity: the token of the thread names the user, whose row is read
\* on every call (no operation of the program removes a user); list_errors and
\* get_error go no further unless that row is an administrator's
Authorize(o) ==
    /\ op[o].step = "authz"
    /\ Move(o, [op[o] EXCEPT !.step = "look"])
    /\ UNCHANGED <<tables, noteFaults>>

\* what a SELECT of the operation's transaction sees
Visible(o) == {b \in notebooks : b.owner = op[o].owner}
                 \cup {b \in [id : Books, owner : {op[o].owner}] : b.id = op[o].made}

\* default_notebook: the first SELECT, and the one after the INSERT, which
\* must find exactly one row
FindNotebook(o) ==
    /\ op[o].step \in {"look", "again"}
    /\ IF Visible(o) = {}
         THEN op[o].step = "look" /\ Move(o, [op[o] EXCEPT !.step = "insert"])
         ELSE IF Cardinality(Visible(o)) > 1
                THEN Leave(o)
                ELSE \E b \in Visible(o) : Move(o, [op[o] EXCEPT !.book = b.id, !.step = "act"])
    /\ UNCHANGED <<tables, noteFaults>>

\* mutant: an INSERT without uq_notebooks_user_kind
InsertNotebook_plain(o) ==
    /\ op[o].step = "insert" /\ lastBook < MaxBooks
    /\ lastBook' = lastBook + 1
    /\ Move(o, [op[o] EXCEPT !.made = lastBook + 1, !.step = "again"])
    /\ UNCHANGED <<notebooks, notes, lastNote, noteFaults>>

\* INSERT ... ON CONFLICT DO NOTHING: it waits for another transaction's
\* uncommitted row of the same owner, and does nothing when there is a row
InsertNotebook(o) ==
    /\ op[o].step = "insert"
    /\ \A p \in Ops \ {o} : op[p].made # 0 => op[p].owner # op[o].owner
    /\ \/ /\ Visible(o) # {}
          /\ Move(o, [op[o] EXCEPT !.step = "again"]) /\ UNCHANGED lastBook
       \/ /\ Visible(o) = {} /\ lastBook < MaxBooks
          /\ lastBook' = lastBook + 1
          /\ Move(o, [op[o] EXCEPT !.made = lastBook + 1, !.step = "again"])
    /\ UNCHANGED <<notebooks, notes, lastNote, noteFaults>>

\* the note of the owner and the notebook just found; list, get and search
\* end here and commit nothing, an unknown id is a LookupError (NOT_FOUND)
Act(o) ==
    /\ op[o].step = "act"
    /\ LET mine == {n \in notes : n.owner = op[o].owner /\ n.book = op[o].book}
       IN \/ /\ op[o].kind = "create" /\ lastNote < MaxNotes /\ lastNote' = lastNote + 1
             /\ Move(o, [op[o] EXCEPT !.note = lastNote + 1, !.step = "commit"])
          \/ /\ op[o].kind \in {"edit", "delete"} /\ UNCHANGED lastNote
             /\ \/ mine = {} /\ Leave(o)
                \/ \E n \in mine : Move(o, [op[o] EXCEPT !.note = n.id, !.step = "commit"])
          \/ op[o].kind = "list" /\ Leave(o) /\ UNCHANGED lastNote
    /\ UNCHANGED <<notebooks, notes, lastBook, noteFaults>>

\* commit: the notebook made here and the note; an UPDATE of a row that is
\* gone fails it (StaleDataError), a DELETE of one only warns
CommitOp(o) ==
    /\ op[o].step = "commit"
    /\ LET r == op[o]
           target == {n \in notes : n.id = r.note}
           ok == r.kind \in {"create", "delete"} \/ target # {}
       IN /\ notebooks' = notebooks \cup {b \in [id : Books, owner : {r.owner}] :
                                             ok /\ b.id = r.made}
          /\ notes' = IF ~ok THEN notes
                      ELSE IF r.kind = "create"
                             THEN notes \cup {[id |-> r.note, owner |-> r.owner, book |-> r.book]}
                             ELSE IF r.kind = "delete" THEN notes \ target ELSE notes
    /\ Leave(o)
    /\ UNCHANGED <<lastBook, lastNote, noteFaults>>

\* the client hangs up or the database fails: the transaction is rolled back
AbandonOp(o) ==
    /\ op[o].step # "idle" /\ noteFaults < MaxNoteFaults
    /\ noteFaults' = noteFaults + 1
    /\ Leave(o)
    /\ UNCHANGED tables

NotesNext ==
    \/ \E o \in Ops : \/ BeginOp(o) \/ Authorize(o) \/ FindNotebook(o) \/ InsertNotebook(o)
                      \/ Act(o) \/ CommitOp(o) \/ AbandonOp(o)

NotesSpec == NotesInit /\ [][NotesNext]_noteVars

-----------------------------------------------------------------------------

\* A saved note stays within reach: it is in the one notebook that
\* default_notebook finds for its owner, however the first operations of the
\* page and of Codex overlapped and whichever of them was rolled back.
NotesStayReachable ==
    \A n \in notes : {b.id : b \in {c \in notebooks : c.owner = n.owner}} = {n.book}

=============================================================================
