----------------------------- MODULE TurnTable -----------------------------
(***************************************************************************)
(* What the `turns` table promises to everybody who reads it, whatever the *)
(* number of gunicorn handlers, TaskIQ workers and recovery loops that     *)
(* write it: a row is created STARTING only in a chat with no active row,  *)
(* it moves STARTING -> RUNNING -> terminal, and a terminal row is final.  *)
(* This is the abstract specification that TurnRuntime implements.         *)
(***************************************************************************)

CONSTANTS
    Turns,      \* row ids of the table
    Chats,      \* chats a row can belong to
    ChatOf      \* [Turns -> Chats], the chat_id column

VARIABLE status     \* [Turns -> Status], the status column

Active == {"starting", "running"}
Terminal == {"completed", "failed", "cancelled"}
Status == {"absent"} \cup Active \cup Terminal

Init == status = [t \in Turns |-> "absent"]

\* INSERT of a STARTING row, allowed by the partial unique index
Create(t) ==
    /\ status[t] = "absent"
    /\ \A u \in Turns : ChatOf[u] = ChatOf[t] => status[u] \notin Active
    /\ status' = [status EXCEPT ![t] = "starting"]

\* compare-and-set STARTING -> RUNNING
MarkRunning(t) ==
    /\ status[t] = "starting"
    /\ status' = [status EXCEPT ![t] = "running"]

\* one transaction finalises some of the active rows
Settle ==
    /\ status' \in [Turns -> Status]
    /\ \A t \in Turns :
          \/ status'[t] = status[t]
          \/ status[t] \in Active /\ status'[t] \in Terminal

Next == \/ \E t \in Turns : Create(t) \/ MarkRunning(t)
        \/ Settle

Spec == Init /\ [][Next]_status
=============================================================================
