----------------------------- MODULE ChatHistory -----------------------------
(***************************************************************************)
(* The history of the chat (app/db/chat_history.py): conversations, whose  *)
(* identifiers the browser chooses, and their messages, under the accounts *)
(* of Accounts.  chat_messages has no foreign key: a conversation that is  *)
(* deleted leaves its messages, and one saved again under the same         *)
(* identifier finds them.                                                  *)
(***************************************************************************)
EXTENDS Accounts, Naturals

CONSTANTS
    Convs, Messages,    \* identifiers sent by browsers
    MaxLives,           \* bound: times a conversation is deleted
    NoConv, NoMessage, NoOwner

VARIABLES
    conv,       \* chat_conversations
    message,    \* chat_messages, with the user who wrote it and in which life
    life        \* times each conversation was deleted

chatVars == <<conv, message, life>>
vars == <<accountVars, requestVars, chatVars>>

Lives == 0..MaxLives
Conversation == [owner: Users \cup {NoOwner}, trashed: BOOLEAN]
Message == [conv: Convs, by: Users, life: Lives]

ASSUME ChatAssumption ==
    /\ MaxLives \in Nat
    /\ NoUser \notin Users /\ NoOwner \notin Users
    /\ NoConv \notin Conversation /\ NoMessage \notin Message

Stored(c) == conv[c] # NoConv
Owns(u, c) == Stored(c) /\ conv[c].owner = u

\* Conversations saved before there were accounts have no owner.
Init ==
    /\ AccountsInit
    /\ conv \in [Convs -> {NoConv, [owner |-> NoOwner, trashed |-> FALSE]}]
    /\ message = [m \in Messages |-> NoMessage]
    /\ life = [c \in Convs |-> 0]

\* A route of /chat/history up to its first statement.
ChatBegin(r, u, step, params) ==
    /\ Authenticate(r, u, step, params)
    /\ UNCHANGED <<accountVars, chatVars>>

\* Mutation: the conflict clause writes every column that was sent.
SaveOver(r) ==
    LET c == arg[r].conv
    IN  /\ pc[r] = "save"
        /\ conv' = [conv EXCEPT ![c] = [owner |-> caller[r].user, trashed |-> FALSE]]
        /\ Finish(r)
        /\ UNCHANGED <<accountVars, message, life>>

\* INSERT ... ON CONFLICT (id) DO UPDATE of the title, the source, the latency and
\* the group label, for any caller; the row is then read for the answer.
SaveConversation(r) ==
    LET c == arg[r].conv
    IN  /\ pc[r] = "save"
        /\ conv' = IF Stored(c) THEN conv
                   ELSE [conv EXCEPT ![c] =
                            [owner |-> caller[r].user, trashed |-> FALSE]]
        /\ Finish(r)
        /\ UNCHANGED <<accountVars, message, life>>

\* UPDATE ... WHERE id AND user_id of trashed, which stands for favorite too; a
\* payload of no allowed field ends before.  200 or 404 by the row read after it.
PatchConversation(r) ==
    LET c == arg[r].conv
    IN  /\ pc[r] = "patch"
        /\ conv' = IF Owns(caller[r].user, c)
                   THEN [conv EXCEPT ![c].trashed = arg[r].trashed] ELSE conv
        /\ Finish(r)
        /\ UNCHANGED <<accountVars, message, life>>

\* DELETE ... WHERE id AND user_id: the conversation only.
DeleteConversation(r) ==
    LET c == arg[r].conv
    IN  /\ pc[r] = "delete" /\ life[c] < MaxLives
        /\ IF Owns(caller[r].user, c)
           THEN /\ conv' = [conv EXCEPT ![c] = NoConv]
                /\ life' = [life EXCEPT ![c] = @ + 1]
           ELSE UNCHANGED <<conv, life>>
        /\ Finish(r)
        /\ UNCHANGED <<accountVars, message>>

\* Mutation: the check asks for the conversation, whoever owns it.
CheckStored(r) ==
    LET c == arg[r].conv
    IN  /\ pc[r] = "check"
        /\ IF Stored(c)
           THEN /\ pc' = [pc EXCEPT ![r] = "insert"]
                /\ arg' = [arg EXCEPT ![r].life = life[c]]
                /\ UNCHANGED caller
           ELSE Finish(r)
        /\ UNCHANGED <<accountVars, chatVars>>

\* save_message, its SELECT of the conversation: 404 when not the caller's.
CheckOwner(r) ==
    LET c == arg[r].conv
    IN  /\ pc[r] = "check"
        /\ IF Owns(caller[r].user, c)
           THEN /\ pc' = [pc EXCEPT ![r] = "insert"]
                /\ arg' = [arg EXCEPT ![r].life = life[c]]
                /\ UNCHANGED caller
           ELSE Finish(r)
        /\ UNCHANGED <<accountVars, chatVars>>

\* save_message, its INSERT ... ON CONFLICT (id) DO NOTHING.
InsertMessage(r) ==
    LET m == arg[r].message
    IN  /\ pc[r] = "insert"
        /\ message' = IF message[m] # NoMessage THEN message
                      ELSE [message EXCEPT ![m] = [conv |-> arg[r].conv,
                                 by |-> caller[r].user, life |-> arg[r].life]]
        /\ Finish(r)
        /\ UNCHANGED <<accountVars, conv, life>>

\* A statement raises: 500, and the session closes without a commit.
RequestFails(r) ==
    /\ pc[r] # "idle"
    /\ Finish(r)
    /\ UNCHANGED <<accountVars, chatVars>>

\* assign_orphan_conversations.py
AssignOrphans(u) ==
    /\ Exists(u)
    /\ conv' = [c \in Convs |-> IF Owns(NoOwner, c) THEN [conv[c] EXCEPT !.owner = u]
                                                    ELSE conv[c]]
    /\ UNCHANGED <<accountVars, requestVars, message, life>>

ChatRequests(r, u) ==
    \E c \in Convs :
        \/ \E step \in {"save", "delete"} : ChatBegin(r, u, step, [conv |-> c])
        \/ \E flag \in BOOLEAN : ChatBegin(r, u, "patch", [conv |-> c, trashed |-> flag])
        \/ \E m \in Messages :
              ChatBegin(r, u, "check", [conv |-> c, message |-> m, life |-> 0])

Next ==
    \/ AccountsNext /\ UNCHANGED chatVars
    \/ \E u \in Users : AssignOrphans(u)
    \/ \E r \in Requests :
          \/ \E u \in access : ChatRequests(r, u)
          \/ SaveConversation(r)
          \/ PatchConversation(r)
          \/ DeleteConversation(r)
          \/ CheckOwner(r)
          \/ InsertMessage(r)
          \/ RequestFails(r)

Spec == Init /\ [][Next]_vars

-----------------------------------------------------------------------------
(* Properties *)

\* What get_messages returns: the join of the messages and the conversation.
Thread(u, c) == {m \in Messages : /\ Owns(u, c)
                                  /\ message[m] # NoMessage
                                  /\ message[m].conv = c}

\* The parameters that a request carries at each of its steps.
Arguments ==
    [idle |-> {"none"},
     update_user |-> UserUpdate,
     save |-> [conv: Convs],
     delete |-> [conv: Convs],
     patch |-> [conv: Convs, trashed: BOOLEAN],
     check |-> [conv: Convs, message: Messages, life: Lives],
     insert |-> [conv: Convs, message: Messages, life: Lives]]

Steps == DOMAIN Arguments

TypeOK ==
    /\ AccountsTypeOK
    /\ pc \in [Requests -> Steps]
    /\ \A r \in Requests : arg[r] \in Arguments[pc[r]]
    /\ conv \in [Convs -> Conversation \cup {NoConv}]
    /\ message \in [Messages -> Message \cup {NoMessage}]
    /\ life \in [Convs -> Lives]

\* save_message checks the conversation in one statement and inserts in another.
\* A message it accepted for the life a conversation still has was written by the
\* user who owns it, through every overlap of saves, deletes and assignments; so
\* get_messages shows users what they wrote in it.
ThreadIsTheOwners ==
    \A u \in Users, c \in Convs : \A m \in Thread(u, c) :
        message[m].life = life[c] => message[m].by = u

\* chat_history.py:45-47, 113-114, 151: a conversation that has an owner keeps it,
\* goes in or out of the trash and disappears by a request of the owner only, and
\* saving it again, however late, changes none of that.
OwnerDecides ==
    [][\A c \in Convs :
         Stored(c) /\ conv[c].owner # NoOwner /\ conv'[c] # conv[c] =>
            \E r \in Requests :
                /\ caller[r].user = conv[c].owner /\ pc'[r] = "idle"
                /\ \/ /\ pc[r] = "patch" /\ Stored(c)'
                      /\ conv'[c].owner = conv[c].owner
                   \/ pc[r] = "delete" /\ ~Stored(c)']_conv
=============================================================================
