-------------------------- MODULE ChatHistoryProofs --------------------------
(***************************************************************************)
(* Proofs about Accounts and ChatHistory, for any users, requests,         *)
(* conversations and messages.                                             *)
(***************************************************************************)
EXTENDS ChatHistory, TLAPS

LEMMA ArgumentSets ==
    /\ Arguments["idle"] = {"none"}
    /\ Arguments["update_user"] = UserUpdate
    /\ Arguments["save"] = [conv: Convs]
    /\ Arguments["delete"] = [conv: Convs]
    /\ Arguments["patch"] = [conv: Convs, trashed: BOOLEAN]
    /\ Arguments["check"] = [conv: Convs, message: Messages, life: Lives]
    /\ Arguments["insert"] = [conv: Convs, message: Messages, life: Lives]
    /\ Steps = {"idle", "update_user", "save", "delete", "patch", "check", "insert"}
BY DEF Arguments, Steps

-----------------------------------------------------------------------------
(* Types *)

RequestsTyped ==
    /\ caller \in [Requests -> [user: Users \cup {NoUser}, role: Roles \cup {NoRole}]]
    /\ pc \in [Requests -> Steps]
    /\ DOMAIN arg = Requests
    /\ \A r \in Requests : arg[r] \in Arguments[pc[r]]
    /\ \A r \in Requests : pc[r] # "idle" => caller[r].user \in Users

AccountsTyped ==
    /\ role \in [Users -> Roles \cup {NoRole}]
    /\ active \in [Users -> BOOLEAN]
    /\ \A u \in Users : active[u] => Exists(u)
    /\ access \subseteq Users
    /\ refresh \subseteq Users

ChatTyped ==
    /\ conv \in [Convs -> Conversation \cup {NoConv}]
    /\ message \in [Messages -> Message \cup {NoMessage}]
    /\ life \in [Convs -> Lives]

\* TypeOK says nothing of the domain of arg, which every action leaves alone, and
\* nothing of the caller, who is a user from get_current_user to the answer.
Typed == AccountsTyped /\ RequestsTyped /\ ChatTyped

LEMMA TypedImplies == Typed => TypeOK
BY DEF Typed, AccountsTyped, RequestsTyped, ChatTyped, TypeOK, AccountsTypeOK

LEMMA AuthenticateTyped ==
    ASSUME NEW r \in Requests, NEW u \in Users, NEW step \in Steps,
           NEW params \in Arguments[step], AccountsTyped, RequestsTyped,
           Authenticate(r, u, step, params)
    PROVE  RequestsTyped'
<1>1. role[u] \in Roles \cup {NoRole}
  BY DEF AccountsTyped
<1>2. caller' \in [Requests -> [user: Users \cup {NoUser}, role: Roles \cup {NoRole}]]
  BY <1>1 DEF Authenticate, RequestsTyped
<1>3. pc' \in [Requests -> Steps]
  BY DEF Authenticate, RequestsTyped
<1>4. DOMAIN arg' = Requests
  BY DEF Authenticate, RequestsTyped
<1>5. ASSUME NEW s \in Requests PROVE arg'[s] \in Arguments[pc'[s]]
  BY DEF Authenticate, RequestsTyped
<1>6. ASSUME NEW s \in Requests, pc'[s] # "idle" PROVE caller'[s].user \in Users
  BY <1>6 DEF Authenticate, RequestsTyped
<1> QED BY <1>2, <1>3, <1>4, <1>5, <1>6 DEF RequestsTyped

LEMMA FinishTyped ==
    ASSUME NEW r \in Requests, RequestsTyped, Finish(r)
    PROVE  RequestsTyped'
<1>1. caller' \in [Requests -> [user: Users \cup {NoUser}, role: Roles \cup {NoRole}]]
  BY DEF Finish, RequestsTyped, NoCaller
<1>2. pc' \in [Requests -> Steps]
  BY ArgumentSets DEF Finish, RequestsTyped
<1>3. DOMAIN arg' = Requests
  BY DEF Finish, RequestsTyped
<1>4. ASSUME NEW s \in Requests PROVE arg'[s] \in Arguments[pc'[s]]
  BY ArgumentSets DEF Finish, RequestsTyped
<1>5. ASSUME NEW s \in Requests, pc'[s] # "idle" PROVE caller'[s].user \in Users
  BY <1>5 DEF Finish, RequestsTyped
<1> QED BY <1>1, <1>2, <1>3, <1>4, <1>5 DEF RequestsTyped

LEMMA SameAccounts == AccountsTyped /\ UNCHANGED accountVars => AccountsTyped'
BY DEF AccountsTyped, accountVars, Exists

LEMMA SameRequests == RequestsTyped /\ UNCHANGED requestVars => RequestsTyped'
BY DEF RequestsTyped, requestVars

LEMMA SameChats == ChatTyped /\ UNCHANGED chatVars => ChatTyped'
BY DEF ChatTyped, chatVars

LEMMA InitTyped == Init => Typed
<1> SUFFICES ASSUME Init PROVE Typed OBVIOUS
<1>1. AccountsTyped
  BY DEF Init, AccountsInit, AccountsTyped, Exists
<1>2. RequestsTyped
  BY ArgumentSets DEF Init, AccountsInit, RequestsTyped, NoCaller
<1>3. ChatTyped
  <2>1. conv \in [Convs -> Conversation \cup {NoConv}]
    <3>1. [owner |-> NoOwner, trashed |-> FALSE] \in Conversation
      BY DEF Conversation
    <3> QED BY <3>1 DEF Init
  <2>2. message \in [Messages -> Message \cup {NoMessage}] /\ life \in [Convs -> Lives]
    BY ChatAssumption DEF Init, Lives
  <2> QED BY <2>1, <2>2 DEF ChatTyped
<1> QED BY <1>1, <1>2, <1>3 DEF Typed

LEMMA CreateAccountTyped ==
    ASSUME Typed, NEW u \in Users, NEW newRole \in Roles, CreateAccount(u, newRole)
    PROVE  AccountsTyped' /\ RequestsTyped'
<1>1. newRole # NoRole
  BY AdminIsARole
<1>2. AccountsTyped'
  BY <1>1 DEF Typed, AccountsTyped, CreateAccount, Exists
<1> QED BY <1>2, SameRequests DEF Typed, CreateAccount

LEMMA SessionTyped ==
    ASSUME Typed, NEW u \in Users,
           Login(u) \/ Refresh(u) \/ Logout(u) \/ ExpireAccess(u)
    PROVE  AccountsTyped' /\ RequestsTyped'
<1>1. UNCHANGED <<role, active>> /\ access' \subseteq Users /\ refresh' \subseteq Users
  BY DEF Typed, AccountsTyped, Login, Refresh, Logout, ExpireAccess
<1>2. UNCHANGED requestVars
  BY DEF Login, Refresh, Logout, ExpireAccess
<1> QED BY <1>1, <1>2, SameRequests DEF Typed, AccountsTyped, Exists

LEMMA UpdateUserTyped ==
    ASSUME Typed, NEW r \in Requests,
           \/ \E u \in access, update \in UserUpdate : UpdateUserBegin(r, u, update)
           \/ UpdateUserWrite(r)
    PROVE  AccountsTyped' /\ RequestsTyped'
<1>1. CASE \E u \in access, update \in UserUpdate : UpdateUserBegin(r, u, update)
  <2>1. PICK u \in access, update \in UserUpdate : UpdateUserBegin(r, u, update)
    BY <1>1
  <2>2. u \in Users /\ "update_user" \in Steps /\ update \in Arguments["update_user"]
    BY <2>1, ArgumentSets DEF Typed, AccountsTyped
  <2>3. Authenticate(r, u, "update_user", update) /\ UNCHANGED accountVars
    BY <2>1 DEF UpdateUserBegin
  <2> QED BY <2>2, <2>3, AuthenticateTyped, SameAccounts DEF Typed
<1>2. CASE UpdateUserWrite(r)
  <2>1. RequestsTyped'
    BY <1>2, FinishTyped DEF Typed, UpdateUserWrite
  <2>2. arg[r] \in UserUpdate
    BY <1>2, ArgumentSets DEF Typed, RequestsTyped, UpdateUserWrite
  <2>3. arg[r].target \in Users /\ arg[r].role \in Roles \cup {NoRole}
    BY <2>2 DEF UserUpdate
  <2>4. role' \in [Users -> Roles \cup {NoRole}] /\ active' \in [Users -> BOOLEAN]
    BY <1>2, <2>3 DEF Typed, AccountsTyped, UpdateUserWrite
  <2>5. ASSUME NEW u \in Users, active'[u] PROVE Exists(u)'
    BY <1>2, <2>3, <2>5 DEF Typed, AccountsTyped, UpdateUserWrite, Exists
  <2>6. access' = access /\ refresh' = refresh
    BY <1>2 DEF UpdateUserWrite
  <2> QED BY <2>1, <2>4, <2>5, <2>6 DEF Typed, AccountsTyped
<1> QED BY <1>1, <1>2

LEMMA AccountsStepTyped ==
    ASSUME Typed, AccountsNext
    PROVE  AccountsTyped' /\ RequestsTyped'
<1>1. CASE \E u \in Users, newRole \in Roles : CreateAccount(u, newRole)
  BY <1>1, CreateAccountTyped
<1>2. CASE \E u \in Users : Login(u) \/ Refresh(u) \/ Logout(u) \/ ExpireAccess(u)
  BY <1>2, SessionTyped
<1>3. CASE \E r \in Requests :
              \/ \E u \in access, update \in UserUpdate : UpdateUserBegin(r, u, update)
              \/ UpdateUserWrite(r)
  BY <1>3, UpdateUserTyped
<1> QED BY <1>1, <1>2, <1>3 DEF AccountsNext

\* The parameters of a request of the chat, by the step that comes next.
LEMMA Carried ==
    ASSUME Typed, NEW r \in Requests
    PROVE  /\ pc[r] \in {"save", "delete", "patch", "check", "insert"} =>
                 /\ arg[r].conv \in Convs
                 /\ caller[r].user \in Users
           /\ pc[r] = "patch" => arg[r].trashed \in BOOLEAN
           /\ pc[r] \in {"check", "insert"} =>
                 /\ arg[r] \in [conv: Convs, message: Messages, life: Lives]
                 /\ arg[r].message \in Messages
                 /\ arg[r].life \in Lives
<1>1. arg[r] \in Arguments[pc[r]] /\ (pc[r] # "idle" => caller[r].user \in Users)
  BY DEF Typed, RequestsTyped
<1>2. CASE pc[r] \in {"save", "delete"}
  <2>1. arg[r] \in [conv: Convs]
    BY <1>1, <1>2, ArgumentSets
  <2> QED BY <2>1, <1>1, <1>2
<1>3. CASE pc[r] = "patch"
  <2>1. arg[r] \in [conv: Convs, trashed: BOOLEAN]
    BY <1>1, <1>3, ArgumentSets
  <2> QED BY <2>1, <1>1, <1>3
<1>4. CASE pc[r] \in {"check", "insert"}
  <2>1. arg[r] \in [conv: Convs, message: Messages, life: Lives]
    BY <1>1, <1>4, ArgumentSets
  <2> QED BY <2>1, <1>1, <1>4
<1> QED BY <1>2, <1>3, <1>4

LEMMA ChatRequestsTyped ==
    ASSUME Typed, NEW r \in Requests, NEW u \in access, ChatRequests(r, u)
    PROVE  RequestsTyped' /\ UNCHANGED <<accountVars, chatVars>>
<1>1. u \in Users
  BY DEF Typed, AccountsTyped
<1>2. PICK step \in Steps : \E params \in Arguments[step] : ChatBegin(r, u, step, params)
  <2>1. 0 \in Lives
    BY ChatAssumption DEF Lives
  <2>2. PICK c \in Convs :
          \/ \E step \in {"save", "delete"} : ChatBegin(r, u, step, [conv |-> c])
          \/ \E flag \in BOOLEAN :
                ChatBegin(r, u, "patch", [conv |-> c, trashed |-> flag])
          \/ \E m \in Messages :
                ChatBegin(r, u, "check", [conv |-> c, message |-> m, life |-> 0])
    BY DEF ChatRequests
  <2>3. CASE \E step \in {"save", "delete"} : ChatBegin(r, u, step, [conv |-> c])
    BY <2>3, ArgumentSets
  <2>4. CASE \E flag \in BOOLEAN :
                ChatBegin(r, u, "patch", [conv |-> c, trashed |-> flag])
    BY <2>4, ArgumentSets
  <2>5. CASE \E m \in Messages :
                ChatBegin(r, u, "check", [conv |-> c, message |-> m, life |-> 0])
    BY <2>5, <2>1, ArgumentSets
  <2> QED BY <2>2, <2>3, <2>4, <2>5
<1>3. PICK params \in Arguments[step] : ChatBegin(r, u, step, params)
  BY <1>2
<1> QED BY <1>1, <1>3, AuthenticateTyped DEF Typed, ChatBegin

LEMMA SaveTyped ==
    ASSUME Typed, NEW r \in Requests, SaveConversation(r)
    PROVE  RequestsTyped' /\ ChatTyped'
<1> DEFINE saved == [owner |-> caller[r].user, trashed |-> FALSE]
<1>1. RequestsTyped'
  BY FinishTyped DEF Typed, SaveConversation
<1>2. saved \in Conversation
  BY Carried DEF SaveConversation, Conversation
<1>3. conv' = conv \/ conv' = [conv EXCEPT ![arg[r].conv] = saved]
  BY DEF SaveConversation
<1>4. conv' \in [Convs -> Conversation \cup {NoConv}]
  <2> HIDE DEF saved
  <2> QED BY <1>2, <1>3 DEF Typed, ChatTyped
<1> QED BY <1>1, <1>4 DEF Typed, ChatTyped, SaveConversation

LEMMA PatchTyped ==
    ASSUME Typed, NEW r \in Requests, PatchConversation(r)
    PROVE  RequestsTyped' /\ ChatTyped'
<1> DEFINE c == arg[r].conv
           patched == [conv[c] EXCEPT !.trashed = arg[r].trashed]
<1>1. RequestsTyped'
  BY FinishTyped DEF Typed, PatchConversation
<1>2. c \in Convs /\ arg[r].trashed \in BOOLEAN
  BY Carried DEF PatchConversation
<1>3. conv' = conv \/ (Stored(c) /\ conv' = [conv EXCEPT ![c] = patched])
  BY DEF PatchConversation, Owns
<1>4. Stored(c) => patched \in Conversation
  <2> SUFFICES ASSUME Stored(c) PROVE patched \in Conversation OBVIOUS
  <2>1. conv[c] \in Conversation
    BY <1>2 DEF Typed, ChatTyped, Stored
  <2> QED BY <2>1, <1>2 DEF Conversation
<1>5. conv' \in [Convs -> Conversation \cup {NoConv}]
  <2> HIDE DEF patched, c
  <2> QED BY <1>3, <1>4 DEF Typed, ChatTyped
<1> QED BY <1>1, <1>5 DEF Typed, ChatTyped, PatchConversation

LEMMA DeleteTyped ==
    ASSUME Typed, NEW r \in Requests, DeleteConversation(r)
    PROVE  RequestsTyped' /\ ChatTyped'
<1>1. RequestsTyped'
  BY FinishTyped DEF Typed, DeleteConversation
<1>2. arg[r].conv \in Convs
  BY Carried DEF DeleteConversation
<1>3. life[arg[r].conv] + 1 \in Lives
  BY <1>2, ChatAssumption DEF Typed, ChatTyped, DeleteConversation, Lives
<1>4. life' \in [Convs -> Lives]
  BY <1>3 DEF Typed, ChatTyped, DeleteConversation
<1>5. conv' \in [Convs -> Conversation \cup {NoConv}]
  BY DEF Typed, ChatTyped, DeleteConversation
<1> QED BY <1>1, <1>4, <1>5 DEF Typed, ChatTyped, DeleteConversation

LEMMA CheckTyped ==
    ASSUME Typed, NEW r \in Requests, CheckOwner(r)
    PROVE  RequestsTyped' /\ ChatTyped'
<1>1. ChatTyped'
  BY SameChats DEF Typed, CheckOwner
<1>2. CASE Finish(r)
  BY <1>1, <1>2, FinishTyped DEF Typed
<1>3. CASE ~Finish(r)
  <2> DEFINE next == [arg[r] EXCEPT !.life = life[arg[r].conv]]
  <2>1. /\ pc' = [pc EXCEPT ![r] = "insert"]
        /\ arg' = [arg EXCEPT ![r] = next]
        /\ caller' = caller
    BY <1>3 DEF CheckOwner
  <2>2. /\ arg[r] \in [conv: Convs, message: Messages, life: Lives]
        /\ caller[r].user \in Users /\ arg[r].conv \in Convs
    BY Carried DEF CheckOwner
  <2>3. next \in Arguments["insert"]
    BY <2>2, ArgumentSets DEF Typed, ChatTyped
  <2> HIDE DEF next
  <2>4. pc' \in [Requests -> Steps]
    BY <2>1, ArgumentSets DEF Typed, RequestsTyped
  <2>5. ASSUME NEW s \in Requests
        PROVE  /\ arg'[s] \in Arguments[pc'[s]]
               /\ pc'[s] # "idle" => caller'[s].user \in Users
    BY <2>1, <2>2, <2>3 DEF Typed, RequestsTyped
  <2>6. DOMAIN arg' = Requests
    BY <2>1 DEF Typed, RequestsTyped
  <2> QED BY <1>1, <2>1, <2>4, <2>5, <2>6 DEF Typed, RequestsTyped
<1> QED BY <1>2, <1>3

LEMMA InsertTyped ==
    ASSUME Typed, NEW r \in Requests, InsertMessage(r)
    PROVE  RequestsTyped' /\ ChatTyped'
<1> DEFINE row == [conv |-> arg[r].conv, by |-> caller[r].user, life |-> arg[r].life]
<1>1. RequestsTyped'
  BY FinishTyped DEF Typed, InsertMessage
<1>2. row \in Message
  BY Carried DEF InsertMessage, Message
<1>3. message' = message \/ message' = [message EXCEPT ![arg[r].message] = row]
  BY DEF InsertMessage
<1>4. message' \in [Messages -> Message \cup {NoMessage}]
  <2> HIDE DEF row
  <2> QED BY <1>2, <1>3 DEF Typed, ChatTyped
<1> QED BY <1>1, <1>4 DEF Typed, ChatTyped, InsertMessage

LEMMA AssignTyped ==
    ASSUME Typed, NEW u \in Users, AssignOrphans(u)
    PROVE  RequestsTyped' /\ ChatTyped'
<1>1. ASSUME NEW c \in Convs, Owns(NoOwner, c)
      PROVE  [conv[c] EXCEPT !.owner = u] \in Conversation
  <2>1. conv[c] \in Conversation
    BY <1>1 DEF Typed, ChatTyped, Owns, Stored
  <2> QED BY <2>1 DEF Conversation
<1>2. conv' \in [Convs -> Conversation \cup {NoConv}]
  BY <1>1 DEF Typed, ChatTyped, AssignOrphans
<1> QED BY <1>2, SameRequests DEF Typed, ChatTyped, AssignOrphans

LEMMA NextTyped ==
    ASSUME Typed, [Next]_vars
    PROVE  Typed'
<1>1. CASE UNCHANGED vars
  BY <1>1, SameAccounts, SameRequests, SameChats DEF Typed, vars
<1>2. CASE AccountsNext /\ UNCHANGED chatVars
  BY <1>2, AccountsStepTyped, SameChats DEF Typed
<1>3. CASE \E u \in Users : AssignOrphans(u)
  BY <1>3, AssignTyped, SameAccounts DEF Typed, AssignOrphans
<1>4. CASE \E r \in Requests, u \in access : ChatRequests(r, u)
  BY <1>4, ChatRequestsTyped, SameAccounts, SameChats DEF Typed
<1>5. CASE \E r \in Requests : SaveConversation(r)
  BY <1>5, SaveTyped, SameAccounts DEF Typed, SaveConversation
<1>6. CASE \E r \in Requests : PatchConversation(r)
  BY <1>6, PatchTyped, SameAccounts DEF Typed, PatchConversation
<1>7. CASE \E r \in Requests : DeleteConversation(r)
  BY <1>7, DeleteTyped, SameAccounts DEF Typed, DeleteConversation
<1>8. CASE \E r \in Requests : CheckOwner(r)
  BY <1>8, CheckTyped, SameAccounts DEF Typed, CheckOwner
<1>9. CASE \E r \in Requests : InsertMessage(r)
  BY <1>9, InsertTyped, SameAccounts DEF Typed, InsertMessage
<1>10. CASE \E r \in Requests : RequestFails(r)
  BY <1>10, FinishTyped, SameAccounts, SameChats DEF Typed, RequestFails
<1> QED BY <1>1, <1>2, <1>3, <1>4, <1>5, <1>6, <1>7, <1>8, <1>9, <1>10 DEF Next

LEMMA AlwaysTyped == Spec => []Typed
<1>1. Init => Typed
  BY InitTyped
<1>2. Typed /\ [Next]_vars => Typed'
  BY NextTyped
<1> QED BY <1>1, <1>2, PTL DEF Spec

\* Rows, requests and callers have their types, whatever the overlap of requests;
\* a request carries the parameters of the step it is at (chat_history.py,
\* users/router.py).
THEOREM TypeInvariant == Spec => []TypeOK
<1>1. Typed => TypeOK
  BY TypedImplies
<1> QED BY <1>1, AlwaysTyped, PTL

-----------------------------------------------------------------------------
(* Ownership.  A conversation changes owner only where it has none, and is  *)
(* deleted only by ending one of its lives.                                 *)

Kept(c) ==
    /\ life[c] <= life'[c]
    /\ life'[c] = life[c] =>
          \A u \in Users : Owns(u, c) => Stored(c)' /\ conv'[c].owner = u

LEMMA Steady ==
    ASSUME Typed, [Next]_vars, NEW c \in Convs
    PROVE  Kept(c)
<1>1. life[c] \in Nat
  BY ChatAssumption DEF Typed, ChatTyped, Lives
<1>2. CASE conv' = conv /\ life' = life
  BY <1>1, <1>2 DEF Kept, Owns, Stored
<1>3. ASSUME NEW u \in Users, AssignOrphans(u) PROVE Kept(c)
  <2>1. CASE Owns(NoOwner, c)
    BY <1>1, <1>3, <2>1, ChatAssumption DEF AssignOrphans, Kept, Owns
  <2>2. CASE ~Owns(NoOwner, c)
    BY <1>1, <1>3, <2>2 DEF AssignOrphans, Kept, Owns, Stored
  <2> QED BY <2>1, <2>2
<1>4. ASSUME NEW r \in Requests, SaveConversation(r) PROVE Kept(c)
  BY <1>1, <1>4 DEF SaveConversation, Kept, Owns, Stored
<1>5. ASSUME NEW r \in Requests, PatchConversation(r) PROVE Kept(c)
  <2>1. CASE Owns(caller[r].user, c) /\ arg[r].conv = c
    <3>1. conv[c] \in Conversation
      BY <2>1 DEF Typed, ChatTyped, Owns, Stored
    <3>2. conv' = [conv EXCEPT ![c] = [conv[c] EXCEPT !.trashed = arg[r].trashed]]
      BY <1>5, <2>1 DEF PatchConversation
    <3>3. arg[r].trashed \in BOOLEAN
      BY <1>5, Carried DEF PatchConversation
    <3>4. conv'[c] = [conv[c] EXCEPT !.trashed = arg[r].trashed]
      BY <3>2 DEF Typed, ChatTyped
    <3>5. conv'[c].owner = conv[c].owner /\ conv'[c] \in Conversation
      BY <3>1, <3>3, <3>4 DEF Conversation
    <3>6. Stored(c)'
      BY <3>5, ChatAssumption DEF Stored
    <3> QED BY <1>1, <1>5, <3>5, <3>6 DEF PatchConversation, Kept, Owns
  <2>2. CASE ~(Owns(caller[r].user, c) /\ arg[r].conv = c)
    <3>1. conv'[c] = conv[c] /\ life' = life
      BY <1>5, <2>2 DEF PatchConversation, Typed, ChatTyped
    <3> QED BY <1>1, <3>1 DEF Kept, Owns, Stored
  <2> QED BY <2>1, <2>2
<1>6. ASSUME NEW r \in Requests, DeleteConversation(r) PROVE Kept(c)
  <2>1. CASE conv' = conv /\ life' = life
    BY <1>2, <2>1
  <2>2. CASE /\ conv' = [conv EXCEPT ![arg[r].conv] = NoConv]
             /\ life' = [life EXCEPT ![arg[r].conv] = @ + 1]
    <3>1. CASE arg[r].conv = c
      BY <1>1, <2>2, <3>1 DEF Kept, Typed, ChatTyped
    <3>2. CASE arg[r].conv # c
      BY <1>1, <2>2, <3>2 DEF Kept, Typed, ChatTyped, Owns, Stored
    <3> QED BY <3>1, <3>2
  <2> QED BY <1>6, <2>1, <2>2 DEF DeleteConversation
<1>7. ASSUME UNCHANGED chatVars PROVE Kept(c)
  BY <1>2, <1>7 DEF chatVars
<1>8. CASE UNCHANGED vars
  BY <1>7, <1>8 DEF vars
<1>9. CASE AccountsNext /\ UNCHANGED chatVars
  BY <1>7, <1>9
<1>10. CASE \E r \in Requests, u \in access : ChatRequests(r, u)
  BY <1>7, <1>10, ChatRequestsTyped
<1>11. CASE \E r \in Requests : CheckOwner(r) \/ RequestFails(r)
  BY <1>7, <1>11 DEF CheckOwner, RequestFails
<1>12. CASE \E r \in Requests : InsertMessage(r)
  BY <1>2, <1>12 DEF InsertMessage
<1> QED BY <1>3, <1>4, <1>5, <1>6, <1>8, <1>9, <1>10, <1>11, <1>12 DEF Next

\* In its life n the conversation was the user's: it still is, or that life is over.
Held(u, c, n) == n <= life[c] /\ (n = life[c] => Owns(u, c))

\* From the check of save_message to its insert.
Checked ==
    \A r \in Requests : pc[r] = "insert" =>
        Held(caller[r].user, arg[r].conv, arg[r].life)

Written ==
    \A m \in Messages : message[m] # NoMessage =>
        Held(message[m].by, message[m].conv, message[m].life)

Owned == Typed /\ Checked /\ Written

\* What held of a conversation in one of its lives holds in that life later on.
LEMMA StillOwned ==
    ASSUME Typed, [Next]_vars, NEW c \in Convs, NEW u \in Users, NEW n \in Lives,
           Held(u, c, n)
    PROVE  Held(u, c, n)'
<1>1. Kept(c) /\ Typed'
  BY Steady, NextTyped
<1>2. n \in Nat /\ life[c] \in Nat /\ life'[c] \in Nat
  BY <1>1, ChatAssumption DEF Typed, ChatTyped, Lives
<1> QED BY <1>1, <1>2 DEF Kept, Held, Owns, Stored

\* A request at its insert was there before the step, with the same parameters, or
\* has just checked.
LEMMA CheckedKept ==
    ASSUME Owned, [Next]_vars
    PROVE  Checked'
<1> USE DEF Owned
<1>1. ASSUME NEW r \in Requests, pc'[r] = "insert", pc[r] = "insert",
             arg'[r] = arg[r], caller'[r] = caller[r]
      PROVE  Held(caller[r].user, arg[r].conv, arg[r].life)'
  <2>1. arg[r].conv \in Convs /\ arg[r].life \in Lives /\ caller[r].user \in Users
    BY <1>1, Carried
  <2>2. Held(caller[r].user, arg[r].conv, arg[r].life)
    BY <1>1 DEF Checked
  <2> DEFINE u == caller[r].user
             c == arg[r].conv
             n == arg[r].life
  <2>3. n <= life'[c] /\ (n = life'[c] => conv'[c] # NoConv /\ conv'[c].owner = u)
    BY <2>1, <2>2, StillOwned DEF Held, Owns, Stored
  <2> QED BY <1>1, <2>3 DEF Held, Owns, Stored
<1>2. ASSUME NEW r \in Requests, pc'[r] = "insert",
             ~(pc[r] = "insert" /\ arg'[r] = arg[r] /\ caller'[r] = caller[r])
      PROVE  /\ CheckOwner(r) /\ ~Finish(r)
  <2>1. ASSUME NEW s \in Requests, Finish(s) PROVE FALSE
    BY <1>2, <2>1 DEF Finish, Typed, RequestsTyped
  <2>2. ASSUME UNCHANGED requestVars PROVE FALSE
    BY <1>2, <2>2 DEF requestVars
  <2>3. ASSUME NEW s \in Requests, NEW u \in access, ChatRequests(s, u) PROVE FALSE
    BY <1>2, <2>3 DEF ChatRequests, ChatBegin, Authenticate, Typed, RequestsTyped
  <2>4. ASSUME NEW s \in Requests, NEW u \in access, NEW update \in UserUpdate,
               UpdateUserBegin(s, u, update)
        PROVE  FALSE
    BY <1>2, <2>4 DEF UpdateUserBegin, Authenticate, Typed, RequestsTyped
  <2>5. CASE UNCHANGED vars
    BY <2>2, <2>5 DEF vars, requestVars
  <2>6. CASE AccountsNext
    <3>1. ASSUME NEW u \in Users,
                 \/ \E newRole \in Roles : CreateAccount(u, newRole)
                 \/ Login(u) \/ Refresh(u) \/ Logout(u) \/ ExpireAccess(u)
          PROVE  FALSE
      BY <2>2, <3>1 DEF CreateAccount, Login, Refresh, Logout, ExpireAccess
    <3>2. ASSUME NEW s \in Requests, UpdateUserWrite(s) PROVE FALSE
      BY <2>1, <3>2 DEF UpdateUserWrite
    <3> QED BY <2>4, <2>6, <3>1, <3>2 DEF AccountsNext
  <2>7. CASE \E u \in Users : AssignOrphans(u)
    BY <2>2, <2>7 DEF AssignOrphans
  <2>8. CASE \E s \in Requests :
                \/ SaveConversation(s) \/ PatchConversation(s) \/ DeleteConversation(s)
                \/ InsertMessage(s) \/ RequestFails(s)
    BY <2>1, <2>8 DEF SaveConversation, PatchConversation, DeleteConversation,
                      InsertMessage, RequestFails
  <2>9. ASSUME NEW s \in Requests, CheckOwner(s) PROVE CheckOwner(r) /\ ~Finish(r)
    <3>1. ~Finish(s)
      BY <2>1
    <3>2. s = r
      BY <1>2, <2>9, <3>1 DEF CheckOwner, Typed, RequestsTyped
    <3> QED BY <2>9, <3>1, <3>2
  <2> QED BY <2>3, <2>5, <2>6, <2>7, <2>8, <2>9 DEF Next
<1>3. ASSUME NEW r \in Requests, CheckOwner(r), ~Finish(r)
      PROVE  Held(caller[r].user, arg[r].conv, arg[r].life)'
  <2>1. /\ Owns(caller[r].user, arg[r].conv)
        /\ arg' = [arg EXCEPT ![r].life = life[arg[r].conv]]
        /\ UNCHANGED <<caller, conv, life>>
    BY <1>3 DEF CheckOwner, chatVars
  <2>2. /\ arg[r] \in [conv: Convs, message: Messages, life: Lives]
        /\ arg[r].conv \in Convs
    BY <1>3, Carried DEF CheckOwner
  <2>3. arg'[r].conv = arg[r].conv /\ arg'[r].life = life[arg[r].conv]
    BY <2>1, <2>2 DEF Typed, RequestsTyped
  <2>4. life[arg[r].conv] \in Nat
    BY <2>2, ChatAssumption DEF Typed, ChatTyped, Lives
  <2> QED BY <2>1, <2>3, <2>4 DEF Held, Owns, Stored
<1> QED BY <1>1, <1>2, <1>3 DEF Checked

LEMMA WrittenKept ==
    ASSUME Owned, [Next]_vars
    PROVE  Written'
<1> USE DEF Owned
<1>1. ASSUME NEW m \in Messages, message'[m] # NoMessage, message'[m] = message[m]
      PROVE  Held(message[m].by, message[m].conv, message[m].life)'
  <2>1. message[m] \in Message
    BY <1>1 DEF Typed, ChatTyped
  <2>2. /\ message[m].conv \in Convs /\ message[m].by \in Users
        /\ message[m].life \in Lives
    BY <2>1 DEF Message
  <2>3. Held(message[m].by, message[m].conv, message[m].life)
    BY <1>1 DEF Written
  <2> DEFINE u == message[m].by
             c == message[m].conv
             n == message[m].life
  <2>4. n <= life'[c] /\ (n = life'[c] => conv'[c] # NoConv /\ conv'[c].owner = u)
    BY <2>2, <2>3, StillOwned DEF Held, Owns, Stored
  <2> QED BY <1>1, <2>4 DEF Held, Owns, Stored
<1>2. ASSUME NEW m \in Messages, message'[m] # message[m]
      PROVE  Held(message[m].by, message[m].conv, message[m].life)'
  <2>1. PICK r \in Requests : InsertMessage(r)
    <3>1. CASE UNCHANGED vars
      BY <1>2, <3>1 DEF vars, chatVars
    <3>2. CASE AccountsNext /\ UNCHANGED chatVars
      BY <1>2, <3>2 DEF chatVars
    <3>3. CASE \E u \in Users : AssignOrphans(u)
      BY <1>2, <3>3 DEF AssignOrphans
    <3>4. CASE \E r \in Requests, u \in access : ChatRequests(r, u)
      BY <1>2, <3>4, ChatRequestsTyped DEF chatVars
    <3>5. CASE \E r \in Requests :
                  \/ SaveConversation(r) \/ PatchConversation(r) \/ DeleteConversation(r)
                  \/ CheckOwner(r) \/ RequestFails(r)
      BY <1>2, <3>5 DEF SaveConversation, PatchConversation, DeleteConversation,
                        CheckOwner, RequestFails, chatVars
    <3> QED BY <3>1, <3>2, <3>3, <3>4, <3>5 DEF Next
  <2>2. /\ message'[m] = [conv |-> arg[r].conv, by |-> caller[r].user,
                          life |-> arg[r].life]
        /\ UNCHANGED <<conv, life>> /\ pc[r] = "insert"
    BY <1>2, <2>1 DEF InsertMessage, Typed, ChatTyped
  <2>3. /\ message'[m].conv = arg[r].conv /\ message'[m].by = caller[r].user
        /\ message'[m].life = arg[r].life
    BY <2>2
  <2> QED BY <2>2, <2>3 DEF Checked, Held, Owns, Stored
<1> QED BY <1>1, <1>2 DEF Written

LEMMA AlwaysOwned == Spec => []Owned
<1>1. Init => Owned
  BY InitTyped DEF Owned, Checked, Written, Init, AccountsInit
<1>2. Owned /\ [Next]_vars => Owned'
  BY NextTyped, CheckedKept, WrittenKept DEF Owned
<1> QED BY <1>1, <1>2, PTL DEF Spec

\* get_messages shows users the messages they wrote in the conversation they own,
\* although save_message checks in one statement and inserts in another, whatever
\* saves, deletions and assignments come in between (chat_history.py:204-243).
THEOREM ThreadsSafe == Spec => []ThreadIsTheOwners
<1>1. Owned => ThreadIsTheOwners
  <2> SUFFICES ASSUME Owned, NEW u \in Users, NEW c \in Convs, NEW m \in Thread(u, c),
                      message[m].life = life[c]
               PROVE  message[m].by = u
    BY DEF ThreadIsTheOwners
  <2> QED BY DEF Owned, Written, Held, Thread, Owns
<1> QED BY <1>1, AlwaysOwned, PTL

-----------------------------------------------------------------------------
(* What becomes of a conversation that has an owner.                        *)

ByOwner(c) ==
    \E r \in Requests :
        /\ caller[r].user = conv[c].owner /\ pc'[r] = "idle"
        /\ \/ pc[r] = "patch" /\ Stored(c)' /\ conv'[c].owner = conv[c].owner
           \/ pc[r] = "delete" /\ ~Stored(c)'

LEMMA OwnerStep ==
    ASSUME Typed, [Next]_vars, NEW c \in Convs,
           Stored(c), conv[c].owner # NoOwner, conv'[c] # conv[c]
    PROVE  ByOwner(c)
<1>1. conv[c] \in Conversation /\ conv[c].owner \in Users
  BY DEF Typed, ChatTyped, Stored, Conversation
<1>2. conv' = conv => FALSE
  OBVIOUS
<1>3. ASSUME NEW r \in Requests, PatchConversation(r) PROVE ByOwner(c)
  <2>1. Owns(caller[r].user, c) /\ arg[r].conv = c
    BY <1>3 DEF PatchConversation, Typed, ChatTyped
  <2>2. pc[r] = "patch" /\ pc'[r] = "idle"
    BY <1>3 DEF PatchConversation, Finish, Typed, RequestsTyped
  <2>3. Kept(c) /\ life' = life /\ life[c] \in Nat
    BY <1>3, Steady, ChatAssumption DEF PatchConversation, Typed, ChatTyped, Lives
  <2>4. Stored(c)' /\ conv'[c].owner = conv[c].owner
    BY <1>1, <2>1, <2>3 DEF Kept, Owns
  <2> QED BY <2>1, <2>2, <2>4 DEF ByOwner, Owns
<1>4. ASSUME NEW r \in Requests, DeleteConversation(r) PROVE ByOwner(c)
  <2>1. Owns(caller[r].user, arg[r].conv) /\ conv' = [conv EXCEPT ![arg[r].conv] = NoConv]
    BY <1>2, <1>4 DEF DeleteConversation
  <2>2. arg[r].conv = c /\ conv'[c] = NoConv
    BY <2>1 DEF Typed, ChatTyped
  <2>3. pc[r] = "delete" /\ pc'[r] = "idle"
    BY <1>4 DEF DeleteConversation, Finish, Typed, RequestsTyped
  <2> QED BY <2>1, <2>2, <2>3 DEF ByOwner, Owns, Stored
<1>5. ASSUME NEW r \in Requests, SaveConversation(r) PROVE FALSE
  BY <1>5 DEF SaveConversation, Typed, ChatTyped, Stored
<1>6. ASSUME NEW u \in Users, AssignOrphans(u) PROVE FALSE
  BY <1>6 DEF AssignOrphans, Owns
<1>7. ASSUME UNCHANGED chatVars PROVE FALSE
  BY <1>2, <1>7 DEF chatVars
<1>8. CASE UNCHANGED vars
  BY <1>7, <1>8 DEF vars
<1>9. CASE \E r \in Requests, u \in access : ChatRequests(r, u)
  BY <1>7, <1>9, ChatRequestsTyped
<1>10. CASE \E r \in Requests : CheckOwner(r) \/ InsertMessage(r) \/ RequestFails(r)
  BY <1>2, <1>7, <1>10 DEF CheckOwner, InsertMessage, RequestFails
<1> QED BY <1>3, <1>4, <1>5, <1>6, <1>7, <1>8, <1>9, <1>10 DEF Next

\* A conversation keeps its owner, and is trashed or deleted by a request of the
\* owner only (chat_history.py:45-47, 113-114, 151).
THEOREM OwnerSafe == Spec => OwnerDecides
<1>1. ASSUME Typed, [Next]_vars, NEW c \in Convs,
             Stored(c), conv[c].owner # NoOwner, conv'[c] # conv[c]
      PROVE  ByOwner(c)
  BY <1>1, OwnerStep
<1>2. Typed /\ [Next]_vars =>
        [\A c \in Convs :
           Stored(c) /\ conv[c].owner # NoOwner /\ conv'[c] # conv[c] =>
              \E r \in Requests :
                  /\ caller[r].user = conv[c].owner /\ pc'[r] = "idle"
                  /\ \/ /\ pc[r] = "patch" /\ Stored(c)'
                        /\ conv'[c].owner = conv[c].owner
                     \/ pc[r] = "delete" /\ ~Stored(c)']_conv
  BY <1>1 DEF ByOwner
<1> QED BY <1>2, AlwaysTyped, PTL DEF Spec, OwnerDecides

-----------------------------------------------------------------------------
(* Administrators, while updates of users come one at a time.               *)

\* The update in progress, if any, is the only one, and its caller still is the
\* active administrator it was when get_current_user read the row.
Vetted ==
    \A r \in Requests : pc[r] = "update_user" =>
        /\ caller[r].user \in ActiveAdmins /\ caller[r].role = Admin
        /\ ~Refused(caller[r], arg[r])
        /\ \A s \in Requests : pc[s] = "update_user" => s = r

Administered == Typed /\ Vetted

\* Whoever updates whom, one active administrator stays: the caller.
LEMMA UpdateKeepsAnAdmin ==
    ASSUME Administered, NEW r \in Requests, UpdateUserWrite(r)
    PROVE  ActiveAdmins' # {}
<1> DEFINE admin == caller[r].user
<1>1. /\ admin \in Users /\ active[admin] = TRUE
      /\ role[admin] = Admin /\ caller[r].role = Admin
  BY DEF Administered, Typed, AccountsTyped, Vetted, UpdateUserWrite, ActiveAdmins
<1>2. ~Refused(caller[r], arg[r])
  BY DEF Administered, Vetted, UpdateUserWrite
<1>3. arg[r] \in UserUpdate /\ arg[r].target \in Users /\ arg[r].active \in Flags
  <2>1. arg[r] \in UserUpdate
    BY ArgumentSets DEF Administered, Typed, RequestsTyped, UpdateUserWrite
  <2> QED BY <2>1 DEF UserUpdate
<1>4. role'[admin] = Admin
  BY <1>1, <1>2, <1>3 DEF UpdateUserWrite, Refused, Administered, Typed, AccountsTyped
<1>5. active'[admin] = TRUE
  BY <1>1, <1>2, <1>3 DEF UpdateUserWrite, Refused, Flags, Administered, Typed,
                        AccountsTyped
<1> QED BY <1>1, <1>4, <1>5 DEF ActiveAdmins

LEMMA VettedKept ==
    ASSUME SerialAdmin, Administered, [Next]_vars
    PROVE  Vetted' /\ (ActiveAdmins # {} => ActiveAdmins' # {})
<1> USE DEF Administered
\* Steps that leave the accounts alone and start no update.
<1>1. ASSUME UNCHANGED <<role, active>>,
             \A r \in Requests : pc'[r] = "update_user" =>
                 pc[r] = "update_user" /\ caller'[r] = caller[r] /\ arg'[r] = arg[r]
      PROVE  Vetted' /\ (ActiveAdmins # {} => ActiveAdmins' # {})
  <2>1. ActiveAdmins' = ActiveAdmins
    BY <1>1 DEF ActiveAdmins
  <2> QED BY <1>1, <2>1 DEF Vetted, Refused
<1>2. ASSUME NEW r \in Requests, Finish(r)
      PROVE  /\ pc'[r] = "idle"
             /\ \A s \in Requests \ {r} :
                   pc'[s] = pc[s] /\ caller'[s] = caller[s] /\ arg'[s] = arg[s]
  BY <1>2 DEF Finish, Typed, RequestsTyped
<1>3. ASSUME NEW r \in Requests, Finish(r), UNCHANGED <<role, active>>
      PROVE  Vetted' /\ (ActiveAdmins # {} => ActiveAdmins' # {})
  BY <1>1, <1>2, <1>3
<1>4. ASSUME NEW u \in Users, NEW newRole \in Roles, CreateAccount(u, newRole)
      PROVE  Vetted' /\ (ActiveAdmins # {} => ActiveAdmins' # {})
  <2>1. ActiveAdmins \subseteq ActiveAdmins'
    BY <1>4 DEF CreateAccount, ActiveAdmins, Exists, Typed, AccountsTyped
  <2>2. pc' = pc /\ caller' = caller /\ arg' = arg
    BY <1>4 DEF CreateAccount, requestVars
  <2> QED BY <2>1, <2>2 DEF Vetted, Refused
<1>5. ASSUME NEW u \in Users, Login(u) \/ Refresh(u) \/ Logout(u) \/ ExpireAccess(u)
      PROVE  Vetted' /\ (ActiveAdmins # {} => ActiveAdmins' # {})
  <2>1. UNCHANGED <<role, active, pc, caller, arg>>
    BY <1>5 DEF Login, Refresh, Logout, ExpireAccess, requestVars
  <2> QED BY <1>1, <2>1
<1>6. ASSUME NEW r \in Requests, NEW u \in access, NEW update \in UserUpdate,
             UpdateUserBegin(r, u, update)
      PROVE  Vetted' /\ (ActiveAdmins # {} => ActiveAdmins' # {})
  <2>1. /\ \A s \in Requests : pc[s] # "update_user"
        /\ UNCHANGED <<role, active>> /\ u \in Users /\ active[u]
    BY <1>6 DEF UpdateUserBegin, Authenticate, Authorised, accountVars, Typed, AccountsTyped
  <2>2. ActiveAdmins' = ActiveAdmins
    BY <2>1 DEF ActiveAdmins
  <2>3. \A s \in Requests : pc'[s] = "update_user" => s = r
    BY <1>6, <2>1 DEF UpdateUserBegin, Authenticate, Typed, RequestsTyped
  <2>4. /\ caller'[r] = [user |-> u, role |-> role[u]]
        /\ arg'[r] = update
        /\ caller'[r].role = Admin /\ ~Refused(caller'[r], update)
    BY <1>6 DEF UpdateUserBegin, Authenticate, Typed, RequestsTyped
  <2>5. caller'[r].user \in ActiveAdmins
    BY <2>1, <2>4 DEF ActiveAdmins
  <2> QED BY <2>2, <2>3, <2>4, <2>5 DEF Vetted, Refused
<1>7. ASSUME NEW r \in Requests, UpdateUserWrite(r)
      PROVE  Vetted' /\ (ActiveAdmins # {} => ActiveAdmins' # {})
  <2>1. ActiveAdmins' # {}
    BY <1>7, UpdateKeepsAnAdmin
  <2>2. \A s \in Requests : pc'[s] # "update_user"
    BY <1>2, <1>7 DEF UpdateUserWrite, Vetted
  <2> QED BY <2>1, <2>2 DEF Vetted
<1>8. CASE UNCHANGED vars
  BY <1>1, <1>8 DEF vars, accountVars, requestVars
<1>9. CASE AccountsNext
  BY <1>4, <1>5, <1>6, <1>7, <1>9 DEF AccountsNext
<1>10. CASE \E u \in Users : AssignOrphans(u)
  BY <1>1, <1>10 DEF AssignOrphans, accountVars, requestVars
<1>11. ASSUME NEW r \in Requests, NEW u \in access, ChatRequests(r, u)
       PROVE  Vetted' /\ (ActiveAdmins # {} => ActiveAdmins' # {})
  <2>1. PICK step \in {"save", "delete", "patch", "check"} :
           \E params : ChatBegin(r, u, step, params)
    BY <1>11 DEF ChatRequests
  <2> QED BY <1>1, <2>1 DEF ChatBegin, Authenticate, accountVars, Typed, RequestsTyped
<1>12. ASSUME NEW r \in Requests, CheckOwner(r)
       PROVE  Vetted' /\ (ActiveAdmins # {} => ActiveAdmins' # {})
  <2>1. CASE Finish(r)
    BY <1>3, <1>12, <2>1 DEF CheckOwner, accountVars
  <2>2. CASE ~Finish(r)
    BY <1>1, <1>12, <2>2 DEF CheckOwner, accountVars, Typed, RequestsTyped
  <2> QED BY <2>1, <2>2
<1>13. CASE \E r \in Requests :
               \/ SaveConversation(r) \/ PatchConversation(r) \/ DeleteConversation(r)
               \/ InsertMessage(r) \/ RequestFails(r)
  BY <1>3, <1>13 DEF SaveConversation, PatchConversation, DeleteConversation,
                     InsertMessage, RequestFails, accountVars
<1> QED BY <1>8, <1>9, <1>10, <1>11, <1>12, <1>13 DEF Next

\* While requests that update users come one at a time, administrators cannot leave
\* the application without an active one (users/router.py:44-57).
THEOREM AdminsSafe == SerialAdmin /\ Spec => AdminsNeverVanish
<1> SUFFICES ASSUME SerialAdmin PROVE Spec => AdminsNeverVanish
  OBVIOUS
<1>1. Init => Administered
  BY InitTyped DEF Administered, Vetted, Init, AccountsInit
<1>2. Administered /\ [Next]_vars => Administered'
  BY NextTyped, VettedKept DEF Administered
<1>3. Administered /\ [Next]_vars =>
        [ActiveAdmins # {} => ActiveAdmins' # {}]_<<role, active>>
  BY VettedKept
<1> QED BY <1>1, <1>2, <1>3, PTL DEF Spec, AdminsNeverVanish
=============================================================================
