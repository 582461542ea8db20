------------------------------ MODULE UsersStore ------------------------------
(***************************************************************************)
(* The file of users: ui-node reads all of it, changes one entry and       *)
(* writes all of it back, for a password change or for a reset by an       *)
(* administrator.  A file that is missing, empty or cannot be read stands  *)
(* for the users of the environment.                                       *)
(*                                                                         *)
(* Writing first empties the file.  A write that fails or is cut off may   *)
(* leave it empty or with part of the text, and two texts written over one *)
(* another may leave one that nobody can parse.  Roles and hashes are left *)
(* out: an entry is a password, and those of the environment are 0.        *)
(***************************************************************************)
EXTENDS Naturals

CONSTANTS
  Users,
  EnvUsers,      \* those of the environment
  Handlers,      \* what handles requests at the same time
  MaxPasswords,  \* bound on new passwords, which are all different
  MaxUserFaults  \* bound on the ends of ui-node and on failed reads and writes

ASSUME UsersAssumption ==
  Users # {} /\ EnvUsers \subseteq Users /\ MaxPasswords \in Nat /\ MaxUserFaults \in Nat

VARIABLES
  userFile,     \* [text, users]: "empty", "users" or "torn"
  op,           \* the operation of each request
  passwords,    \* new passwords so far
  userFaults,   \* faults so far
  acked,        \* history: the last password confirmed to each user, or none
  excused       \* history: users whose password something may have taken from the file

usersVars == <<userFile, op, passwords, userFaults, acked, excused>>

NoPassword == MaxPasswords + 1
Entries == [Users -> 0 .. NoPassword]    \* NoPassword where there is no entry

EnvEntries == [u \in Users |-> IF u \in EnvUsers THEN 0 ELSE NoPassword]
NoEntries == [u \in Users |-> NoPassword]
EmptyFile == [text |-> "empty", users |-> NoEntries]
TornFile == [text |-> "torn", users |-> NoEntries]

\* Of an operation, "alone" and "old" are history: no other for the same user was under
\* way with it, and what it has read is not what the file holds when it writes.
NoOp ==
  [kind |-> "none", pc |-> "none", user |-> CHOOSE u \in Users : TRUE, given |-> NoPassword,
   new |-> 0, read |-> NoEntries, alone |-> TRUE, old |-> FALSE]

-----------------------------------------------------------------------------
\* A load that does not look at the file.
EnvLoaded(file) == EnvEntries

\* loadAuthUsers, for a file that can be parsed.
Loaded(file) == IF file.text = "empty" THEN EnvEntries ELSE file.users

UsersTypeOK ==
  /\ userFile.text \in {"empty", "users", "torn"} /\ userFile.users \in Entries
  /\ \A r \in Handlers :
       /\ op[r].kind \in {"none", "change", "reset"}
       /\ op[r].pc \in {"none", "load", "verify", "empty", "write", "answer"}
       /\ op[r].user \in Users /\ op[r].read \in Entries
  /\ passwords \in 0 .. MaxPasswords /\ userFaults \in 0 .. MaxUserFaults
  /\ acked \in Entries /\ excused \subseteq Users

UsersInit ==
  /\ userFile = EmptyFile
  /\ op = [r \in Handlers |-> NoOp]
  /\ passwords = 0 /\ userFaults = 0
  /\ acked = NoEntries /\ excused = {}

Serves(r, u) == op[r].kind # "none" /\ op[r].user = u
Handled(u) == \E r \in Handlers : Serves(r, u)
Writing == {r \in Handlers : op[r].pc = "write"}

UserFault == userFaults < MaxUserFaults /\ userFaults' = userFaults + 1

GoesTo(r, pc) == op' = [op EXCEPT ![r].pc = pc]
Ends(r) == op' = [op EXCEPT ![r] = NoOp]

\* POST change-password, with some password as the current one, or POST
\* reset-password; a session and the form of the body are checked before.
PostUser(r, kind, u, given) ==
  /\ op[r] = NoOp /\ passwords < MaxPasswords
  /\ kind = "reset" <=> given = NoPassword
  /\ passwords' = passwords + 1
  /\ op' = [q \in Handlers |->
       IF q = r
       THEN [NoOp EXCEPT !.kind = kind, !.pc = "load", !.user = u, !.given = given,
                         !.new = passwords + 1, !.alone = ~Handled(u)]
       ELSE IF Serves(q, u) THEN [op[q] EXCEPT !.alone = FALSE] ELSE op[q]]
  /\ UNCHANGED <<userFile, userFaults, acked, excused>>

-----------------------------------------------------------------------------
(* Reading.                                                                *)

\* The request goes on with these users; a change of an unknown one ends with an error.
GoesOnWith(r, users, old) ==
  IF op[r].kind = "change" /\ users[op[r].user] = NoPassword
  THEN Ends(r)
  ELSE op' = [op EXCEPT ![r].pc = IF op[r].kind = "change" THEN "verify" ELSE "empty",
                        ![r].read = users, ![r].old = old]

ReadUsers(r) ==
  /\ op[r].pc = "load"
  /\ IF userFile.text = "torn" THEN Ends(r) ELSE GoesOnWith(r, Loaded(userFile), Writing # {})
  /\ UNCHANGED <<userFile, passwords, userFaults, acked, excused>>

\* The file is there but reading it fails, which readFile's catch takes for an empty one.
ReadFails(r) ==
  /\ op[r].pc = "load" /\ UserFault
  /\ GoesOnWith(r, EnvEntries, TRUE)
  /\ UNCHANGED <<userFile, passwords, acked, excused>>

\* verifyCredentials reads the users again; that read may fail as well.
VerifyCurrent(r) ==
  /\ op[r].pc = "verify"
  /\ \/ /\ IF userFile.text # "torn" /\ Loaded(userFile)[op[r].user] = op[r].given
          THEN GoesTo(r, "empty") ELSE Ends(r)
       /\ UNCHANGED userFaults
     \/ /\ UserFault
       /\ IF EnvEntries[op[r].user] = op[r].given THEN GoesTo(r, "empty") ELSE Ends(r)
  /\ UNCHANGED <<userFile, passwords, acked, excused>>

-----------------------------------------------------------------------------
(* Writing.                                                                *)

\* writeFile opens the file, which empties it.  Whoever has read it before and has not
\* finished writing is out of date.
EmptyTheFile(r) ==
  /\ op[r].pc = "empty"
  /\ userFile' = EmptyFile
  /\ op' = [q \in Handlers |->
       IF q = r THEN [op[q] EXCEPT !.pc = "write"]
       ELSE IF op[q].pc \in {"verify", "empty", "write"} THEN [op[q] EXCEPT !.old = TRUE]
       ELSE op[q]]
  /\ UNCHANGED <<passwords, userFaults, acked, excused>>

\* It cannot be opened: the answer is an error.
OpenFails(r) ==
  /\ op[r].pc = "empty" /\ UserFault
  /\ Ends(r)
  /\ UNCHANGED <<userFile, passwords, acked, excused>>

WithChange(r) == [op[r].read EXCEPT ![op[r].user] = op[r].new]

\* The history notes a request that writes what was out of date: it may take from the
\* file what was confirmed to anyone but its own user.
WriteTheFile(r) ==
  /\ op[r].pc = "write"
  /\ \/ /\ userFile' = [text |-> "users", users |-> WithChange(r)]
       /\ excused' = (IF op[r].old THEN Users ELSE excused) \ {op[r].user}
     \/ /\ userFile.text # "empty"
       /\ userFile' = TornFile
       /\ excused' = Users
  /\ GoesTo(r, "answer")
  /\ UNCHANGED <<passwords, userFaults, acked>>

\* The disk is full, say: nothing was written or a part of it, and the answer is an error.
WriteFails(r) ==
  /\ op[r].pc = "write" /\ UserFault
  /\ userFile' \in {userFile, TornFile} /\ excused' = Users
  /\ Ends(r)
  /\ UNCHANGED <<passwords, acked>>

\* { ok: true }.  Which of two passwords set at the same time for one user counts
\* is not settled.
Acknowledge(r) ==
  /\ op[r].pc = "answer"
  /\ Ends(r)
  /\ acked' = [acked EXCEPT ![op[r].user] = IF op[r].alone THEN op[r].new ELSE NoPassword]
  /\ UNCHANGED <<userFile, passwords, userFaults, excused>>

\* ui-node ends and is started again.  Nobody was told of what has just been written.
UiCrash ==
  /\ UserFault
  /\ op' = [r \in Handlers |-> NoOp]
  /\ acked' = [u \in Users |->
       IF \E r \in Handlers : Serves(r, u) /\ op[r].pc = "answer" THEN NoPassword ELSE acked[u]]
  /\ IF Writing = {}
     THEN UNCHANGED <<userFile, excused>>
     ELSE userFile' \in {userFile, TornFile} /\ excused' = Users
  /\ UNCHANGED passwords

AllConfirmed == passwords = MaxPasswords /\ (\A r \in Handlers : op[r] = NoOp) /\ UNCHANGED usersVars

UsersNext ==
  \/ \E r \in Handlers :
       \/ \E kind \in {"change", "reset"}, u \in Users, given \in 0 .. NoPassword : PostUser(r, kind, u, given)
       \/ ReadUsers(r) \/ ReadFails(r) \/ VerifyCurrent(r)
       \/ EmptyTheFile(r) \/ OpenFails(r) \/ WriteTheFile(r) \/ WriteFails(r) \/ Acknowledge(r)
  \/ UiCrash \/ AllConfirmed

UsersSpec == UsersInit /\ [][UsersNext]_usersVars

-----------------------------------------------------------------------------
(* Properties.                                                             *)

\* While nobody is writing, the password last confirmed to a user is the one in the
\* file, through later operations for others, restarts of ui-node and errors, unless one
\* of three things has happened since: a read failed and its request wrote the users of
\* the environment back; a request wrote what it had read before another wrote; a write
\* failed, was cut off, or ran into another.  A request that fails before it writes, or
\* two that overlap without such a write, take nothing.
LossHasCause ==
  Writing = {} =>
    \A u \in Users \ excused :
      acked[u] # NoPassword /\ ~Handled(u) => userFile.text = "users" /\ userFile.users[u] = acked[u]

\* docs/roadmap.md: AUTH_USERS_FILE persists updates.  A password that was confirmed
\* is the one in the file once nobody is writing, whatever is done for other users.
AckedIsKept ==
  Writing = {} =>
    \A u \in Users :
      acked[u] # NoPassword /\ ~Handled(u) => userFile.text = "users" /\ userFile.users[u] = acked[u]
=============================================================================
